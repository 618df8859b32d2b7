---------------------- MODULE ResponseNormalizerProofs ---------------------
(***************************************************************************)
(* The normalizer's loops do what its declarative reference says, for all  *)
(* texts and configurations.  No induction over the keys is needed: the    *)
(* loop is a sequence of steps, and its invariant says what the first      *)
(* visited keys have left of every field.                                  *)
(***************************************************************************)
EXTENDS ResponseNormalizer, FiniteSetTheorems, TLAPS

\* What a member of Text is.
LEMMA TextFacts ==
    ASSUME NEW t \in Text
    PROVE  /\ t.wrappers \in Seq({"harmony", "fence"})
           /\ t.keys \in Seq(Keys) /\ Len(t.keys) \in Nat
           /\ t.fields \in Fields
           /\ \A i, j \in 1..Len(t.keys) : t.keys[i] = t.keys[j] => i = j
           /\ \A i \in 1..Len(t.keys) : t.keys[i] \in Keys /\ t.fields[t.keys[i]] # Absent
  BY DEF Text

\* The field the loop is at, and the configuration's word on it.
LEMMA CurrentKeyFacts ==
    ASSUME NEW t \in Text, NEW n \in Nat, n < Len(t.keys),
           NEW cfg \in ResponseNormalizerConfig
    PROVE  /\ n + 1 \in 1..Len(t.keys) /\ t.keys[n + 1] \in Keys
           /\ \A i \in 1..n : t.keys[i] # t.keys[n + 1]
           /\ cfg.aliases[t.keys[n + 1]] \in Keys \cup {None}
           /\ cfg.drop \subseteq Keys
  BY TextFacts DEF ResponseNormalizerConfig

\* Before any key is visited every field is as the model wrote it.
LEMMA FieldBefore ==
    ASSUME NEW cfg, NEW t, NEW f
    PROVE  FieldAfter(cfg, t, 0, f) = t.fields[f]
  <1>1. Spellings(cfg, t, 0, f) = {}
    BY DEF Spellings
  <1>2. ~ \E i \in 1..0 : t.keys[i] = f
    OBVIOUS
  <1> QED BY <1>1, <1>2 DEF FieldAfter

\* One more key changes the other spellings of one field at most.
LEMMA SpellingsStep ==
    ASSUME NEW cfg, NEW t, NEW n \in Nat, NEW f
    PROVE  Spellings(cfg, t, n + 1, f)
              = IF t.keys[n + 1] \notin cfg.drop /\ cfg.aliases[t.keys[n + 1]] = f
                THEN Spellings(cfg, t, n, f) \cup {n + 1} ELSE Spellings(cfg, t, n, f)
  <1>1. 1..(n + 1) = (1..n) \cup {n + 1}
    OBVIOUS
  <1> QED BY <1>1 DEF Spellings

\* What a field is depends on its other spellings and on whether it was visited.
LEMMA FieldAfterSame ==
    ASSUME NEW cfg, NEW t, NEW n, NEW m, NEW f,
           Spellings(cfg, t, m, f) = Spellings(cfg, t, n, f),
           Removed(cfg, f) => ((\E i \in 1..m : t.keys[i] = f) <=> (\E i \in 1..n : t.keys[i] = f))
    PROVE  FieldAfter(cfg, t, m, f) = FieldAfter(cfg, t, n, f)
  <1> DEFINE last(S) == t.fields[t.keys[CHOOSE i \in S : \A j \in S : j <= i]]
             seen(l) == \E i \in 1..l : t.keys[i] = f
             value(S, b) == IF S # {} THEN last(S)
                            ELSE IF Removed(cfg, f) /\ b THEN Absent ELSE t.fields[f]
  <1>1. /\ FieldAfter(cfg, t, m, f) = value(Spellings(cfg, t, m, f), seen(m))
        /\ FieldAfter(cfg, t, n, f) = value(Spellings(cfg, t, n, f), seen(n))
    BY DEF FieldAfter
  <1>2. Removed(cfg, f) => (seen(m) <=> seen(n))
    OBVIOUS
  <1> HIDE DEF last, seen
  <1> QED BY <1>1, <1>2

\* Without chains, a removed name has no other spelling.
LEMMA RemovedHasNoSpelling ==
    ASSUME NEW cfg \in ResponseNormalizerConfig, ChainFree(cfg), NEW t \in Text,
           NEW n \in Nat, n <= Len(t.keys), NEW f \in Keys, Removed(cfg, f)
    PROVE  Spellings(cfg, t, n, f) = {}
  <1> SUFFICES ASSUME NEW i \in Spellings(cfg, t, n, f) PROVE FALSE
    OBVIOUS
  <1>1. i \in 1..n /\ t.keys[i] \notin cfg.drop /\ cfg.aliases[t.keys[i]] = f
    BY DEF Spellings
  <1>2. t.keys[i] \in Keys
    BY <1>1, TextFacts
  <1> QED BY <1>1, <1>2, AnswerAssumption DEF ChainFree, Removed, AnswerAssumption

\* A dropped key is gone, and nothing else changes.
LEMMA DropStep ==
    ASSUME NEW cfg \in ResponseNormalizerConfig, ChainFree(cfg), NEW t \in Text,
           NEW n \in Nat, n < Len(t.keys), t.keys[n + 1] \in cfg.drop, NEW f \in Keys
    PROVE  FieldAfter(cfg, t, n + 1, f)
              = IF f = t.keys[n + 1] THEN Absent ELSE FieldAfter(cfg, t, n, f)
  <1>1. Spellings(cfg, t, n + 1, f) = Spellings(cfg, t, n, f)
    BY SpellingsStep
  <1>2. CASE f = t.keys[n + 1]
    <2>1. Removed(cfg, f)
      BY <1>2 DEF Removed
    <2>2. Spellings(cfg, t, n + 1, f) = {}
      BY <1>1, <2>1, RemovedHasNoSpelling, TextFacts
    <2>3. \E i \in 1..(n + 1) : t.keys[i] = f
      BY <1>2
    <2> QED BY <1>2, <2>1, <2>2, <2>3 DEF FieldAfter
  <1>3. CASE f # t.keys[n + 1]
    <2>1. (\E i \in 1..(n + 1) : t.keys[i] = f) <=> (\E i \in 1..n : t.keys[i] = f)
      BY <1>3
    <2> QED BY <1>1, <1>3, <2>1, FieldAfterSame
  <1> QED BY <1>2, <1>3

\* A kept key changes nothing.
LEMMA KeepStep ==
    ASSUME NEW cfg \in ResponseNormalizerConfig, NEW t \in Text,
           NEW n \in Nat, n < Len(t.keys), ~Removed(cfg, t.keys[n + 1]), NEW f \in Keys
    PROVE  FieldAfter(cfg, t, n + 1, f) = FieldAfter(cfg, t, n, f)
  <1>1. Spellings(cfg, t, n + 1, f) = Spellings(cfg, t, n, f)
    BY SpellingsStep, AnswerAssumption DEF Removed, AnswerAssumption
  <1>2. Removed(cfg, f) => ((\E i \in 1..(n + 1) : t.keys[i] = f) <=> (\E i \in 1..n : t.keys[i] = f))
    OBVIOUS
  <1> QED BY <1>1, <1>2, FieldAfterSame

\* A renamed key moves what the model wrote under it to the canonical name,
\* over whatever was there.
LEMMA RenameStep ==
    ASSUME NEW cfg \in ResponseNormalizerConfig, ChainFree(cfg), NEW t \in Text,
           NEW n \in Nat, n < Len(t.keys), t.keys[n + 1] \notin cfg.drop,
           cfg.aliases[t.keys[n + 1]] # None, NEW f \in Keys
    PROVE  /\ FieldAfter(cfg, t, n, t.keys[n + 1]) = t.fields[t.keys[n + 1]]
           /\ FieldAfter(cfg, t, n + 1, f)
                 = IF f = cfg.aliases[t.keys[n + 1]] THEN t.fields[t.keys[n + 1]]
                   ELSE IF f = t.keys[n + 1] THEN Absent ELSE FieldAfter(cfg, t, n, f)
  <1> DEFINE k    == t.keys[n + 1]
             name == cfg.aliases[k]
  <1>1. k \in Keys /\ Removed(cfg, k) /\ (\A i \in 1..n : t.keys[i] # k)
    BY CurrentKeyFacts DEF Removed
  <1>2. Spellings(cfg, t, n, k) = {} /\ Spellings(cfg, t, n + 1, k) = {}
    BY <1>1, RemovedHasNoSpelling, TextFacts
  <1>3. FieldAfter(cfg, t, n, k) = t.fields[k]
    BY <1>1, <1>2 DEF FieldAfter
  <1>4. CASE f = name
    <2> DEFINE found == Spellings(cfg, t, n + 1, f)
    <2>1. n + 1 \in found /\ \A j \in found : j \in 1..(n + 1)
      BY <1>4, SpellingsStep DEF Spellings
    <2>2. (CHOOSE i \in found : \A j \in found : j <= i) = n + 1
      <3>1. \A j \in found : j <= n + 1
        BY <2>1
      <3>2. \A i \in found : (\A j \in found : j <= i) => i = n + 1
        BY <2>1
      <3> HIDE DEF found
      <3> QED BY <2>1, <3>1, <3>2
    <2>3. FieldAfter(cfg, t, n + 1, f)
             = t.fields[t.keys[CHOOSE i \in found : \A j \in found : j <= i]]
      BY <2>1 DEF FieldAfter
    <2> HIDE DEF found
    <2> QED BY <1>3, <1>4, <2>2, <2>3
  <1>5. CASE f # name
    <2>1. Spellings(cfg, t, n + 1, f) = Spellings(cfg, t, n, f)
      BY <1>5, SpellingsStep
    <2>2. CASE f = k
      <3>1. \E i \in 1..(n + 1) : t.keys[i] = f
        BY <2>2
      <3> QED BY <1>1, <1>2, <1>3, <1>5, <2>2, <3>1 DEF FieldAfter
    <2>3. CASE f # k
      <3>1. (\E i \in 1..(n + 1) : t.keys[i] = f) <=> (\E i \in 1..n : t.keys[i] = f)
        BY <2>3
      <3> QED BY <1>3, <1>5, <2>1, <2>3, <3>1, FieldAfterSame
    <2> QED BY <2>2, <2>3
  <1> QED BY <1>3, <1>4, <1>5
-----------------------------------------------------------------------------
\* What holds of the dictionary while the loop walks over the keys.
Walk == phase = "walking" =>
           /\ text \in Texts /\ Parsable(text)
           /\ visited <= Len(text.keys)
           /\ UnvisitedKeysArePresent
           /\ ChainFree(config) =>
                 \A f \in Keys : fields[f] = FieldAfter(config, text, visited, f)

Asked == (phase # "idle" => text \in Texts) /\ (phase = "idle" <=> outcome # Pending)

NormalizerInv == NormalizerTypeOK /\ Asked /\ Walk

\* What a default leaves is a content, and the counters stay counts.
LEMMA FilledType ==
    ASSUME NormalizerTypeOK, NEW dict \in Fields
    PROVE  Filled(dict) \in Fields
  BY NormalizerAssumption
  DEF NormalizerTypeOK, NormalizerAssumption, ResponseNormalizerConfig, Fields, Content,
      Filled, WithDefault

LEMMA CountersStayCounts ==
    ASSUME NormalizerTypeOK, NEW s \in Counters, NEW ok \in BOOLEAN
    PROVE  Stripped \in Counters /\ ResultCounted(s, ok) \in Counters
  <1>1. ASSUME NEW b \in BOOLEAN PROVE One(b) \in Nat
    BY DEF One
  <1>2. ASSUME NEW a \in Nat, NEW b \in Nat
        PROVE  /\ [s EXCEPT !.normalizationsSucceeded = @ + a, !.normalizationsFailed = @ + b]
                      \in Counters
               /\ [stats EXCEPT !.harmonyPrefixStrips = @ + a, !.fenceStrips = @ + b] \in Counters
    <2>1. /\ s.normalizationsSucceeded + a \in Nat /\ s.normalizationsFailed + b \in Nat
          /\ stats.harmonyPrefixStrips + a \in Nat /\ stats.fenceStrips + b \in Nat
      BY DEF NormalizerTypeOK, Counters
    <2>2. [s EXCEPT !.normalizationsSucceeded = @ + a, !.normalizationsFailed = @ + b] \in Counters
      BY <2>1 DEF Counters
    <2>3. [stats EXCEPT !.harmonyPrefixStrips = @ + a, !.fenceStrips = @ + b] \in Counters
      BY <2>1 DEF NormalizerTypeOK, Counters
    <2> QED BY <2>2, <2>3
  <1>3. ResultCounted(s, ok) \in Counters
    <2>1. One(ok) \in Nat /\ One(~ok) \in Nat
      BY <1>1
    <2> QED BY <1>2, <2>1 DEF ResultCounted
  <1>4. Stripped \in Counters
    <2> DEFINE inner == WithoutHarmony(text.wrappers)
    <2>1. One(inner # text.wrappers) \in Nat /\ One(WithoutFence(inner) # inner) \in Nat
      BY <1>1
    <2>2. Stripped = [stats EXCEPT !.harmonyPrefixStrips = @ + One(inner # text.wrappers),
                                   !.fenceStrips         = @ + One(WithoutFence(inner) # inner)]
      BY DEF Stripped
    <2> HIDE DEF inner
    <2> QED BY <1>2, <2>1, <2>2
  <1> QED BY <1>3, <1>4

\* Every step keeps the types.
LEMMA NormalizerTypeStep ==
    ASSUME NormalizerInv, Next
    PROVE  NormalizerTypeOK'
  <1> USE DEF NormalizerInv, NormalizerTypeOK
  <1>1. ASSUME NEW t \in Texts, Receive(t) PROVE NormalizerTypeOK'
    BY <1>1 DEF Receive, Counters
  <1>2. CASE ParseRaises \/ ParseFails
    <2>1. Stripped \in Counters
      BY CountersStayCounts
    <2>2. ResultCounted(Stripped, FALSE) \in Counters
      BY <2>1, CountersStayCounts
    <2>3. CASE ParseRaises
      BY <2>1, <2>3 DEF ParseRaises
    <2>4. CASE ParseFails
      BY <2>2, <2>4 DEF ParseFails
    <2> QED BY <1>2, <2>3, <2>4
  <1>3. CASE ParseSucceeds
    <2>1. text \in Text
      BY <1>3, NormalizerAssumption DEF ParseSucceeds, Asked, NormalizerAssumption
    <2> QED BY <1>3, <2>1, TextFacts, CountersStayCounts DEF ParseSucceeds
  <1>4. CASE DropField
    <2>1. Dropped(fields, CurrentKey) \in Fields
      BY DEF Dropped, Fields, Content
    <2>2. stats' \in Counters
      BY <1>4 DEF DropField, Counters
    <2> QED BY <1>4, <2>1, <2>2 DEF DropField
  <1>5. CASE RenameField
    <2>1. text \in Text /\ config \in ResponseNormalizerConfig
      BY <1>5, NormalizerAssumption DEF RenameField, Walking, Walk, NormalizerAssumption
    <2>2. CurrentKey \in Keys /\ config.aliases[CurrentKey] \in Keys
      BY <1>5, <2>1, CurrentKeyFacts DEF RenameField, Walking, CurrentKey
    <2>3. Renamed(fields, CurrentKey, config.aliases[CurrentKey]) \in Fields
      BY <2>2 DEF Renamed, Fields, Content
    <2>4. stats' \in Counters
      BY <1>5 DEF RenameField, Counters
    <2> QED BY <1>5, <2>3, <2>4 DEF RenameField
  <1>6. CASE KeepField
    BY <1>6 DEF KeepField
  <1>7. CASE ApplyDefaults
    <2> DEFINE changed == {k \in Keys : Filled(fields)[k] # fields[k]}
               counted == [stats EXCEPT !.fieldDefaultsApplied = @ + Cardinality(changed)]
    <2>1. Cardinality(changed) \in Nat
      BY NormalizerAssumption, FS_Subset, FS_CardinalityType DEF NormalizerAssumption
    <2>2. counted \in Counters
      BY <2>1 DEF Counters
    <2>3. stats' = ResultCounted(counted, TRUE)
      BY <1>7 DEF ApplyDefaults
    <2> HIDE DEF counted
    <2> QED BY <1>7, <2>2, <2>3, FilledType, CountersStayCounts DEF ApplyDefaults
  <1> QED BY <1>1, <1>2, <1>3, <1>4, <1>5, <1>6, <1>7 DEF Next

\* Every step keeps what is known of the call under way: the loop never meets
\* a key that is gone, and has done to each field what the reference says.
LEMMA WalkStep ==
    ASSUME NormalizerInv, [Next]_vars
    PROVE  Asked' /\ Walk'
  <1> USE DEF NormalizerInv, NormalizerTypeOK
  <1>1. ASSUME NEW t \in Texts, Receive(t) PROVE Asked' /\ Walk'
    BY <1>1 DEF Receive, Asked, Walk
  <1>2. CASE ParseRaises \/ ParseFails
    BY <1>2, NormalizerAssumption DEF ParseRaises, ParseFails, Asked, Walk, NormalizerAssumption
  <1>3. CASE ParseSucceeds
    <2>1. text \in Texts /\ text \in Text
      BY <1>3, NormalizerAssumption DEF ParseSucceeds, Asked, NormalizerAssumption
    <2>2. UnvisitedKeysArePresent'
      BY <1>3, <2>1, TextFacts DEF ParseSucceeds, UnvisitedKeysArePresent
    <2>3. \A f \in Keys : FieldAfter(config, text, 0, f) = text.fields[f]
      BY FieldBefore
    <2>4. 0 <= Len(text.keys)
      BY <2>1, TextFacts
    <2> QED BY <1>3, <2>1, <2>2, <2>3, <2>4 DEF ParseSucceeds, Asked, Walk
  <1>4. CASE DropField \/ RenameField \/ KeepField
    <2>1. /\ phase = "walking" /\ visited < Len(text.keys) /\ visited' = visited + 1
          /\ UNCHANGED <<config, text, phase, outcome, escaped>>
      BY <1>4 DEF DropField, RenameField, KeepField, Walking
    <2>2. /\ text \in Texts /\ text \in Text /\ Parsable(text)
          /\ config \in ResponseNormalizerConfig
          /\ \A i \in DOMAIN text.keys : i > visited => fields[text.keys[i]] # Absent
          /\ ChainFree(config) =>
                 \A f \in Keys : fields[f] = FieldAfter(config, text, visited, f)
      BY <2>1, NormalizerAssumption DEF Walk, UnvisitedKeysArePresent, NormalizerAssumption
    <2>3. /\ CurrentKey \in Keys /\ visited + 1 \in DOMAIN text.keys
          /\ config.aliases[CurrentKey] \in Keys \cup {None}
          /\ \A i \in DOMAIN text.keys : i > visited + 1 => text.keys[i] # CurrentKey
          /\ \A i \in DOMAIN text.keys : text.keys[i] \in Keys
          /\ Len(text.keys) \in Nat /\ DOMAIN text.keys = 1..Len(text.keys)
      <3>1. /\ Len(text.keys) \in Nat /\ DOMAIN text.keys = 1..Len(text.keys)
            /\ \A i \in DOMAIN text.keys : text.keys[i] \in Keys
            /\ \A i, j \in 1..Len(text.keys) : text.keys[i] = text.keys[j] => i = j
        BY <2>2, TextFacts
      <3>2. /\ visited + 1 \in 1..Len(text.keys) /\ CurrentKey \in Keys
            /\ config.aliases[CurrentKey] \in Keys \cup {None}
        BY <2>1, <2>2, CurrentKeyFacts DEF CurrentKey
      <3> QED BY <3>1, <3>2 DEF CurrentKey
    <2>4. CASE DropField
      <3>1. fields' = [fields EXCEPT ![CurrentKey] = Absent] /\ CurrentKey \in config.drop
        BY <2>4 DEF DropField, Dropped
      <3>2. \A f \in Keys : fields'[f] = IF f = CurrentKey THEN Absent ELSE fields[f]
        BY <3>1 DEF Fields
      <3>3. \A i \in DOMAIN text.keys : i > visited + 1 => fields'[text.keys[i]] # Absent
        BY <2>2, <2>3, <3>2
      <3>4. ASSUME ChainFree(config), NEW f \in Keys
            PROVE  fields'[f] = FieldAfter(config, text, visited + 1, f)
        BY <2>1, <2>2, <2>3, <3>1, <3>2, <3>4, DropStep DEF CurrentKey
      <3> QED BY <2>1, <2>2, <2>3, <3>3, <3>4 DEF Asked, Walk, UnvisitedKeysArePresent
    <2>5. CASE RenameField
      <3> DEFINE name == config.aliases[CurrentKey]
      <3>1. /\ fields' = [fields EXCEPT ![CurrentKey] = Absent, ![name] = fields[CurrentKey]]
            /\ CurrentKey \notin config.drop /\ name \in Keys /\ name # None
        BY <2>3, <2>5 DEF RenameField, Renamed
      <3>2. \A f \in Keys : fields'[f] = IF f = name THEN fields[CurrentKey]
                                         ELSE IF f = CurrentKey THEN Absent ELSE fields[f]
        BY <3>1 DEF Fields
      <3>3. \A i \in DOMAIN text.keys : i > visited + 1 => fields'[text.keys[i]] # Absent
        <4>1. fields[CurrentKey] # Absent
          BY <2>2, <2>3 DEF CurrentKey
        <4> QED BY <2>2, <2>3, <3>2, <4>1
      <3>4. ASSUME ChainFree(config), NEW f \in Keys
            PROVE  fields'[f] = FieldAfter(config, text, visited + 1, f)
        <4>1. fields[CurrentKey] = text.fields[CurrentKey]
          BY <2>1, <2>2, <2>3, <3>1, <3>4, RenameStep DEF CurrentKey
        <4>2. FieldAfter(config, text, visited + 1, f)
                 = IF f = name THEN text.fields[CurrentKey]
                   ELSE IF f = CurrentKey THEN Absent ELSE FieldAfter(config, text, visited, f)
          BY <2>1, <2>2, <2>3, <3>1, <3>4, RenameStep DEF CurrentKey
        <4> HIDE DEF name
        <4> QED BY <2>2, <3>2, <3>4, <4>1, <4>2
      <3> QED BY <2>1, <2>2, <2>3, <3>3, <3>4 DEF Asked, Walk, UnvisitedKeysArePresent
    <2>6. CASE KeepField
      <3>1. fields' = fields /\ ~Removed(config, CurrentKey)
        BY <2>6 DEF KeepField
      <3>2. \A i \in DOMAIN text.keys : i > visited + 1 => fields'[text.keys[i]] # Absent
        BY <2>2, <2>3, <3>1
      <3>3. ASSUME ChainFree(config), NEW f \in Keys
            PROVE  fields'[f] = FieldAfter(config, text, visited + 1, f)
        BY <2>1, <2>2, <3>1, <3>3, KeepStep DEF CurrentKey
      <3> QED BY <2>1, <2>2, <2>3, <3>1, <3>2, <3>3 DEF Asked, Walk, UnvisitedKeysArePresent
    <2> QED BY <1>4, <2>4, <2>5, <2>6
  <1>5. CASE ApplyDefaults
    <2>1. Filled(fields) # Pending
      BY FilledType, NormalizerAssumption DEF NormalizerAssumption
    <2> QED BY <1>5, <2>1 DEF ApplyDefaults, Asked, Walk
  <1>6. CASE UNCHANGED vars
    BY <1>6 DEF vars, Asked, Walk, UnvisitedKeysArePresent
  <1> QED BY <1>1, <1>2, <1>3, <1>4, <1>5, <1>6 DEF Next

LEMMA NormalizerInductive == Spec => []NormalizerInv
  <1>1. Init => NormalizerInv
    <2> SUFFICES ASSUME Init PROVE NormalizerInv
      OBVIOUS
    <2>1. fields \in Fields /\ stats \in Counters
      BY DEF Init, Fields, Content, Counters
    <2> QED BY <2>1, NormalizerAssumption
        DEF Init, NormalizerInv, NormalizerTypeOK, Asked, Walk, NormalizerAssumption
  <1>2. NormalizerInv /\ [Next]_vars => NormalizerInv'
    <2> SUFFICES ASSUME NormalizerInv, [Next]_vars PROVE NormalizerInv'
      OBVIOUS
    <2>1. NormalizerTypeOK'
      BY NormalizerTypeStep DEF NormalizerInv, NormalizerTypeOK, vars
    <2> QED BY <2>1, WalkStep DEF NormalizerInv
  <1> QED BY <1>1, <1>2, PTL DEF Spec

\* Type correctness (ResponseNormalizer!NormalizerTypeOK).
THEOREM NormalizerTypeCorrect == Spec => []NormalizerTypeOK
  BY NormalizerInductive, PTL DEF NormalizerInv

\* The loop never meets a key that is gone: no KeyError, under any aliases
\* and drops (ResponseNormalizer!UnvisitedKeysArePresent).
THEOREM KeysStayPresent == Spec => []UnvisitedKeysArePresent
  <1>1. NormalizerInv => UnvisitedKeysArePresent
    BY DEF NormalizerInv, Walk, UnvisitedKeysArePresent
  <1> QED BY <1>1, NormalizerInductive, PTL

\* The counters add up over all calls, but for those that an exception of
\* json.loads ended (ResponseNormalizer!CountersAddUp).
THEOREM CountersStayBalanced == Spec => []CountersAddUp
  <1>1. Init => CountersAddUp
    BY DEF Init, CountersAddUp, One
  <1>2. NormalizerInv /\ CountersAddUp /\ [Next]_vars => CountersAddUp'
    <2> SUFFICES ASSUME NormalizerInv, CountersAddUp, [Next]_vars PROVE CountersAddUp'
      OBVIOUS
    <2> USE DEF NormalizerInv, NormalizerTypeOK, CountersAddUp, One
    <2>1. /\ stats.runsProcessed \in Nat /\ stats.normalizationsSucceeded \in Nat
          /\ stats.normalizationsFailed \in Nat /\ stats.harmonyPrefixStrips \in Nat
          /\ stats.fenceStrips \in Nat /\ escaped \in Nat
      BY DEF Counters
    <2>2. ASSUME NEW t \in Texts, Receive(t) PROVE CountersAddUp'
      BY <2>1, <2>2 DEF Receive, Counters
    <2>3. CASE ParseFails \/ ParseSucceeds \/ ParseRaises
      <3> DEFINE inner   == WithoutHarmony(text.wrappers)
                 harmony == IF inner # text.wrappers THEN 1 ELSE 0
                 fence   == IF WithoutFence(inner) # inner THEN 1 ELSE 0
      <3>1. Stripped = [stats EXCEPT !.harmonyPrefixStrips = @ + harmony, !.fenceStrips = @ + fence]
        BY DEF Stripped
      <3>2. harmony \in 0..1 /\ fence \in 0..1
        OBVIOUS
      <3> HIDE DEF inner, harmony, fence
      <3>3. CASE ParseFails
        <4>1. /\ stats' = [Stripped EXCEPT !.normalizationsSucceeded = @ + 0,
                                           !.normalizationsFailed = @ + 1]
              /\ phase = "received" /\ phase' = "idle" /\ escaped' = escaped
          BY <3>3 DEF ParseFails, ResultCounted
        <4>2. /\ stats'.runsProcessed = stats.runsProcessed
              /\ stats'.normalizationsSucceeded = stats.normalizationsSucceeded
              /\ stats'.normalizationsFailed = stats.normalizationsFailed + 1
              /\ stats'.harmonyPrefixStrips = stats.harmonyPrefixStrips + harmony
              /\ stats'.fenceStrips = stats.fenceStrips + fence
              /\ stats'.fieldRenames = stats.fieldRenames /\ stats'.fieldDrops = stats.fieldDrops
              /\ stats'.fieldDefaultsApplied = stats.fieldDefaultsApplied
          BY <2>1, <3>1, <4>1 DEF Counters
        <4> QED BY <2>1, <3>2, <4>1, <4>2
      <3>4. CASE ParseSucceeds \/ ParseRaises
        <4>1. /\ stats' = Stripped /\ phase = "received"
              /\ \/ phase' = "walking" /\ escaped' = escaped
                 \/ phase' = "idle" /\ escaped' = escaped + 1
          BY <3>4 DEF ParseSucceeds, ParseRaises
        <4>2. /\ stats'.runsProcessed = stats.runsProcessed
              /\ stats'.normalizationsSucceeded = stats.normalizationsSucceeded
              /\ stats'.normalizationsFailed = stats.normalizationsFailed
              /\ stats'.harmonyPrefixStrips = stats.harmonyPrefixStrips + harmony
              /\ stats'.fenceStrips = stats.fenceStrips + fence
              /\ stats'.fieldRenames = stats.fieldRenames /\ stats'.fieldDrops = stats.fieldDrops
              /\ stats'.fieldDefaultsApplied = stats.fieldDefaultsApplied
          BY <2>1, <3>1, <4>1 DEF Counters
        <4> QED BY <2>1, <3>2, <4>1, <4>2
      <3> QED BY <2>3, <3>3, <3>4
    <2>5. CASE DropField \/ RenameField \/ KeepField
      BY <2>1, <2>5 DEF DropField, RenameField, KeepField, Walking, Counters
    <2>6. CASE ApplyDefaults
      BY <2>1, <2>6 DEF ApplyDefaults, ResultCounted, Counters
    <2>7. CASE UNCHANGED vars
      BY <2>7 DEF vars
    <2> QED BY <2>2, <2>3, <2>5, <2>6, <2>7 DEF Next
  <1> QED BY <1>1, <1>2, NormalizerInductive, PTL DEF Spec

\* What ApplyDefaults returns is the canonical answer, and it is clean.
LEMMA WalkEndsCanonical ==
    ASSUME NormalizerInv, ApplyDefaults, ChainFree(config)
    PROVE  /\ outcome' = Canonical(config, text)
           /\ \A k \in Keys : /\ Removed(config, k) => outcome'[k] \in {Absent, config.defaults[k]}
                              /\ config.defaults[k] # None => outcome'[k] \in Values
  <1>1. /\ outcome' = [k \in Keys |-> WithDefault(config, k, fields[k])]
        /\ config \in ResponseNormalizerConfig /\ text \in Text /\ fields \in Fields
        /\ \A f \in Keys : fields[f] = FieldAfter(config, text, Len(text.keys), f)
    BY NormalizerAssumption
    DEF ApplyDefaults, Filled, NormalizerInv, NormalizerTypeOK, Walk, NormalizerAssumption
  <1>2. outcome' = Canonical(config, text)
    BY <1>1 DEF Canonical
  <1>3. ASSUME NEW k \in Keys, Removed(config, k) PROVE fields[k] = Absent
    <2>1. Spellings(config, text, Len(text.keys), k) = {}
      BY <1>1, <1>3, RemovedHasNoSpelling, TextFacts
    <2>2. text.fields[k] = Absent \/ \E i \in 1..Len(text.keys) : text.keys[i] = k
      BY <1>1 DEF Text
    <2> QED BY <1>1, <1>3, <2>1, <2>2 DEF FieldAfter
  <1>4. ASSUME NEW k \in Keys, config.defaults[k] # None PROVE outcome'[k] \in Values
    BY <1>1, <1>4 DEF WithDefault, Fields, Content, ResponseNormalizerConfig
  <1> QED BY <1>1, <1>2, <1>3, <1>4 DEF WithDefault
\* The answer is clean (ResponseNormalizer!OutputIsClean).
THEOREM OutputStaysClean == Spec => []OutputIsClean
  <1>1. Init => OutputIsClean
    BY DEF Init, OutputIsClean
  <1>2. NormalizerInv /\ OutputIsClean /\ [Next]_vars => OutputIsClean'
    <2> SUFFICES ASSUME NormalizerInv, OutputIsClean, [Next]_vars PROVE OutputIsClean'
      OBVIOUS
    <2>1. CASE ApplyDefaults
      <3>1. config' = config
        BY <2>1 DEF ApplyDefaults
      <3>2. ChainFree(config) =>
               \A k \in Keys : /\ Removed(config, k) => outcome'[k] \in {Absent, config.defaults[k]}
                               /\ config.defaults[k] # None => outcome'[k] \in Values
        BY <2>1, WalkEndsCanonical
      <3> QED BY <3>1, <3>2 DEF OutputIsClean
    <2>2. CASE ParseRaises \/ ParseFails \/ \E t \in Texts : Receive(t)
      BY <2>2 DEF ParseRaises, ParseFails, Receive, OutputIsClean
    <2>3. CASE UNCHANGED <<config, outcome>>
      BY <2>3 DEF OutputIsClean
    <2> QED BY <2>1, <2>2, <2>3
        DEF Next, vars, ParseSucceeds, DropField, RenameField, KeepField
  <1> QED BY <1>1, <1>2, NormalizerInductive, PTL DEF Spec

\* The abstract specification speaks of the same texts and configurations.
LEMMA SameReference ==
          /\ \A t : /\ Abstract!Parsable(t) = Parsable(t)
                    /\ Abstract!LoadsRaises(t) = LoadsRaises(t)
          /\ \A c : Abstract!ChainFree(c) = ChainFree(c)
          /\ \A c, t : Abstract!Canonical(c, t) = Canonical(c, t)
          /\ Abstract!Fields = Fields
  <1>1. \A w : /\ Abstract!WithoutFence(w) = WithoutFence(w)
               /\ Abstract!WithoutHarmony(w) = WithoutHarmony(w)
    BY DEF Abstract!WithoutFence, WithoutFence, Abstract!WithoutHarmony, WithoutHarmony
  <1>2. \A t : /\ Abstract!Parsable(t) = Parsable(t)
               /\ Abstract!LoadsRaises(t) = LoadsRaises(t)
    BY <1>1 DEF Abstract!Parsable, Parsable, Abstract!LoadsRaises, LoadsRaises, Abstract!Bare, Bare
  <1>3. \A c : Abstract!ChainFree(c) = ChainFree(c)
    BY DEF Abstract!ChainFree, ChainFree
  <1>4. \A c, t, n, f : Abstract!FieldAfter(c, t, n, f) = FieldAfter(c, t, n, f)
    BY Zenon DEF Abstract!FieldAfter, FieldAfter, Abstract!Spellings, Spellings,
                 Abstract!Removed, Removed
  <1>5. \A c, f, v : Abstract!WithDefault(c, f, v) = WithDefault(c, f, v)
    BY DEF Abstract!WithDefault, WithDefault
  <1>6. \A c, t : Abstract!Canonical(c, t) = Canonical(c, t)
    BY <1>4, <1>5 DEF Abstract!Canonical, Canonical
  <1>7. Abstract!Fields = Fields
    BY DEF Abstract!Fields, Fields, Abstract!Content, Content
  <1> QED BY <1>2, <1>3, <1>6, <1>7

\* The loops implement the declarative answer, in whatever order the model
\* wrote the keys (ResponseNormalizer!ImplementsCanonicalAnswer).
THEOREM NormalizerImplementsCanonical == Spec => ImplementsCanonicalAnswer
  <1>1. Init => Abstract!Init
    BY DEF Init, Abstract!Init
  <1>2. NormalizerInv /\ [Next]_vars => [Abstract!Next]_(Abstract!vars)
    <2> SUFFICES ASSUME NormalizerInv, [Next]_vars PROVE [Abstract!Next]_(Abstract!vars)
      OBVIOUS
    <2>1. ASSUME NEW t \in Texts, Receive(t) PROVE Abstract!Ask
      BY <2>1 DEF NormalizerInv, Asked, Receive, Abstract!Ask
    <2>2. ASSUME ParseFails \/ ParseRaises PROVE Abstract!Answer
      BY <2>2, SameReference
      DEF NormalizerInv, Asked, ParseFails, ParseRaises, Abstract!Answer, Abstract!Promised
    <2>3. ASSUME ApplyDefaults PROVE Abstract!Answer
      <3>1. /\ outcome = Pending /\ Parsable(text) /\ UNCHANGED <<config, text>>
            /\ outcome' = Filled(fields)
        BY <2>3, NormalizerAssumption
        DEF NormalizerInv, NormalizerTypeOK, Asked, Walk, ApplyDefaults
      <3>2. outcome' \in Fields
        BY <3>1, FilledType DEF NormalizerInv, NormalizerTypeOK
      <3>3. ChainFree(config) => outcome' = Canonical(config, text)
        BY <2>3, WalkEndsCanonical
      <3>4. ~LoadsRaises(text)
        BY <3>1 DEF Parsable, LoadsRaises
      <3> QED BY <3>1, <3>2, <3>3, <3>4, SameReference DEF Abstract!Answer, Abstract!Promised
    <2>4. CASE UNCHANGED <<config, text, outcome>>
      BY <2>4 DEF Abstract!vars
    <2> QED BY <2>1, <2>2, <2>3, <2>4
        DEF Next, vars, Abstract!Next, ParseSucceeds, DropField, RenameField, KeepField
  <1> QED BY <1>1, <1>2, NormalizerInductive, PTL DEF Spec, ImplementsCanonicalAnswer, Abstract!Spec
-----------------------------------------------------------------------------
\* What the canonical form owes to the order of the keys, and to itself.

\* An answer that uses neither an alias nor a dropped name is only filled in:
\* this is all of the normalizer that FnolAgent's Normalize keeps
\* (response_normalizer.py, the second loop).
THEOREM PlainAnswersAreOnlyFilledIn ==
    ASSUME NEW cfg \in ResponseNormalizerConfig, NEW t \in Text,
           \A i \in DOMAIN t.keys : ~Removed(cfg, t.keys[i])
    PROVE  Canonical(cfg, t) = [f \in Keys |-> WithDefault(cfg, f, t.fields[f])]
  <1> SUFFICES ASSUME NEW f \in Keys
               PROVE  FieldAfter(cfg, t, Len(t.keys), f) = t.fields[f]
    BY DEF Canonical
  <1>1. DOMAIN t.keys = 1..Len(t.keys)
    BY TextFacts
  <1>2. Spellings(cfg, t, Len(t.keys), f) = {}
    BY <1>1, AnswerAssumption DEF Spellings, Removed, AnswerAssumption
  <1>3. ~ (Removed(cfg, f) /\ \E i \in 1..Len(t.keys) : t.keys[i] = f)
    BY <1>1
  <1> QED BY <1>2, <1>3 DEF FieldAfter

\* A default that fills a field is not filled again.
LEMMA DefaultsAreStable ==
    ASSUME NEW cfg \in ResponseNormalizerConfig, NEW f \in Keys, NEW content
    PROVE  WithDefault(cfg, f, WithDefault(cfg, f, content)) = WithDefault(cfg, f, content)
  <1>1. cfg.defaults[f] # None => cfg.defaults[f] \in Values
    BY DEF ResponseNormalizerConfig
  <1> QED BY <1>1, AnswerAssumption DEF WithDefault, AnswerAssumption

\* Normalising is done once and for all: under a configuration without chains
\* that has no default for a name it removes, as the shipped one, an answer in
\* canonical form, its keys written in any order, is its own canonical form.
THEOREM CanonicalFormIsStable ==
    ASSUME NEW cfg \in ResponseNormalizerConfig, ChainFree(cfg),
           \A f \in Keys : Removed(cfg, f) => cfg.defaults[f] = None,
           NEW first \in Text, NEW second \in Text,
           second.fields = Canonical(cfg, first)
    PROVE  Canonical(cfg, second) = second.fields
  <1> DEFINE left(f) == FieldAfter(cfg, first, Len(first.keys), f)
  <1>1. \A f \in Keys : second.fields[f] = WithDefault(cfg, f, left(f))
    BY DEF Canonical
  <1>2. ASSUME NEW f \in Keys, Removed(cfg, f) PROVE second.fields[f] = Absent
    <2>1. Spellings(cfg, first, Len(first.keys), f) = {}
      BY <1>2, RemovedHasNoSpelling, TextFacts
    <2>2. first.fields[f] # Absent <=> \E i \in 1..Len(first.keys) : first.keys[i] = f
      BY TextFacts DEF Text
    <2>3. left(f) = Absent
      BY <1>2, <2>1, <2>2 DEF FieldAfter
    <2> QED BY <1>1, <1>2, <2>3 DEF WithDefault
  <1>3. \A i \in DOMAIN second.keys : ~Removed(cfg, second.keys[i])
    <2>1. \A i \in DOMAIN second.keys : second.keys[i] \in Keys
                                        /\ second.fields[second.keys[i]] # Absent
      BY TextFacts
    <2> QED BY <1>2, <2>1
  <1>4. Canonical(cfg, second) = [f \in Keys |-> WithDefault(cfg, f, second.fields[f])]
    BY <1>3, PlainAnswersAreOnlyFilledIn
  <1>5. \A f \in Keys : WithDefault(cfg, f, second.fields[f]) = second.fields[f]
    BY <1>1, DefaultsAreStable
  <1>6. second.fields \in [Keys -> Content]
    BY TextFacts DEF Fields
  <1> QED BY <1>4, <1>5, <1>6

\* The order in which the model wrote the keys matters only between two other
\* spellings of one field: where no field has two, answers with the same
\* fields have the same canonical form.
THEOREM OrderMattersBetweenSpellingsOnly ==
    ASSUME NEW cfg \in ResponseNormalizerConfig,
           NEW first \in Text, NEW second \in Text, first.fields = second.fields,
           \A k, l \in Keys \ cfg.drop :
              /\ first.fields[k] # Absent /\ first.fields[l] # Absent
              /\ cfg.aliases[k] = cfg.aliases[l] /\ cfg.aliases[k] # None
              => k = l
    PROVE  Canonical(cfg, first) = Canonical(cfg, second)
  <1> SUFFICES ASSUME NEW f \in Keys
               PROVE  FieldAfter(cfg, first, Len(first.keys), f)
                         = FieldAfter(cfg, second, Len(second.keys), f)
    BY DEF Canonical
  <1> DEFINE spelled(k) == /\ k \in Keys \ cfg.drop /\ cfg.aliases[k] = f
                           /\ first.fields[k] # Absent
             found(t)   == Spellings(cfg, t, Len(t.keys), f)
  <1>1. ASSUME NEW t \in {first, second}
        PROVE  /\ t \in Text /\ t.fields = first.fields
               /\ \A k \in Keys : (\E i \in 1..Len(t.keys) : t.keys[i] = k)
                                     <=> first.fields[k] # Absent
    BY TextFacts DEF Text
  <1>2. ASSUME NEW t \in {first, second}
        PROVE  /\ \A i \in found(t) : spelled(t.keys[i])
               /\ \A k : spelled(k) => \E i \in found(t) : t.keys[i] = k
               /\ \A i, j \in found(t) : i = j
               /\ found(t) \subseteq Int
    <2>1. \A i \in 1..Len(t.keys) : t.keys[i] \in Keys
      BY <1>1, TextFacts
    <2>2. \A i \in found(t) : i \in 1..Len(t.keys) /\ t.keys[i] \notin cfg.drop
                              /\ cfg.aliases[t.keys[i]] = f
      BY DEF Spellings
    <2>3. \A i \in found(t) : spelled(t.keys[i])
      BY <1>1, <2>1, <2>2
    <2>4. ASSUME NEW k, spelled(k) PROVE \E i \in found(t) : t.keys[i] = k
      BY <1>1, <2>4 DEF Spellings
    <2>5. ASSUME NEW i \in found(t), NEW j \in found(t) PROVE i = j
      <3>1. f # None
        BY AnswerAssumption DEF AnswerAssumption
      <3>2. t.keys[i] = t.keys[j]
        BY <2>3, <3>1
      <3> QED BY <1>1, <2>2, <3>2, TextFacts
    <2> QED BY <2>2, <2>3, <2>4, <2>5
  <1>3. CASE \A k : ~spelled(k)
    <2>1. found(first) = {} /\ found(second) = {}
      BY <1>2, <1>3
    <2> QED BY <1>1, <2>1 DEF FieldAfter
  <1>4. CASE \E k : spelled(k)
    <2>1. PICK k : spelled(k)
      BY <1>4
    <2>2. ASSUME NEW t \in {first, second}
          PROVE  FieldAfter(cfg, t, Len(t.keys), f) = first.fields[k]
      <3>1. PICK i \in found(t) : t.keys[i] = k
        BY <1>2, <2>1
      <3>2. found(t) = {i} /\ i <= i
        BY <1>2, <3>1
      <3>3. (CHOOSE m \in found(t) : \A j \in found(t) : j <= m) = i
        BY <3>2
      <3> QED BY <1>1, <3>1, <3>2, <3>3 DEF FieldAfter
    <2> QED BY <2>2
  <1> QED BY <1>3, <1>4
=============================================================================
