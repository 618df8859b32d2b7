------------------------ MODULE ResponseNormalizer -------------------------
(***************************************************************************)
(* ResponseNormalizer.normalize, one iteration of its loops per step.  The *)
(* method never awaits; it is taken apart because what it does to a field  *)
(* depends on the order in which the model wrote the keys, while it        *)
(* deletes from and writes into the dictionary it walks over.  It catches  *)
(* JSONDecodeError only: another exception of json.loads leaves the call   *)
(* half counted.  One object serves every call, and its counters           *)
(* accumulate.                                                             *)
(***************************************************************************)
EXTENDS ModelAnswer, FiniteSets

CONSTANTS Configs, \* the configurations the normalizer may be built with
          Texts,   \* the texts a model may answer with
          Pending, \* the outcome of a call that has not returned
          Raised,  \* the outcome of a call that left by an exception
          MaxRuns  \* bound: calls of normalize

NormalizerAssumption == /\ Configs \subseteq ResponseNormalizerConfig
                        /\ Texts \subseteq Text
                        /\ IsFiniteSet(Keys)
                        /\ Pending # None /\ Pending \notin Fields /\ None \notin Text
                        /\ Raised \notin Fields \cup {None, Pending}
                        /\ MaxRuns \in Nat
ASSUME NormalizerAssumption

VARIABLES
    config,  \* self._config
    text,    \* the argument of the call
    phase,   \* where the call is
    visited, \* how many keys of the snapshot list(parsed.keys()) are done
    fields,  \* the dictionary parsed
    stats,   \* the eight counters
    outcome, \* the dictionary returned, None, Raised or Pending
    escaped  \* history, not in the code: the calls that left by an exception
vars == <<config, text, phase, visited, fields, stats, outcome, escaped>>

Counters == [runsProcessed        : Nat, fenceStrips    : Nat, harmonyPrefixStrips    : Nat,
             fieldRenames         : Nat, fieldDrops     : Nat, fieldDefaultsApplied   : Nat,
             normalizationsFailed : Nat, normalizationsSucceeded : Nat]

NormalizerTypeOK == /\ config \in Configs
                    /\ text \in Texts \cup {None}
                    /\ phase \in {"idle", "received", "walking"}
                    /\ visited \in Nat
                    /\ fields \in Fields
                    /\ stats \in Counters
                    /\ outcome \in Fields \cup {None, Pending, Raised}
                    /\ escaped \in Nat

Init == /\ config \in Configs
        /\ text = None
        /\ phase = "idle"
        /\ visited = 0
        /\ fields = [k \in Keys |-> Absent]
        /\ stats = [runsProcessed        |-> 0, fenceStrips    |-> 0, harmonyPrefixStrips  |-> 0,
                    fieldRenames         |-> 0, fieldDrops     |-> 0, fieldDefaultsApplied |-> 0,
                    normalizationsFailed |-> 0, normalizationsSucceeded |-> 0]
        /\ outcome = None
        /\ escaped = 0
-----------------------------------------------------------------------------
One(condition) == IF condition THEN 1 ELSE 0

\* Mutant: a text that does not parse returns past the counters.
SuccessCounted(s, ok) == [s EXCEPT !.normalizationsSucceeded = @ + One(ok)]

ResultCounted(s, ok) == [s EXCEPT !.normalizationsSucceeded = @ + One(ok),
                                  !.normalizationsFailed    = @ + One(~ok)]

\* Mutant: the field is blanked instead of deleted.
Blanked(dict, key) == [dict EXCEPT ![key] = Null]

\* del parsed[key]
Dropped(dict, key) == [dict EXCEPT ![key] = Absent]

\* Mutant: the canonical field, when it is there, is kept.
RenamedIfFree(dict, key, name) ==
    [dict EXCEPT ![key] = Absent, ![name] = IF dict[name] = Absent THEN dict[key] ELSE dict[name]]

\* Mutant: the other spellings go as soon as one has been renamed.
RenamedAlone(dict, key, name) ==
    [k \in Keys |-> IF k = name THEN dict[key]
                    ELSE IF config.aliases[k] = name THEN Absent ELSE dict[k]]

\* parsed[name] = parsed.pop(key)
Renamed(dict, key, name) == [dict EXCEPT ![key] = Absent, ![name] = dict[key]]

\* Mutant: defaults.get(name) for whatever is missing.
FilledWithGet(dict) == [k \in Keys |-> IF dict[k] \in {Absent, Null} THEN config.defaults[k] ELSE dict[k]]

Filled(dict) == [k \in Keys |-> WithDefault(config, k, dict[k])]
-----------------------------------------------------------------------------
\* normalize is called.
Receive(t) == /\ phase = "idle"
              /\ stats.runsProcessed < MaxRuns
              /\ text' = t
              /\ phase' = "received"
              /\ stats' = [stats EXCEPT !.runsProcessed = @ + 1]
              /\ outcome' = Pending
              /\ UNCHANGED <<config, visited, fields, escaped>>

\* The markers come off and are counted, whatever is inside.
Stripped == LET inner == WithoutHarmony(text.wrappers)
            IN  [stats EXCEPT !.harmonyPrefixStrips = @ + One(inner # text.wrappers),
                              !.fenceStrips         = @ + One(WithoutFence(inner) # inner)]

\* The exception of json.loads is not caught: the call is in runsProcessed,
\* its markers are counted, and neither of the two results is.
ParseRaises == /\ phase = "received"
               /\ LoadsRaises(text)
               /\ phase' = "idle"
               /\ stats' = Stripped
               /\ outcome' = Raised
               /\ escaped' = escaped + 1
               /\ UNCHANGED <<config, text, visited, fields>>

\* What is left is no JSON, or JSON but no object: None.
ParseFails == /\ phase = "received"
              /\ ~Parsable(text)
              /\ ~LoadsRaises(text)
              /\ phase' = "idle"
              /\ stats' = ResultCounted(Stripped, FALSE)
              /\ outcome' = None
              /\ UNCHANGED <<config, text, visited, fields, escaped>>

ParseSucceeds == /\ phase = "received"
                 /\ Parsable(text)
                 /\ phase' = "walking"
                 /\ visited' = 0
                 /\ fields' = text.fields
                 /\ stats' = Stripped
                 /\ UNCHANGED <<config, text, outcome, escaped>>

\* The next key of the snapshot taken before the loop.
Walking    == phase = "walking" /\ visited < Len(text.keys)
CurrentKey == text.keys[visited + 1]

DropField == /\ Walking
             /\ CurrentKey \in config.drop
             /\ fields' = Dropped(fields, CurrentKey)
             /\ stats' = [stats EXCEPT !.fieldDrops = @ + 1]
             /\ visited' = visited + 1
             /\ UNCHANGED <<config, text, phase, outcome, escaped>>

RenameField == /\ Walking
               /\ CurrentKey \notin config.drop
               /\ config.aliases[CurrentKey] # None
               /\ fields' = Renamed(fields, CurrentKey, config.aliases[CurrentKey])
               /\ stats' = [stats EXCEPT !.fieldRenames = @ + 1]
               /\ visited' = visited + 1
               /\ UNCHANGED <<config, text, phase, outcome, escaped>>

KeepField == /\ Walking
             /\ ~Removed(config, CurrentKey)
             /\ visited' = visited + 1
             /\ UNCHANGED <<config, text, phase, fields, stats, outcome, escaped>>

\* The second loop, over the configured defaults: they name different fields,
\* so that its order does not matter.
ApplyDefaults ==
    /\ phase = "walking"
    /\ visited = Len(text.keys)
    /\ fields' = Filled(fields)
    /\ outcome' = Filled(fields)
    /\ stats' = ResultCounted(
                    [stats EXCEPT !.fieldDefaultsApplied =
                        @ + Cardinality({k \in Keys : Filled(fields)[k] # fields[k]})], TRUE)
    /\ phase' = "idle"
    /\ UNCHANGED <<config, text, visited, escaped>>

Next == \/ \E t \in Texts : Receive(t)
        \/ ParseRaises \/ ParseFails \/ ParseSucceeds
        \/ DropField \/ RenameField \/ KeepField
        \/ ApplyDefaults

Spec == Init /\ [][Next]_vars
-----------------------------------------------------------------------------
\* The loop deletes and pops keys of a snapshot while the dictionary changes
\* under it; a key it has not reached yet is still there, whatever aliases
\* and drops say, so neither del nor pop raises KeyError
\* (response_normalizer.py, the loop over list(parsed.keys())).
UnvisitedKeysArePresent ==
    phase = "walking" => \A i \in DOMAIN text.keys :
                            i > visited => fields[text.keys[i]] # Absent

\* Every call is counted once as processed and, when it has returned, once as
\* succeeded or failed: what the two are short of the first is exactly the
\* calls that an exception of json.loads ended, which no counter tells apart.
\* A marker comes off at most once in a call, and a field is renamed, dropped
\* or filled in only in a call that got past parsing (response_normalizer.py,
\* normalize and "Updates stat counters on every call").
CountersAddUp ==
    /\ stats.runsProcessed = stats.normalizationsSucceeded + stats.normalizationsFailed
                                + escaped + One(phase # "idle")
    /\ stats.harmonyPrefixStrips + One(phase = "received") <= stats.runsProcessed
    /\ stats.fenceStrips + One(phase = "received") <= stats.runsProcessed
    /\ stats.normalizationsSucceeded = 0 /\ phase # "walking" =>
          stats.fieldRenames = 0 /\ stats.fieldDrops = 0 /\ stats.fieldDefaultsApplied = 0

\* Under a configuration without chains, nothing the model wrote is returned
\* under a dropped name or an alias (only a default of that name could be),
\* and every field that has a default has a value (response_normalizer.py,
\* "a clean JSON string parseable as AgentDecision").
OutputIsClean ==
    outcome \notin {None, Pending, Raised} /\ ChainFree(config) =>
        \A k \in Keys : /\ Removed(config, k) => outcome[k] \in {Absent, config.defaults[k]}
                        /\ config.defaults[k] # None => outcome[k] \in Values

\* In whatever order the model wrote the keys, the loops give the canonical
\* answer: the last other spelling wins over the field itself.
Abstract == INSTANCE CanonicalAnswer
ImplementsCanonicalAnswer == Abstract!Spec
=============================================================================
