--------------------------- MODULE StartupProofs ---------------------------
(***************************************************************************)
(* For every content of the files, every environment and any number of     *)
(* edits: a process that gets to its first scenario was built from         *)
(* contents the documentation accepts, and one that dies had a reason to.  *)
(***************************************************************************)
EXTENDS Startup, FiniteSetTheorems, TLAPS

\* A loader may end well exactly when every stage passes, and ends badly the
\* way a member of some stage does.
LEMMA EndsFacts ==
    ASSUME NEW stages
    PROVE  /\ "ok" \in Ends(stages) <=> \A i \in DOMAIN stages : stages[i] = {"ok"}
           /\ \A end \in Ends(stages) : end # "ok" => \E i \in DOMAIN stages : end \in stages[i]
  <1>1. CASE \A i \in DOMAIN stages : stages[i] = {"ok"}
    BY <1>1 DEF Ends
  <1>2. CASE ~ \A i \in DOMAIN stages : stages[i] = {"ok"}
    <2>1. \A end \in Ends(stages) : \E i \in DOMAIN stages : end \in stages[i] \ {"ok"}
      BY <1>2 DEF Ends
    <2> QED BY <1>2, <2>1
  <1> QED BY <1>1, <1>2

LEMMA LevelFacts ==
    ASSUME NEW level \in Level
    PROVE  /\ CheckLevel(level) = "ok" <=> Exact(level)
           /\ CheckLevel(level) \in {"ok", "ConfigError", "TypeError"}
           /\ CheckLevel(level) = "TypeError" => level.unexpected = "nontext" /\ ~level.missing
  <1>1. /\ level.shape \in {"mapping", "other"} /\ level.missing \in BOOLEAN
        /\ level.unexpected \in {"none", "text", "nontext"}
        /\ level = [shape |-> level.shape, missing |-> level.missing, unexpected |-> level.unexpected]
    BY DEF Level
  <1>2. Exact(level) <=> level.shape = "mapping" /\ level.missing = FALSE /\ level.unexpected = "none"
    BY <1>1 DEF Exact
  <1> QED BY <1>1, <1>2 DEF CheckLevel, CheckKeys

LEMMA ReadFacts ==
    ASSUME NEW file, file.read \in Readability
    PROVE  /\ Read(file) = "ok" <=> file.read = "parsed"
           /\ Read(file) \notin {"TypeError", "InvalidOperation", "ProviderConfigError", "SystemExit"}
           /\ Read(file) \in Errors \cup {"ok"}
  BY DEF Read, Readability, Errors

LEMMA RequireFacts ==
    ASSUME NEW condition \in BOOLEAN
    PROVE  /\ Require(condition) = "ok" <=> condition
           /\ Require(condition) \in {"ok", "ConfigError"}
  BY DEF Require

\* What the way a loader ends says of its file.
Sound(ends, accepted, levels, boolean) ==
    /\ "ok" \in ends <=> accepted
    /\ accepted => ends = {"ok"}
    /\ ends \subseteq Errors \cup {"ok"}
    /\ "TypeError" \in ends => \E level \in levels : level.unexpected = "nontext" /\ ~level.missing
    /\ "InvalidOperation" \in ends => boolean

\* load_thresholds accepts exactly what the documentation accepts.
LEMMA ThresholdsSound ==
    ASSUME NEW file \in ThresholdsFile
    PROVE  Sound(LoadThresholds(file), AcceptedThresholds(file), {file.top},
                 \E b \in Bounds : file.values[b] = "boolean")
  <1> DEFINE bounds == {CheckBound(file.values[b]) : b \in Bounds}
             stages == <<{Read(file)}, {CheckLevel(file.top)}, bounds, {Require(file.valid)}>>
  <1>1. /\ file.read \in Readability /\ file.top \in Level /\ file.valid \in BOOLEAN
        /\ \A b \in Bounds : file.values[b] \in {"number", "boolean", "other"}
    BY DEF ThresholdsFile
  <1>2. /\ bounds = {"ok"} <=> \A b \in Bounds : file.values[b] = "number"
        /\ bounds \subseteq {"ok", "ConfigError", "InvalidOperation"}
        /\ "InvalidOperation" \in bounds => \E b \in Bounds : file.values[b] = "boolean"
    <2>1. \A b \in Bounds : /\ CheckBound(file.values[b]) = "ok" <=> file.values[b] = "number"
                            /\ CheckBound(file.values[b]) \in {"ok", "ConfigError", "InvalidOperation"}
                            /\ CheckBound(file.values[b]) = "InvalidOperation"
                                 => file.values[b] = "boolean"
      BY <1>1 DEF CheckBound, Require
    <2>2. Bounds # {}
      BY DEF Bounds
    <2> QED BY <2>1, <2>2
  <1>3. /\ DOMAIN stages = 1..4
        /\ stages[1] = {Read(file)} /\ stages[2] = {CheckLevel(file.top)}
        /\ stages[3] = bounds /\ stages[4] = {Require(file.valid)}
    <2> HIDE DEF bounds
    <2> QED OBVIOUS
  <1>4. LoadThresholds(file) = Ends(stages)
    BY DEF LoadThresholds
  <1> HIDE DEF stages, bounds
  <1>5. "ok" \in Ends(stages) <=> AcceptedThresholds(file)
    <2>1. "ok" \in Ends(stages) <=> /\ Read(file) = "ok" /\ CheckLevel(file.top) = "ok"
                                    /\ bounds = {"ok"} /\ Require(file.valid) = "ok"
      BY <1>3, EndsFacts
    <2> QED BY <1>1, <1>2, <2>1, LevelFacts, ReadFacts, RequireFacts DEF AcceptedThresholds
  <1>6. AcceptedThresholds(file) => Ends(stages) = {"ok"}
    BY <1>5, EndsFacts DEF Ends
  <1>7. \A end \in Ends(stages) : end # "ok" => \/ end = Read(file) \/ end = CheckLevel(file.top)
                                                \/ end \in bounds \/ end = Require(file.valid)
    <2>1. \A end \in Ends(stages) : end # "ok" => \E i \in 1..4 : end \in stages[i]
      BY <1>3, EndsFacts
    <2> QED BY <1>3, <2>1
  <1>8. /\ CheckLevel(file.top) \in {"ok", "ConfigError", "TypeError"}
        /\ CheckLevel(file.top) = "TypeError" => file.top.unexpected = "nontext" /\ ~file.top.missing
        /\ Read(file) \notin {"TypeError", "InvalidOperation"} /\ Read(file) \in Errors \cup {"ok"}
        /\ Require(file.valid) \in {"ok", "ConfigError"}
    BY <1>1, LevelFacts, ReadFacts, RequireFacts
  <1> QED BY <1>2, <1>4, <1>5, <1>6, <1>7, <1>8 DEF Sound, Errors
\* load_permissions accepts exactly what the documentation accepts.
LEMMA PermissionsSound ==
    ASSUME NEW file \in PermissionsFile
    PROVE  Sound(LoadPermissions(file), AcceptedPermissions(file), PermissionsLevels(file), FALSE)
  <1> DEFINE tiers  == {CheckLevel(file.tiers[t]) : t \in Tier}
             stages == <<{Read(file)}, {CheckLevel(file.top)}, {CheckLevel(file.authority)}, tiers,
                         {CheckLevel(file.normalizer)}, {Require(file.valid)}>>
  <1>1. /\ file.read \in Readability /\ file.valid \in BOOLEAN
        /\ file.top \in Level /\ file.authority \in Level /\ file.normalizer \in Level
        /\ \A t \in Tier : file.tiers[t] \in Level
    BY DEF PermissionsFile
  <1>2. /\ tiers = {"ok"} <=> \A t \in Tier : Exact(file.tiers[t])
        /\ tiers \subseteq {"ok", "ConfigError", "TypeError"}
        /\ "TypeError" \in tiers =>
              \E t \in Tier : file.tiers[t].unexpected = "nontext" /\ ~file.tiers[t].missing
    <2>1. \A t \in Tier : /\ CheckLevel(file.tiers[t]) = "ok" <=> Exact(file.tiers[t])
                          /\ CheckLevel(file.tiers[t]) \in {"ok", "ConfigError", "TypeError"}
                          /\ CheckLevel(file.tiers[t]) = "TypeError" =>
                                file.tiers[t].unexpected = "nontext" /\ ~file.tiers[t].missing
      BY <1>1, LevelFacts
    <2>2. Tier # {}
      BY DEF Tier
    <2> QED BY <2>1, <2>2
  <1>3. /\ DOMAIN stages = 1..6
        /\ stages[1] = {Read(file)} /\ stages[2] = {CheckLevel(file.top)}
        /\ stages[3] = {CheckLevel(file.authority)} /\ stages[4] = tiers
        /\ stages[5] = {CheckLevel(file.normalizer)} /\ stages[6] = {Require(file.valid)}
    <2> HIDE DEF tiers
    <2> QED OBVIOUS
  <1>4. LoadPermissions(file) = Ends(stages)
    BY DEF LoadPermissions
  <1> HIDE DEF stages, tiers
  <1>5. "ok" \in Ends(stages) <=> AcceptedPermissions(file)
    <2>1. "ok" \in Ends(stages) <=>
             /\ Read(file) = "ok" /\ CheckLevel(file.top) = "ok" /\ CheckLevel(file.authority) = "ok"
             /\ tiers = {"ok"} /\ CheckLevel(file.normalizer) = "ok" /\ Require(file.valid) = "ok"
      BY <1>3, EndsFacts
    <2> QED BY <1>1, <1>2, <2>1, LevelFacts, ReadFacts, RequireFacts DEF AcceptedPermissions
  <1>6. AcceptedPermissions(file) => Ends(stages) = {"ok"}
    BY <1>5, EndsFacts DEF Ends
  <1>7. \A end \in Ends(stages) : end # "ok" =>
           \/ end = Read(file) \/ end = CheckLevel(file.top) \/ end = CheckLevel(file.authority)
           \/ end \in tiers \/ end = CheckLevel(file.normalizer) \/ end = Require(file.valid)
    <2>1. \A end \in Ends(stages) : end # "ok" => \E i \in 1..6 : end \in stages[i]
      BY <1>3, EndsFacts
    <2> QED BY <1>3, <2>1
  <1>8. ASSUME NEW level \in {file.top, file.authority, file.normalizer}
        PROVE  /\ CheckLevel(level) \in {"ok", "ConfigError", "TypeError"}
               /\ CheckLevel(level) = "TypeError" => level.unexpected = "nontext" /\ ~level.missing
    BY <1>1, LevelFacts
  <1>9. /\ Read(file) \notin {"TypeError", "InvalidOperation"} /\ Read(file) \in Errors \cup {"ok"}
        /\ Require(file.valid) \in {"ok", "ConfigError"}
    BY <1>1, ReadFacts, RequireFacts
  <1>10. Ends(stages) \subseteq Errors \cup {"ok"}
    BY <1>2, <1>7, <1>8, <1>9 DEF Errors
  <1>11. "TypeError" \in Ends(stages) =>
            \E level \in PermissionsLevels(file) : level.unexpected = "nontext" /\ ~level.missing
    <2> SUFFICES ASSUME "TypeError" \in Ends(stages)
                 PROVE  \E level \in PermissionsLevels(file) :
                           level.unexpected = "nontext" /\ ~level.missing
      OBVIOUS
    <2>1. CASE "TypeError" \in tiers
      BY <1>2, <2>1 DEF PermissionsLevels
    <2>2. CASE "TypeError" \notin tiers
      <3>1. \E level \in {file.top, file.authority, file.normalizer} : CheckLevel(level) = "TypeError"
        BY <1>7, <1>9, <2>2
      <3> QED BY <1>8, <3>1 DEF PermissionsLevels
    <2> QED BY <2>1, <2>2
  <1>12. "InvalidOperation" \notin Ends(stages)
    BY <1>2, <1>7, <1>8, <1>9
  <1> QED BY <1>4, <1>5, <1>6, <1>10, <1>11, <1>12 DEF Sound

\* load_tool_allowlist accepts exactly what the documentation accepts,
\* however many tools the file lists.
LEMMA AllowlistSound ==
    ASSUME NEW file \in AllowlistFile
    PROVE  Sound(LoadToolAllowlist(file), AcceptedAllowlist(file), AllowlistLevels(file), FALSE)
  <1> DEFINE head   == <<{Read(file)}, {CheckLevel(file.top)}, {Require(file.denies)},
                         {Require(file.tools = "mapping")}>>
             tools  == [i \in DOMAIN file.entries |-> {CheckTool(file.entries[i])}]
             stages == head \o tools \o <<{Require(file.valid)}>>
             n      == Len(file.entries)
  <1>1. /\ file.read \in Readability /\ file.valid \in BOOLEAN /\ file.denies \in BOOLEAN
        /\ file.top \in Level /\ file.tools \in {"mapping", "other"}
        /\ file.entries \in Seq([entry : Level, rules : Level])
        /\ n \in Nat /\ DOMAIN file.entries = 1..n
        /\ \A i \in 1..n : file.entries[i].entry \in Level /\ file.entries[i].rules \in Level
    <2>1. file.entries \in Seq([entry : Level, rules : Level])
      BY DEF AllowlistFile
    <2>2. n \in Nat /\ DOMAIN file.entries = 1..n
      BY <2>1
    <2>3. \A i \in 1..n : file.entries[i] \in [entry : Level, rules : Level]
      <3>1. ASSUME NEW S, NEW seq \in Seq(S), NEW i \in 1..Len(seq) PROVE seq[i] \in S
        OBVIOUS
      <3> QED BY <2>1, <3>1
    <2> QED BY <2>1, <2>2, <2>3 DEF AllowlistFile
  <1>2. ASSUME NEW i \in 1..n
        PROVE  /\ CheckTool(file.entries[i]) = "ok" <=>
                     Exact(file.entries[i].entry) /\ Exact(file.entries[i].rules)
               /\ CheckTool(file.entries[i]) \in {"ok", "ConfigError", "TypeError"}
               /\ CheckTool(file.entries[i]) = "TypeError" =>
                     \E level \in {file.entries[i].entry, file.entries[i].rules} :
                         level.unexpected = "nontext" /\ ~level.missing
    <2> DEFINE entry == file.entries[i].entry
               rules == file.entries[i].rules
    <2>1. /\ CheckLevel(entry) = "ok" <=> Exact(entry)
          /\ CheckLevel(entry) \in {"ok", "ConfigError", "TypeError"}
          /\ CheckLevel(entry) = "TypeError" => entry.unexpected = "nontext" /\ ~entry.missing
      BY <1>1, LevelFacts
    <2>2. /\ CheckLevel(rules) = "ok" <=> Exact(rules)
          /\ CheckLevel(rules) \in {"ok", "ConfigError", "TypeError"}
          /\ CheckLevel(rules) = "TypeError" => rules.unexpected = "nontext" /\ ~rules.missing
      BY <1>1, LevelFacts
    <2> QED BY <2>1, <2>2 DEF CheckTool
  <1>3. /\ DOMAIN stages = 1..(n + 5)
        /\ stages[1] = {Read(file)} /\ stages[2] = {CheckLevel(file.top)}
        /\ stages[3] = {Require(file.denies)} /\ stages[4] = {Require(file.tools = "mapping")}
        /\ \A i \in 1..n : stages[i + 4] = {CheckTool(file.entries[i])}
        /\ stages[n + 5] = {Require(file.valid)}
    <2>1. /\ Len(head) = 4 /\ head[1] = {Read(file)} /\ head[2] = {CheckLevel(file.top)}
          /\ head[3] = {Require(file.denies)} /\ head[4] = {Require(file.tools = "mapping")}
      OBVIOUS
    <2>2. /\ tools \in Seq({{CheckTool(file.entries[i])} : i \in 1..n})
          /\ Len(tools) = n /\ \A i \in 1..n : tools[i] = {CheckTool(file.entries[i])}
      BY <1>1
    <2> QED BY <1>1, <2>1, <2>2
  <1>4. LoadToolAllowlist(file) = Ends(stages)
    BY DEF LoadToolAllowlist
  <1> HIDE DEF stages, head, tools, n
  <1>5. "ok" \in Ends(stages) <=> AcceptedAllowlist(file)
    <2>1. "ok" \in Ends(stages) <=>
             /\ Read(file) = "ok" /\ CheckLevel(file.top) = "ok" /\ Require(file.denies) = "ok"
             /\ Require(file.tools = "mapping") = "ok" /\ Require(file.valid) = "ok"
             /\ \A i \in 1..n : CheckTool(file.entries[i]) = "ok"
      <3>1. "ok" \in Ends(stages) <=> \A i \in 1..(n + 5) : stages[i] = {"ok"}
        BY <1>3, EndsFacts
      <3>2. \A i \in 1..(n + 5) : i \in 1..4 \/ i = n + 5 \/ (i - 4 \in 1..n /\ i = (i - 4) + 4)
        BY <1>1
      <3>3. \A i \in 1..n : i + 4 \in 1..(n + 5)
        BY <1>1
      <3>4. 1 \in 1..(n + 5) /\ 2 \in 1..(n + 5) /\ 3 \in 1..(n + 5) /\ 4 \in 1..(n + 5)
            /\ n + 5 \in 1..(n + 5)
        BY <1>1
      <3>5. ASSUME \A i \in 1..(n + 5) : stages[i] = {"ok"}
            PROVE  \A i \in 1..n : CheckTool(file.entries[i]) = "ok"
        BY <1>3, <3>3, <3>5
      <3>6. ASSUME /\ \A i \in 1..n : CheckTool(file.entries[i]) = "ok"
                   /\ stages[1] = {"ok"} /\ stages[2] = {"ok"} /\ stages[3] = {"ok"}
                   /\ stages[4] = {"ok"} /\ stages[n + 5] = {"ok"}
            PROVE  \A i \in 1..(n + 5) : stages[i] = {"ok"}
        BY <1>3, <3>2, <3>6
      <3> QED BY <1>3, <3>1, <3>4, <3>5, <3>6
    <2>2. \A i \in 1..n : CheckTool(file.entries[i]) = "ok" <=>
                             Exact(file.entries[i].entry) /\ Exact(file.entries[i].rules)
      BY <1>2
    <2> QED BY <1>1, <2>1, <2>2, LevelFacts, ReadFacts, RequireFacts DEF AcceptedAllowlist
  <1>6. AcceptedAllowlist(file) => Ends(stages) = {"ok"}
    BY <1>5, EndsFacts DEF Ends
  <1>7. \A end \in Ends(stages) : end # "ok" =>
           \/ end = Read(file) \/ end = CheckLevel(file.top) \/ end = "ConfigError"
           \/ \E i \in 1..n : end = CheckTool(file.entries[i])
    <2>1. \A end \in Ends(stages) : end # "ok" => \E i \in 1..(n + 5) : end \in stages[i]
      BY <1>3, EndsFacts
    <2>2. \A i \in 1..(n + 5) : i \in {1, 2, 3, 4} \/ i = n + 5 \/ (i - 4 \in 1..n /\ i = (i - 4) + 4)
      BY <1>1
    <2>3. /\ Require(file.denies) \in {"ok", "ConfigError"}
          /\ Require(file.tools = "mapping") \in {"ok", "ConfigError"}
          /\ Require(file.valid) \in {"ok", "ConfigError"}
      BY <1>1, RequireFacts
    <2> QED BY <1>3, <2>1, <2>2, <2>3
  <1>8. /\ CheckLevel(file.top) \in {"ok", "ConfigError", "TypeError"}
        /\ CheckLevel(file.top) = "TypeError" => file.top.unexpected = "nontext" /\ ~file.top.missing
        /\ Read(file) \notin {"TypeError", "InvalidOperation"} /\ Read(file) \in Errors \cup {"ok"}
    BY <1>1, LevelFacts, ReadFacts
  <1>9. Ends(stages) \subseteq Errors \cup {"ok"} /\ "InvalidOperation" \notin Ends(stages)
    BY <1>2, <1>7, <1>8 DEF Errors
  <1>10. "TypeError" \in Ends(stages) =>
            \E level \in AllowlistLevels(file) : level.unexpected = "nontext" /\ ~level.missing
    <2> SUFFICES ASSUME "TypeError" \in Ends(stages)
                 PROVE  \E level \in AllowlistLevels(file) :
                           level.unexpected = "nontext" /\ ~level.missing
      OBVIOUS
    <2>1. CASE "TypeError" = CheckLevel(file.top)
      BY <1>8, <2>1 DEF AllowlistLevels
    <2>2. CASE "TypeError" # CheckLevel(file.top)
      <3>1. PICK i \in 1..n : "TypeError" = CheckTool(file.entries[i])
        BY <1>7, <1>8, <2>2
      <3>2. \E level \in {file.entries[i].entry, file.entries[i].rules} :
                level.unexpected = "nontext" /\ ~level.missing
        BY <1>2, <3>1
      <3>3. i \in DOMAIN file.entries
        BY <1>1
      <3> QED BY <3>2, <3>3 DEF AllowlistLevels
    <2> QED BY <2>1, <2>2
  <1> QED BY <1>4, <1>5, <1>6, <1>9, <1>10 DEF Sound

\* load_policies and load_all_scenarios accept exactly what they should.
LEMMA PoliciesSound ==
    ASSUME NEW file \in PoliciesFile
    PROVE  Sound(LoadPolicies(file), AcceptedPolicies(file), {}, FALSE)
  <1> DEFINE parse  == IF file.read = "malformed" THEN "ValueError" ELSE Read(file)
             list   == IF file.list THEN "ok" ELSE "ValueError"
             valid  == IF file.valid THEN "ok" ELSE "ValidationError"
             stages == <<{parse}, {list}, {valid}>>
  <1>1. /\ parse = "ok" <=> file.read = "parsed"
        /\ parse \in (Errors \cup {"ok"}) \ {"TypeError", "InvalidOperation"}
        /\ list = "ok" <=> file.list
        /\ list \in {"ok", "ValueError"}
        /\ valid = "ok" <=> file.valid
        /\ valid \in {"ok", "ValidationError"}
    <2>1. file.read \in Readability /\ file.list \in BOOLEAN /\ file.valid \in BOOLEAN
      BY DEF PoliciesFile
    <2> QED BY <2>1, ReadFacts DEF Errors, Readability
  <1>2. DOMAIN stages = 1..3 /\ stages[1] = {parse} /\ stages[2] = {list} /\ stages[3] = {valid}
    <2> HIDE DEF parse, list, valid
    <2> QED OBVIOUS
  <1>3. LoadPolicies(file) = Ends(stages)
    BY DEF LoadPolicies
  <1> HIDE DEF stages, parse, list, valid
  <1>4. "ok" \in Ends(stages) <=> AcceptedPolicies(file)
    <2>1. "ok" \in Ends(stages) <=> parse = "ok" /\ list = "ok" /\ valid = "ok"
      BY <1>2, EndsFacts
    <2> QED BY <1>1, <2>1 DEF AcceptedPolicies
  <1>5. AcceptedPolicies(file) => Ends(stages) = {"ok"}
    BY <1>4, EndsFacts DEF Ends
  <1>6. \A end \in Ends(stages) : end # "ok" => end \in {parse, list, valid}
    <2>1. \A end \in Ends(stages) : end # "ok" => \E i \in 1..3 : end \in stages[i]
      BY <1>2, EndsFacts
    <2> QED BY <1>2, <2>1
  <1> QED BY <1>1, <1>3, <1>4, <1>5, <1>6 DEF Sound, Errors

LEMMA ScenariosSound ==
    ASSUME NEW files \in Seq(ScenarioFile)
    PROVE  Sound(LoadAllScenarios(files), AcceptedScenarios(files), {}, FALSE)
  <1> DEFINE stages == [i \in DOMAIN files |-> {LoadScenario(files[i])}]
  <1>1. ASSUME NEW i \in DOMAIN files
        PROVE  /\ LoadScenario(files[i]) = "ok" <=>
                     files[i].read = "parsed" /\ files[i].mapping /\ files[i].valid
               /\ LoadScenario(files[i]) \in (Errors \cup {"ok"}) \ {"TypeError", "InvalidOperation"}
    <2>1. files[i] \in ScenarioFile
      <3>1. ASSUME NEW S, NEW seq \in Seq(S), NEW j \in DOMAIN seq PROVE seq[j] \in S
        OBVIOUS
      <3> QED BY <3>1
    <2>2. files[i].read \in Readability /\ files[i].mapping \in BOOLEAN /\ files[i].valid \in BOOLEAN
      BY <2>1 DEF ScenarioFile
    <2>3. (files[i].mapping /\ files[i].valid) \in BOOLEAN
      OBVIOUS
    <2> QED BY <2>2, <2>3, ReadFacts, RequireFacts DEF LoadScenario, Errors, Readability
  <1>2. DOMAIN stages = DOMAIN files /\ \A i \in DOMAIN files : stages[i] = {LoadScenario(files[i])}
    OBVIOUS
  <1>3. LoadAllScenarios(files) = Ends(stages)
    BY DEF LoadAllScenarios
  <1> HIDE DEF stages
  <1>4. "ok" \in Ends(stages) <=> AcceptedScenarios(files)
    BY <1>1, <1>2, EndsFacts DEF AcceptedScenarios
  <1>5. AcceptedScenarios(files) => Ends(stages) = {"ok"}
    BY <1>4, EndsFacts DEF Ends
  <1>6. \A end \in Ends(stages) : end # "ok" => \E i \in DOMAIN files : end = LoadScenario(files[i])
    BY <1>2, EndsFacts
  <1> QED BY <1>1, <1>3, <1>4, <1>5, <1>6 DEF Sound, Errors
-----------------------------------------------------------------------------
\* The pieces that are built before each step of main, and that what was
\* built had been accepted.
Before == [thresholds |-> {}, authority |-> {"thresholds"},
           repository |-> {"thresholds", "authority"},
           allowlist  |-> {"thresholds", "authority", "repository"},
           normalizer |-> {"thresholds", "authority", "repository", "allowlist"},
           client     |-> Pieces \ {"scenarios"}]

Vetted == /\ loaded.thresholds # None => AcceptedThresholds(loaded.thresholds)
          /\ loaded.authority # None => AcceptedPermissions(loaded.authority)
          /\ loaded.repository # None => AcceptedPolicies(loaded.repository)
          /\ loaded.allowlist # None => AcceptedAllowlist(loaded.allowlist)
          /\ loaded.normalizer # None => AcceptedPermissions(loaded.normalizer)
          /\ loaded.scenarios # None => AcceptedScenarios(loaded.scenarios)
          /\ client # None => Configured(client)

Progress == /\ step \in DOMAIN Before => \A p \in Before[step] : loaded[p] # None
            /\ client # None => \A p \in Pieces \ {"scenarios"} : loaded[p] # None
            /\ step \in {"scenarios", "evaluating"} /\ kind = "fnol" => client # None
            /\ step = "evaluating" => loaded.scenarios # None
            /\ client # None => \/ step \in {"scenarios", "evaluating"}
                                \/ step = "failed" /\ error.at = "scenarios"

StartupInv == StartupTypeOK /\ Vetted /\ Progress /\ RefusalsHaveCauses

\* A step that fails with a cause.
LEMMA FailStep ==
    ASSUME StartupInv, NEW what \in Errors, Fail(what), step \notin {"evaluating", "failed"},
           step \in Pieces => ~Acceptable[step],
           step = "client" => ~Configured(WithDotenv(env)),
           what = "TypeError" =>
              step \in Pieces
              /\ \E level \in Levels[step] : level.unexpected = "nontext" /\ ~level.missing,
           what = "InvalidOperation" =>
              step = "thresholds" /\ \E b \in Bounds : disk.thresholds.values[b] = "boolean"
    PROVE  StartupInv'
  <1> USE DEF StartupInv, StartupTypeOK
  <1>1. /\ error' = [at |-> step, kind |-> what] /\ step' = "failed"
        /\ UNCHANGED <<disk, edits, kind, env, loaded, client>>
    BY DEF Fail
  <1>2. error' \in Failure /\ error' # None /\ error'.at = step /\ error'.kind = what
    BY <1>1, StartupAssumption DEF Failure, StartupAssumption
  <1>3. StartupTypeOK'
    BY <1>1, <1>2 DEF Steps
  <1>4. Vetted'
    BY <1>1 DEF Vetted
  <1>5. Progress'
    BY <1>1, <1>2 DEF Progress, Before
  <1>6. RefusalsHaveCauses'
    <2>1. /\ Acceptable' = Acceptable /\ Levels' = Levels
          /\ Configured(WithDotenv(env))' = Configured(WithDotenv(env))
      BY <1>1 DEF Acceptable, Levels, Configured, WithDotenv
    <2> QED BY <1>1, <1>2, <2>1 DEF RefusalsHaveCauses
  <1> QED BY <1>3, <1>4, <1>5, <1>6

\* A loader that raises.
LEMMA LoadFails ==
    ASSUME StartupInv, NEW piece \in Pieces, step = piece, NEW ends, NEW end \in ends, end # "ok",
           Fail(end), NEW accepted, NEW boolean, Sound(ends, accepted, Levels[piece], boolean),
           ~accepted => ~Acceptable[piece],
           boolean => piece = "thresholds" /\ \E b \in Bounds : disk.thresholds.values[b] = "boolean"
    PROVE  StartupInv'
  <1>1. /\ end \in Errors /\ ~accepted
        /\ end = "TypeError" => \E level \in Levels[piece] :
                                    level.unexpected = "nontext" /\ ~level.missing
        /\ end = "InvalidOperation" => boolean
    BY DEF Sound
  <1>2. step \notin {"evaluating", "failed", "client"}
    BY DEF Pieces
  <1> QED BY <1>1, <1>2, FailStep

\* Every step keeps the invariant.
LEMMA StartupStep ==
    ASSUME StartupInv, [Next]_vars
    PROVE  StartupInv'
  <1> USE DEF StartupInv, StartupTypeOK
  <1>1. CASE ParseArguments
    <2>1. CASE kind = "other"
      <3>1. Fail("SystemExit") /\ step = "arguments"
        BY <1>1, <2>1 DEF ParseArguments
      <3>2. "SystemExit" \in Errors /\ "arguments" \notin Pieces
        BY DEF Errors, Pieces
      <3> QED BY <3>1, <3>2, FailStep
    <2>2. CASE kind # "other"
      <3>1. /\ step = "arguments" /\ UNCHANGED <<disk, edits, kind, env, loaded, client, error>>
            /\ step' = IF kind = "null" THEN "scenarios" ELSE "thresholds"
        BY <1>1, <2>2 DEF ParseArguments
      <3> QED BY <3>1 DEF Vetted, Progress, Before, Steps, Pieces, RefusalsHaveCauses
    <2> QED BY <2>1, <2>2
  <1>2. CASE BuildThresholds
    <2> DEFINE file == disk.thresholds
    <2>1. /\ step = "thresholds" /\ file \in ThresholdsFiles /\ file # None
          /\ Sound(LoadThresholds(file), AcceptedThresholds(file), Levels["thresholds"], \E b \in Bounds : file.values[b] = "boolean")
      BY <1>2, ThresholdsSound, StartupAssumption
      DEF BuildThresholds, Load, Disk, Levels, StartupAssumption
    <2>2. PICK end \in LoadThresholds(file) :
             \/ /\ end = "ok" /\ step' = "authority" /\ loaded' = [loaded EXCEPT !["thresholds"] = file]
                /\ UNCHANGED <<disk, edits, kind, env, client, error>>
             \/ end # "ok" /\ Fail(end)
      BY <1>2 DEF BuildThresholds, Load
    <2>3. CASE end = "ok"
      <3>1. AcceptedThresholds(file)
        BY <2>1, <2>2, <2>3 DEF Sound
      <3>2. /\ step' = "authority" /\ loaded' = [loaded EXCEPT !["thresholds"] = file]
            /\ UNCHANGED <<disk, edits, kind, env, client, error>>
        BY <2>2, <2>3
      <3> HIDE DEF file
      <3> QED BY <2>1, <3>1, <3>2 DEF Vetted, Progress, Before, Pieces, Steps, RefusalsHaveCauses
    <2>4. CASE end # "ok"
      <3>1. Acceptable["thresholds"] = AcceptedThresholds(file)
        BY DEF Acceptable
      <3>2. (\E b \in Bounds : file.values[b] = "boolean") =>
               "thresholds" = "thresholds" /\ \E b \in Bounds : disk.thresholds.values[b] = "boolean"
        OBVIOUS
      <3>3. "thresholds" \in Pieces
        BY DEF Pieces
      <3> HIDE DEF file
      <3> QED BY <2>1, <2>2, <2>4, <3>1, <3>2, <3>3, LoadFails
    <2> QED BY <2>3, <2>4
  <1>3. CASE BuildAuthority
    <2> DEFINE file == disk.permissions
    <2>1. /\ step = "authority" /\ file \in PermissionsFiles /\ file # None
          /\ Sound(LoadPermissions(file), AcceptedPermissions(file), Levels["authority"], FALSE)
      BY <1>3, PermissionsSound, StartupAssumption
      DEF BuildAuthority, Load, Disk, Levels, StartupAssumption
    <2>2. PICK end \in LoadPermissions(file) :
             \/ /\ end = "ok" /\ step' = "repository" /\ loaded' = [loaded EXCEPT !["authority"] = file]
                /\ UNCHANGED <<disk, edits, kind, env, client, error>>
             \/ end # "ok" /\ Fail(end)
      BY <1>3 DEF BuildAuthority, Load
    <2>3. CASE end = "ok"
      <3>1. AcceptedPermissions(file)
        BY <2>1, <2>2, <2>3 DEF Sound
      <3>2. /\ step' = "repository" /\ loaded' = [loaded EXCEPT !["authority"] = file]
            /\ UNCHANGED <<disk, edits, kind, env, client, error>>
        BY <2>2, <2>3
      <3> HIDE DEF file
      <3> QED BY <2>1, <3>1, <3>2 DEF Vetted, Progress, Before, Pieces, Steps, RefusalsHaveCauses
    <2>4. CASE end # "ok"
      <3>1. Acceptable["authority"] = AcceptedPermissions(file)
        BY DEF Acceptable
      <3>2. (FALSE) =>
               "authority" = "thresholds" /\ \E b \in Bounds : disk.thresholds.values[b] = "boolean"
        OBVIOUS
      <3>3. "authority" \in Pieces
        BY DEF Pieces
      <3> HIDE DEF file
      <3> QED BY <2>1, <2>2, <2>4, <3>1, <3>2, <3>3, LoadFails
    <2> QED BY <2>3, <2>4
  <1>4. CASE BuildRepository
    <2> DEFINE file == disk.policies
    <2>1. /\ step = "repository" /\ file \in PoliciesFiles /\ file # None
          /\ Sound(LoadPolicies(file), AcceptedPolicies(file), Levels["repository"], FALSE)
      BY <1>4, PoliciesSound, StartupAssumption
      DEF BuildRepository, Load, Disk, Levels, StartupAssumption
    <2>2. PICK end \in LoadPolicies(file) :
             \/ /\ end = "ok" /\ step' = "allowlist" /\ loaded' = [loaded EXCEPT !["repository"] = file]
                /\ UNCHANGED <<disk, edits, kind, env, client, error>>
             \/ end # "ok" /\ Fail(end)
      BY <1>4 DEF BuildRepository, Load
    <2>3. CASE end = "ok"
      <3>1. AcceptedPolicies(file)
        BY <2>1, <2>2, <2>3 DEF Sound
      <3>2. /\ step' = "allowlist" /\ loaded' = [loaded EXCEPT !["repository"] = file]
            /\ UNCHANGED <<disk, edits, kind, env, client, error>>
        BY <2>2, <2>3
      <3> HIDE DEF file
      <3> QED BY <2>1, <3>1, <3>2 DEF Vetted, Progress, Before, Pieces, Steps, RefusalsHaveCauses
    <2>4. CASE end # "ok"
      <3>1. Acceptable["repository"] = AcceptedPolicies(file)
        BY DEF Acceptable
      <3>2. (FALSE) =>
               "repository" = "thresholds" /\ \E b \in Bounds : disk.thresholds.values[b] = "boolean"
        OBVIOUS
      <3>3. "repository" \in Pieces
        BY DEF Pieces
      <3> HIDE DEF file
      <3> QED BY <2>1, <2>2, <2>4, <3>1, <3>2, <3>3, LoadFails
    <2> QED BY <2>3, <2>4
  <1>5. CASE BuildAllowlist
    <2> DEFINE file == disk.allowlist
    <2>1. /\ step = "allowlist" /\ file \in AllowlistFiles /\ file # None
          /\ Sound(LoadToolAllowlist(file), AcceptedAllowlist(file), Levels["allowlist"], FALSE)
      BY <1>5, AllowlistSound, StartupAssumption
      DEF BuildAllowlist, Load, Disk, Levels, StartupAssumption
    <2>2. PICK end \in LoadToolAllowlist(file) :
             \/ /\ end = "ok" /\ step' = "normalizer" /\ loaded' = [loaded EXCEPT !["allowlist"] = file]
                /\ UNCHANGED <<disk, edits, kind, env, client, error>>
             \/ end # "ok" /\ Fail(end)
      BY <1>5 DEF BuildAllowlist, Load
    <2>3. CASE end = "ok"
      <3>1. AcceptedAllowlist(file)
        BY <2>1, <2>2, <2>3 DEF Sound
      <3>2. /\ step' = "normalizer" /\ loaded' = [loaded EXCEPT !["allowlist"] = file]
            /\ UNCHANGED <<disk, edits, kind, env, client, error>>
        BY <2>2, <2>3
      <3> HIDE DEF file
      <3> QED BY <2>1, <3>1, <3>2 DEF Vetted, Progress, Before, Pieces, Steps, RefusalsHaveCauses
    <2>4. CASE end # "ok"
      <3>1. Acceptable["allowlist"] = AcceptedAllowlist(file)
        BY DEF Acceptable
      <3>2. (FALSE) =>
               "allowlist" = "thresholds" /\ \E b \in Bounds : disk.thresholds.values[b] = "boolean"
        OBVIOUS
      <3>3. "allowlist" \in Pieces
        BY DEF Pieces
      <3> HIDE DEF file
      <3> QED BY <2>1, <2>2, <2>4, <3>1, <3>2, <3>3, LoadFails
    <2> QED BY <2>3, <2>4
  <1>6. CASE BuildNormalizer
    <2> DEFINE file == disk.permissions
    <2>1. /\ step = "normalizer" /\ file \in PermissionsFiles /\ file # None
          /\ Sound(LoadPermissions(file), AcceptedPermissions(file), Levels["normalizer"], FALSE)
      BY <1>6, PermissionsSound, StartupAssumption
      DEF BuildNormalizer, Load, Disk, Levels, StartupAssumption
    <2>2. PICK end \in LoadPermissions(file) :
             \/ /\ end = "ok" /\ step' = "client" /\ loaded' = [loaded EXCEPT !["normalizer"] = file]
                /\ UNCHANGED <<disk, edits, kind, env, client, error>>
             \/ end # "ok" /\ Fail(end)
      BY <1>6 DEF BuildNormalizer, Load
    <2>3. CASE end = "ok"
      <3>1. AcceptedPermissions(file)
        BY <2>1, <2>2, <2>3 DEF Sound
      <3>2. /\ step' = "client" /\ loaded' = [loaded EXCEPT !["normalizer"] = file]
            /\ UNCHANGED <<disk, edits, kind, env, client, error>>
        BY <2>2, <2>3
      <3> HIDE DEF file
      <3> QED BY <2>1, <3>1, <3>2 DEF Vetted, Progress, Before, Pieces, Steps, RefusalsHaveCauses
    <2>4. CASE end # "ok"
      <3>1. Acceptable["normalizer"] = AcceptedPermissions(file)
        BY DEF Acceptable
      <3>2. (FALSE) =>
               "normalizer" = "thresholds" /\ \E b \in Bounds : disk.thresholds.values[b] = "boolean"
        OBVIOUS
      <3>3. "normalizer" \in Pieces
        BY DEF Pieces
      <3> HIDE DEF file
      <3> QED BY <2>1, <2>2, <2>4, <3>1, <3>2, <3>3, LoadFails
    <2> QED BY <2>3, <2>4
  <1>7. CASE ReadScenarios
    <2> DEFINE file == disk.scenarios
    <2>1. /\ step = "scenarios" /\ file \in ScenarioDirs /\ file # None
          /\ Sound(LoadAllScenarios(file), AcceptedScenarios(file), Levels["scenarios"], FALSE)
      BY <1>7, ScenariosSound, StartupAssumption
      DEF ReadScenarios, Load, Disk, Levels, StartupAssumption
    <2>2. PICK end \in LoadAllScenarios(file) :
             \/ /\ end = "ok" /\ step' = "evaluating" /\ loaded' = [loaded EXCEPT !["scenarios"] = file]
                /\ UNCHANGED <<disk, edits, kind, env, client, error>>
             \/ end # "ok" /\ Fail(end)
      BY <1>7 DEF ReadScenarios, Load
    <2>3. CASE end = "ok"
      <3>1. AcceptedScenarios(file)
        BY <2>1, <2>2, <2>3 DEF Sound
      <3>2. /\ step' = "evaluating" /\ loaded' = [loaded EXCEPT !["scenarios"] = file]
            /\ UNCHANGED <<disk, edits, kind, env, client, error>>
        BY <2>2, <2>3
      <3> HIDE DEF file
      <3> QED BY <2>1, <3>1, <3>2 DEF Vetted, Progress, Before, Pieces, Steps, RefusalsHaveCauses
    <2>4. CASE end # "ok"
      <3>1. Acceptable["scenarios"] = AcceptedScenarios(file)
        BY DEF Acceptable
      <3>2. (FALSE) =>
               "scenarios" = "thresholds" /\ \E b \in Bounds : disk.thresholds.values[b] = "boolean"
        OBVIOUS
      <3>3. "scenarios" \in Pieces
        BY DEF Pieces
      <3> HIDE DEF file
      <3> QED BY <2>1, <2>2, <2>4, <3>1, <3>2, <3>3, LoadFails
    <2> QED BY <2>3, <2>4
  <1>8. CASE BuildChatClient
    <2>1. CASE Configured(WithDotenv(env))
      <3>1. /\ step = "client" /\ step' = "scenarios" /\ client' = WithDotenv(env)
            /\ UNCHANGED <<disk, edits, kind, env, loaded, error>>
        BY <1>8, <2>1 DEF BuildChatClient
      <3>2. WithDotenv(env) \in Environ
        BY DEF WithDotenv, Environ
      <3>3. Configured(client)'
        BY <2>1, <3>1 DEF Configured
      <3> QED BY <3>1, <3>2, <3>3, StartupAssumption
          DEF Vetted, Progress, Before, Steps, Pieces, RefusalsHaveCauses, StartupAssumption
    <2>2. CASE ~Configured(WithDotenv(env))
      <3>1. Fail("ProviderConfigError") /\ step = "client"
        BY <1>8, <2>2 DEF BuildChatClient
      <3>2. "ProviderConfigError" \in Errors /\ "client" \notin Pieces
        BY DEF Errors, Pieces
      <3> QED BY <2>2, <3>1, <3>2, FailStep
    <2> QED BY <2>1, <2>2
  <1>9. CASE EditFile
    <2>1. /\ edits < MaxEdits /\ edits' = edits + 1 /\ step \notin {"evaluating", "failed"}
          /\ UNCHANGED <<kind, env, step, loaded, client, error>>
      BY <1>9 DEF EditFile
    <2>2. disk' \in Disk
      BY <1>9 DEF EditFile, Disk, Contents
    <2>3. edits' \in 0..MaxEdits
      BY <2>1, StartupAssumption DEF StartupAssumption
    <2> QED BY <2>1, <2>2, <2>3 DEF Vetted, Progress, RefusalsHaveCauses
  <1>10. CASE UNCHANGED vars
    <2>1. Acceptable' = Acceptable /\ Levels' = Levels
      BY <1>10 DEF vars, Acceptable, Levels
    <2>2. Configured(WithDotenv(env))' = Configured(WithDotenv(env))
      BY <1>10 DEF vars, Configured, WithDotenv
    <2> QED BY <1>10, <2>1, <2>2 DEF vars, Vetted, Progress, RefusalsHaveCauses
  <1> QED BY <1>1, <1>2, <1>3, <1>4, <1>5, <1>6, <1>7, <1>8, <1>9, <1>10 DEF Next

LEMMA StartupInductive == Spec => []StartupInv
  <1>1. Init => StartupInv
    BY StartupAssumption
    DEF Init, StartupInv, StartupTypeOK, Vetted, Progress, Before, RefusalsHaveCauses, Pieces, Steps,
        StartupAssumption
  <1>2. StartupInv /\ [Next]_vars => StartupInv'
    BY StartupStep
  <1> QED BY <1>1, <1>2, PTL DEF Spec

\* Type correctness (Startup!StartupTypeOK).
THEOREM StartupTypeCorrect == Spec => []StartupTypeOK
  BY StartupInductive, PTL DEF StartupInv

\* The client exists only once every policy file was accepted and its provider
\* is configured, and an evaluation has it (Startup!RunsOnVettedConfig).
THEOREM EvaluationsRunOnVettedConfig == Spec => []RunsOnVettedConfig
  <1>1. StartupInv => RunsOnVettedConfig
    BY DEF StartupInv, StartupTypeOK, Vetted, Progress, RunsOnVettedConfig, Pieces, Configured
  <1> QED BY <1>1, StartupInductive, PTL

\* No accepted file is refused, and the undocumented errors have the causes
\* named (Startup!RefusalsHaveCauses).
THEOREM RefusalsAlwaysHaveCauses == Spec => []RefusalsHaveCauses
  BY StartupInductive, PTL DEF StartupInv
-----------------------------------------------------------------------------
\* The files are few, and so are the stale ones.
LEMMA StaleFilesFinite == IsFiniteSet(StaleFiles) /\ Cardinality(StaleFiles) \in Nat
  <1> DEFINE all == {"thresholds", "permissions", "allowlist", "policies", "scenarios"}
  <1>1. IsFiniteSet(all)
    <2>1. all = {} \cup {"thresholds"} \cup {"permissions"} \cup {"allowlist"}
                \cup {"policies"} \cup {"scenarios"}
      OBVIOUS
    <2>2. \A S, x : IsFiniteSet(S) => IsFiniteSet(S \cup {x})
      BY FS_AddElement
    <2> HIDE DEF all
    <2> QED BY <2>1, <2>2, FS_EmptySet
  <1>2. StaleFiles \subseteq all
    BY DEF StaleFiles, Contents
  <1> HIDE DEF all
  <1> QED BY <1>1, <1>2, FS_Subset, FS_CardinalityType

\* A loader takes what is on disk, an edit makes stale what it touches, and
\* nothing else changes what is on disk or what was loaded.
LEMMA StalenessSpreads ==
    ASSUME StartupTypeOK, [Next]_vars
    PROVE  \/ edits' = edits /\ StaleFiles' \subseteq StaleFiles
           \/ edits' = edits + 1 /\ \E f : StaleFiles' \subseteq StaleFiles \cup {f}
  <1>1. ASSUME UNCHANGED <<disk, edits, loaded>>
        PROVE  edits' = edits /\ StaleFiles' \subseteq StaleFiles
    BY <1>1 DEF StaleFiles
  <1>2. ASSUME NEW what, Fail(what)
        PROVE  edits' = edits /\ StaleFiles' \subseteq StaleFiles
    BY <1>1, <1>2 DEF Fail
  <1>3. ASSUME NEW piece \in Pieces, NEW ends, NEW next,
               Load(piece, disk[FileOf[piece]], ends, next)
        PROVE  edits' = edits /\ StaleFiles' \subseteq StaleFiles
    <2>1. CASE loaded' = [loaded EXCEPT ![piece] = disk[FileOf[piece]]] /\ UNCHANGED <<disk, edits>>
      <3>1. \A p \in Pieces : loaded'[p] = IF p = piece THEN disk[FileOf[p]] ELSE loaded[p]
        BY <2>1 DEF StartupTypeOK
      <3>2. ASSUME NEW f \in StaleFiles' PROVE f \in StaleFiles
        <4>1. f \in DOMAIN Contents /\ \E p \in Pieces : FileOf[p] = f /\ loaded'[p] \notin {None, disk[f]}
          BY <2>1, <3>2 DEF StaleFiles
        <4> QED BY <3>1, <4>1 DEF StaleFiles
      <3> QED BY <2>1, <3>2
    <2>2. CASE \E end \in ends : Fail(end)
      BY <1>2, <2>2
    <2> QED BY <1>3, <2>1, <2>2 DEF Load
  <1>4. ASSUME EditFile
        PROVE  edits' = edits + 1 /\ \E f : StaleFiles' \subseteq StaleFiles \cup {f}
    <2>1. PICK f \in DOMAIN Contents : \E content : disk' = [disk EXCEPT ![f] = content]
      BY <1>4 DEF EditFile
    <2>2. edits' = edits + 1 /\ loaded' = loaded
      BY <1>4 DEF EditFile
    <2>3. \A g \in DOMAIN Contents : g # f => disk'[g] = disk[g]
      BY <2>1 DEF StartupTypeOK, Disk, Contents
    <2>4. StaleFiles' \subseteq StaleFiles \cup {f}
      BY <2>2, <2>3 DEF StaleFiles
    <2> QED BY <2>2, <2>4
  <1>5. CASE ParseArguments \/ BuildChatClient
    BY <1>1, <1>2, <1>5 DEF ParseArguments, BuildChatClient
  <1>6. CASE BuildThresholds
    BY <1>3, <1>6 DEF BuildThresholds, FileOf, Pieces
  <1>7. CASE BuildAuthority \/ BuildNormalizer
    BY <1>3, <1>7 DEF BuildAuthority, BuildNormalizer, FileOf, Pieces
  <1>8. CASE BuildRepository
    BY <1>3, <1>8 DEF BuildRepository, FileOf, Pieces
  <1>9. CASE BuildAllowlist
    BY <1>3, <1>9 DEF BuildAllowlist, FileOf, Pieces
  <1>10. CASE ReadScenarios
    BY <1>3, <1>10 DEF ReadScenarios, FileOf, Pieces
  <1>11. CASE UNCHANGED vars
    BY <1>1, <1>11 DEF vars
  <1> QED BY <1>4, <1>5, <1>6, <1>7, <1>8, <1>9, <1>10, <1>11 DEF Next

\* What was loaded is what is on disk, but for the files edited meanwhile: the
\* two readings of permissions.yaml agree unless somebody edited it in between
\* (fnol_agent.py, __init__, under runner.py, _build_fnol_agent).
THEOREM OnlyEditsMakeStale == Spec => []StalenessNeedsEdits
  <1>1. Init => StalenessNeedsEdits
    <2> SUFFICES ASSUME Init PROVE StalenessNeedsEdits
      OBVIOUS
    <2>1. StaleFiles = {}
      BY DEF Init, StaleFiles
    <2> QED BY <2>1, FS_EmptySet DEF Init, StalenessNeedsEdits
  <1>2. StartupTypeOK /\ StalenessNeedsEdits /\ [Next]_vars => StalenessNeedsEdits'
    <2> SUFFICES ASSUME StartupTypeOK, StalenessNeedsEdits, [Next]_vars
                 PROVE  StalenessNeedsEdits'
      OBVIOUS
    <2>1. edits \in Nat /\ Cardinality(StaleFiles) <= edits
      BY StartupAssumption DEF StartupTypeOK, StalenessNeedsEdits, StartupAssumption
    <2>2. IsFiniteSet(StaleFiles) /\ Cardinality(StaleFiles) \in Nat
      BY StaleFilesFinite
    <2>3. CASE edits' = edits /\ StaleFiles' \subseteq StaleFiles
      <3>1. Cardinality(StaleFiles') <= Cardinality(StaleFiles) /\ Cardinality(StaleFiles') \in Nat
        BY <2>2, <2>3, FS_Subset, FS_CardinalityType
      <3> QED BY <2>1, <2>2, <2>3, <3>1 DEF StalenessNeedsEdits
    <2>4. ASSUME edits' = edits + 1, NEW f, StaleFiles' \subseteq StaleFiles \cup {f}
          PROVE  StalenessNeedsEdits'
      <3>1. /\ IsFiniteSet(StaleFiles \cup {f})
            /\ Cardinality(StaleFiles \cup {f}) <= Cardinality(StaleFiles) + 1
            /\ Cardinality(StaleFiles \cup {f}) \in Nat
        BY <2>2, FS_AddElement, FS_CardinalityType
      <3>2. /\ Cardinality(StaleFiles') <= Cardinality(StaleFiles \cup {f})
            /\ Cardinality(StaleFiles') \in Nat
        BY <2>4, <3>1, FS_Subset, FS_CardinalityType
      <3> QED BY <2>1, <2>2, <2>4, <3>1, <3>2 DEF StalenessNeedsEdits
    <2> QED BY <2>3, <2>4, StalenessSpreads
  <1> QED BY <1>1, <1>2, StartupTypeCorrect, PTL DEF Spec
=============================================================================
