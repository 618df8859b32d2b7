---------------------------- MODULE ConfigFiles ----------------------------
(***************************************************************************)
(* The files a process starts from, and what each loader makes of one: the *)
(* set of ways it may end, "ok" or the exception it raises.  The checks    *)
(* come in stages, and the first stage that fails decides; the members of  *)
(* one stage are checked in the iteration order of a set of strings, which *)
(* differs from one process to the next, so any failing one may be met.    *)
(***************************************************************************)
EXTENDS Integers, Sequences

Tier   == {"green", "yellow", "red", "black"}
Bounds == {"green_max_damage", "yellow_max_damage", "red_max_damage"}

\* A level of a YAML document: is it a mapping, does it miss a required key,
\* and which kind of key does it have that is not allowed there.  A YAML key
\* need not be a text: 1, yes and null are keys.
Level == [shape      : {"mapping", "other"},
          missing    : BOOLEAN,
          unexpected : {"none", "text", "nontext"}]

\* A file as reading and parsing find it.
Readability == {"absent", "locked", "undecodable", "malformed", "parsed"}

\* "valid" stands for the schema of the parsed content: for thresholds, that
\* they are positive and strictly ascend.  "version" tells apart contents
\* that differ in nothing the loader looks at.
ThresholdsFile  == [read : Readability, top : Level,
                    values : [Bounds -> {"number", "boolean", "other"}], valid : BOOLEAN]
PermissionsFile == [read : Readability, top : Level, authority : Level, tiers : [Tier -> Level],
                    normalizer : Level, valid : BOOLEAN, version : Nat]
AllowlistFile   == [read : Readability, top : Level, denies : BOOLEAN, tools : {"mapping", "other"},
                    entries : Seq([entry : Level, rules : Level]), valid : BOOLEAN]
PoliciesFile    == [read : Readability, list : BOOLEAN, valid : BOOLEAN]
ScenarioFile    == [read : Readability, mapping : BOOLEAN, valid : BOOLEAN]
-----------------------------------------------------------------------------
\* Mutant: a key that is not allowed is reported before one that is missing.
CheckUnexpectedFirst(level) ==
    IF level.unexpected = "nontext" THEN "TypeError"
    ELSE IF level.unexpected = "text" \/ level.missing THEN "ConfigError" ELSE "ok"

\* _check_keys: the keys of the report are sorted and joined, which only
\* texts can be.
CheckKeys(level) ==
    IF level.missing THEN "ConfigError"
    ELSE IF level.unexpected = "nontext" THEN "TypeError"
    ELSE IF level.unexpected = "text" THEN "ConfigError" ELSE "ok"

Require(condition) == IF condition THEN "ok" ELSE "ConfigError"

CheckLevel(level) == IF level.shape = "other" THEN "ConfigError" ELSE CheckKeys(level)

\* is_file, read_text and the parser.  read_text's own errors pass through.
Read(file) == CASE file.read = "absent"      -> "FileNotFoundError"
                [] file.read = "locked"      -> "PermissionError"
                [] file.read = "undecodable" -> "UnicodeDecodeError"
                [] file.read = "malformed"   -> "ConfigError"
                [] OTHER                     -> "ok"

\* How a sequence of stages may end: well, or as a member of the first stage
\* that fails does.
Ends(stages) ==
    IF \A i \in DOMAIN stages : stages[i] = {"ok"} THEN {"ok"}
    ELSE UNION {stages[i] \ {"ok"} : i \in
                   {i \in DOMAIN stages : \A j \in DOMAIN stages : j < i => stages[j] = {"ok"}}}
-----------------------------------------------------------------------------
\* Decimal(str(value)): True is an int to isinstance and no number to Decimal.
CheckBound(value) == IF value = "boolean" THEN "InvalidOperation" ELSE Require(value = "number")

LoadThresholds(file) ==
    Ends(<<{Read(file)},
           {CheckLevel(file.top)},
           {CheckBound(file.values[b]) : b \in Bounds},
           {Require(file.valid)}>>)

\* Mutant: the tiers are left to the schema, which ignores unexpected keys.
LoadPermissionsTopOnly(file) ==
    Ends(<<{Read(file)},
           {CheckLevel(file.top)},
           {CheckLevel(file.authority)},
           {CheckLevel(file.normalizer)},
           {Require(file.valid)}>>)

LoadPermissions(file) ==
    Ends(<<{Read(file)},
           {CheckLevel(file.top)},
           {CheckLevel(file.authority)},
           {CheckLevel(file.tiers[t]) : t \in Tier},
           {CheckLevel(file.normalizer)},
           {Require(file.valid)}>>)

CheckTool(tool) ==
    IF CheckLevel(tool.entry) # "ok" THEN CheckLevel(tool.entry) ELSE CheckLevel(tool.rules)

\* The tools are checked in the order of the file.
LoadToolAllowlist(file) ==
    Ends(<<{Read(file)},
           {CheckLevel(file.top)},
           {Require(file.denies)},
           {Require(file.tools = "mapping")}>>
         \o [i \in DOMAIN file.entries |-> {CheckTool(file.entries[i])}]
         \o <<{Require(file.valid)}>>)

\* load_policies: whatever is wrong with the JSON is a ValueError, pydantic's
\* ValidationError and a UnicodeDecodeError among them.
LoadPolicies(file) ==
    Ends(<<{IF file.read = "malformed" THEN "ValueError" ELSE Read(file)},
           {IF file.list THEN "ok" ELSE "ValueError"},
           {IF file.valid THEN "ok" ELSE "ValidationError"}>>)

\* load_scenario: here a file that cannot be opened is the loader's own error.
LoadScenario(file) ==
    IF file.read \in {"absent", "locked"} THEN "ConfigError"
    ELSE IF Read(file) # "ok" THEN Read(file) ELSE Require(file.mapping /\ file.valid)

\* load_all_scenarios: the first file that fails ends it.
LoadAllScenarios(files) == Ends([i \in DOMAIN files |-> {LoadScenario(files[i])}])
-----------------------------------------------------------------------------
\* What the documentation promises to accept: "every YAML level is validated
\* for BOTH missing required keys AND unexpected keys".
Exact(level) == level = [shape |-> "mapping", missing |-> FALSE, unexpected |-> "none"]

AcceptedThresholds(file) ==
    /\ file.read = "parsed" /\ Exact(file.top) /\ file.valid
    /\ \A b \in Bounds : file.values[b] = "number"

AcceptedPermissions(file) ==
    /\ file.read = "parsed" /\ file.valid
    /\ Exact(file.top) /\ Exact(file.authority) /\ Exact(file.normalizer)
    /\ \A t \in Tier : Exact(file.tiers[t])

AcceptedAllowlist(file) ==
    /\ file.read = "parsed" /\ file.valid /\ Exact(file.top)
    /\ file.denies /\ file.tools = "mapping"
    /\ \A i \in DOMAIN file.entries : Exact(file.entries[i].entry) /\ Exact(file.entries[i].rules)

AcceptedPolicies(file) == file.read = "parsed" /\ file.list /\ file.valid

AcceptedScenarios(files) == \A i \in DOMAIN files :
    files[i].read = "parsed" /\ files[i].mapping /\ files[i].valid
=============================================================================
