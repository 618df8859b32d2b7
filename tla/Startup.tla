------------------------------ MODULE Startup ------------------------------
(***************************************************************************)
(* main of the evaluation runner, up to the first scenario: one process    *)
(* that reads its files one after another, while they may be edited, and   *)
(* builds the chat client from its environment last.  permissions.yaml is  *)
(* read twice, by main for the authority and by FnolAgent for the          *)
(* normalizer.                                                             *)
(***************************************************************************)
EXTENDS ConfigFiles, FiniteSets

CONSTANTS None,
          ThresholdsFiles, PermissionsFiles, AllowlistFiles, PoliciesFiles, \* what may be on disk
          ScenarioDirs,  \* the scenario files, in the order of their paths
          Environments,  \* the environments and .env files a process may start with
          MaxEdits       \* bound: edits of files while the process starts

Contents == [thresholds  |-> ThresholdsFiles,
             permissions |-> PermissionsFiles,
             allowlist   |-> AllowlistFiles,
             policies    |-> PoliciesFiles,
             scenarios   |-> ScenarioDirs]
Disk == [thresholds : ThresholdsFiles, permissions : PermissionsFiles, allowlist : AllowlistFiles,
         policies : PoliciesFiles, scenarios : ScenarioDirs]

Provider  == {"lmstudio", "anthropic", "openai"}
Setting   == {"unset", "blank", "set"}
Required  == [lmstudio  |-> {"LMSTUDIO_BASE_URL", "LMSTUDIO_MODEL"},
              anthropic |-> {"ANTHROPIC_API_KEY", "ANTHROPIC_MODEL"},
              openai    |-> {"OPENAI_API_KEY", "OPENAI_MODEL"}]
Variables == UNION {Required[p] : p \in Provider}
Environ   == [provider : Provider \cup {"unset", "blank", "other"},
              settings : [Variables -> Setting]]

\* The pieces in the order main builds them, the client but for the last.
Pieces == {"thresholds", "authority", "repository", "allowlist", "normalizer", "scenarios"}
Steps  == Pieces \cup {"arguments", "client", "evaluating", "failed"}

Errors == {"FileNotFoundError", "PermissionError", "UnicodeDecodeError", "ConfigError", "TypeError",
           "InvalidOperation", "ValueError", "ValidationError", "ProviderConfigError", "SystemExit"}
Failure == [at : Steps, kind : Errors]

StartupAssumption ==
    /\ ThresholdsFiles \subseteq ThresholdsFile /\ PermissionsFiles \subseteq PermissionsFile
    /\ AllowlistFiles \subseteq AllowlistFile /\ PoliciesFiles \subseteq PoliciesFile
    /\ ScenarioDirs \subseteq Seq(ScenarioFile)
    /\ Environments \subseteq [process : Environ, dotenv : Environ]
    /\ MaxEdits \in Nat
    /\ None \notin ThresholdsFiles /\ None \notin PermissionsFiles /\ None \notin AllowlistFiles
    /\ None \notin PoliciesFiles /\ None \notin ScenarioDirs /\ None \notin Environ
    /\ None \notin Failure
ASSUME StartupAssumption

VARIABLES
    disk,    \* the files, as they are now
    edits,   \* how often a file was edited
    kind,    \* sys.argv[1]
    env,     \* os.environ and the .env file
    step,    \* what main does next
    loaded,  \* the content each piece of the agent was built from
    client,  \* the environment the chat client was built from
    error    \* the exception that ended the process, and where
vars == <<disk, edits, kind, env, step, loaded, client, error>>

StartupTypeOK ==
    /\ disk \in Disk /\ edits \in 0..MaxEdits
    /\ kind \in {"null", "fnol", "other"} /\ env \in [process : Environ, dotenv : Environ]
    /\ step \in Steps
    /\ DOMAIN loaded = Pieces
    /\ loaded.thresholds \in ThresholdsFiles \cup {None}
    /\ loaded.authority \in PermissionsFiles \cup {None}
    /\ loaded.repository \in PoliciesFiles \cup {None}
    /\ loaded.allowlist \in AllowlistFiles \cup {None}
    /\ loaded.normalizer \in PermissionsFiles \cup {None}
    /\ loaded.scenarios \in ScenarioDirs \cup {None}
    /\ client \in Environ \cup {None}
    /\ error \in Failure \cup {None}
    /\ step = "failed" <=> error # None

Init == /\ disk \in Disk /\ edits = 0
        /\ kind \in {"null", "fnol", "other"}
        /\ env \in Environments
        /\ step = "arguments"
        /\ loaded = [p \in Pieces |-> None]
        /\ client = None
        /\ error = None
-----------------------------------------------------------------------------
\* Mutant: the process ends and says nothing.
FailQuietly(what) == /\ step' = "failed"
                     /\ UNCHANGED <<disk, edits, kind, env, loaded, client, error>>

\* The exception leaves main.
Fail(what) == /\ step' = "failed"
              /\ error' = [at |-> step, kind |-> what]
              /\ UNCHANGED <<disk, edits, kind, env, loaded, client>>

\* The null agent is built from nothing.
ParseArguments == /\ step = "arguments"
                  /\ \/ /\ kind = "null" /\ step' = "scenarios"
                        /\ UNCHANGED <<disk, edits, kind, env, loaded, client, error>>
                     \/ /\ kind = "fnol" /\ step' = "thresholds"
                        /\ UNCHANGED <<disk, edits, kind, env, loaded, client, error>>
                     \/ kind = "other" /\ Fail("SystemExit")

\* A loader reads its file once and checks what it has read.
Load(piece, file, ends, next) ==
    /\ step = piece
    /\ \E end \in ends :
        \/ /\ end = "ok"
           /\ loaded' = [loaded EXCEPT ![piece] = file]
           /\ step' = next
           /\ UNCHANGED <<disk, edits, kind, env, client, error>>
        \/ end # "ok" /\ Fail(end)

BuildThresholds == Load("thresholds", disk.thresholds, LoadThresholds(disk.thresholds), "authority")
BuildAuthority  == Load("authority", disk.permissions, LoadPermissions(disk.permissions), "repository")
BuildRepository == Load("repository", disk.policies, LoadPolicies(disk.policies), "allowlist")

BuildAllowlist  == Load("allowlist", disk.allowlist, LoadToolAllowlist(disk.allowlist), "normalizer")

\* Mutant: the normalizer's half is read from a copy of the file, say a packaged one.
BuildNormalizerFromCopy ==
    \E copy \in {file \in PermissionsFiles : AcceptedPermissions(file)} :
        Load("normalizer", copy, LoadPermissions(copy), "client")

BuildNormalizer == Load("normalizer", disk.permissions, LoadPermissions(disk.permissions), "client")
ReadScenarios   == Load("scenarios", disk.scenarios, LoadAllScenarios(disk.scenarios), "evaluating")

\* load_dotenv sets only what is not set: a blank in the environment stays.
WithDotenv(e) ==
    [provider |-> IF e.process.provider = "unset" THEN e.dotenv.provider ELSE e.process.provider,
     settings |-> [v \in Variables |-> IF e.process.settings[v] = "unset"
                                       THEN e.dotenv.settings[v] ELSE e.process.settings[v]]]

\* A provider that is not set is LM Studio.
ProviderOf(environ) == IF environ.provider = "unset" THEN "lmstudio" ELSE environ.provider

Configured(environ) ==
    /\ ProviderOf(environ) \in Provider
    /\ \A v \in Required[ProviderOf(environ)] : environ.settings[v] = "set"

BuildChatClient ==
    /\ step = "client"
    /\ \/ /\ Configured(WithDotenv(env))
          /\ client' = WithDotenv(env)
          /\ step' = "scenarios"
          /\ UNCHANGED <<disk, edits, kind, env, loaded, error>>
       \/ ~Configured(WithDotenv(env)) /\ Fail("ProviderConfigError")

\* Somebody edits a file.  What is not read any more is not edited.
EditFile == /\ edits < MaxEdits /\ step \notin {"evaluating", "failed"}
            /\ edits' = edits + 1
            /\ \E f \in DOMAIN Contents : \E content \in Contents[f] :
                   disk' = [disk EXCEPT ![f] = content]
            /\ UNCHANGED <<kind, env, step, loaded, client, error>>

Next == \/ ParseArguments
        \/ BuildThresholds \/ BuildAuthority \/ BuildRepository \/ BuildAllowlist \/ BuildNormalizer
        \/ BuildChatClient \/ ReadScenarios
        \/ EditFile

Spec == Init /\ [][Next]_vars
-----------------------------------------------------------------------------
\* The chat client, the one piece that can reach the network, exists only once
\* every policy file has been accepted at every level and every setting of its
\* provider has a value, whatever was edited in between, and from there on only
\* the scenarios can end the process: no misspelt policy key goes undetected
\* until a live run (permissions_loader.py, "Key design discipline").  An
\* evaluation has such a client, or is the null agent's.
RunsOnVettedConfig ==
    /\ client # None =>
          /\ AcceptedThresholds(loaded.thresholds)
          /\ AcceptedPermissions(loaded.authority) /\ AcceptedPermissions(loaded.normalizer)
          /\ AcceptedPolicies(loaded.repository) /\ AcceptedAllowlist(loaded.allowlist)
          /\ ProviderOf(client) \in Provider
          /\ \A v \in Required[ProviderOf(client)] : client.settings[v] = "set"
          /\ error # None => error.at = "scenarios"
    /\ step = "evaluating" => /\ AcceptedScenarios(loaded.scenarios)
                              /\ kind = "fnol" => client # None

\* The file each piece is read from.
FileOf == [thresholds |-> "thresholds", authority  |-> "permissions", repository |-> "policies",
           allowlist  |-> "allowlist",  normalizer |-> "permissions", scenarios  |-> "scenarios"]

\* The files of which some piece holds a content that is no longer there.
StaleFiles == {f \in DOMAIN Contents :
                 \E p \in Pieces : FileOf[p] = f /\ loaded[p] \notin {None, disk[f]}}

\* What a process runs on differs from what is on disk by no more files than
\* were edited while it started.  So the two halves of permissions.yaml, read
\* apart for the authority and for the normalizer, are of one content unless
\* somebody edited it in between, and an undisturbed start is one snapshot.
StalenessNeedsEdits == Cardinality(StaleFiles) <= edits

\* Would the documentation accept the file that builds a piece?
Acceptable == [thresholds |-> AcceptedThresholds(disk.thresholds),
               authority  |-> AcceptedPermissions(disk.permissions),
               repository |-> AcceptedPolicies(disk.policies),
               allowlist  |-> AcceptedAllowlist(disk.allowlist),
               normalizer |-> AcceptedPermissions(disk.permissions),
               scenarios  |-> AcceptedScenarios(disk.scenarios)]

\* The levels of the YAML files.
PermissionsLevels(file) == {file.top, file.authority, file.normalizer}
                           \cup {file.tiers[t] : t \in Tier}
AllowlistLevels(file)   == {file.top} \cup {file.entries[i].entry : i \in DOMAIN file.entries}
                           \cup {file.entries[i].rules : i \in DOMAIN file.entries}
Levels == [thresholds |-> {disk.thresholds.top},
           authority  |-> PermissionsLevels(disk.permissions),
           repository |-> {},
           allowlist  |-> AllowlistLevels(disk.allowlist),
           normalizer |-> PermissionsLevels(disk.permissions),
           scenarios  |-> {}]

\* A process that dies while it starts was given a file the documentation
\* does not accept, or an incomplete environment, and the errors that are
\* not the loader's own come from keys that are no text, at a level that
\* misses nothing, from a threshold that is a boolean, and from nothing else.
RefusalsHaveCauses ==
    error # None =>
        /\ error.at \in Pieces => ~Acceptable[error.at]
        /\ error.at = "client" => ~Configured(WithDotenv(env))
        /\ error.kind = "TypeError" =>
              /\ error.at \in Pieces
              /\ \E level \in Levels[error.at] : level.unexpected = "nontext" /\ ~level.missing
        /\ error.kind = "InvalidOperation" =>
              error.at = "thresholds" /\ \E b \in Bounds : disk.thresholds.values[b] = "boolean"
-----------------------------------------------------------------------------
\* What the documentation says and the code does not do.

\* The docstrings of the three loaders: FileNotFoundError, or the loader's
\* own error for YAML that is "malformed, missing required keys, contains
\* unexpected keys, or fails Pydantic validation".
LoadersRaiseWhatTheyDocument ==
    error # None /\ error.at \in {"thresholds", "authority", "normalizer", "allowlist"} =>
        error.kind \in {"FileNotFoundError", "ConfigError"}
=============================================================================
