----------------------------- MODULE MCStartup -----------------------------
(* For each file the shipped content and one content for each way it can   *)
(* fail, alone or two at a time; the shipped .env.example and its edges.   *)
EXTENDS Startup

Good        == [shape |-> "mapping", missing |-> FALSE, unexpected |-> "none"]
NoMapping   == [Good EXCEPT !.shape = "other"]
Typo        == [Good EXCEPT !.missing = TRUE, !.unexpected = "text"]
Extra       == [Good EXCEPT !.unexpected = "text"]
NonText     == [Good EXCEPT !.unexpected = "nontext"]
NonTextTypo == [NonText EXCEPT !.missing = TRUE]

Thresholds == [read |-> "parsed", top |-> Good, values |-> [b \in Bounds |-> "number"], valid |-> TRUE]
MCThresholdsFiles ==
    {Thresholds}
    \cup {[Thresholds EXCEPT !.read = r] : r \in {"absent", "undecodable"}}
    \cup {[Thresholds EXCEPT !.top = l] : l \in {NonText, NonTextTypo}}
    \cup {[Thresholds EXCEPT !.valid = FALSE],
          [Thresholds EXCEPT !.values["green_max_damage"] = "boolean",
                             !.values["red_max_damage"] = "other"]}

Permissions == [read |-> "parsed", top |-> Good, authority |-> Good, tiers |-> [t \in Tier |-> Good],
                normalizer |-> Good, valid |-> TRUE, version |-> 1]
MCPermissionsFiles ==
    {Permissions, [Permissions EXCEPT !.version = 2], [Permissions EXCEPT !.read = "malformed"],
     [Permissions EXCEPT !.authority = NonText], [Permissions EXCEPT !.normalizer = Extra],
     [Permissions EXCEPT !.tiers["red"] = Typo, !.tiers["black"] = NonText],
     [Permissions EXCEPT !.tiers["green"] = Extra]}

Tool(entry, rules) == [entry |-> entry, rules |-> rules]
Allowlist == [read |-> "parsed", top |-> Good, denies |-> TRUE, tools |-> "mapping",
              entries |-> <<Tool(Good, Good), Tool(Good, Good)>>, valid |-> TRUE]
MCAllowlistFiles ==
    {Allowlist, [Allowlist EXCEPT !.denies = FALSE],
     [Allowlist EXCEPT !.entries = <<Tool(Good, Good), Tool(NonText, Extra)>>],
     [Allowlist EXCEPT !.entries = <<Tool(Good, Extra), Tool(NonText, Good)>>],
     [Allowlist EXCEPT !.entries = <<>>]}

Policies == [read |-> "parsed", list |-> TRUE, valid |-> TRUE]
MCPoliciesFiles == {Policies, [Policies EXCEPT !.read = "malformed"]}

Scenario == [read |-> "parsed", mapping |-> TRUE, valid |-> TRUE]
MCScenarioDirs == {<<>>, <<Scenario, [Scenario EXCEPT !.read = "locked"]>>, <<Scenario, Scenario>>}

Unset   == [provider |-> "unset", settings |-> [v \in Variables |-> "unset"]]
Example == [provider |-> "lmstudio",
            settings |-> [v \in Variables |-> IF v \in {"ANTHROPIC_API_KEY", "OPENAI_API_KEY"}
                                              THEN "blank" ELSE "set"]]
MCEnvironments ==
    {[process |-> p, dotenv |-> Example] :
        p \in {Unset, [Unset EXCEPT !.settings["LMSTUDIO_MODEL"] = "blank"],
               [Unset EXCEPT !.provider = "anthropic"],
               [Unset EXCEPT !.provider = "openai", !.settings["OPENAI_API_KEY"] = "set"]}}
    \cup {[process |-> [Unset EXCEPT !.provider = p], dotenv |-> Unset] : p \in {"blank", "unset"}}
=============================================================================
