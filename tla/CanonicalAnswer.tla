-------------------------- MODULE CanonicalAnswer --------------------------
(***************************************************************************)
(* What the normalizer promises: each text it is given is answered once,   *)
(* with its canonical form, with None when it holds no JSON object, or with *)
(* the exception of json.loads.  With chained aliases nothing is promised  *)
(* of the form.                                                            *)
(***************************************************************************)
EXTENDS ModelAnswer

CONSTANTS Configs, Texts, Pending, Raised

VARIABLES config, text, outcome
vars == <<config, text, outcome>>

Init == config \in Configs /\ text = None /\ outcome = None

Ask == /\ outcome # Pending
       /\ text' \in Texts
       /\ outcome' = Pending
       /\ UNCHANGED config

Promised == IF LoadsRaises(text) THEN {Raised}
            ELSE IF ~Parsable(text) THEN {None}
            ELSE IF ChainFree(config) THEN {Canonical(config, text)} ELSE Fields

Answer == /\ outcome = Pending
          /\ outcome' \in Promised
          /\ UNCHANGED <<config, text>>

Next == Ask \/ Answer

Spec == Init /\ [][Next]_vars
=============================================================================
