-------------------------- MODULE PolicyRepository -------------------------
(***************************************************************************)
(* MockDataPolicyRepository and the two lookup tools over it: the loops    *)
(* that build its two indexes from the policy file, one policy per step,   *)
(* and the questions the tools put to it afterwards.  A policy object is   *)
(* its place in the file.  Nothing makes policy numbers unique: a schema   *)
(* check looks at one record at a time.                                    *)
(***************************************************************************)
EXTENDS Integers, Sequences

CONSTANTS None,
          Numbers,  \* policy numbers
          Names,    \* spellings of names, by policyholders and in questions
          Lowered,  \* str.lower of each spelling
          Files,    \* what load_policies may return
          NotAsked  \* there is no answer yet

\* The result of a tool call and the argument of the call; "found" and "count"
\* are whether and how many policies there are.
Answers == [by : {"number"}, asked : Numbers, places : Seq(Nat)]
             \cup [by : {"claimant"}, asked : Names, places : Seq(Nat)]

Keys == {Lowered[name] : name \in Names}

RepositoryAssumption == /\ Files \subseteq Seq([number : Numbers, name : Names])
                        /\ DOMAIN Lowered = Names
                        /\ None \notin Int
                        /\ NotAsked \notin Answers
ASSUME RepositoryAssumption

VARIABLES
    policies,   \* the list load_policies returned
    loop,       \* the loop being run, or "done"
    added,      \* how many policies it has added
    byNumber,   \* self._by_number, None where there is no entry
    byClaimant, \* self._by_claimant, <<>> where there is no entry
    answer      \* what the last tool call returned
vars == <<policies, loop, added, byNumber, byClaimant, answer>>

RepositoryTypeOK == /\ policies \in Files
                    /\ loop \in {"numbers", "claimants", "done"}
                    /\ added \in 0..Len(policies)
                    /\ byNumber \in [Numbers -> DOMAIN policies \cup {None}]
                    /\ byClaimant \in [Keys -> Seq(DOMAIN policies)]
                    /\ answer \in Answers \cup {NotAsked}

Init == /\ policies \in Files
        /\ loop = "numbers" /\ added = 0
        /\ byNumber = [number \in Numbers |-> None]
        /\ byClaimant = [key \in Keys |-> <<>>]
        /\ answer = NotAsked
-----------------------------------------------------------------------------
\* The dictionary comprehension: a later policy replaces an earlier one.
Indexed(index, number, place) == [index EXCEPT ![number] = place]

\* Mutant: the entry is set instead of appended to.
ListedAlone(index, key, place) == [index EXCEPT ![key] = <<place>>]

\* Mutant: the policy after the one whose name was read is listed.
ListedNext(index, key, place) == [index EXCEPT ![key] = Append(@, place + 1)]

\* setdefault(key, []).append(policy)
Listed(index, key, place) == [index EXCEPT ![key] = Append(@, place)]

AddNumber == /\ loop = "numbers" /\ added < Len(policies)
             /\ byNumber' = Indexed(byNumber, policies[added + 1].number, added + 1)
             /\ added' = added + 1
             /\ UNCHANGED <<policies, loop, byClaimant, answer>>

NumbersDone == /\ loop = "numbers" /\ added = Len(policies)
               /\ loop' = "claimants" /\ added' = 0
               /\ UNCHANGED <<policies, byNumber, byClaimant, answer>>

AddClaimant == /\ loop = "claimants" /\ added < Len(policies)
               /\ byClaimant' = Listed(byClaimant, Lowered[policies[added + 1].name], added + 1)
               /\ added' = added + 1
               /\ UNCHANGED <<policies, loop, byNumber, answer>>

ClaimantsDone == /\ loop = "claimants" /\ added = Len(policies)
                 /\ loop' = "done"
                 /\ UNCHANGED <<policies, added, byNumber, byClaimant, answer>>
-----------------------------------------------------------------------------
GetByNumber(number) == byNumber[number]

\* Mutant: the name is looked up as it was asked for.
FindAsSpelled(name) == IF name \in Keys THEN byClaimant[name] ELSE <<>>

FindByClaimant(name) == IF Lowered[name] \in Keys THEN byClaimant[Lowered[name]] ELSE <<>>

PolicyLookupByNumber(number) ==
    /\ loop = "done"
    /\ answer' = [by |-> "number", asked |-> number,
                   places |-> IF GetByNumber(number) = None THEN <<>> ELSE <<GetByNumber(number)>>]
    /\ UNCHANGED <<policies, loop, added, byNumber, byClaimant>>

PolicyLookupByClaimant(name) ==
    /\ loop = "done"
    /\ answer' = [by |-> "claimant", asked |-> name, places |-> FindByClaimant(name)]
    /\ UNCHANGED <<policies, loop, added, byNumber, byClaimant>>

Next == \/ AddNumber \/ NumbersDone \/ AddClaimant \/ ClaimantsDone
        \/ \E number \in Numbers : PolicyLookupByNumber(number)
        \/ \E name \in Names : PolicyLookupByClaimant(name)

Spec == Init /\ [][Next]_vars
-----------------------------------------------------------------------------
\* Every tool answer is the one a scan of the policy file gives: by number
\* the last policy of that number, by name every policy of that name in any
\* case, in file order (policy_repository.py: "All matching policies, in
\* deterministic order").
Book == INSTANCE PolicyBook
ImplementsPolicyBook == Book!Spec

\* Once built, the two indexes speak of the same policies: what is found by
\* number is found under its holder's name, and a policy that is found by
\* name but not by its own number gave way to a later one of that number.
IndexesAgree ==
    loop = "done" =>
        /\ \A number \in Numbers : byNumber[number] # None =>
              LET holder == Lowered[policies[byNumber[number]].name]
              IN  \E i \in DOMAIN byClaimant[holder] : byClaimant[holder][i] = byNumber[number]
        /\ \A key \in Keys : \A i \in DOMAIN byClaimant[key] :
              LET found == byNumber[policies[byClaimant[key][i]].number]
              IN  found # None /\ byClaimant[key][i] <= found
=============================================================================
