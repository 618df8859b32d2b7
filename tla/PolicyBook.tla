----------------------------- MODULE PolicyBook ----------------------------
(***************************************************************************)
(* What the policy lookups promise: each question is answered as a scan of *)
(* the policy file would answer it.  A policy is its place in the file.    *)
(***************************************************************************)
EXTENDS Integers, Sequences

CONSTANTS Lowered, Files, NotAsked

VARIABLES policies, answer

\* The places, among the first n, with a number, and with a name in any case.
WithNumber(file, n, number) == {i \in 1..n : file[i].number = number}
WithName(file, n, key)      == {i \in 1..n : Lowered[file[i].name] = key}

InFileOrder(list) == \A i, j \in 1..Len(list) : i < j => list[i] < list[j]
PlacesIn(list)    == {list[i] : i \in 1..Len(list)}

\* Of policies that share a number the last one is found, if there is any.
AnswersNumber(list, number) ==
    LET places == WithNumber(policies, Len(policies), number)
    IN  IF places = {} THEN list = <<>>
        ELSE \E i \in places : list = <<i>> /\ \A j \in places : j <= i

\* Every policy of the name is found, once, in the order of the file.
AnswersName(list, name) ==
    InFileOrder(list) /\ PlacesIn(list) = WithName(policies, Len(policies), Lowered[name])
-----------------------------------------------------------------------------
Init == policies \in Files /\ answer = NotAsked

Ask == /\ answer' # NotAsked
       /\ \/ answer'.by = "number" /\ AnswersNumber(answer'.places, answer'.asked)
          \/ answer'.by = "claimant" /\ AnswersName(answer'.places, answer'.asked)
       /\ UNCHANGED policies

Spec == Init /\ [][Ask]_<<policies, answer>>
=============================================================================
