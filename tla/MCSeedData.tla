----------------------------- MODULE MCSeedData ----------------------------
(* Two policies, the first and the last of the days a date may be drawn    *)
(* from, both ends of every amount range and the shipped thresholds.  A    *)
(* model proposes nothing, a cent or more than any claim is worth.         *)
EXTENDS ShippedScenarios

MCOffsets    == {0, 365, 547}
MCCents      == {Money(units) : units \in {100, 450, 800, 2000, 4000, 4500, 8000, 20000}}
MCThresholds == [green |-> Money(500), yellow |-> Money(5000), red |-> Money(25000)]
MCAmounts    == {0, 1, Money(70000)}
=============================================================================
