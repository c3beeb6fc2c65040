-------------------------- MODULE MC_OrderPayments --------------------------
(* Instances of OrderPayments for TLC. *)
EXTENDS OrderPayments, TLC

CONSTANTS e1, e2, n1, k1, k2, d1, d2, r1, a1, m1

None         == {}
OneEvent     == {e1}
TwoEvents    == {e1, e2}
OtherEvents  == {n1}
TwoCourses   == {k1, k2}
TwoRequests  == {d1, d2}
Reader       == {r1}
Admin        == {a1}
Mentor       == {m1}
AllOrNothing == {TwoCourses, {}}

Anyone       == TwoRequests \cup Reader \cup Admin \cup Mentor \cup {FulfilJob}
RequestsOnly == TwoRequests

OrderSymmetry == Permutations(TwoEvents) \cup Permutations(TwoCourses) \cup Permutations(TwoRequests)
=============================================================================
