---------------------------- MODULE MC_Checkout ----------------------------
(* Instances of Checkout for TLC. *)
EXTENDS Checkout, TLC

CONSTANTS c1, c2, c3, k1

ThreeCalls == {c1, c2, c3}
OneKey     == {k1}
Coupon     == [target |-> "bundle", coupon |-> TRUE]
Free       == [target |-> "free", coupon |-> FALSE]
TwoBodies  == {Coupon, Free}
SomeLimits == {0, 1}

CallSymmetry == Permutations(ThreeCalls)
=============================================================================
