------------------------------ MODULE MC_Chat ------------------------------
(* Instances of Chat for TLC. *)
EXTENDS Chat, TLC

CONSTANTS u1, u2, s1, s2, m1, m2, here

TwoUsers    == {u1, u2}
TwoSockets  == {s1, s2}
TwoMessages == {m1, m2}

Owners      == (s1 :> u1) @@ (s2 :> u2)
OneInstance == [s \in TwoSockets |-> here]
OneEach     == (m1 :> s1) @@ (m2 :> s2)
Second      == {s2}
=============================================================================
