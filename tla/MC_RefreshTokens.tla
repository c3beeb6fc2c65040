-------------------------- MODULE MC_RefreshTokens --------------------------
(* Instances of RefreshTokens for TLC. *)
EXTENDS RefreshTokens, TLC

CONSTANTS t1, t2, t3, f1, f2, r1, r2, r3

MCTokens   == {t1, t2, t3}
MCFamilies == {f1, f2}
MCRequests == {r1, r2, r3}

TokenSymmetry == Permutations(MCTokens) \cup Permutations(MCFamilies) \cup Permutations(MCRequests)
=============================================================================
