------------------------- MODULE MC_VersionedCache -------------------------
(* Instances of VersionedCache for TLC. *)
EXTENDS VersionedCache, Listings, TLC

CONSTANTS r1, r2, w1, w2

TwoReaders == {r1, r2}
TwoWriters == {w1, w2}
OneDouble  == {w2}
=============================================================================
