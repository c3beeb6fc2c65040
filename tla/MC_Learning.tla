---------------------------- MODULE MC_Learning ----------------------------
(* Instances of Learning for TLC. *)
EXTENDS Learning, TLC

CONSTANTS c1, c2, c3, kFree, kPaid, l1, l2, bronze, silver

ThreeCalls   == {c1, c2, c3}
TwoCourses   == {kFree, kPaid}
PaidCourse   == {kPaid}
CourseOfEach == l1 :> kPaid @@ l2 :> kPaid
VideoLesson  == {l2}
FreeLesson   == {l1}
SomeAwards   == {10}
Thresholds   == bronze :> 10 @@ silver :> 20

CallSymmetry == Permutations(ThreeCalls)
=============================================================================
