--------------------------- MODULE MC_ExamSession ---------------------------
(* Instances of ExamSession for TLC. *)
EXTENDS ExamSession, Results, TLC

CONSTANTS q1, q2, c1, c2

MCQuestions  == {q1, q2}
MCOneQuestion == {q1}
MCOneClient  == {c1}
MCTwoClients == {c1, c2}

\* What the next steps and the properties depend on: not is_flagged, which is only
\* shown, nor whether a listener has heard of the grading.
Unflagged == <<row, answers, marks, late, queue, local, lateWrite, faults, drops>>

SessionSymmetry == Permutations(MCQuestions) \cup Permutations(MCTwoClients)
=============================================================================
