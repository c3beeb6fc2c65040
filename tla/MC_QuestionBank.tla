-------------------------- MODULE MC_QuestionBank --------------------------
(* Instances of QuestionBank for TLC. *)
EXTENDS QuestionBank, QuestionCsv, TLC

CONSTANTS c1, c2, c3, t1, t2, tps, algebra

ThreeCalls == {c1, c2, c3}
TwoTexts   == {t1, t2}

\* Question 2 has the category and the tag.
KeysOfEach == 1 :> {tps} @@ 2 :> {tps, algebra} @@ 3 :> {tps} @@ 4 :> {algebra}
OneTag     == {algebra}
OneOfEach  == tps :> 1 @@ algebra :> 1

Row(s, h, t) == [state |-> s, hash |-> h, at |-> t, tagged |-> s = "active"]

\* Rows of one import, rows that share a millisecond, rows that do not, and none.
SomeBanks ==
  { 1 :> Row("active", NoHash, 0) @@ 2 :> Row("active", t1, 2)
      @@ 3 :> Row("deleted", t2, 3) @@ 4 :> Row("absent", NoHash, 0),
    1 :> Row("active", t1, 4) @@ 2 :> Row("active", NoHash, 2)
      @@ 3 :> Row("active", t2, 0) @@ 4 :> Row("absent", NoHash, 0),
    [q \in 1..4 |-> Row("absent", NoHash, 0)] }

CallSymmetry == Permutations(ThreeCalls)
=============================================================================
