------------------------------ MODULE ExamPaper ------------------------------
(***************************************************************************)
(* What an exam promises its student (docs/product/FEATURE-SPECS.md:392):  *)
(* the paper is handed out once and taken in once, and its result is that  *)
(* of the answers on it, published once and never revised.  The exception  *)
(* is a paper that somebody wrote on after it was taken in.                *)
(***************************************************************************)
CONSTANTS Questions, Options, NoSheet, NoVerdict,
          Score(_)    \* the result of a sheet of answers

VARIABLES phase,      \* "new", "open", or "closed" for good
          sheet,      \* the answers, NoSheet before it is handed out
          verdict,    \* the published result
          spoiled     \* somebody wrote on it while it was not open

paper == <<phase, sheet, verdict, spoiled>>

Sheets == [Questions -> Options \cup {"blank"}]

Init == /\ phase = "new"
        /\ sheet = NoSheet
        /\ verdict = NoVerdict
        /\ spoiled = FALSE

Open == /\ phase = "new"
        /\ phase' = "open"
        /\ UNCHANGED <<sheet, verdict, spoiled>>

Write(s) == /\ sheet' = s
            /\ spoiled' = (spoiled \/ phase # "open")
            /\ UNCHANGED <<phase, verdict>>

HandOut == /\ sheet = NoSheet
           /\ Write([q \in Questions |-> "blank"])

Answer(q, option) == /\ sheet # NoSheet
                     /\ Write([sheet EXCEPT ![q] = option])

Close == /\ phase = "open"
         /\ phase' = "closed"
         /\ UNCHANGED <<sheet, verdict, spoiled>>

Publish == /\ phase = "closed"
           /\ verdict = NoVerdict
           /\ ~spoiled
           /\ verdict' = Score(sheet)
           /\ UNCHANGED <<phase, sheet, spoiled>>

\* A spoiled paper may have been read at any time, and read again.
Revise == /\ phase = "closed"
          /\ spoiled
          /\ verdict' # verdict
          /\ \E s \in Sheets \cup {NoSheet} : verdict' = Score(s)
          /\ UNCHANGED <<phase, sheet, spoiled>>

Next == \/ Open \/ HandOut \/ Close \/ Publish \/ Revise
        \/ \E q \in Questions, option \in Options : Answer(q, option)

Spec == Init /\ [][Next]_paper
=============================================================================
