--------------------------- MODULE QuestionBank ----------------------------
(***************************************************************************)
(* The question bank and what one learner draws from it: create, import,   *)
(* remove and restore of questions, the cursor-paginated listing, the      *)
(* start of exam and practice sessions, and what ends a practice session:  *)
(* its own answers and finish, and the exam routes, which take it too      *)
(* (src/src/modules/questions/service.ts, src/src/shared/pagination.ts,    *)
(* src/src/modules/simulations/service.ts).                                *)
(*                                                                         *)
(* The writes to the bank are transactions, one action each; a session is  *)
(* started, answered and finished without one, an action per await.        *)
(***************************************************************************)
EXTENDS Naturals, FiniteSets

CONSTANTS
  Calls,       \* requests; a call that starts a session names it too
  Size,        \* the questions are 1..Size, ordered as their ids are
  Texts,       \* texts of an import, by content hash
  NoHash,      \* content_hash NULL
  NoCall,      \* no session chosen
  Banks,       \* the banks to begin with
  KeysOf,      \* the category and the tags of each question, as package keys
  TagKeys,     \* the keys that are tags
  Quota,       \* question_counts of the package, by key
  Limit,       \* rows of a page
  MaxAttempts, \* max_attempts of the package
  Micros,      \* stamps that fall in one millisecond
  MaxStamp,    \* bound: the last created_at
  MaxFaults    \* bound: awaits that reject

Questions == 1..Size
Stamps    == 0..MaxStamp
Rows      == [state: {"absent", "active", "deleted"}, hash: Texts \cup {NoHash}, at: Stamps,
              tagged: BOOLEAN]  \* its question_tags are there
Marks     == {"blank", "right", "wrong"}

\* The partial unique index question_content_hash_uq.
HashUnique(b) ==
  \A q, r \in Questions :
    /\ q # r /\ b[q].state = "active" /\ b[r].state = "active"
    => b[q].hash = NoHash \/ b[q].hash # b[r].hash

ASSUME BankAssumption ==
  /\ Size \in Nat /\ NoHash \notin Texts /\ NoCall \notin Calls
  /\ Banks \subseteq [Questions -> Rows] /\ \A b \in Banks : HashUnique(b)
  /\ KeysOf \in [Questions -> SUBSET DOMAIN Quota] /\ TagKeys \subseteq DOMAIN Quota
  /\ \A k \in DOMAIN Quota : Quota[k] \in Nat \ {0}
  /\ Limit \in Nat \ {0} /\ MaxAttempts \in Nat /\ Micros \in Nat \ {0}
  /\ MaxStamp \in Nat \ {0} /\ MaxFaults \in Nat

VARIABLES
  bank,     \* questions
  clock,    \* now(), in microseconds
  status,   \* simulation_sessions.status, by the call that inserted the row
  kind,     \* simulation_sessions.type
  chosen,   \* simulation_answers: the option chosen, as right or wrong
  answers,  \* simulation_answers: is_correct
  result,   \* correct, wrong and blank count
  pc,       \* where each call is
  memo,     \* what it was asked for and what it has read
  faults,   \* awaits that rejected
  together, \* the most exam starts there have been under way at one time
  late      \* marks written after somebody had read the others for a result

rows  == <<bank, clock>>
exams == <<status, kind, chosen, answers, result>>
vars  == <<rows, exams, pc, memo, faults, together, late>>

Labels  == {"idle", "page", "pick", "fallback", "session", "answers", "options", "mark",
            "marks", "result", "save", "submit", "enqueue", "queued", "paper", "grading",
            "score", "listed", "ok", "refused", "error"}
Starting == {"pick", "fallback", "session"}
Sheets  == UNION {[D -> Marks] : D \in SUBSET Questions}
Counts  == [right: Nat, wrong: Nat, blank: Nat]

TypeOK ==
  /\ bank \in [Questions -> Rows] /\ HashUnique(bank)
  /\ clock \in Stamps
  /\ status \in [Calls -> {"none", "in_progress", "submitted", "graded"}]
  /\ kind \in [Calls -> {"none", "simulation", "practice"}]
  /\ \A s \in Calls : answers[s] \in Sheets /\ chosen[s] \in [DOMAIN answers[s] -> Marks]
  /\ \A s \in Calls : DOMAIN answers[s] # {} => status[s] # "none"
  /\ result \in [Calls -> Counts]
  /\ pc \in [Calls -> Labels]
  /\ faults \in 0..MaxFaults /\ together \in Nat /\ late \in SUBSET (Calls \X Questions)

Active == {q \in Questions : bank[q].state = "active"}

Blank == [kind |-> "none", session |-> NoCall, question |-> 1, mark |-> "blank",
          keys |-> {}, picked |-> {}, twice |-> FALSE,
          sheet |-> [q \in {} |-> "blank"], todo |-> {},
          first |-> TRUE, at |-> 0, id |-> 0, from |-> {}, seen |-> {}, ends |-> {},
          again |-> FALSE]

Marked(f, m) == {q \in DOMAIN f : f[q] = m}
Tally(f) == [right |-> Cardinality(Marked(f, "right")), wrong |-> Cardinality(Marked(f, "wrong")),
             blank |-> Cardinality(Marked(f, "blank"))]

Init ==
  /\ bank \in Banks
  /\ clock = MaxStamp - 1
  /\ status = [s \in Calls |-> "none"] /\ kind = [s \in Calls |-> "none"]
  /\ chosen = [s \in Calls |-> Blank.sheet] /\ answers = chosen
  /\ result = [s \in Calls |-> Tally(Blank.sheet)]
  /\ pc = [c \in Calls |-> "idle"] /\ memo = [c \in Calls |-> Blank]
  /\ faults = 0 /\ together = 0 /\ late = {}

Step(c, from, to) == pc[c] = from /\ pc' = [pc EXCEPT ![c] = to]

-----------------------------------------------------------------------------
(* The bank: each of these is a transaction *)

\* Rows of one transaction share now(); a later one may share its millisecond.
Insert(c, added) ==
  /\ Step(c, "idle", "ok")
  /\ clock' \in {clock, clock + 1} /\ clock' <= MaxStamp
  /\ bank' = [q \in Questions |->
       IF q \in DOMAIN added
       THEN [state |-> "active", hash |-> added[q], at |-> clock', tagged |-> TRUE]
       ELSE bank[q]]
  /\ UNCHANGED <<exams, memo, faults, together, late>>

Absent == {q \in Questions : bank[q].state = "absent"}

CreateQuestion(c) == \E q \in Absent : Insert(c, [r \in {q} |-> NoHash])

\* ON CONFLICT DO NOTHING skips the texts that an active row has.
ImportQuestions(c) ==
  \E asked \in SUBSET Texts :
    LET new == {t \in asked : \A q \in Active : bank[q].hash # t} IN
      \E ids \in SUBSET Absent :
        /\ Cardinality(ids) = Cardinality(new)
        /\ \E added \in [ids -> new] : {added[q] : q \in ids} = new /\ Insert(c, added)

\* Its tag links go with it, for good.  A row that is deleted while a listing
\* walks is none the listing must show.
RemoveQuestion(c) ==
  /\ Step(c, "idle", "ok")
  /\ \E q \in Active :
       /\ bank' = [bank EXCEPT ![q].state = "deleted", ![q].tagged = FALSE]
       /\ memo' = [d \in Calls |-> [memo[d] EXCEPT !.from = @ \ {q}]]
  /\ UNCHANGED <<clock, exams, faults, together, late>>

\* Variant for mutation: the partial index is gone.
RestoreUnchecked(c) ==
  /\ \E q \in Questions :
       /\ bank[q].state = "deleted"
       /\ bank' = [bank EXCEPT ![q].state = "active"] /\ Step(c, "idle", "ok")
  /\ UNCHANGED <<clock, exams, memo, faults, together, late>>

\* The index turns a restore away when the text was imported again.
RestoreQuestion(c) ==
  /\ \E q \in Questions :
       LET restored == [bank EXCEPT ![q].state = "active"] IN
         /\ bank[q].state = "deleted"
         /\ \/ HashUnique(restored) /\ bank' = restored /\ Step(c, "idle", "ok")
            \/ ~HashUnique(restored) /\ UNCHANGED bank /\ Step(c, "idle", "error")
  /\ UNCHANGED <<clock, exams, memo, faults, together, late>>

-----------------------------------------------------------------------------
(* The listing: ORDER BY created_at DESC, id DESC after a cursor *)

\* A cursor keeps milliseconds; the column keeps microseconds.
Millis(at)     == (at \div Micros) * Micros
Newer(q, r)    == bank[q].at > bank[r].at \/ (bank[q].at = bank[r].at /\ q > r)
After(m, q)    == m.first \/ bank[q].at < m.at \/ (bank[q].at = m.at /\ q < m.id)
Page(m)        == LET after == {q \in Active : After(m, q)} IN
                    {q \in after : Cardinality({r \in after : Newer(r, q)}) < Limit}

StartListing(c) ==
  /\ Step(c, "idle", "page")
  /\ memo' = [memo EXCEPT ![c].from = Active]
  /\ UNCHANGED <<rows, exams, faults, together, late>>

\* Variant for mutation: the rows after a cursor are those of its id on.
ReadPageById(c) ==
  /\ LET m == memo[c] page == {q \in Page(m) : m.first \/ q < m.id} IN
       /\ Step(c, "page", IF Cardinality(page) = Limit THEN "page" ELSE "listed")
       /\ memo' = [memo EXCEPT ![c] =
            IF page = {} THEN m
            ELSE LET last == CHOOSE q \in page : \A r \in page \ {q} : Newer(r, q) IN
                   [m EXCEPT !.first = FALSE, !.at = Millis(bank[last].at), !.id = last,
                             !.seen = @ \cup page, !.ends = @ \cup {last},
                             !.again = @ \/ page \cap m.seen # {}]]
  /\ UNCHANGED <<rows, exams, faults, together, late>>

\* Only a full page has a cursor to the next.
ReadPage(c) ==
  /\ LET m == memo[c] page == Page(m) IN
       /\ Step(c, "page", IF Cardinality(page) = Limit THEN "page" ELSE "listed")
       /\ memo' = [memo EXCEPT ![c] =
            IF page = {} THEN m
            ELSE LET last == CHOOSE q \in page : \A r \in page \ {q} : Newer(r, q) IN
                   [m EXCEPT !.first = FALSE, !.at = Millis(bank[last].at), !.id = last,
                             !.seen = @ \cup page, !.ends = @ \cup {last},
                             !.again = @ \/ page \cap m.seen # {}]]
  /\ UNCHANGED <<rows, exams, faults, together, late>>

-----------------------------------------------------------------------------
(* Starting a session *)

Attempted == {s \in Calls : kind[s] = "simulation"}

Starters  == {c \in Calls : pc[c] \in Starting /\ memo[c].kind = "simulation"}

Begin(c, k) ==
  /\ Step(c, "idle", "pick")
  /\ memo' = [memo EXCEPT ![c].kind = k, ![c].keys = DOMAIN Quota]
  /\ UNCHANGED <<rows, exams, faults, late>>

\* Variant for mutation: one attempt more than the limit.
StartExamOneMore(c) ==
  LET others == Cardinality(Starters) IN
    \/ /\ Cardinality(Attempted) <= MaxAttempts /\ Begin(c, "simulation")
       /\ together' = IF others < together THEN together ELSE others + 1
    \/ /\ Cardinality(Attempted) > MaxAttempts /\ Step(c, "idle", "refused")
       /\ UNCHANGED <<rows, exams, memo, faults, together, late>>

\* startSession counts the learner's attempts; startPractice has no limit.
StartExam(c) ==
  LET others == Cardinality(Starters) IN
    \/ /\ Cardinality(Attempted) < MaxAttempts /\ Begin(c, "simulation")
       /\ together' = IF others < together THEN together ELSE others + 1
    \/ /\ Cardinality(Attempted) >= MaxAttempts /\ Step(c, "idle", "refused")
       /\ UNCHANGED <<rows, exams, memo, faults, together, late>>

StartPractice(c) == Begin(c, "practice") /\ UNCHANGED together

\* One random query per key; nothing keeps two keys from the same question.
PickForKey(c) ==
  /\ pc[c] = "pick"
  /\ \E k \in memo[c].keys :
       LET match == {q \in Active : k \in KeysOf[q] /\ (k \in TagKeys => bank[q].tagged)} IN
         \E some \in SUBSET match :
           /\ \/ Cardinality(some) = Quota[k]
              \/ some = match /\ Cardinality(match) < Quota[k]
           /\ memo' = [memo EXCEPT ![c].keys = @ \ {k}, ![c].picked = @ \cup some,
                                   ![c].twice = @ \/ memo[c].picked \cap some # {}]
           /\ pc' = [pc EXCEPT ![c] =
                IF memo'[c].keys # {} THEN "pick"
                ELSE IF memo'[c].picked # {} THEN "session"
                ELSE IF memo[c].kind = "practice" THEN "fallback" ELSE "refused"]
  /\ UNCHANGED <<rows, exams, faults, together, late>>

\* Practice falls back on the whole bank.
PickAny(c) ==
  /\ \/ \E some \in (SUBSET Active) \ {{}} :
          memo' = [memo EXCEPT ![c].picked = some] /\ Step(c, "fallback", "session")
     \/ Active = {} /\ Step(c, "fallback", "refused") /\ UNCHANGED memo
  /\ UNCHANGED <<rows, exams, faults, together, late>>

InsertSession(c) ==
  /\ Step(c, "session", "answers")
  /\ status' = [status EXCEPT ![c] = "in_progress"]
  /\ kind' = [kind EXCEPT ![c] = memo[c].kind]
  /\ UNCHANGED <<rows, chosen, answers, result, memo, faults, together, late>>

\* The marks of s count, or somebody is about to count what it has read of s.
Counted(s) ==
  \/ status[s] = "graded"
  \/ \E d \in Calls : pc[d] \in {"result", "grading", "score"} /\ memo[d].session = s

\* A question picked twice breaks the unique index: the session stays empty.
InsertAnswers(c) ==
  /\ \/ /\ ~memo[c].twice /\ Step(c, "answers", "ok")
        /\ answers' = [answers EXCEPT ![c] = [q \in memo[c].picked |-> "blank"]]
        /\ chosen' = [chosen EXCEPT ![c] = [q \in memo[c].picked |-> "blank"]]
        /\ late' = IF Counted(c) THEN late \cup ({c} \X memo[c].picked) ELSE late
     \/ memo[c].twice /\ Step(c, "answers", "error") /\ UNCHANGED <<chosen, answers, late>>
  /\ UNCHANGED <<rows, status, kind, result, memo, faults, together>>

-----------------------------------------------------------------------------
(* Practice: its answers and its finish *)

Open(s) == kind[s] = "practice" /\ status[s] = "in_progress"

\* getOwnedSession, for a call that goes on with an open session or is answered.
ReadSession(c, open, closed) ==
  /\ \E s \in Calls :
       /\ kind[s] = "practice"
       /\ memo' = [memo EXCEPT ![c].session = s]
       /\ \/ Open(s) /\ Step(c, "idle", open)
          \/ ~Open(s) /\ Step(c, "idle", closed)
  /\ UNCHANGED <<rows, exams, faults, together, late>>

\* practiceAnswer and saveAnswer: a question of the session and an option.
ReadSessionToAnswer(c) ==
  /\ \E s \in Calls : \E q \in DOMAIN answers[s], m \in {"right", "wrong"} :
       /\ Open(s)
       /\ memo' = [memo EXCEPT ![c].session = s, ![c].question = q, ![c].mark = m]
       /\ Step(c, "idle", "options") \/ Step(c, "idle", "save")
  /\ UNCHANGED <<rows, exams, faults, together, late>>

ReadCorrectOptions(c) ==
  /\ Step(c, "options", "mark")
  /\ UNCHANGED <<rows, exams, memo, faults, together, late>>

WriteMark(c) ==
  /\ Step(c, "mark", "ok")
  /\ LET s == memo[c].session q == memo[c].question IN
       /\ chosen' = [chosen EXCEPT ![s][q] = memo[c].mark]
       /\ answers' = [answers EXCEPT ![s][q] = memo[c].mark]
       /\ late' = IF Counted(s) THEN late \cup {<<s, q>>} ELSE late
  /\ UNCHANGED <<rows, status, kind, result, memo, faults, together>>

ReadSessionToFinish(c) == ReadSession(c, "marks", "ok")

ReadMarks(c) ==
  /\ Step(c, "marks", "result")
  /\ memo' = [memo EXCEPT ![c].sheet = answers[memo[c].session]]
  /\ UNCHANGED <<rows, exams, faults, together, late>>

WriteGrade(c, from, counts) ==
  /\ Step(c, from, "ok")
  /\ result' = [result EXCEPT ![memo[c].session] = counts]
  /\ status' = [status EXCEPT ![memo[c].session] = "graded"]
  /\ UNCHANGED <<rows, kind, chosen, answers, memo, faults, together, late>>

\* Variant for mutation: a blank answer counts as a wrong one.
WriteResultBlankWrong(c) ==
  LET t == Tally(memo[c].sheet) IN
    WriteGrade(c, "result", [t EXCEPT !.wrong = @ + t.blank, !.blank = 0])

\* The update does not look at the status again.
WriteResult(c) == WriteGrade(c, "result", Tally(memo[c].sheet))

-----------------------------------------------------------------------------
(* Practice through the exam routes: neither looks at the type *)

\* saveAnswer changes the option and leaves the mark.
SaveAnswer(c) ==
  /\ Step(c, "save", "ok")
  /\ LET s == memo[c].session IN chosen' = [chosen EXCEPT ![s][memo[c].question] = memo[c].mark]
  /\ UNCHANGED <<rows, status, kind, answers, result, memo, faults, together, late>>

ReadSessionToSubmit(c) == ReadSession(c, "submit", "ok")

SubmitSession(c) ==
  /\ LET s == memo[c].session IN
       \/ /\ Step(c, "submit", "enqueue") /\ status[s] = "in_progress"
          /\ status' = [status EXCEPT ![s] = "submitted"]
       \/ Step(c, "submit", "ok") /\ status[s] # "in_progress" /\ UNCHANGED status
  /\ UNCHANGED <<rows, kind, chosen, answers, result, memo, faults, together, late>>

\* The call goes on as its grade job; a rejected add is answered all the same.
EnqueueGrade(c) ==
  /\ \/ Step(c, "enqueue", "queued") /\ UNCHANGED faults
     \/ faults < MaxFaults /\ faults' = faults + 1 /\ Step(c, "enqueue", "ok")
  /\ UNCHANGED <<rows, exams, memo, together, late>>

\* gradeSession, of a session that was submitted.
ReadSessionToGrade(c) ==
  /\ Step(c, "queued", IF status[memo[c].session] = "graded" THEN "ok" ELSE "paper")
  /\ UNCHANGED <<rows, exams, memo, faults, together, late>>

ReadPaper(c) ==
  /\ LET sheet == chosen[memo[c].session] IN
       /\ Step(c, "paper", IF DOMAIN sheet = {} THEN "score" ELSE "grading")
       /\ memo' = [memo EXCEPT ![c].sheet = sheet, ![c].todo = DOMAIN sheet]
  /\ UNCHANGED <<rows, exams, faults, together, late>>

\* The marks are written one by one, in the order of the rows.
MarkQuestion(c) ==
  /\ \E q \in memo[c].todo : LET s == memo[c].session todo == memo[c].todo \ {q} IN
       /\ Step(c, "grading", IF todo = {} THEN "score" ELSE "grading")
       /\ memo' = [memo EXCEPT ![c].todo = todo]
       /\ answers' = [answers EXCEPT ![s][q] = memo[c].sheet[q]]
       /\ late' = IF status[s] = "graded" \/ \E d \in Calls \ {c} :
                       pc[d] \in {"result", "grading", "score"} /\ memo[d].session = s
                    THEN late \cup {<<s, q>>} ELSE late \ {<<s, q>>}
  /\ UNCHANGED <<rows, status, kind, chosen, result, faults, together>>

WriteScore(c) == WriteGrade(c, "score", Tally(memo[c].sheet))

-----------------------------------------------------------------------------

Resting == {"idle", "listed", "ok", "refused", "error"}
Job     == {"queued", "paper", "grading", "score"}

\* BullMQ tries a job again; MaxFaults is below its attempts.
AwaitRejects(c) ==
  /\ pc[c] \notin Resting /\ faults < MaxFaults
  /\ faults' = faults + 1
  /\ pc' = [pc EXCEPT ![c] = IF pc[c] \in Job THEN "queued" ELSE "error"]
  /\ UNCHANGED <<rows, exams, memo, together, late>>

Manage(c) == CreateQuestion(c) \/ ImportQuestions(c) \/ RemoveQuestion(c) \/ RestoreQuestion(c)
List(c)   == StartListing(c) \/ ReadPage(c)
Start(c)  == \/ StartExam(c) \/ StartPractice(c) \/ PickForKey(c)
             \/ PickAny(c)   \/ InsertSession(c) \/ InsertAnswers(c)
Drill(c)  == \/ ReadSessionToAnswer(c) \/ ReadCorrectOptions(c) \/ WriteMark(c)
             \/ ReadSessionToFinish(c) \/ ReadMarks(c)          \/ WriteResult(c)
Submit(c) == \/ SaveAnswer(c)         \/ ReadSessionToSubmit(c) \/ SubmitSession(c)
             \/ EnqueueGrade(c)       \/ ReadSessionToGrade(c)  \/ ReadPaper(c)
             \/ MarkQuestion(c)       \/ WriteScore(c)

Next == \E c \in Calls :
          Manage(c) \/ List(c) \/ Start(c) \/ Drill(c) \/ Submit(c) \/ AwaitRejects(c)

Spec == Init /\ [][Next]_vars

-----------------------------------------------------------------------------
(* Properties *)

\* A page that ends with r cuts q off: q comes after r and in its millisecond,
\* but not on the millisecond itself with a smaller id.
Cuts(r, q) ==
  /\ Newer(r, q) /\ Millis(bank[r].at) = Millis(bank[q].at)
  /\ ~(bank[q].at = Millis(bank[r].at) /\ q < r)

\* A walk through the pages shows no row twice, and of the rows that were there
\* from its start to its end exactly those that no page cut off, whatever is
\* written meanwhile.  The rows of one import have one created_at, so a page
\* that ends among them hides the rest of them (pagination.ts:53-85), where
\* docs/adr/0002-cursor-pagination.md:35 has no gaps.
PagesCoverListing ==
  \A c \in Calls :
    /\ ~memo[c].again
    /\ pc[c] = "listed" =>
         \A q \in memo[c].from : q \notin memo[c].seen <=> \E r \in memo[c].ends : Cuts(r, q)

\* The attempt policy holds for starts that follow each other; n starts that
\* overlap exceed the limit by n - 1 at most, and may do so: the count and the
\* insert are not one statement (simulations/service.ts:195-199, 252), although
\* FEATURE-SPECS.md:666-670 has the start enforce it.
AttemptsBounded == Attempted = {} \/ Cardinality(Attempted) < MaxAttempts + together

\* A start that comes to its end has the questions that were picked; one that
\* is cut short, or picked a question for two keys, leaves an attempt without
\* any (simulations/service.ts:252-260).  A graded practice has the counts of
\* its marks, but for marks that were written after a finish or a grading had
\* read them: those the result may have as they were before (:350, 735, 787).
SessionsAreSound ==
  \A s \in Calls :
    /\ status[s] # "none" /\ pc[s] # "answers" =>
         /\ DOMAIN answers[s] = IF pc[s] = "ok" THEN memo[s].picked ELSE {}
         /\ memo[s].twice => pc[s] = "error"
    /\ status[s] = "graded" =>
         \E D \in SUBSET DOMAIN answers[s] : \E f \in [D -> Marks] :
           /\ result[s] = Tally(f)
           /\ \A q \in DOMAIN answers[s] : <<s, q>> \notin late => q \in D /\ f[q] = answers[s][q]
=============================================================================
