---------------------------- MODULE ExamSession ----------------------------
(***************************************************************************)
(* One timed exam session of src/src/modules/simulations/service.ts: its   *)
(* row, its answer rows, the two grading jobs that may exist for it, and   *)
(* the code that works on them at the same time: the request that starts   *)
(* it, the owner's concurrent requests and the worker's job runs.          *)
(*                                                                         *)
(* One action is one stretch of code between two awaits on shared state.   *)
(* pc[x] names the await executor x is stopped at; a status an executor    *)
(* has read is kept in the branch its pc took, which is what makes it      *)
(* stale.  No statement of the file runs in a transaction.                 *)
(*                                                                         *)
(* Options are abstracted to whether they are right; the answer key does   *)
(* not change while the session lives.                                     *)
(***************************************************************************)
EXTENDS Naturals, FiniteSets

CONSTANTS
  Questions,         \* the questions picked for this session
  Clients,           \* concurrent requests of the session's owner
  EditsSent,         \* bound: the values clients send to saveAnswer and flagAnswer
  MaxAttempts,       \* BullMQ attempts of a job (5 in queues.ts)
  Faulty,            \* the executors of which an await may reject
  MaxFaults,         \* bound: how many awaits reject in a behaviour
  MaxDrops,          \* bound: how many enqueue calls return null
  PackageRemovable   \* whether admins remove and restore the package as they like

AutoSubmit == "auto-submit"
Grade      == "grade"
Starter    == "start"
Jobs       == {AutoSubmit, Grade}
Graders    == Clients \cup Jobs
Executors  == Graders \cup {Starter}

ASSUME QuestionsAssumption == Questions # {}
ASSUME ClientsAssumption   == Clients \cap (Jobs \cup {Starter}) = {}
ASSUME BoundsAssumption    == /\ MaxAttempts \in Nat \ {0}
                              /\ MaxFaults \in Nat
                              /\ MaxDrops \in Nat
                              /\ Faulty \subseteq Executors
                              /\ PackageRemovable \in BOOLEAN

Options  == {"right", "wrong"}
Choices  == Options \cup {"blank"}
FlagEdit == {"flag", "unflag"}
NoEdit   == [to |-> "none"]
Edits    == [q : Questions, to : Options \cup FlagEdit]

ASSUME EditsAssumption == EditsSent \subseteq Options \cup FlagEdit

Rows   == [Questions -> Choices]
NoRows == [q \in {} |-> "blank"]

\* isCorrect of an answer row, as gradeSession computes it.
Mark(choice) == CASE choice = "right" -> "true"
                  [] choice = "wrong" -> "false"
                  [] OTHER            -> "null"

\* The counts gradeSession computes from the answer rows it has read.
Tally(rows) ==
  LET count(choice) == Cardinality({q \in DOMAIN rows : rows[q] = choice})
  IN  [correct |-> count("right"), wrong |-> count("wrong"), blank |-> count("blank")]

NoResult == [counts |-> "none"]   \* the columns before grading

VARIABLES
  status,     \* simulation_sessions.status, "none" before the row exists
  result,     \* the counts stored in the row
  answers,    \* selected option of every answer row; NoRows before the insert
  marks,      \* is_correct of every answer row
  flagged,    \* the rows whose is_flagged is set
  late,       \* the deadline has passed
  job,        \* state of the session's BullMQ jobs
  attempts,   \* failed attempts of each job
  pc,         \* where each executor is
  edit,       \* the edit a client's request carries
  snap,       \* the answer rows a grading has read
  todo,       \* the rows a grading has not marked yet
  enqueued,   \* how many grade jobs were added to the queue
  notified,   \* a listener has seen simulation.graded
  lateWrite,  \* an answer row was written after the session left in_progress
  faults,     \* awaits that have rejected
  drops       \* enqueue calls that returned null

row     == <<status, result>>
data    == <<answers, marks, flagged>>
queue   == <<job, attempts, enqueued>>
local   == <<pc, edit, snap, todo>>
history == <<notified, lateWrite, faults, drops>>
vars    == <<row, data, late, queue, local, history>>

Labels == {"idle", "begin", "insertAnswers", "schedule", "returned", "findAnswer", "write",
           "submitRead", "cas", "enqueue", "autoRead", "gradeRead", "force",
           "snapshot", "mark", "emit", "review"}

TypeOK ==
  /\ status \in {"none", "in_progress", "submitted", "graded"}
  /\ result \in {NoResult, Tally(NoRows)} \cup {Tally(r) : r \in Rows}
  /\ answers \in Rows \cup {NoRows}
  /\ marks \in [Questions -> {"true", "false", "null"}]
  /\ flagged \in SUBSET Questions
  /\ late \in BOOLEAN
  /\ job \in [Jobs -> {"none", "delayed", "waiting", "active", "completed", "failed"}]
  /\ attempts \in [Jobs -> 0..MaxAttempts]
  /\ pc \in [Executors -> Labels]
  /\ edit \in [Clients -> Edits \cup {NoEdit}]
  /\ snap \in [Executors -> Rows \cup {NoRows}]
  /\ todo \in [Executors -> SUBSET Questions]
  /\ enqueued \in Nat
  /\ notified \in BOOLEAN
  /\ lateWrite \in BOOLEAN
  /\ faults \in 0..MaxFaults
  /\ drops \in 0..MaxDrops

Init ==
  /\ status = "none"
  /\ result = NoResult
  /\ answers = NoRows
  /\ marks = [q \in Questions |-> "null"]
  /\ flagged = {}
  /\ late = FALSE
  /\ job = [j \in Jobs |-> "none"]
  /\ attempts = [j \in Jobs |-> 0]
  /\ pc = [x \in Executors |-> IF x = Starter THEN "begin" ELSE "idle"]
  /\ edit = [c \in Clients |-> NoEdit]
  /\ snap = [x \in Executors |-> NoRows]
  /\ todo = [x \in Executors |-> {}]
  /\ enqueued = 0
  /\ notified = FALSE
  /\ lateWrite = FALSE
  /\ faults = 0
  /\ drops = 0

-----------------------------------------------------------------------------
(* Control shared by the actions. *)

Goto(x, label) == /\ pc' = [pc EXCEPT ![x] = label]
                  /\ UNCHANGED <<edit, snap, todo>>

ClearLocals(x) == /\ edit' = [c \in Clients |-> IF c = x THEN NoEdit ELSE edit[c]]
                  /\ snap' = [snap EXCEPT ![x] = NoRows]
                  /\ todo' = [todo EXCEPT ![x] = {}]

\* The handler or the job processor returns: BullMQ completes the job.
Return(x) ==
  /\ pc' = [pc EXCEPT ![x] = IF x = Starter THEN "returned" ELSE "idle"]
  /\ ClearLocals(x)
  /\ job' = [j \in Jobs |-> IF j = x THEN "completed" ELSE job[j]]

\* Variant for mutation: the retry limit is not applied.
ThrowNoLimit(x) ==
  /\ pc' = [pc EXCEPT ![x] = IF x = Starter THEN "returned" ELSE "idle"]
  /\ ClearLocals(x)
  /\ attempts' = [j \in Jobs |-> IF j = x THEN attempts[j] + 1 ELSE attempts[j]]
  /\ job' = [j \in Jobs |-> IF j = x THEN "waiting" ELSE job[j]]

\* The handler or the job processor throws: BullMQ retries the job, up to
\* MaxAttempts attempts.
Throw(x) ==
  /\ pc' = [pc EXCEPT ![x] = IF x = Starter THEN "returned" ELSE "idle"]
  /\ ClearLocals(x)
  /\ attempts' = [j \in Jobs |-> IF j = x THEN attempts[j] + 1 ELSE attempts[j]]
  /\ job' = [j \in Jobs |-> IF j # x THEN job[j]
                            ELSE IF attempts[j] + 1 < MaxAttempts THEN "waiting" ELSE "failed"]

\* queue.add, which may fail: enqueue logs the error and returns null.
Add(j, state) ==
  \/ job' = [job EXCEPT ![j] = state] /\ UNCHANGED drops
  \/ drops < MaxDrops /\ drops' = drops + 1 /\ UNCHANGED job

-----------------------------------------------------------------------------
(* startSession *)

InsertSession ==
  /\ pc[Starter] = "begin"
  /\ status' = "in_progress"
  /\ Goto(Starter, "insertAnswers")
  /\ UNCHANGED <<result, data, late, queue, history>>

InsertAnswers ==
  /\ pc[Starter] = "insertAnswers"
  /\ answers' = [q \in Questions |-> "blank"]
  /\ lateWrite' = (lateWrite \/ status # "in_progress")
  /\ Goto(Starter, "schedule")
  /\ UNCHANGED <<row, marks, flagged, late, queue, notified, faults, drops>>

ScheduleAutoSubmit ==
  /\ pc[Starter] = "schedule"
  /\ Add(AutoSubmit, "delayed")
  /\ Goto(Starter, "returned")
  /\ UNCHANGED <<row, data, late, attempts, enqueued, notified, lateWrite, faults>>

-----------------------------------------------------------------------------
(* saveAnswer and flagAnswer.  The session row is listed by listMySessions  *)
(* from its insert on, so a client may act before startSession returns.     *)

SaveAnswer(c, q, option) ==
  /\ pc[c] = "idle"
  /\ status = "in_progress"
  /\ pc' = [pc EXCEPT ![c] = IF late THEN "submitRead" ELSE "findAnswer"]
  /\ edit' = [edit EXCEPT ![c] = [q |-> q, to |-> option]]
  /\ UNCHANGED <<snap, todo, row, data, late, queue, history>>

FlagAnswer(c, q, to) ==
  /\ pc[c] = "idle"
  /\ status = "in_progress"
  /\ pc' = [pc EXCEPT ![c] = "findAnswer"]
  /\ edit' = [edit EXCEPT ![c] = [q |-> q, to |-> to]]
  /\ UNCHANGED <<snap, todo, row, data, late, queue, history>>

FindAnswer(c) ==
  /\ pc[c] = "findAnswer"
  /\ IF edit[c].q \in DOMAIN answers
       THEN Goto(c, "write") /\ UNCHANGED job
       ELSE Return(c)
  /\ UNCHANGED <<row, data, late, attempts, enqueued, history>>

\* The update names the answer row only: the status is not read again.
WriteSelected(c) ==
  /\ pc[c] = "write"
  /\ edit[c].to \in Options
  /\ answers' = [answers EXCEPT ![edit[c].q] = edit[c].to]
  /\ lateWrite' = (lateWrite \/ status # "in_progress")
  /\ Return(c)
  /\ UNCHANGED <<row, marks, flagged, late, attempts, enqueued, notified, faults, drops>>

WriteFlag(c) ==
  /\ pc[c] = "write"
  /\ edit[c].to \in FlagEdit
  /\ flagged' = IF edit[c].to = "flag" THEN flagged \cup {edit[c].q} ELSE flagged \ {edit[c].q}
  /\ Return(c)
  /\ UNCHANGED <<row, answers, marks, late, attempts, enqueued, history>>

-----------------------------------------------------------------------------
(* submitSession, from its route or from an expired saveAnswer.  A save that *)
(* expired keeps its edit to the end, then drops it (SESSION_EXPIRED).       *)

Submit(c) ==
  /\ pc[c] = "idle"
  /\ status # "none"
  /\ Goto(c, "submitRead")
  /\ UNCHANGED <<row, data, late, queue, history>>

Submitted(c) == IF edit[c] = NoEdit THEN Return(c) ELSE Goto(c, "gradeRead") /\ UNCHANGED job

SubmitRead(c) ==
  /\ pc[c] = "submitRead"
  /\ IF status = "in_progress" THEN Goto(c, "cas") /\ UNCHANGED job ELSE Submitted(c)
  /\ UNCHANGED <<row, data, late, attempts, enqueued, history>>

\* Variant for mutation: the update has no status condition.
SubmitCasUnguarded(c) ==
  /\ pc[c] = "cas"
  /\ status' = "submitted"
  /\ Goto(c, "enqueue")
  /\ UNCHANGED <<result, data, late, queue, history>>

SubmitCas(c) ==
  /\ pc[c] = "cas"
  /\ IF status = "in_progress"
       THEN status' = "submitted" /\ Goto(c, "enqueue") /\ UNCHANGED job
       ELSE Submitted(c) /\ UNCHANGED status
  /\ UNCHANGED <<result, data, late, attempts, enqueued, history>>

\* A client has no job of its own, so Return leaves job as Add sets it.
EnqueueGrade(c) ==
  /\ pc[c] = "enqueue"
  /\ Add(Grade, "waiting")
  /\ enqueued' = IF drops' = drops THEN enqueued + 1 ELSE enqueued
  /\ IF edit[c] = NoEdit
       THEN pc' = [pc EXCEPT ![c] = "idle"] /\ ClearLocals(c)
       ELSE Goto(c, "gradeRead")
  /\ UNCHANGED <<row, data, late, attempts, notified, lateWrite, faults>>

-----------------------------------------------------------------------------
(* The worker: processGradingJob, autoSubmit *)

DeadlinePasses ==
  /\ status # "none"
  /\ ~late
  /\ late' = TRUE
  /\ UNCHANGED <<row, data, queue, local, history>>

\* BullMQ promotes the delayed job: its delay is the duration plus 5 s.
JobDue ==
  /\ job[AutoSubmit] = "delayed"
  /\ late
  /\ job' = [job EXCEPT ![AutoSubmit] = "waiting"]
  /\ UNCHANGED <<row, data, late, attempts, enqueued, local, history>>

TakeJob(j) ==
  /\ job[j] = "waiting"
  /\ pc[j] = "idle"
  /\ job' = [job EXCEPT ![j] = "active"]
  /\ Goto(j, IF j = AutoSubmit THEN "autoRead" ELSE "gradeRead")
  /\ UNCHANGED <<row, data, late, attempts, enqueued, history>>

AutoSubmitRead ==
  /\ pc[AutoSubmit] = "autoRead"
  /\ IF status = "in_progress"
       THEN Goto(AutoSubmit, "gradeRead") /\ UNCHANGED job
       ELSE Return(AutoSubmit)
  /\ UNCHANGED <<row, data, late, attempts, enqueued, history>>

-----------------------------------------------------------------------------
(* gradeSession *)

\* Variant for mutation: grading does not close the session first.
GradeReadOpen(x) ==
  /\ pc[x] = "gradeRead"
  /\ IF status = "graded" THEN Return(x) ELSE Goto(x, "snapshot") /\ UNCHANGED job
  /\ UNCHANGED <<row, data, late, attempts, enqueued, history>>

GradeRead(x) ==
  /\ pc[x] = "gradeRead"
  /\ \/ status = "graded" /\ Return(x)
     \/ status = "in_progress" /\ Goto(x, "force") /\ UNCHANGED job
     \/ status = "submitted" /\ Goto(x, "snapshot") /\ UNCHANGED job
  /\ UNCHANGED <<row, data, late, attempts, enqueued, history>>

\* The update has no status condition.
ForceSubmit(x) ==
  /\ pc[x] = "force"
  /\ status' = "submitted"
  /\ Goto(x, "snapshot")
  /\ UNCHANGED <<result, data, late, queue, history>>

\* getPackage, which throws while removePackage has the package soft-deleted
\* (until restorePackage), then the select of the answer rows.
Snapshot(x) ==
  /\ pc[x] = "snapshot"
  /\ \/ PackageRemovable /\ Throw(x)
     \/ /\ snap' = [snap EXCEPT ![x] = answers]
        /\ todo' = [todo EXCEPT ![x] = DOMAIN answers]
        /\ pc' = [pc EXCEPT ![x] = "mark"]
        /\ UNCHANGED <<edit, job, attempts>>
  /\ UNCHANGED <<row, data, late, enqueued, history>>

MarkRow(x) ==
  /\ pc[x] = "mark"
  /\ \E q \in todo[x] :
       /\ marks' = [marks EXCEPT ![q] = Mark(snap[x][q])]
       /\ todo' = [todo EXCEPT ![x] = @ \ {q}]
  /\ UNCHANGED <<pc, edit, snap, answers, flagged, row, late, queue, history>>

\* Variant for mutation: the result is stored before the rows are marked.
StoreResultFirst(x) ==
  /\ pc[x] = "mark"
  /\ status' = "graded"
  /\ result' = Tally(snap[x])
  /\ IF todo[x] = {} THEN Return(x) ELSE Goto(x, "mark") /\ UNCHANGED job
  /\ UNCHANGED <<data, late, attempts, enqueued, history>>

\* The final update, unconditional too.  A session without answer rows is
\* graded with zeros and announces nothing.
StoreResult(x) ==
  /\ pc[x] = "mark"
  /\ todo[x] = {}
  /\ status' = "graded"
  /\ result' = Tally(snap[x])
  /\ IF snap[x] = NoRows THEN Return(x) ELSE Goto(x, "emit") /\ UNCHANGED job
  /\ UNCHANGED <<data, late, attempts, enqueued, history>>

\* eventBus.emit calls the listeners of its own process, and only app.ts
\* subscribes any: the worker's emit reaches nobody.
EmitGraded(x) ==
  /\ pc[x] = "emit"
  /\ notified' = (notified \/ x \in Clients)
  /\ Return(x)
  /\ UNCHANGED <<row, data, late, attempts, enqueued, lateWrite, faults, drops>>

-----------------------------------------------------------------------------
(* getReview *)

ReviewRead(c) ==
  /\ pc[c] = "idle"
  /\ status = "graded"
  /\ Goto(c, "review")
  /\ UNCHANGED <<row, data, late, queue, history>>

ReviewAnswers(c) ==
  /\ pc[c] = "review"
  /\ Return(c)
  /\ UNCHANGED <<row, data, late, attempts, enqueued, history>>

-----------------------------------------------------------------------------
(* Awaits that reject (database, Redis or process failure).                  *)

AwaitRejects(x) ==
  /\ x \in Faulty
  /\ faults < MaxFaults
  /\ pc[x] \notin {"idle", "begin", "returned"}
  /\ Throw(x)
  /\ faults' = faults + 1
  /\ UNCHANGED <<row, data, late, enqueued, notified, lateWrite, drops>>

-----------------------------------------------------------------------------
Request(c) ==
  \/ \E q \in Questions, option \in EditsSent \cap Options : SaveAnswer(c, q, option)
  \/ \E q \in Questions, to \in EditsSent \cap FlagEdit : FlagAnswer(c, q, to)
  \/ Submit(c)
  \/ ReviewRead(c)

ClientStep(c) ==
  \/ FindAnswer(c) \/ WriteSelected(c) \/ WriteFlag(c)
  \/ SubmitRead(c) \/ SubmitCas(c) \/ EnqueueGrade(c)
  \/ ReviewAnswers(c)

GradeStep(x) ==
  \/ GradeRead(x) \/ ForceSubmit(x) \/ Snapshot(x)
  \/ MarkRow(x) \/ StoreResult(x) \/ EmitGraded(x)

Next ==
  \/ InsertSession \/ InsertAnswers \/ ScheduleAutoSubmit
  \/ \E c \in Clients : Request(c) \/ ClientStep(c)
  \/ DeadlinePasses \/ JobDue \/ AutoSubmitRead
  \/ \E j \in Jobs : TakeJob(j)
  \/ \E x \in Graders : GradeStep(x)
  \/ \E x \in Executors : AwaitRejects(x)

Spec == Init /\ [][Next]_vars

\* An await that does not reject resolves, time passes, and BullMQ promotes
\* and hands out jobs.  Nobody is obliged to send a request.
Fairness ==
  /\ WF_vars(InsertAnswers) /\ WF_vars(ScheduleAutoSubmit)
  /\ WF_vars(DeadlinePasses) /\ WF_vars(JobDue) /\ WF_vars(AutoSubmitRead)
  /\ \A c \in Clients : WF_vars(ClientStep(c))
  /\ \A j \in Jobs : WF_vars(TakeJob(j))
  /\ \A x \in Graders : WF_vars(GradeStep(x))

FairSpec == Spec /\ Fairness

-----------------------------------------------------------------------------
(* Properties *)

Marked == \A q \in DOMAIN answers : marks[q] = Mark(answers[q])

\* The stored counts and every row's is_correct are those of the answers the
\* student sees, however many gradings (worker, expired saves, retries) ran
\* over each other, unless an answer row was written after the session had
\* left in_progress (service.ts:536-620 against 327-360).
ResultMatchesAnswers ==
  result # NoResult /\ ~lateWrite => result = Tally(answers) /\ Marked

\* Grading again never changes a published result: every grading works on the
\* same rows, although none of its updates checks the status (service.ts:545,
\* 617).
PublishedResultStable ==
  [][result # NoResult /\ ~lateWrite' => result' = result]_vars

\* A review, whose rows are read after the status, shows final marks even
\* while a second grading rewrites them or has put the status back
\* (service.ts:795-810).
ReviewShowsFinalMarks ==
  \A c \in Clients : pc[c] = "review" /\ ~lateWrite => Marked

\* At most one grade job is ever queued, whatever requests submit at once:
\* the conditional update elects one (service.ts:384-390).
GradeJobAtMostOnce == enqueued <= 1

\* What docs/architecture/QUEUEING.md:66 and the comment at service.ts:261
\* promise: a session that has its auto-submit job is graded in the end, even
\* if its student never submits.  The code breaks it with one failing await,
\* although the job is tried again: the first try has set submitted, and the
\* next one has nothing to do with a session that is not in progress
\* (service.ts:854-861, 543-546).
GradedInTheEnd == job[AutoSubmit] # "none" ~> status = "graded"

\* The session keeps an exam's promises: its paper is handed out and taken in
\* once, and however many gradings run over each other its result is that of
\* the answers on it, never revised: see ExamPaper.
Phase == CASE status = "none"        -> "new"
           [] status = "in_progress" -> "open"
           [] OTHER                  -> "closed"
Paper == INSTANCE ExamPaper
           WITH NoSheet <- NoRows, NoVerdict <- NoResult, Score <- Tally,
                phase <- Phase, sheet <- answers, verdict <- result, spoiled <- lateWrite
ImplementsPaper == Paper!Spec
=============================================================================
