------------------------ MODULE ExamSession_proofs ------------------------
(***************************************************************************)
(* Proofs about ExamSession for every set of questions and clients and     *)
(* every bound: type correctness, the three state invariants TLC checks,   *)
(* the stability of a published result, the refinement of ExamPaper and,   *)
(* last, what fairness needs not provide: that no session is forgotten.    *)
(*                                                                         *)
(* The argument: once the session has left in_progress it never returns,   *)
(* so every grading reads its rows after the last on-time answer write;    *)
(* unless a late write happens, all gradings hold the same rows and write  *)
(* the same marks and counts.                                              *)
(***************************************************************************)
EXTENDS ExamSession, TLAPS

Closed == status \in {"submitted", "graded"}

\* Where an executor can only be once the session has been closed.
ClosedLabels == {"snapshot", "mark", "emit", "enqueue", "review"}

StarterOK ==
  /\ pc[Starter] \in {"begin", "insertAnswers", "schedule", "returned"}
  /\ pc[Starter] = "begin" <=> status = "none"
  /\ pc[Starter] \in {"begin", "insertAnswers"} => answers = NoRows
  /\ pc[Starter] \in {"begin", "insertAnswers", "schedule"} => job[AutoSubmit] = "none"

EditOK ==
  \A c \in Clients :
    /\ pc[c] \in {"findAnswer", "write"} => edit[c] \in Edits
    /\ pc[c] = "write" => answers \in Rows

JobsOK ==
  \A j \in Jobs :
    /\ job[j] = "active" <=> pc[j] # "idle"
    /\ job[j] \in {"none", "delayed", "waiting", "active"} => attempts[j] < MaxAttempts

GradeJobOK ==
  /\ enqueued <= 1
  /\ ~Closed => enqueued = 0
  /\ enqueued = 0 => job[Grade] = "none"
  /\ \A c \in Clients : pc[c] = "enqueue" =>
        /\ enqueued = 0
        /\ \A d \in Clients : pc[d] = "enqueue" => d = c

ClosedOK ==
  /\ \A x \in Executors : pc[x] \in ClosedLabels => Closed
  /\ \A x \in Executors : pc[x] = "force" => status # "none"
  /\ result # NoResult => Closed

\* Every grading holds the rows as they are, and has marked what it has done.
SnapshotOK ==
  \A x \in Executors : pc[x] = "mark" /\ ~lateWrite =>
    /\ snap[x] = answers
    /\ \A q \in (DOMAIN answers) \ todo[x] : marks[q] = Mark(answers[q])

GradedOK ==
  status = "graded" /\ ~lateWrite => result = Tally(answers) /\ Marked

Control == StarterOK /\ EditOK /\ JobsOK /\ GradeJobOK /\ ClosedOK
Data    == SnapshotOK /\ GradedOK /\ ResultMatchesAnswers /\ ReviewShowsFinalMarks
IInv    == TypeOK /\ Control /\ Data

USE DEF AutoSubmit, Grade, Starter, Jobs, Graders, Executors,
        row, data, queue, local, history, vars

-----------------------------------------------------------------------------
\* The rows of a session are all there or none is.
LEMMA RowsFacts ==
  /\ DOMAIN NoRows = {}
  /\ NoRows \notin Rows
  /\ \A r \in Rows : DOMAIN r = Questions
<1>1. DOMAIN NoRows = {}
  BY DEF NoRows
<1>2. \A r \in Rows : DOMAIN r = Questions
  BY DEF Rows
<1>3. QED
  BY <1>1, <1>2, QuestionsAssumption

\* is_correct is one of its three values, whatever a row selects.
LEMMA MarkType == \A choice : Mark(choice) \in {"true", "false", "null"}
BY DEF Mark

-----------------------------------------------------------------------------
\* The invariant holds before the session exists.
LEMMA InitEstablishes == Init => IInv
<1>1. Init => TypeOK
  <2>1. SUFFICES ASSUME Init
                 PROVE  TypeOK
    OBVIOUS
  <2>2. pc \in [Executors -> Labels]
    BY <2>1 DEF Init, Labels
  <2>3. /\ attempts \in [Jobs -> 0..MaxAttempts]
        /\ faults \in 0..MaxFaults
        /\ drops \in 0..MaxDrops
    BY <2>1, BoundsAssumption DEF Init
  <2>4. QED
    BY <2>1, <2>2, <2>3 DEF Init, TypeOK
<1>2. Init => Control
  BY ClientsAssumption, BoundsAssumption DEF Init, Control, StarterOK, EditOK, JobsOK,
     GradeJobOK, ClosedOK, Closed, ClosedLabels
<1>3. Init => Data
  BY DEF Init, Data, SnapshotOK, GradedOK, ResultMatchesAnswers, ReviewShowsFinalMarks
<1>4. QED
  BY <1>1, <1>2, <1>3 DEF IInv

\* Every action preserves it: the types, then where the executors and the jobs
\* may be, then what the rows, the snapshots and the result agree on.

LEMMA InsertSessionPreserves ==
  ASSUME IInv, InsertSession
  PROVE  IInv'
<1>1. TypeOK'
  BY BoundsAssumption, ClientsAssumption
  DEF IInv, Control, EditOK, JobsOK, GradeJobOK, StarterOK, TypeOK, Labels, InsertSession, Goto
<1>2. Control'
  BY BoundsAssumption, ClientsAssumption
  DEF IInv, TypeOK, Control, StarterOK, EditOK, JobsOK, GradeJobOK, ClosedOK, Closed,
      ClosedLabels, InsertSession, Goto
<1>3. Data'
  BY ClientsAssumption
  DEF IInv, TypeOK, Control, StarterOK, EditOK, JobsOK, ClosedOK, Closed, ClosedLabels,
      Data, SnapshotOK, GradedOK, ResultMatchesAnswers, ReviewShowsFinalMarks, Marked,
      InsertSession, Goto
<1>4. QED
  BY <1>1, <1>2, <1>3 DEF IInv

LEMMA InsertAnswersPreserves ==
  ASSUME IInv, InsertAnswers
  PROVE  IInv'
<1>1. TypeOK'
  BY BoundsAssumption, ClientsAssumption, RowsFacts
  DEF IInv, Control, EditOK, JobsOK, GradeJobOK, StarterOK, TypeOK, Labels, Rows, Choices,
      InsertAnswers, Goto
<1>2. Control'
  BY BoundsAssumption, ClientsAssumption, RowsFacts
  DEF IInv, TypeOK, Control, StarterOK, EditOK, JobsOK, GradeJobOK, ClosedOK, Closed,
      ClosedLabels, Rows, Choices, InsertAnswers, Goto
<1>3. Data'
  BY ClientsAssumption, RowsFacts
  DEF IInv, TypeOK, Control, StarterOK, EditOK, JobsOK, ClosedOK, Closed, ClosedLabels,
      Data, SnapshotOK, GradedOK, ResultMatchesAnswers, ReviewShowsFinalMarks, Marked,
      InsertAnswers, Goto
<1>4. QED
  BY <1>1, <1>2, <1>3 DEF IInv

LEMMA ScheduleAutoSubmitPreserves ==
  ASSUME IInv, ScheduleAutoSubmit
  PROVE  IInv'
<1>1. TypeOK'
  BY BoundsAssumption, ClientsAssumption
  DEF IInv, Control, EditOK, JobsOK, GradeJobOK, StarterOK, TypeOK, Labels,
      ScheduleAutoSubmit, Add, Goto
<1>2. Control'
  BY BoundsAssumption, ClientsAssumption
  DEF IInv, TypeOK, Control, StarterOK, EditOK, JobsOK, GradeJobOK, ClosedOK, Closed,
      ClosedLabels, ScheduleAutoSubmit, Add, Goto
<1>3. Data'
  BY ClientsAssumption
  DEF IInv, TypeOK, Control, StarterOK, EditOK, JobsOK, ClosedOK, Closed, ClosedLabels,
      Data, SnapshotOK, GradedOK, ResultMatchesAnswers, ReviewShowsFinalMarks, Marked,
      ScheduleAutoSubmit, Add, Goto
<1>4. QED
  BY <1>1, <1>2, <1>3 DEF IInv

LEMMA SaveAnswerPreserves ==
  ASSUME IInv, NEW c \in Clients, NEW q \in Questions, NEW o \in EditsSent \cap Options, SaveAnswer(c, q, o)
  PROVE  IInv'
<1>1. TypeOK'
  BY BoundsAssumption, ClientsAssumption
  DEF IInv, Control, EditOK, JobsOK, GradeJobOK, StarterOK, TypeOK, Labels, Edits,
      SaveAnswer, Options
<1>2. Control'
  BY BoundsAssumption, ClientsAssumption
  DEF IInv, TypeOK, Control, StarterOK, EditOK, JobsOK, GradeJobOK, ClosedOK, Closed,
      ClosedLabels, Edits, SaveAnswer, Options
<1>3. Data'
  BY ClientsAssumption
  DEF IInv, TypeOK, Control, StarterOK, EditOK, JobsOK, ClosedOK, Closed, ClosedLabels,
      Data, SnapshotOK, GradedOK, ResultMatchesAnswers, ReviewShowsFinalMarks, Marked,
      SaveAnswer, Options
<1>4. QED
  BY <1>1, <1>2, <1>3 DEF IInv

LEMMA FlagAnswerPreserves ==
  ASSUME IInv, NEW c \in Clients, NEW q \in Questions, NEW o \in EditsSent \cap FlagEdit, FlagAnswer(c, q, o)
  PROVE  IInv'
<1>1. TypeOK'
  BY BoundsAssumption, ClientsAssumption
  DEF IInv, Control, EditOK, JobsOK, GradeJobOK, StarterOK, TypeOK, Labels, Edits,
      FlagAnswer, FlagEdit
<1>2. Control'
  BY BoundsAssumption, ClientsAssumption
  DEF IInv, TypeOK, Control, StarterOK, EditOK, JobsOK, GradeJobOK, ClosedOK, Closed,
      ClosedLabels, Edits, FlagAnswer, FlagEdit
<1>3. Data'
  BY ClientsAssumption
  DEF IInv, TypeOK, Control, StarterOK, EditOK, JobsOK, ClosedOK, Closed, ClosedLabels,
      Data, SnapshotOK, GradedOK, ResultMatchesAnswers, ReviewShowsFinalMarks, Marked,
      FlagAnswer, FlagEdit
<1>4. QED
  BY <1>1, <1>2, <1>3 DEF IInv

LEMMA FindAnswerPreserves ==
  ASSUME IInv, NEW c \in Clients, FindAnswer(c)
  PROVE  IInv'
<1>1. TypeOK'
  BY BoundsAssumption, ClientsAssumption
  DEF IInv, Control, EditOK, JobsOK, GradeJobOK, StarterOK, TypeOK, Labels, FindAnswer,
      Goto, Return, ClearLocals
<1>2. Control'
  BY BoundsAssumption, ClientsAssumption, RowsFacts
  DEF IInv, TypeOK, Control, StarterOK, EditOK, JobsOK, GradeJobOK, ClosedOK, Closed,
      ClosedLabels, FindAnswer, Goto, Return, ClearLocals
<1>3. Data'
  BY ClientsAssumption
  DEF IInv, TypeOK, Control, StarterOK, EditOK, JobsOK, ClosedOK, Closed, ClosedLabels,
      Data, SnapshotOK, GradedOK, ResultMatchesAnswers, ReviewShowsFinalMarks, Marked,
      FindAnswer, Goto, Return, ClearLocals
<1>4. QED
  BY <1>1, <1>2, <1>3 DEF IInv

LEMMA WriteSelectedPreserves ==
  ASSUME IInv, NEW c \in Clients, WriteSelected(c)
  PROVE  IInv'
<1>1. TypeOK'
  BY BoundsAssumption, ClientsAssumption, RowsFacts
  DEF IInv, Control, EditOK, JobsOK, GradeJobOK, StarterOK, TypeOK, Labels, Rows, Choices,
      Edits, WriteSelected, Return, ClearLocals, Options
<1>2. Control'
  BY BoundsAssumption, ClientsAssumption, RowsFacts
  DEF IInv, TypeOK, Control, StarterOK, EditOK, JobsOK, GradeJobOK, ClosedOK, Closed,
      ClosedLabels, Rows, Choices, Edits, WriteSelected, Return, ClearLocals, Options
<1>3. Data'
  BY ClientsAssumption
  DEF IInv, TypeOK, Control, StarterOK, EditOK, JobsOK, ClosedOK, Closed, ClosedLabels,
      Data, SnapshotOK, GradedOK, ResultMatchesAnswers, ReviewShowsFinalMarks, Marked,
      WriteSelected, Return, ClearLocals, Options
<1>4. QED
  BY <1>1, <1>2, <1>3 DEF IInv

LEMMA WriteFlagPreserves ==
  ASSUME IInv, NEW c \in Clients, WriteFlag(c)
  PROVE  IInv'
<1>1. TypeOK'
  BY BoundsAssumption, ClientsAssumption
  DEF IInv, Control, EditOK, JobsOK, GradeJobOK, StarterOK, TypeOK, Labels, Edits,
      WriteFlag, Return, ClearLocals
<1>2. Control'
  BY BoundsAssumption, ClientsAssumption
  DEF IInv, TypeOK, Control, StarterOK, EditOK, JobsOK, GradeJobOK, ClosedOK, Closed,
      ClosedLabels, Edits, WriteFlag, Return, ClearLocals
<1>3. Data'
  BY ClientsAssumption
  DEF IInv, TypeOK, Control, StarterOK, EditOK, JobsOK, ClosedOK, Closed, ClosedLabels,
      Data, SnapshotOK, GradedOK, ResultMatchesAnswers, ReviewShowsFinalMarks, Marked,
      WriteFlag, Return, ClearLocals
<1>4. QED
  BY <1>1, <1>2, <1>3 DEF IInv

LEMMA SubmitPreserves ==
  ASSUME IInv, NEW c \in Clients, Submit(c)
  PROVE  IInv'
<1>1. TypeOK'
  BY BoundsAssumption, ClientsAssumption
  DEF IInv, Control, EditOK, JobsOK, GradeJobOK, StarterOK, TypeOK, Labels, Submit, Goto
<1>2. Control'
  BY BoundsAssumption, ClientsAssumption
  DEF IInv, TypeOK, Control, StarterOK, EditOK, JobsOK, GradeJobOK, ClosedOK, Closed,
      ClosedLabels, Submit, Goto
<1>3. Data'
  BY ClientsAssumption
  DEF IInv, TypeOK, Control, StarterOK, EditOK, JobsOK, ClosedOK, Closed, ClosedLabels,
      Data, SnapshotOK, GradedOK, ResultMatchesAnswers, ReviewShowsFinalMarks, Marked,
      Submit, Goto
<1>4. QED
  BY <1>1, <1>2, <1>3 DEF IInv

LEMMA SubmitReadPreserves ==
  ASSUME IInv, NEW c \in Clients, SubmitRead(c)
  PROVE  IInv'
<1>1. TypeOK'
  BY BoundsAssumption, ClientsAssumption
  DEF IInv, Control, EditOK, JobsOK, GradeJobOK, StarterOK, TypeOK, Labels, SubmitRead,
      Submitted, Goto, Return, ClearLocals
<1>2. Control'
  BY BoundsAssumption, ClientsAssumption
  DEF IInv, TypeOK, Control, StarterOK, EditOK, JobsOK, GradeJobOK, ClosedOK, Closed,
      ClosedLabels, SubmitRead, Submitted, Goto, Return, ClearLocals
<1>3. Data'
  BY ClientsAssumption
  DEF IInv, TypeOK, Control, StarterOK, EditOK, JobsOK, ClosedOK, Closed, ClosedLabels,
      Data, SnapshotOK, GradedOK, ResultMatchesAnswers, ReviewShowsFinalMarks, Marked,
      SubmitRead, Submitted, Goto, Return, ClearLocals
<1>4. QED
  BY <1>1, <1>2, <1>3 DEF IInv

LEMMA SubmitCasPreserves ==
  ASSUME IInv, NEW c \in Clients, SubmitCas(c)
  PROVE  IInv'
<1>1. TypeOK'
  BY BoundsAssumption, ClientsAssumption
  DEF IInv, Control, EditOK, JobsOK, GradeJobOK, StarterOK, TypeOK, Labels, SubmitCas,
      Submitted, Goto, Return, ClearLocals
<1>2. Control'
  BY BoundsAssumption, ClientsAssumption
  DEF IInv, TypeOK, Control, StarterOK, EditOK, JobsOK, GradeJobOK, ClosedOK, Closed,
      ClosedLabels, SubmitCas, Submitted, Goto, Return, ClearLocals
<1>3. Data'
  BY ClientsAssumption
  DEF IInv, TypeOK, Control, StarterOK, EditOK, JobsOK, ClosedOK, Closed, ClosedLabels,
      Data, SnapshotOK, GradedOK, ResultMatchesAnswers, ReviewShowsFinalMarks, Marked,
      SubmitCas, Submitted, Goto, Return, ClearLocals
<1>4. QED
  BY <1>1, <1>2, <1>3 DEF IInv

LEMMA EnqueueGradePreserves ==
  ASSUME IInv, NEW c \in Clients, EnqueueGrade(c)
  PROVE  IInv'
<1>1. TypeOK'
  BY BoundsAssumption, ClientsAssumption
  DEF IInv, Control, EditOK, JobsOK, GradeJobOK, StarterOK, TypeOK, Labels, EnqueueGrade,
      Add, Goto, ClearLocals
<1>2. Control'
  BY BoundsAssumption, ClientsAssumption
  DEF IInv, TypeOK, Control, StarterOK, EditOK, JobsOK, GradeJobOK, ClosedOK, Closed,
      ClosedLabels, EnqueueGrade, Add, Goto, ClearLocals
<1>3. Data'
  BY ClientsAssumption
  DEF IInv, TypeOK, Control, StarterOK, EditOK, JobsOK, ClosedOK, Closed, ClosedLabels,
      Data, SnapshotOK, GradedOK, ResultMatchesAnswers, ReviewShowsFinalMarks, Marked,
      EnqueueGrade, Add, Goto, ClearLocals
<1>4. QED
  BY <1>1, <1>2, <1>3 DEF IInv

LEMMA DeadlinePassesPreserves ==
  ASSUME IInv, DeadlinePasses
  PROVE  IInv'
<1>1. TypeOK'
  BY BoundsAssumption, ClientsAssumption
  DEF IInv, Control, EditOK, JobsOK, GradeJobOK, StarterOK, TypeOK, Labels, DeadlinePasses
<1>2. Control'
  BY BoundsAssumption, ClientsAssumption
  DEF IInv, TypeOK, Control, StarterOK, EditOK, JobsOK, GradeJobOK, ClosedOK, Closed,
      ClosedLabels, DeadlinePasses
<1>3. Data'
  BY ClientsAssumption
  DEF IInv, TypeOK, Control, StarterOK, EditOK, JobsOK, ClosedOK, Closed, ClosedLabels,
      Data, SnapshotOK, GradedOK, ResultMatchesAnswers, ReviewShowsFinalMarks, Marked,
      DeadlinePasses
<1>4. QED
  BY <1>1, <1>2, <1>3 DEF IInv

LEMMA JobDuePreserves ==
  ASSUME IInv, JobDue
  PROVE  IInv'
<1>1. TypeOK'
  BY BoundsAssumption, ClientsAssumption
  DEF IInv, Control, EditOK, JobsOK, GradeJobOK, StarterOK, TypeOK, Labels, JobDue
<1>2. Control'
  BY BoundsAssumption, ClientsAssumption
  DEF IInv, TypeOK, Control, StarterOK, EditOK, JobsOK, GradeJobOK, ClosedOK, Closed,
      ClosedLabels, JobDue
<1>3. Data'
  BY ClientsAssumption
  DEF IInv, TypeOK, Control, StarterOK, EditOK, JobsOK, ClosedOK, Closed, ClosedLabels,
      Data, SnapshotOK, GradedOK, ResultMatchesAnswers, ReviewShowsFinalMarks, Marked,
      JobDue
<1>4. QED
  BY <1>1, <1>2, <1>3 DEF IInv

LEMMA TakeJobPreserves ==
  ASSUME IInv, NEW j \in Jobs, TakeJob(j)
  PROVE  IInv'
<1>1. TypeOK'
  BY BoundsAssumption, ClientsAssumption
  DEF IInv, Control, EditOK, JobsOK, GradeJobOK, StarterOK, TypeOK, Labels, TakeJob, Goto
<1>2. Control'
  BY BoundsAssumption, ClientsAssumption
  DEF IInv, TypeOK, Control, StarterOK, EditOK, JobsOK, GradeJobOK, ClosedOK, Closed,
      ClosedLabels, TakeJob, Goto
<1>3. Data'
  BY ClientsAssumption
  DEF IInv, TypeOK, Control, StarterOK, EditOK, JobsOK, ClosedOK, Closed, ClosedLabels,
      Data, SnapshotOK, GradedOK, ResultMatchesAnswers, ReviewShowsFinalMarks, Marked,
      TakeJob, Goto
<1>4. QED
  BY <1>1, <1>2, <1>3 DEF IInv

LEMMA AutoSubmitReadPreserves ==
  ASSUME IInv, AutoSubmitRead
  PROVE  IInv'
<1>1. TypeOK'
  BY BoundsAssumption, ClientsAssumption
  DEF IInv, Control, EditOK, JobsOK, GradeJobOK, StarterOK, TypeOK, Labels, AutoSubmitRead,
      Goto, Return, ClearLocals
<1>2. Control'
  BY BoundsAssumption, ClientsAssumption
  DEF IInv, TypeOK, Control, StarterOK, EditOK, JobsOK, GradeJobOK, ClosedOK, Closed,
      ClosedLabels, AutoSubmitRead, Goto, Return, ClearLocals
<1>3. Data'
  BY ClientsAssumption
  DEF IInv, TypeOK, Control, StarterOK, EditOK, JobsOK, ClosedOK, Closed, ClosedLabels,
      Data, SnapshotOK, GradedOK, ResultMatchesAnswers, ReviewShowsFinalMarks, Marked,
      AutoSubmitRead, Goto, Return, ClearLocals
<1>4. QED
  BY <1>1, <1>2, <1>3 DEF IInv

LEMMA GradeReadPreserves ==
  ASSUME IInv, NEW x \in Graders, GradeRead(x)
  PROVE  IInv'
<1>1. TypeOK'
  BY BoundsAssumption, ClientsAssumption
  DEF IInv, Control, EditOK, JobsOK, GradeJobOK, StarterOK, TypeOK, Labels, GradeRead, Goto,
      Return, ClearLocals
<1>2. Control'
  BY BoundsAssumption, ClientsAssumption
  DEF IInv, TypeOK, Control, StarterOK, EditOK, JobsOK, GradeJobOK, ClosedOK, Closed,
      ClosedLabels, GradeRead, Goto, Return, ClearLocals
<1>3. Data'
  BY ClientsAssumption
  DEF IInv, TypeOK, Control, StarterOK, EditOK, JobsOK, ClosedOK, Closed, ClosedLabels,
      Data, SnapshotOK, GradedOK, ResultMatchesAnswers, ReviewShowsFinalMarks, Marked,
      GradeRead, Goto, Return, ClearLocals
<1>4. QED
  BY <1>1, <1>2, <1>3 DEF IInv

LEMMA ForceSubmitPreserves ==
  ASSUME IInv, NEW x \in Graders, ForceSubmit(x)
  PROVE  IInv'
<1>1. TypeOK'
  BY BoundsAssumption, ClientsAssumption
  DEF IInv, Control, EditOK, JobsOK, GradeJobOK, StarterOK, TypeOK, Labels, ForceSubmit, Goto
<1>2. Control'
  BY BoundsAssumption, ClientsAssumption
  DEF IInv, TypeOK, Control, StarterOK, EditOK, JobsOK, GradeJobOK, ClosedOK, Closed,
      ClosedLabels, ForceSubmit, Goto
<1>3. Data'
  BY ClientsAssumption
  DEF IInv, TypeOK, Control, StarterOK, EditOK, JobsOK, ClosedOK, Closed, ClosedLabels,
      Data, SnapshotOK, GradedOK, ResultMatchesAnswers, ReviewShowsFinalMarks, Marked,
      ForceSubmit, Goto
<1>4. QED
  BY <1>1, <1>2, <1>3 DEF IInv

LEMMA SnapshotPreserves ==
  ASSUME IInv, NEW x \in Graders, Snapshot(x)
  PROVE  IInv'
<1>1. TypeOK'
  BY BoundsAssumption, ClientsAssumption, RowsFacts
  DEF IInv, Control, EditOK, JobsOK, GradeJobOK, StarterOK, TypeOK, Labels, Snapshot, Throw,
      ClearLocals
<1>2. Control'
  BY BoundsAssumption, ClientsAssumption
  DEF IInv, TypeOK, Control, StarterOK, EditOK, JobsOK, GradeJobOK, ClosedOK, Closed,
      ClosedLabels, Snapshot, Throw, ClearLocals
<1>3. Data'
  BY ClientsAssumption
  DEF IInv, TypeOK, Control, StarterOK, EditOK, JobsOK, ClosedOK, Closed, ClosedLabels,
      Data, SnapshotOK, GradedOK, ResultMatchesAnswers, ReviewShowsFinalMarks, Marked,
      Snapshot, Throw, ClearLocals
<1>4. QED
  BY <1>1, <1>2, <1>3 DEF IInv

LEMMA MarkRowPreserves ==
  ASSUME IInv, NEW x \in Graders, MarkRow(x)
  PROVE  IInv'
<1>1. TypeOK'
  BY BoundsAssumption, ClientsAssumption, MarkType
  DEF IInv, Control, EditOK, JobsOK, GradeJobOK, StarterOK, TypeOK, Labels, MarkRow
<1>2. Control'
  BY BoundsAssumption, ClientsAssumption
  DEF IInv, TypeOK, Control, StarterOK, EditOK, JobsOK, GradeJobOK, ClosedOK, Closed,
      ClosedLabels, MarkRow
<1>3. Data'
  BY ClientsAssumption
  DEF IInv, TypeOK, Control, StarterOK, EditOK, JobsOK, ClosedOK, Closed, ClosedLabels,
      Data, SnapshotOK, GradedOK, ResultMatchesAnswers, ReviewShowsFinalMarks, Marked,
      MarkRow
<1>4. QED
  BY <1>1, <1>2, <1>3 DEF IInv

LEMMA StoreResultPreserves ==
  ASSUME IInv, NEW x \in Graders, StoreResult(x)
  PROVE  IInv'
<1>1. TypeOK'
  BY BoundsAssumption, ClientsAssumption
  DEF IInv, Control, EditOK, JobsOK, GradeJobOK, StarterOK, TypeOK, Labels, StoreResult,
      Goto, Return, ClearLocals
<1>2. Control'
  BY BoundsAssumption, ClientsAssumption
  DEF IInv, TypeOK, Control, StarterOK, EditOK, JobsOK, GradeJobOK, ClosedOK, Closed,
      ClosedLabels, StoreResult, Goto, Return, ClearLocals
<1>3. Data'
  BY ClientsAssumption
  DEF IInv, TypeOK, Control, StarterOK, EditOK, JobsOK, ClosedOK, Closed, ClosedLabels,
      Data, SnapshotOK, GradedOK, ResultMatchesAnswers, ReviewShowsFinalMarks, Marked,
      StoreResult, Goto, Return, ClearLocals
<1>4. QED
  BY <1>1, <1>2, <1>3 DEF IInv

LEMMA EmitGradedPreserves ==
  ASSUME IInv, NEW x \in Graders, EmitGraded(x)
  PROVE  IInv'
<1>1. TypeOK'
  BY BoundsAssumption, ClientsAssumption
  DEF IInv, Control, EditOK, JobsOK, GradeJobOK, StarterOK, TypeOK, Labels, EmitGraded,
      Return, ClearLocals
<1>2. Control'
  BY BoundsAssumption, ClientsAssumption
  DEF IInv, TypeOK, Control, StarterOK, EditOK, JobsOK, GradeJobOK, ClosedOK, Closed,
      ClosedLabels, EmitGraded, Return, ClearLocals
<1>3. Data'
  BY ClientsAssumption
  DEF IInv, TypeOK, Control, StarterOK, EditOK, JobsOK, ClosedOK, Closed, ClosedLabels,
      Data, SnapshotOK, GradedOK, ResultMatchesAnswers, ReviewShowsFinalMarks, Marked,
      EmitGraded, Return, ClearLocals
<1>4. QED
  BY <1>1, <1>2, <1>3 DEF IInv

LEMMA ReviewReadPreserves ==
  ASSUME IInv, NEW c \in Clients, ReviewRead(c)
  PROVE  IInv'
<1>1. TypeOK'
  BY BoundsAssumption, ClientsAssumption
  DEF IInv, Control, EditOK, JobsOK, GradeJobOK, StarterOK, TypeOK, Labels, ReviewRead, Goto
<1>2. Control'
  BY BoundsAssumption, ClientsAssumption
  DEF IInv, TypeOK, Control, StarterOK, EditOK, JobsOK, GradeJobOK, ClosedOK, Closed,
      ClosedLabels, ReviewRead, Goto
<1>3. Data'
  BY ClientsAssumption
  DEF IInv, TypeOK, Control, StarterOK, EditOK, JobsOK, ClosedOK, Closed, ClosedLabels,
      Data, SnapshotOK, GradedOK, ResultMatchesAnswers, ReviewShowsFinalMarks, Marked,
      ReviewRead, Goto
<1>4. QED
  BY <1>1, <1>2, <1>3 DEF IInv

LEMMA ReviewAnswersPreserves ==
  ASSUME IInv, NEW c \in Clients, ReviewAnswers(c)
  PROVE  IInv'
<1>1. TypeOK'
  BY BoundsAssumption, ClientsAssumption
  DEF IInv, Control, EditOK, JobsOK, GradeJobOK, StarterOK, TypeOK, Labels, ReviewAnswers,
      Return, ClearLocals
<1>2. Control'
  BY BoundsAssumption, ClientsAssumption
  DEF IInv, TypeOK, Control, StarterOK, EditOK, JobsOK, GradeJobOK, ClosedOK, Closed,
      ClosedLabels, ReviewAnswers, Return, ClearLocals
<1>3. Data'
  BY ClientsAssumption
  DEF IInv, TypeOK, Control, StarterOK, EditOK, JobsOK, ClosedOK, Closed, ClosedLabels,
      Data, SnapshotOK, GradedOK, ResultMatchesAnswers, ReviewShowsFinalMarks, Marked,
      ReviewAnswers, Return, ClearLocals
<1>4. QED
  BY <1>1, <1>2, <1>3 DEF IInv

LEMMA AwaitRejectsPreserves ==
  ASSUME IInv, NEW x \in Executors, AwaitRejects(x)
  PROVE  IInv'
<1>1. TypeOK'
  BY BoundsAssumption, ClientsAssumption
  DEF IInv, Control, EditOK, JobsOK, GradeJobOK, StarterOK, TypeOK, Labels, AwaitRejects,
      Throw, ClearLocals
<1>2. Control'
  BY BoundsAssumption, ClientsAssumption
  DEF IInv, TypeOK, Control, StarterOK, EditOK, JobsOK, GradeJobOK, ClosedOK, Closed,
      ClosedLabels, AwaitRejects, Throw, ClearLocals
<1>3. Data'
  BY ClientsAssumption
  DEF IInv, TypeOK, Control, StarterOK, EditOK, JobsOK, ClosedOK, Closed, ClosedLabels,
      Data, SnapshotOK, GradedOK, ResultMatchesAnswers, ReviewShowsFinalMarks, Marked,
      AwaitRejects, Throw, ClearLocals
<1>4. QED
  BY <1>1, <1>2, <1>3 DEF IInv

-----------------------------------------------------------------------------
\* A stuttering step preserves it.
LEMMA StutterPreserves == IInv /\ UNCHANGED vars => IInv'
<1>1. SUFFICES ASSUME IInv, UNCHANGED vars
               PROVE  IInv'
  OBVIOUS
<1>2. TypeOK'
  BY <1>1 DEF IInv, TypeOK
<1>3. Control'
  BY <1>1 DEF IInv, Control, StarterOK, EditOK, JobsOK, GradeJobOK, ClosedOK, Closed
<1>4. Data'
  BY <1>1 DEF IInv, Data, SnapshotOK, GradedOK, ResultMatchesAnswers, ReviewShowsFinalMarks,
     Marked
<1>5. QED
  BY <1>2, <1>3, <1>4 DEF IInv

LEMMA NextPreserves == IInv /\ [Next]_vars => IInv'
<1>1. SUFFICES ASSUME IInv, Next
               PROVE  IInv'
  BY StutterPreserves
<1>2. ASSUME NEW c \in Clients, Request(c)
      PROVE  IInv'
  BY <1>1, <1>2, SaveAnswerPreserves, FlagAnswerPreserves, SubmitPreserves, ReviewReadPreserves
  DEF Request
<1>3. ASSUME NEW c \in Clients, ClientStep(c)
      PROVE  IInv'
  BY <1>1, <1>3, FindAnswerPreserves, WriteSelectedPreserves, WriteFlagPreserves,
     SubmitReadPreserves, SubmitCasPreserves, EnqueueGradePreserves, ReviewAnswersPreserves
  DEF ClientStep
<1>4. ASSUME NEW x \in Graders, GradeStep(x)
      PROVE  IInv'
  BY <1>1, <1>4, GradeReadPreserves, ForceSubmitPreserves, SnapshotPreserves,
     MarkRowPreserves, StoreResultPreserves, EmitGradedPreserves
  DEF GradeStep
<1>5. QED
  BY <1>1, <1>2, <1>3, <1>4, InsertSessionPreserves, InsertAnswersPreserves,
     ScheduleAutoSubmitPreserves, DeadlinePassesPreserves, JobDuePreserves,
     AutoSubmitReadPreserves, TakeJobPreserves, AwaitRejectsPreserves
  DEF Next

\* The inductive invariant holds in every reachable state.
THEOREM Inductive == Spec => []IInv
  BY InitEstablishes, NextPreserves, PTL DEF Spec

\* Type correctness: no job is tried more than MaxAttempts times, and every
\* stored result is the tally of some set of answer rows.
THEOREM TypeCorrect == Spec => []TypeOK
<1>1. IInv => TypeOK
  BY DEF IInv
<1>2. QED
  BY <1>1, Inductive, PTL

\* Whatever gradings overlap, the stored counts and marks are those of the
\* student's answers, unless an answer row was written late.
THEOREM ResultCorrect == Spec => []ResultMatchesAnswers
<1>1. IInv => ResultMatchesAnswers
  BY DEF IInv, Data
<1>2. QED
  BY <1>1, Inductive, PTL

\* A review shows final marks even while another grading runs.
THEOREM ReviewCorrect == Spec => []ReviewShowsFinalMarks
<1>1. IInv => ReviewShowsFinalMarks
  BY DEF IInv, Data
<1>2. QED
  BY <1>1, Inductive, PTL

\* However many requests submit the session, at most one grade job exists.
THEOREM OneGradeJob == Spec => []GradeJobAtMostOnce
<1>1. IInv => GradeJobAtMostOnce
  BY DEF IInv, Control, GradeJobOK, GradeJobAtMostOnce
<1>2. QED
  BY <1>1, Inductive, PTL

\* A published result never changes: both its old and its new value are the
\* tally of the same answers.
THEOREM ResultStable == Spec => PublishedResultStable
<1>1. ASSUME IInv, Next, result # NoResult, ~lateWrite'
      PROVE  result' = result
  <2>1. CASE \E x \in Graders : StoreResult(x)
    <3>1. PICK x \in Graders : StoreResult(x)
      BY <2>1
    <3>2. snap[x] = answers /\ ~lateWrite
      BY <1>1, <3>1 DEF IInv, Data, SnapshotOK, StoreResult
    <3>3. result = Tally(answers)
      BY <1>1, <3>2 DEF IInv, Data, ResultMatchesAnswers
    <3>4. QED
      BY <3>1, <3>2, <3>3 DEF StoreResult
  <2>2. CASE \A x \in Graders : ~StoreResult(x)
    <3>1. \A c \in Clients : Request(c) \/ ClientStep(c) => result' = result
      BY DEF Request, SaveAnswer, FlagAnswer, Submit, ReviewRead, ClientStep, FindAnswer,
         WriteSelected, WriteFlag, SubmitRead, SubmitCas, EnqueueGrade, ReviewAnswers
    <3>2. \A x \in Graders : GradeStep(x) => result' = result
      BY <2>2 DEF GradeStep, GradeRead, ForceSubmit, Snapshot, MarkRow, EmitGraded
    <3>3. QED
      BY <1>1, <3>1, <3>2
      DEF Next, InsertSession, InsertAnswers, ScheduleAutoSubmit, DeadlinePasses, JobDue,
          AutoSubmitRead, TakeJob, AwaitRejects
  <2>3. QED
    BY <2>1, <2>2
<1>2. IInv /\ [Next]_vars => [result # NoResult /\ ~lateWrite' => result' = result]_vars
  BY <1>1
<1>3. QED
  BY <1>2, Inductive, PTL DEF Spec, PublishedResultStable
-----------------------------------------------------------------------------
(* The refinement of ExamPaper. *)

PaperSame == UNCHANGED <<Phase, answers, result, lateWrite>>

LEMMA PhaseCases ==
  /\ status = "none" <=> Phase = "new"
  /\ status = "in_progress" <=> Phase = "open"
  /\ Phase \in {"new", "open", "closed"}
  BY DEF Phase

LEMMA PhaseCasesNext ==
  /\ status' = "none" <=> Phase' = "new"
  /\ status' = "in_progress" <=> Phase' = "open"
  /\ Phase' \in {"new", "open", "closed"}
  BY DEF Phase

LEMMA PaperInit == Init => Paper!Init
  BY DEF Init, Phase, Paper!Init

\* The session is opened, its rows are handed out, and the job is planned.
LEMMA PaperStart ==
  ASSUME IInv, InsertSession \/ InsertAnswers \/ ScheduleAutoSubmit
  PROVE  Paper!Next \/ PaperSame
<1>1. CASE InsertSession
  <2>1. Phase = "new" /\ Phase' = "open"
    BY <1>1, PhaseCases, PhaseCasesNext DEF IInv, Control, StarterOK, InsertSession
  <2>2. Paper!Open
    BY <1>1, <2>1 DEF Paper!Open, InsertSession, data, history
  <2>3. QED
    BY <2>2 DEF Paper!Next
<1>2. CASE InsertAnswers
  <2>1. answers = NoRows /\ lateWrite' = (lateWrite \/ Phase # "open")
    BY <1>2, PhaseCases DEF IInv, Control, StarterOK, InsertAnswers
  <2>2. Paper!HandOut
    BY <1>2, <2>1 DEF Paper!HandOut, Paper!Write, InsertAnswers, Phase
  <2>3. QED
    BY <2>2 DEF Paper!Next
<1>3. CASE ScheduleAutoSubmit
  BY <1>3 DEF PaperSame, Phase, ScheduleAutoSubmit
<1>4. QED
  BY <1>1, <1>2, <1>3

\* Of the owner's requests one writes an answer and one closes the paper.
LEMMA PaperClient ==
  ASSUME IInv, NEW c \in Clients, Request(c) \/ ClientStep(c)
  PROVE  Paper!Next \/ PaperSame
<1>1. CASE \/ Request(c) \/ FindAnswer(c) \/ WriteFlag(c) \/ SubmitRead(c)
           \/ EnqueueGrade(c) \/ ReviewAnswers(c)
  BY <1>1 DEF PaperSame, Phase, Request, SaveAnswer, FlagAnswer, Submit, ReviewRead, FindAnswer,
     WriteFlag, SubmitRead, EnqueueGrade, ReviewAnswers
<1>2. CASE WriteSelected(c)
  <2>1. edit[c] \in Edits /\ edit[c].q \in Questions /\ edit[c].to \in Options
    BY <1>2 DEF IInv, Control, EditOK, Edits, WriteSelected
  <2>2. answers # NoRows
    BY <1>2, RowsFacts DEF IInv, Control, EditOK, WriteSelected
  <2>3. lateWrite' = (lateWrite \/ Phase # "open")
    BY <1>2, PhaseCases DEF WriteSelected
  <2>4. Paper!Answer(edit[c].q, edit[c].to)
    BY <1>2, <2>2, <2>3 DEF Paper!Answer, Paper!Write, WriteSelected, Phase
  <2>5. QED
    BY <2>1, <2>4 DEF Paper!Next
<1>3. CASE SubmitCas(c)
  <2>1. CASE status = "in_progress"
    <3>1. Phase = "open" /\ Phase' = "closed"
      BY <1>3, <2>1 DEF Phase, SubmitCas
    <3>2. Paper!Close
      BY <1>3, <3>1 DEF Paper!Close, SubmitCas
    <3>3. QED
      BY <3>2 DEF Paper!Next
  <2>2. CASE status # "in_progress"
    BY <1>3, <2>2 DEF PaperSame, Phase, SubmitCas
  <2>3. QED
    BY <2>1, <2>2
<1>4. QED
  BY <1>1, <1>2, <1>3 DEF ClientStep

\* The last update of a grading publishes the tally of the sheet as it is, or
\* writes again what is published; after a late write it may do anything.
LEMMA PaperPublished ==
  ASSUME IInv, NEW x \in Graders, StoreResult(x)
  PROVE  Paper!Next \/ PaperSame
<1>1. Phase = "closed" /\ Phase' = "closed"
  BY DEF IInv, Control, ClosedOK, ClosedLabels, Closed, StoreResult, Phase
<1>2. UNCHANGED <<answers, lateWrite>> /\ result' = Tally(snap[x])
  BY DEF StoreResult
<1>3. CASE lateWrite
  <2>1. snap[x] \in Paper!Sheets \cup {NoRows}
    BY DEF IInv, TypeOK, Rows, Choices, Paper!Sheets
  <2>2. CASE result' = result
    BY <1>1, <1>2, <2>2 DEF PaperSame
  <2>3. CASE result' # result
    <3>1. Paper!Revise
      BY <1>1, <1>2, <1>3, <2>1, <2>3 DEF Paper!Revise
    <3>2. QED
      BY <3>1 DEF Paper!Next
  <2>4. QED
    BY <2>2, <2>3
<1>4. CASE ~lateWrite
  <2>1. result' = Tally(answers)
    BY <1>2, <1>4 DEF IInv, Data, SnapshotOK, StoreResult
  <2>2. CASE result = NoResult
    <3>1. Paper!Publish
      BY <1>1, <1>2, <1>4, <2>1, <2>2 DEF Paper!Publish
    <3>2. QED
      BY <3>1 DEF Paper!Next
  <2>3. CASE result # NoResult
    BY <1>1, <1>2, <1>4, <2>1, <2>3 DEF IInv, Data, ResultMatchesAnswers, PaperSame
  <2>4. QED
    BY <2>2, <2>3
<1>5. QED
  BY <1>3, <1>4

LEMMA PaperGrade ==
  ASSUME IInv, NEW x \in Graders, GradeStep(x)
  PROVE  Paper!Next \/ PaperSame
<1>1. CASE GradeRead(x) \/ Snapshot(x) \/ MarkRow(x) \/ EmitGraded(x)
  BY <1>1 DEF PaperSame, Phase, GradeRead, Snapshot, MarkRow, EmitGraded
<1>2. CASE ForceSubmit(x)
  <2>1. Phase \in {"open", "closed"} /\ Phase' = "closed"
    BY <1>2, PhaseCases DEF IInv, Control, ClosedOK, ForceSubmit, Phase
  <2>2. CASE Phase = "open"
    <3>1. Paper!Close
      BY <1>2, <2>1, <2>2 DEF Paper!Close, ForceSubmit
    <3>2. QED
      BY <3>1 DEF Paper!Next
  <2>3. CASE Phase = "closed"
    BY <1>2, <2>1, <2>3 DEF PaperSame, ForceSubmit
  <2>4. QED
    BY <2>1, <2>2, <2>3
<1>3. QED
  BY <1>1, <1>2, PaperPublished DEF GradeStep

LEMMA PaperNext == IInv /\ [Next]_vars => [Paper!Next]_(Paper!paper)
<1>1. SUFFICES ASSUME IInv, [Next]_vars
               PROVE  Paper!Next \/ PaperSame
  BY DEF PaperSame, Paper!paper
<1>2. CASE UNCHANGED vars
  BY <1>2 DEF PaperSame, Phase
<1>3. CASE \/ DeadlinePasses \/ JobDue \/ AutoSubmitRead
           \/ \E j \in Jobs : TakeJob(j)
           \/ \E x \in Executors : AwaitRejects(x)
  BY <1>3 DEF PaperSame, Phase, DeadlinePasses, JobDue, AutoSubmitRead, TakeJob,
     AwaitRejects
<1>4. QED
  BY <1>1, <1>2, <1>3, PaperStart, PaperClient, PaperGrade DEF Next

\* Every behaviour of a session is one of the paper's: it is handed out and
\* taken in once, and its result is published once, from the answers on it.
THEOREM Refinement == Spec => ImplementsPaper
  BY PaperInit, PaperNext, Inductive, PTL DEF Spec, Paper!Spec, ImplementsPaper

-----------------------------------------------------------------------------
(* What is left of GradedInTheEnd: that somebody is at work on the session    *)
(* holds as long as only the grade job fails, less often than it is tried, no *)
(* enqueue is lost and the package stays.  The auto-submit job has no such    *)
(* second chance, which is what the run exam_promise shows.                   *)

Undisturbed ==
  Faulty \subseteq {Grade} /\ MaxFaults < MaxAttempts /\ MaxDrops = 0 /\ ~PackageRemovable

\* A session that has its auto-submit job is graded, or somebody is still at
\* work on it: the auto-submit while the session is open, then the request
\* that took it in, the grade job or a grading (service.ts:384-392, 506-620).
\* What fairness adds is that they go on.
AutoSubmitAtWork ==
  job[AutoSubmit] \in {"delayed", "waiting"} \/ pc[AutoSubmit] \in {"autoRead", "gradeRead", "force"}

Grading(x) == pc[x] \in {"snapshot", "mark"}

GradingAtWork ==
  \/ job[Grade] = "waiting" \/ pc[Grade] \in {"gradeRead", "force"}
  \/ \E x \in Graders : Grading(x)
  \/ \E c \in Clients : pc[c] = "enqueue"

SessionIsInHand ==
  job[AutoSubmit] # "none" =>
    status = "graded" \/ (status = "in_progress" /\ AutoSubmitAtWork) \/ GradingAtWork

HandInv ==
  /\ attempts[Grade] <= faults
  /\ status = "in_progress" /\ job[AutoSubmit] # "none" => AutoSubmitAtWork
  /\ status = "submitted" => GradingAtWork

LEMMA HandInit == Init => HandInv
  BY DEF Init, HandInv

LEMMA HandStart ==
  ASSUME Undisturbed, IInv, HandInv, InsertSession \/ InsertAnswers \/ ScheduleAutoSubmit
  PROVE  HandInv'
<1>1. Starter \notin Graders
  BY ClientsAssumption
<1>2. /\ \A x \in Graders : pc'[x] = pc[x]
      /\ UNCHANGED <<attempts, faults>>
  BY <1>1 DEF IInv, TypeOK, InsertSession, InsertAnswers, ScheduleAutoSubmit, Goto
<1>3. CASE InsertSession
  <2>1. status' = "in_progress" /\ job'[AutoSubmit] = "none"
    BY <1>3 DEF IInv, Control, StarterOK, InsertSession
  <2>2. QED
    BY <1>2, <2>1 DEF HandInv
<1>4. CASE InsertAnswers
  <2>1. UNCHANGED <<status, job>>
    BY <1>4 DEF InsertAnswers
  <2>2. QED
    BY <1>2, <2>1 DEF HandInv, AutoSubmitAtWork, GradingAtWork, Grading
<1>5. CASE ScheduleAutoSubmit
  <2>1. job' = [job EXCEPT ![AutoSubmit] = "delayed"] /\ UNCHANGED status
    BY <1>5 DEF Undisturbed, IInv, TypeOK, ScheduleAutoSubmit, Add
  <2>2. job'[AutoSubmit] = "delayed" /\ job'[Grade] = job[Grade]
    BY <2>1 DEF IInv, TypeOK
  <2>3. QED
    BY <1>2, <2>1, <2>2 DEF HandInv, AutoSubmitAtWork, GradingAtWork, Grading
<1>6. QED
  BY <1>3, <1>4, <1>5

\* A step of one client that neither enters nor leaves the work of grading.
LEMMA HandIdle ==
  ASSUME IInv, HandInv, NEW c \in Clients,
         pc[c] \notin {"snapshot", "mark", "enqueue"},
         \A x \in Graders \ {c} : pc'[x] = pc[x],
         UNCHANGED <<status, job, attempts, faults>>
  PROVE  HandInv'
<1>1. c \notin Jobs
  BY ClientsAssumption
<1>2. GradingAtWork => GradingAtWork'
  <2>1. \A x \in Graders : Grading(x) => Grading(x)'
    BY DEF Grading
  <2>2. QED
    BY <1>1, <2>1 DEF GradingAtWork
<1>3. AutoSubmitAtWork => AutoSubmitAtWork'
  BY <1>1 DEF AutoSubmitAtWork
<1>4. QED
  BY <1>2, <1>3 DEF HandInv

LEMMA HandClient ==
  ASSUME Undisturbed, IInv, HandInv, NEW c \in Clients, Request(c) \/ ClientStep(c)
  PROVE  HandInv'
<1>1. c \notin Jobs /\ c # Starter
  BY ClientsAssumption
<1>2. /\ \A x \in Graders \ {c} : pc'[x] = pc[x]
      /\ UNCHANGED <<attempts, faults>>
  BY <1>1 DEF IInv, TypeOK, Request, ClientStep, SaveAnswer, FlagAnswer, Submit, ReviewRead,
     FindAnswer, WriteSelected, WriteFlag, SubmitRead, SubmitCas, EnqueueGrade, ReviewAnswers,
     Submitted, Goto, Return
<1>3. CASE SubmitCas(c) /\ status = "in_progress"
  <2>1. status' = "submitted" /\ pc'[c] = "enqueue"
    BY <1>3 DEF IInv, TypeOK, SubmitCas, Goto
  <2>2. QED
    BY <1>2, <2>1 DEF HandInv, GradingAtWork
<1>4. CASE EnqueueGrade(c)
  <2>1. job' = [job EXCEPT ![Grade] = "waiting"] /\ UNCHANGED status
    BY <1>4 DEF Undisturbed, IInv, TypeOK, EnqueueGrade, Add
  <2>2. job'[Grade] = "waiting" /\ job'[AutoSubmit] = job[AutoSubmit]
    BY <2>1 DEF IInv, TypeOK
  <2>3. QED
    BY <1>1, <1>2, <2>1, <2>2 DEF HandInv, AutoSubmitAtWork, GradingAtWork
<1>5. CASE Request(c) \/ (ClientStep(c) /\ ~EnqueueGrade(c) /\ ~(SubmitCas(c) /\ status = "in_progress"))
  <2>1. pc[c] \notin {"snapshot", "mark", "enqueue"} /\ UNCHANGED status
    BY <1>5 DEF Request, ClientStep, SaveAnswer, FlagAnswer, Submit, ReviewRead,
       FindAnswer, WriteSelected, WriteFlag, SubmitRead, SubmitCas, ReviewAnswers
  <2>2. UNCHANGED job
    BY <1>1, <1>5 DEF IInv, TypeOK, Request, ClientStep, SaveAnswer, FlagAnswer, Submit,
       ReviewRead, FindAnswer, WriteSelected, WriteFlag, SubmitRead, SubmitCas, ReviewAnswers,
       Submitted, Goto, Return
  <2>3. QED
    BY <1>2, <2>1, <2>2, HandIdle
<1>6. QED
  BY <1>3, <1>4, <1>5

LEMMA HandWorker ==
  ASSUME Undisturbed, IInv, HandInv,
         \/ DeadlinePasses \/ JobDue \/ AutoSubmitRead
         \/ \E j \in Jobs : TakeJob(j)
  PROVE  HandInv'
<1>1. /\ \A c \in Clients : pc'[c] = pc[c] /\ c \notin Jobs
      /\ UNCHANGED <<status, attempts, faults>>
  BY ClientsAssumption DEF Undisturbed, IInv, TypeOK, DeadlinePasses, JobDue, AutoSubmitRead,
     TakeJob, Goto, Return
<1>2. CASE DeadlinePasses
  BY <1>1, <1>2 DEF Undisturbed, DeadlinePasses, HandInv, AutoSubmitAtWork,
     GradingAtWork, Grading
<1>3. CASE JobDue
  <2>1. job'[AutoSubmit] = "waiting" /\ job'[Grade] = job[Grade] /\ UNCHANGED pc
    BY <1>3 DEF IInv, TypeOK, JobDue
  <2>2. QED
    BY <1>1, <2>1, <1>3 DEF JobDue, HandInv, AutoSubmitAtWork, GradingAtWork, Grading
<1>4. CASE AutoSubmitRead
  <2>1. /\ pc[AutoSubmit] = "autoRead" /\ pc'[Grade] = pc[Grade] /\ job'[Grade] = job[Grade]
        /\ \A x \in Graders : Grading(x) => Grading(x)'
    BY <1>1, <1>4 DEF IInv, TypeOK, AutoSubmitRead, Goto, Return, Grading
  <2>2. status = "in_progress" => job' = job /\ pc'[AutoSubmit] = "gradeRead"
    BY <1>4 DEF IInv, TypeOK, AutoSubmitRead, Goto
  <2>3. QED
    BY <1>1, <2>1, <2>2 DEF HandInv, AutoSubmitAtWork, GradingAtWork
<1>5. ASSUME NEW j \in Jobs, TakeJob(j)
      PROVE  HandInv'
  <2>1. /\ job[j] = "waiting" /\ pc[j] = "idle"
        /\ pc'[j] = IF j = AutoSubmit THEN "autoRead" ELSE "gradeRead"
        /\ \A x \in Graders \ {j} : pc'[x] = pc[x]
        /\ \A k \in Jobs \ {j} : job'[k] = job[k]
    BY <1>5 DEF IInv, TypeOK, TakeJob, Goto
  <2>2. \A x \in Graders : Grading(x) => Grading(x)'
    BY <2>1 DEF Grading
  <2>3. AutoSubmitAtWork => AutoSubmitAtWork'
    BY <2>1 DEF AutoSubmitAtWork
  <2>4. GradingAtWork => GradingAtWork'
    BY <1>1, <2>1, <2>2 DEF GradingAtWork
  <2>5. job[AutoSubmit] = "none" => job'[AutoSubmit] = "none"
    BY <2>1
  <2>6. QED
    BY <1>1, <2>3, <2>4, <2>5 DEF HandInv
<1>6. QED
  BY <1>2, <1>3, <1>4, <1>5

LEMMA HandGrade ==
  ASSUME Undisturbed, IInv, HandInv, NEW x \in Graders, GradeStep(x)
  PROVE  HandInv'
<1>1. x # Starter
  BY ClientsAssumption
<1>2. ~PackageRemovable /\ UNCHANGED <<attempts, faults>>
  BY DEF Undisturbed, GradeStep, GradeRead, ForceSubmit, Snapshot, MarkRow, StoreResult,
     EmitGraded, Goto, Return
<1>3. /\ \A y \in Graders \ {x} : pc'[y] = pc[y]
      /\ \A j \in Jobs \ {x} : job'[j] = job[j]
      /\ job'[AutoSubmit] = "none" => job[AutoSubmit] = "none"
  BY <1>1, <1>2 DEF IInv, TypeOK, GradeStep, GradeRead, ForceSubmit, Snapshot, MarkRow,
     StoreResult, EmitGraded, Goto, Return
<1>4. CASE GradeRead(x)
  <2>1. pc[x] = "gradeRead" /\ UNCHANGED status
    BY <1>4 DEF GradeRead
  <2>2. CASE status = "graded"
    BY <1>2, <2>1, <2>2 DEF HandInv
  <2>3. CASE status = "submitted"
    <3>1. Grading(x)'
      BY <1>4, <2>3 DEF IInv, TypeOK, GradeRead, Goto, Grading
    <3>2. QED
      BY <1>2, <2>1, <2>3, <3>1 DEF HandInv, GradingAtWork
  <2>4. CASE status = "in_progress"
    <3>1. pc'[x] = "force" /\ job' = job
      BY <1>4, <2>4 DEF IInv, TypeOK, GradeRead, Goto
    <3>2. AutoSubmitAtWork => AutoSubmitAtWork'
      BY <1>3, <3>1 DEF AutoSubmitAtWork
    <3>3. QED
      BY <1>2, <2>1, <2>4, <3>1, <3>2 DEF HandInv
  <2>5. CASE status = "none"
    BY <1>2, <2>1, <2>5 DEF HandInv
  <2>6. QED
    BY <2>2, <2>3, <2>4, <2>5 DEF IInv, TypeOK
<1>5. CASE ForceSubmit(x)
  <2>1. status' = "submitted" /\ Grading(x)'
    BY <1>5 DEF IInv, TypeOK, ForceSubmit, Goto, Grading
  <2>2. QED
    BY <1>2, <2>1 DEF HandInv, GradingAtWork
<1>6. CASE Snapshot(x) \/ MarkRow(x)
  <2>1. /\ UNCHANGED <<status, job>> /\ Grading(x) /\ Grading(x)'
        /\ pc[x] \notin {"autoRead", "gradeRead", "force", "enqueue"}
    BY <1>2, <1>6 DEF IInv, TypeOK, Snapshot, MarkRow, Grading
  <2>2. AutoSubmitAtWork => AutoSubmitAtWork'
    BY <1>3, <2>1 DEF AutoSubmitAtWork
  <2>3. GradingAtWork'
    BY <2>1 DEF GradingAtWork
  <2>4. QED
    BY <1>2, <2>1, <2>2, <2>3 DEF HandInv
<1>7. CASE StoreResult(x)
  BY <1>2, <1>7 DEF StoreResult, HandInv
<1>8. CASE EmitGraded(x)
  <2>1. UNCHANGED status /\ pc[x] = "emit"
    BY <1>8 DEF EmitGraded
  <2>2. status \in {"submitted", "graded"}
    BY <2>1 DEF IInv, Control, ClosedOK, Closed, ClosedLabels
  <2>3. \A y \in Graders : Grading(y) => Grading(y)'
    BY <1>3, <2>1 DEF Grading
  <2>4. job[Grade] = "waiting" => x # Grade
    BY <2>1 DEF IInv, Control, JobsOK
  <2>5. \A c \in Clients : pc[c] = "enqueue" => pc'[c] = "enqueue"
    BY <1>3, <2>1
  <2>6. pc[Grade] \in {"gradeRead", "force"} => pc'[Grade] = pc[Grade]
    BY <1>3, <2>1
  <2>7. GradingAtWork => GradingAtWork'
    BY <1>3, <2>3, <2>4, <2>5, <2>6 DEF GradingAtWork
  <2>8. QED
    BY <1>2, <2>1, <2>2, <2>7 DEF HandInv
<1>9. QED
  BY <1>4, <1>5, <1>6, <1>7, <1>8 DEF GradeStep

LEMMA HandFault ==
  ASSUME Undisturbed, IInv, HandInv, NEW x \in Executors, AwaitRejects(x)
  PROVE  HandInv'
<1>1. x = Grade /\ faults < MaxFaults
  BY DEF Undisturbed, AwaitRejects
<1>2. /\ faults \in Nat /\ attempts[Grade] \in Nat
      /\ faults' = faults + 1 /\ attempts'[Grade] = attempts[Grade] + 1
  BY <1>1, BoundsAssumption DEF IInv, TypeOK, AwaitRejects, Throw
<1>3. attempts[Grade] + 1 < MaxAttempts
  BY <1>1, <1>2, BoundsAssumption DEF HandInv, Undisturbed
<1>4. job'[Grade] = "waiting" /\ job'[AutoSubmit] = job[AutoSubmit]
  BY <1>1, <1>3 DEF AwaitRejects, Throw
<1>5. pc'[AutoSubmit] = pc[AutoSubmit] /\ UNCHANGED status
  BY <1>1 DEF IInv, TypeOK, AwaitRejects, Throw
<1>6. QED
  BY <1>2, <1>4, <1>5 DEF HandInv, AutoSubmitAtWork, GradingAtWork

\* While nothing but grade jobs fails, no session is forgotten before it is
\* graded.
THEOREM GradingNotForgotten ==
  ASSUME Undisturbed
  PROVE  Spec => []SessionIsInHand
<1>1. IInv /\ HandInv /\ [Next]_vars => HandInv'
  <2>1. SUFFICES ASSUME IInv, HandInv, [Next]_vars
                 PROVE  HandInv'
    OBVIOUS
  <2>2. CASE UNCHANGED vars
    <3>1. UNCHANGED <<status, job, attempts, pc, faults>>
      BY <2>2
    <3>2. (AutoSubmitAtWork' <=> AutoSubmitAtWork) /\ (GradingAtWork' <=> GradingAtWork)
      BY <3>1 DEF AutoSubmitAtWork, GradingAtWork, Grading
    <3>3. QED
      BY <2>1, <3>1, <3>2 DEF HandInv
  <2>3. QED
    BY <2>1, <2>2, HandStart, HandClient, HandWorker, HandGrade, HandFault DEF Next
<1>2. IInv /\ HandInv => SessionIsInHand
  BY DEF IInv, TypeOK, Control, StarterOK, HandInv, SessionIsInHand
<1>3. QED
  BY <1>1, <1>2, HandInit, Inductive, PTL DEF Spec
=============================================================================
