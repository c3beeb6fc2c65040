-------------------------- MODULE Learning_proofs --------------------------
(***************************************************************************)
(* Proofs about Learning for any calls, courses, lessons, badges and       *)
(* number of faults.                                                       *)
(*                                                                         *)
(* The argument.  CertificatesOK: between the two reads of completed       *)
(* courses a lesson can only appear in a course that is then marked grown, *)
(* and a new lesson has no progress, so what the second read finds         *)
(* complete was complete.  BadgesOK: whoever inserted the last points has  *)
(* yet to sum them or has the sum that a missing badge needs.  StreamsOK:  *)
(* what the gate read showed the video then, or was opened by it.          *)
(* VideoOK: while a job is at work the status is not "ready", and a call   *)
(* that is about to queue a job saw to that itself.  WorkInv: a job that   *)
(* failed has another attempt left.  A stuck video needs no invariant: no  *)
(* step leads out of it.                                                   *)
(***************************************************************************)
EXTENDS Learning, TLAPS

CertificatesOK ==
  /\ \A l \in Lessons : progress[l] # "none" => l \in lessons
  /\ \A k \in Courses : Complete(progress, k) => k \in complete
  /\ \A c \in Calls :
       /\ pc[c] \in {"progress", "update", "insert"} => memo[c].lesson \in lessons
       /\ pc[c] \in {"lessonsOf", "doneOf", "issue"} => memo[c].mine \subseteq enrolled
       /\ pc[c] = "doneOf" =>
            \A l \in lessons : CourseOf[l] \in memo[c].mine \ grown => l \in memo[c].seen
       /\ pc[c] = "doneOf" => memo[c].seen \subseteq lessons
       /\ pc[c] = "issue" => memo[c].mine \subseteq complete \cup grown
  /\ \A k \in certificates : k \in enrolled /\ k \in complete \cup grown

Watched(l) == l \in opened \/ CourseOf[l] \in enrolled

StreamsOK ==
  /\ shows \subseteq shown /\ shows \cap free \subseteq opened
  /\ \A c \in Calls :
       /\ pc[c] = "enrolment" =>
            memo[c].seen \subseteq shown \cap lessons /\ memo[c].seen \cap memo[c].open \subseteq opened
       /\ pc[c] \in {"playlist", "granted"} => \E l \in shown \cap lessons : Watched(l)
       /\ pc[c] = "granted" => output # "none"

VideoOK ==
  /\ video.playlist => output # "none"
  /\ video.status = "ready" => output = "whole"
  /\ job \in {"waiting", "download", "upload", "write"} => video.status # "ready"
  /\ job = "write" => output = "whole"
  /\ job = "none" => failures = 0
  /\ \A c \in Calls : pc[c] = "enqueue" /\ job = "none" => video.status # "ready"

BadgesOK ==
  /\ \A b \in badges : Required[b] <= points
  /\ \A c \in Calls : memo[c].sum <= points
  /\ \A b \in Badges \ badges : points > 0 /\ Required[b] <= points /\ ~lapsed =>
       \E c \in Calls : pc[c] = "total" \/ (pc[c] = "grant" /\ Required[b] <= memo[c].sum)

Memos == [Calls -> [course: Courses, lesson: Lessons, report: Statuses,
                    mine: SUBSET Courses, seen: SUBSET Lessons, open: SUBSET Lessons, sum: Nat]]

IInv == TypeOK /\ CertificatesOK /\ StreamsOK /\ VideoOK /\ BadgesOK

USE DEF studies, shelf, score, media

\* What a step of one call c does to the others, and where it leaves c.
OnlyMoves(c) ==
  /\ \A d \in Calls \ {c} : pc'[d] = pc[d] /\ memo'[d] = memo[d]

-----------------------------------------------------------------------------
(* Steps of a call that touch none of the tables of a part *)

LEMMA CertificatesStay ==
  ASSUME IInv, NEW c \in Calls, OnlyMoves(c),
         UNCHANGED <<lessons, progress, certificates, complete, grown>>,
         enrolled \subseteq enrolled',
         pc'[c] \in {"progress", "update", "insert"} => memo'[c].lesson \in lessons,
         pc'[c] \in {"lessonsOf", "doneOf", "issue"} => memo'[c].mine \subseteq enrolled,
         pc'[c] = "doneOf" =>
           /\ memo'[c].seen \subseteq lessons
           /\ \A l \in lessons : CourseOf[l] \in memo'[c].mine \ grown => l \in memo'[c].seen,
         pc'[c] = "issue" => memo'[c].mine \subseteq complete \cup grown
  PROVE  CertificatesOK'
BY DEF IInv, CertificatesOK, OnlyMoves, Complete, LessonsOf

LEMMA StreamsStay ==
  ASSUME IInv, NEW c \in Calls, OnlyMoves(c),
         lessons \subseteq lessons', enrolled \subseteq enrolled',
         output # "none" => output' # "none", UNCHANGED shelf,
         pc'[c] \notin {"enrolment", "playlist", "granted"}
  PROVE  StreamsOK'
BY DEF IInv, StreamsOK, OnlyMoves, Watched

LEMMA VideoStays ==
  ASSUME IInv, NEW c \in Calls, OnlyMoves(c), UNCHANGED <<video, output, job, failures>>,
         pc'[c] # "enqueue"
  PROVE  VideoOK'
BY DEF IInv, VideoOK, OnlyMoves

LEMMA BadgesStay ==
  ASSUME IInv, NEW c \in Calls, OnlyMoves(c), UNCHANGED <<points, badges, lapsed>>,
         pc[c] \notin {"total", "grant"}, memo'[c].sum = memo[c].sum
  PROVE  BadgesOK'
BY DEF IInv, BadgesOK, OnlyMoves

LEMMA BlankType == Blank.course \in Courses /\ Blank.lesson \in Lessons /\ Blank.sum = 0
                   /\ Blank \in [course: Courses, lesson: Lessons, report: Statuses,
                                 mine: SUBSET Courses, seen: SUBSET Lessons, open: SUBSET Lessons, sum: Nat]
BY LearningAssumption DEF Blank, Statuses

-----------------------------------------------------------------------------
(* Requests of the learner and the mentor *)

StudyStep(c) ==
  \/ ReadEnrolment(c) \/ InsertEnrolment(c) \/ ReadCourse(c) \/ ReadLesson(c)
  \/ FindProgress(c)  \/ ReadEnrolled(c)    \/ ReadLessons(c)

LEMMA StudyStepPreserves ==
  ASSUME IInv, NEW c \in Calls, StudyStep(c)
  PROVE  IInv'
<1>1. TypeOK'
  <2>1. CASE ReadEnrolment(c)
    <3>1. PICK k \in Courses : memo' = [memo EXCEPT ![c].course = k]
      BY <2>1 DEF ReadEnrolment
    <3>2. memo' \in Memos
      <4>1. memo \in Memos
        BY DEF IInv, TypeOK, Memos
      <4>2. QED
        BY <3>1, <4>1 DEF Memos
    <3>3. pc' \in [Calls -> Labels]
      BY <2>1 DEF IInv, TypeOK, Labels, Step, ReadEnrolment
    <3>4. UNCHANGED <<studies, score, media, faults>>
      BY <2>1 DEF ReadEnrolment
    <3>5. QED
      BY <3>2, <3>3, <3>4 DEF IInv, TypeOK, Memos
  <2>2. CASE InsertEnrolment(c)
    BY <2>2 DEF IInv, TypeOK, Labels, Step, InsertEnrolment
  <2>3. CASE ReadCourse(c)
    BY <2>3 DEF IInv, TypeOK, Labels, Step, ReadCourse
  <2>4. CASE ReadLesson(c)
    <3>1. PICK l \in lessons, r \in Statuses :
             memo' = [memo EXCEPT ![c].lesson = l, ![c].report = r]
      BY <2>4 DEF ReadLesson
    <3>2. memo' \in Memos
      <4> DEFINE m == [memo[c] EXCEPT !.lesson = l, !.report = r]
      <4>1. l \in Lessons /\ memo \in Memos
        BY DEF IInv, TypeOK, Memos
      <4>2. m \in [course: Courses, lesson: Lessons, report: Statuses,
                   mine: SUBSET Courses, seen: SUBSET Lessons, open: SUBSET Lessons, sum: Nat]
        BY <4>1 DEF Memos
      <4>3. memo' = [memo EXCEPT ![c] = m]
        BY <3>1, <4>1 DEF Memos
      <4> HIDE DEF m
      <4>4. QED
        BY <4>1, <4>2, <4>3 DEF Memos
    <3>3. pc' = [pc EXCEPT ![c] = "progress"] /\ UNCHANGED <<studies, score, media, faults>>
      BY <2>4 DEF Step, ReadLesson
    <3>4. pc' \in [Calls -> Labels]
      BY <3>3 DEF IInv, TypeOK, Labels
    <3>5. QED
      BY <3>2, <3>3, <3>4 DEF IInv, TypeOK, Memos
  <2>5. CASE FindProgress(c)
    BY <2>5 DEF IInv, TypeOK, Labels, Step, FindProgress
  <2>6. CASE ReadEnrolled(c)
    BY <2>6 DEF IInv, TypeOK, Labels, Step, ReadEnrolled
  <2>7. CASE ReadLessons(c)
    BY <2>7 DEF IInv, TypeOK, Labels, Step, ReadLessons
  <2>8. QED
    BY <2>1, <2>2, <2>3, <2>4, <2>5, <2>6, <2>7 DEF StudyStep
<1>2. /\ OnlyMoves(c) /\ memo'[c].sum = memo[c].sum
      /\ pc[c] \in {"idle", "enrol", "progress", "lessonsOf"}
      /\ pc'[c] \in {"ok", "refused", "enrol", "lesson", "progress", "insert", "update",
                     "lessonsOf", "doneOf"}
      /\ enrolled \subseteq enrolled'
      /\ UNCHANGED <<lessons, progress, certificates, complete, grown, shelf, score, media>>
  <2>1. CASE ReadEnrolment(c)
    BY <2>1 DEF IInv, TypeOK, OnlyMoves, Step, ReadEnrolment
  <2>2. CASE InsertEnrolment(c)
    BY <2>2 DEF IInv, TypeOK, OnlyMoves, Step, InsertEnrolment
  <2>3. CASE ReadCourse(c)
    BY <2>3 DEF IInv, TypeOK, OnlyMoves, Step, ReadCourse
  <2>4. CASE ReadLesson(c)
    <3>1. PICK l \in lessons, r \in Statuses :
             memo' = [memo EXCEPT ![c].lesson = l, ![c].report = r]
      BY <2>4 DEF ReadLesson
    <3>2. OnlyMoves(c) /\ memo'[c].sum = memo[c].sum
      BY <2>4, <3>1 DEF IInv, TypeOK, OnlyMoves, Step, ReadLesson
    <3>3. QED
      BY <2>4, <3>2 DEF IInv, TypeOK, Step, ReadLesson
  <2>5. CASE FindProgress(c)
    BY <2>5 DEF IInv, TypeOK, OnlyMoves, Step, FindProgress
  <2>6. CASE ReadEnrolled(c)
    BY <2>6 DEF IInv, TypeOK, OnlyMoves, Step, ReadEnrolled
  <2>7. CASE ReadLessons(c)
    BY <2>7 DEF IInv, TypeOK, OnlyMoves, Step, ReadLessons
  <2>8. QED
    BY <2>1, <2>2, <2>3, <2>4, <2>5, <2>6, <2>7 DEF StudyStep
<1>3. CertificatesOK'
  <2>1. pc'[c] \in {"progress", "update", "insert"} => memo'[c].lesson \in lessons
    <3>1. CASE ReadLesson(c)
      BY <3>1 DEF IInv, TypeOK, Step, ReadLesson
    <3>2. CASE FindProgress(c)
      BY <3>2 DEF IInv, TypeOK, CertificatesOK, Step, FindProgress
    <3>3. CASE ~ReadLesson(c) /\ ~FindProgress(c)
      BY <3>3 DEF IInv, TypeOK, Step, StudyStep, ReadEnrolment, InsertEnrolment, ReadCourse,
         ReadEnrolled, ReadLessons
    <3>4. QED
      BY <3>1, <3>2, <3>3
  <2>2. pc'[c] \in {"lessonsOf", "doneOf", "issue"} => memo'[c].mine \subseteq enrolled
    BY DEF IInv, TypeOK, CertificatesOK, Step, StudyStep, ReadEnrolment, InsertEnrolment,
       ReadCourse, ReadLesson, FindProgress, ReadEnrolled, ReadLessons
  <2>3. pc'[c] = "doneOf" =>
           /\ memo'[c].seen \subseteq lessons
           /\ \A l \in lessons : CourseOf[l] \in memo'[c].mine \ grown => l \in memo'[c].seen
    BY DEF IInv, TypeOK, Step, StudyStep, ReadEnrolment, InsertEnrolment, ReadCourse,
       ReadLesson, FindProgress, ReadEnrolled, ReadLessons
  <2>4. QED
    BY <1>2, <2>1, <2>2, <2>3, CertificatesStay
<1>4. StreamsOK' /\ VideoOK' /\ BadgesOK'
  BY <1>2, StreamsStay, VideoStays, BadgesStay
<1>5. QED
  BY <1>1, <1>3, <1>4 DEF IInv

LEMMA PurchasePreserves ==
  ASSUME IInv, NEW k \in Courses, Purchase(k)
  PROVE  IInv'
<1>1. TypeOK'
  BY DEF IInv, TypeOK, Purchase
<1>2. CertificatesOK'
  BY DEF IInv, CertificatesOK, Complete, LessonsOf, Purchase
<1>3. StreamsOK' /\ VideoOK' /\ BadgesOK'
  BY DEF IInv, StreamsOK, Watched, VideoOK, BadgesOK, Purchase
<1>4. QED
  BY <1>1, <1>2, <1>3 DEF IInv

LEMMA UpdateLessonPreserves ==
  ASSUME IInv, NEW l \in Lessons, UpdateLesson(l)
  PROVE  IInv'
<1>1. /\ shows' \subseteq shows \cup {l} /\ shown' = shown \cup shows'
      /\ free' \subseteq free \cup {l} /\ opened' = opened \cup (shows' \cap free')
      /\ edits' \in 0..MaxEdits
      /\ UNCHANGED <<enrolled, lessons, progress, certificates, complete, grown,
                     score, media, memo, pc, faults>>
  BY LearningAssumption DEF IInv, TypeOK, UpdateLesson
<1>2. TypeOK'
  BY <1>1 DEF IInv, TypeOK
<1>3. StreamsOK'
  BY <1>1 DEF IInv, StreamsOK, Watched
<1>4. CertificatesOK' /\ VideoOK' /\ BadgesOK'
  BY <1>1 DEF IInv, CertificatesOK, Complete, LessonsOf, VideoOK, BadgesOK
<1>5. QED
  BY <1>2, <1>3, <1>4 DEF IInv

LEMMA InsertLessonPreserves ==
  ASSUME IInv, NEW c \in Calls, InsertLesson(c)
  PROVE  IInv'
<1> DEFINE new == memo[c].lesson
<1>1. /\ pc[c] = "lesson" /\ pc' = [pc EXCEPT ![c] = "ok"] /\ new \in Lessons
      /\ lessons' = lessons \cup {new} /\ grown \subseteq grown'
      /\ (\E d \in Calls : pc[d] = "doneOf") => CourseOf[new] \in grown'
      /\ grown' \subseteq grown \cup {CourseOf[new]}
      /\ UNCHANGED <<enrolled, progress, certificates, complete, shelf, score, media, memo, faults>>
  BY DEF IInv, TypeOK, Step, InsertLesson
<1>2. OnlyMoves(c) /\ pc'[c] = "ok"
  BY <1>1 DEF IInv, TypeOK, OnlyMoves
<1>3. TypeOK'
  BY <1>1, LearningAssumption DEF IInv, TypeOK, Labels
<1>4. CertificatesOK'
  <2>1. \A k \in Courses : Complete(progress, k)' => k \in complete'
    <3> SUFFICES ASSUME NEW k \in Courses, Complete(progress, k)' PROVE k \in complete
      BY <1>1
    <3>1. CASE new \in lessons
      BY <1>1, <3>1 DEF IInv, CertificatesOK, Complete, LessonsOf
    <3>2. CASE new \notin lessons
      <4>1. progress[new] = "none"
        BY <1>1, <3>2 DEF IInv, CertificatesOK
      <4>2. CourseOf[new] # k
        BY <1>1, <4>1 DEF Complete, LessonsOf
      <4>3. LessonsOf(k)' = LessonsOf(k)
        BY <1>1, <4>2 DEF LessonsOf
      <4>4. QED
        BY <1>1, <4>3 DEF IInv, CertificatesOK, Complete
    <3>3. QED
      BY <3>1, <3>2
  <2>2. \A d \in Calls : pc'[d] = "doneOf" =>
          /\ memo'[d].seen \subseteq lessons'
          /\ \A l \in lessons' : CourseOf[l] \in memo'[d].mine \ grown' => l \in memo'[d].seen
    BY <1>1, <1>2 DEF IInv, TypeOK, CertificatesOK, OnlyMoves
  <2>3. /\ \A l \in Lessons : progress'[l] # "none" => l \in lessons'
        /\ \A d \in Calls :
             /\ pc'[d] \in {"progress", "update", "insert"} => memo'[d].lesson \in lessons'
             /\ pc'[d] \in {"lessonsOf", "doneOf", "issue"} => memo'[d].mine \subseteq enrolled'
             /\ pc'[d] = "issue" => memo'[d].mine \subseteq complete' \cup grown'
        /\ \A k \in certificates' : k \in enrolled' /\ k \in complete' \cup grown'
    BY <1>1, <1>2 DEF IInv, CertificatesOK, OnlyMoves
  <2>4. QED
    BY <2>1, <2>2, <2>3 DEF CertificatesOK
<1>5. StreamsOK' /\ VideoOK' /\ BadgesOK'
  BY <1>1, <1>2, StreamsStay, VideoStays, BadgesStay
<1>6. QED
  BY <1>3, <1>4, <1>5 DEF IInv

LEMMA WriteProgressPreserves ==
  ASSUME IInv, NEW c \in Calls, NEW status \in {"none", "in_progress", "completed"},
         pc[c] \in {"update", "insert"}, pc' = [pc EXCEPT ![c] = "ok"],
         WriteProgress(memo[c].lesson, status), UNCHANGED <<score, media, memo, faults>>
  PROVE  IInv'
<1>1. memo[c].lesson \in lessons /\ lessons \subseteq Lessons
  BY DEF IInv, TypeOK, CertificatesOK
<1>2. OnlyMoves(c) /\ pc'[c] = "ok"
  BY DEF IInv, TypeOK, OnlyMoves
<1>3. TypeOK'
  BY <1>1 DEF IInv, TypeOK, Labels, WriteProgress
<1>4. CertificatesOK'
  <2>1. \A l \in Lessons : progress'[l] # "none" => l \in lessons'
    BY <1>1 DEF IInv, TypeOK, CertificatesOK, WriteProgress
  <2>2. \A k \in Courses : Complete(progress, k)' => k \in complete'
    BY DEF WriteProgress, Complete, LessonsOf
  <2>3. QED
    BY <1>2, <2>1, <2>2 DEF IInv, CertificatesOK, OnlyMoves, WriteProgress
<1>5. StreamsOK' /\ VideoOK' /\ BadgesOK'
  BY <1>2, StreamsStay, VideoStays, BadgesStay DEF WriteProgress
<1>6. QED
  BY <1>3, <1>4, <1>5 DEF IInv

LEMMA UpdateProgressPreserves ==
  ASSUME IInv, NEW c \in Calls, UpdateProgress(c)
  PROVE  IInv'
<1> DEFINE l == memo[c].lesson
           written == IF memo[c].report = "omitted" THEN progress[l] ELSE memo[c].report
<1>1. l \in Lessons /\ memo[c].report \in Statuses
  BY DEF IInv, TypeOK
<1>2. written \in {"none", "in_progress", "completed"}
  BY <1>1 DEF IInv, TypeOK, Statuses
<1>3. /\ pc[c] = "update" /\ pc' = [pc EXCEPT ![c] = "ok"]
      /\ WriteProgress(l, written) /\ UNCHANGED <<score, media, memo, faults>>
  BY DEF UpdateProgress, Step
<1>4. QED
  BY <1>2, <1>3, WriteProgressPreserves

LEMMA InsertProgressPreserves ==
  ASSUME IInv, NEW c \in Calls, InsertProgress(c)
  PROVE  IInv'
<1> DEFINE l == memo[c].lesson
           written == IF memo[c].report = "omitted" THEN "in_progress" ELSE memo[c].report
<1>1. CASE /\ progress[l] = "none" /\ Step(c, "insert", "ok") /\ WriteProgress(l, written)
           /\ UNCHANGED <<score, media, memo, faults>>
  <2>1. written \in {"none", "in_progress", "completed"}
    BY DEF IInv, TypeOK, Statuses
  <2>2. QED
    BY <1>1, <2>1, WriteProgressPreserves DEF Step
<1>2. CASE Step(c, "insert", "error") /\ UNCHANGED studies /\ UNCHANGED <<score, media, memo, faults>>
  <2>1. OnlyMoves(c) /\ pc[c] = "insert" /\ pc'[c] = "error" /\ memo'[c] = memo[c]
    BY <1>2 DEF IInv, TypeOK, OnlyMoves, Step
  <2>2. TypeOK'
    BY <1>2 DEF IInv, TypeOK, Labels, Step
  <2>3. CertificatesOK' /\ StreamsOK' /\ VideoOK' /\ BadgesOK'
    BY <1>2, <2>1, CertificatesStay, StreamsStay, VideoStays, BadgesStay
  <2>4. QED
    BY <2>2, <2>3 DEF IInv
<1>3. QED
  BY <1>1, <1>2 DEF InsertProgress

-----------------------------------------------------------------------------
(* Certificates *)

LEMMA ReadDonePreserves ==
  ASSUME IInv, NEW c \in Calls, ReadDone(c)
  PROVE  IInv'
<1> DEFINE done == {k \in memo[c].mine :
                      /\ \E l \in memo[c].seen : CourseOf[l] = k
                      /\ \A l \in memo[c].seen : CourseOf[l] = k => progress[l] = "completed"}
<1>1. /\ pc[c] = "doneOf" /\ pc' = [pc EXCEPT ![c] = "issue"]
      /\ memo' = [memo EXCEPT ![c].mine = done]
      /\ UNCHANGED <<studies, score, media, faults>>
  BY DEF ReadDone, Step
<1>2. memo[c].mine \subseteq Courses /\ memo[c].mine \subseteq enrolled
  BY <1>1 DEF IInv, TypeOK, CertificatesOK
<1>3. /\ OnlyMoves(c) /\ pc'[c] = "issue" /\ memo'[c].mine = done
      /\ memo'[c].sum = memo[c].sum
  BY <1>1 DEF IInv, TypeOK, OnlyMoves
<1>4. TypeOK'
  BY <1>1, <1>2 DEF IInv, TypeOK, Labels
<1>5. done \subseteq complete \cup grown
  <2> SUFFICES ASSUME NEW k \in done, k \notin grown PROVE k \in complete
    OBVIOUS
  <2>1. \A l \in lessons : CourseOf[l] = k => l \in memo[c].seen
    BY <1>1 DEF IInv, CertificatesOK
  <2>2. memo[c].seen \subseteq lessons
    BY <1>1 DEF IInv, CertificatesOK
  <2>3. Complete(progress, k)
    BY <2>1, <2>2 DEF Complete, LessonsOf
  <2>4. QED
    BY <1>2, <2>3 DEF IInv, CertificatesOK
<1>6. CertificatesOK'
  BY <1>1, <1>2, <1>3, <1>5, CertificatesStay
<1>7. StreamsOK' /\ VideoOK' /\ BadgesOK'
  BY <1>1, <1>3, StreamsStay, VideoStays, BadgesStay
<1>8. QED
  BY <1>4, <1>6, <1>7 DEF IInv

LEMMA IssueCertificatePreserves ==
  ASSUME IInv, NEW c \in Calls, IssueCertificate(c)
  PROVE  IInv'
<1>1. /\ pc[c] = "issue" /\ pc'[c] \in {"issue", "ok"} /\ pc' = [pc EXCEPT ![c] = pc'[c]]
      /\ OnlyMoves(c) /\ memo'[c].mine \subseteq memo[c].mine /\ memo'[c].sum = memo[c].sum
      /\ memo' \in [Calls -> [course: Courses, lesson: Lessons, report: Statuses,
                              mine: SUBSET Courses, seen: SUBSET Lessons, open: SUBSET Lessons, sum: Nat]]
      /\ certificates' \subseteq certificates \cup memo[c].mine
      /\ faults' \in 0..MaxFaults
      /\ UNCHANGED <<enrolled, lessons, progress, complete, grown, shelf, score, media>>
  <2>1. MaxFaults \in Nat /\ faults \in 0..MaxFaults /\ memo \in Memos
    BY LearningAssumption DEF IInv, TypeOK, Memos
  <2>2. PICK S \in SUBSET memo[c].mine : memo' = [memo EXCEPT ![c].mine = S]
    <3>1. CASE \E k \in memo[c].mine : memo' = [memo EXCEPT ![c].mine = @ \ {k}]
      <4>1. PICK k \in memo[c].mine : memo' = [memo EXCEPT ![c].mine = memo[c].mine \ {k}]
        BY <2>1, <3>1 DEF Memos
      <4>2. QED
        BY <4>1
    <3>2. CASE memo' = memo
      <4>1. memo' = [memo EXCEPT ![c].mine = memo[c].mine]
        BY <2>1, <3>2 DEF Memos
      <4>2. QED
        BY <4>1
    <3>3. QED
      BY <3>1, <3>2 DEF IssueCertificate
  <2>3. S \in SUBSET Courses
    BY <2>1 DEF Memos
  <2>4. /\ memo' \in Memos /\ memo'[c].mine = S /\ memo'[c].sum = memo[c].sum
        /\ \A d \in Calls \ {c} : memo'[d] = memo[d]
    BY <2>1, <2>2, <2>3 DEF Memos
  <2>5. /\ pc[c] = "issue" /\ pc'[c] \in {"issue", "ok"} /\ pc' = [pc EXCEPT ![c] = pc'[c]]
        /\ \A d \in Calls \ {c} : pc'[d] = pc[d]
        /\ UNCHANGED <<enrolled, lessons, progress, complete, grown, shelf, score, media>>
    BY DEF IInv, TypeOK, Step, IssueCertificate
  <2>6. certificates' \subseteq certificates \cup memo[c].mine /\ faults' \in 0..MaxFaults
    BY <2>1 DEF IssueCertificate
  <2>7. QED
    BY <2>2, <2>4, <2>5, <2>6 DEF OnlyMoves, Memos
<1>2. memo[c].mine \subseteq enrolled /\ memo[c].mine \subseteq complete \cup grown
      /\ memo[c].mine \subseteq Courses
  BY <1>1 DEF IInv, TypeOK, CertificatesOK
<1>3. TypeOK'
  BY <1>1, <1>2 DEF IInv, TypeOK, Labels
<1>4. CertificatesOK'
  BY <1>1, <1>2 DEF IInv, CertificatesOK, OnlyMoves, Complete, LessonsOf
<1>5. StreamsOK' /\ VideoOK' /\ BadgesOK'
  BY <1>1, StreamsStay, VideoStays, BadgesStay
<1>6. QED
  BY <1>3, <1>4, <1>5 DEF IInv

-----------------------------------------------------------------------------
(* Points and badges *)

LEMMA AwardPreserves ==
  ASSUME IInv, NEW c \in Calls, Award(c)
  PROVE  IInv'
<1>1. PICK p \in Awards : points' = points + p
  BY DEF Award
<1>2. /\ points \in Nat /\ p \in Nat /\ points' \in Nat /\ points <= points'
  BY <1>1, LearningAssumption DEF IInv, TypeOK
<1>3. /\ pc[c] = "idle" /\ pc' = [pc EXCEPT ![c] = "total"]
      /\ UNCHANGED <<studies, badges, lapsed, media, memo, faults>>
  BY DEF Award, Step
<1>4. OnlyMoves(c) /\ pc'[c] = "total" /\ memo'[c] = memo[c]
  BY <1>3 DEF IInv, TypeOK, OnlyMoves
<1>5. TypeOK'
  BY <1>2, <1>3 DEF IInv, TypeOK, Labels
<1>6. BadgesOK'
  <2>1. \A b \in badges : Required[b] \in Nat /\ Required[b] <= points
    BY LearningAssumption DEF IInv, TypeOK, BadgesOK
  <2>2. \A d \in Calls : memo[d].sum \in Nat /\ memo[d].sum <= points
    BY DEF IInv, TypeOK, BadgesOK
  <2>3. QED
    BY <1>2, <1>3, <1>4, <2>1, <2>2 DEF BadgesOK
<1>7. CertificatesOK' /\ StreamsOK' /\ VideoOK'
  BY <1>3, <1>4, CertificatesStay, StreamsStay, VideoStays
<1>8. QED
  BY <1>5, <1>6, <1>7 DEF IInv

LEMMA ReadTotalPreserves ==
  ASSUME IInv, NEW c \in Calls, ReadTotal(c)
  PROVE  IInv'
<1>1. /\ pc[c] = "total" /\ pc' = [pc EXCEPT ![c] = "grant"]
      /\ memo' = [memo EXCEPT ![c].sum = points] /\ lapsed' = FALSE
      /\ UNCHANGED <<studies, points, badges, media, faults>>
  BY DEF ReadTotal, Step
<1>2. OnlyMoves(c) /\ pc'[c] = "grant" /\ memo'[c].sum = points /\ points \in Nat
  BY <1>1 DEF IInv, TypeOK, OnlyMoves
<1>3. TypeOK'
  <2>1. pc' \in [Calls -> Labels]
    BY <1>1 DEF IInv, TypeOK, Labels
  <2>2. memo' \in Memos
    BY <1>1, <1>2 DEF IInv, TypeOK, Memos
  <2>3. QED
    BY <1>1, <2>1, <2>2 DEF IInv, TypeOK, Memos
<1>4. BadgesOK'
  BY <1>1, <1>2 DEF IInv, BadgesOK, OnlyMoves
<1>5. CertificatesOK' /\ StreamsOK' /\ VideoOK'
  BY <1>1, <1>2, CertificatesStay, StreamsStay, VideoStays
<1>6. QED
  BY <1>3, <1>4, <1>5 DEF IInv

LEMMA GrantBadgePreserves ==
  ASSUME IInv, NEW c \in Calls, GrantBadge(c)
  PROVE  IInv'
<1> DEFINE due == {b \in Badges \ badges : Required[b] <= memo[c].sum}
<1>1. /\ pc[c] = "grant" /\ pc'[c] \in {"grant", "ok"} /\ pc' = [pc EXCEPT ![c] = pc'[c]]
      /\ UNCHANGED <<studies, points, lapsed, media, memo, faults>>
      /\ \/ pc'[c] = "grant" /\ \E b \in due : badges' = badges \cup {b}
         \/ pc'[c] = "ok" /\ due = {} /\ badges' = badges
  BY DEF IInv, TypeOK, GrantBadge, Step
<1>2. OnlyMoves(c) /\ memo'[c] = memo[c]
  BY <1>1 DEF IInv, TypeOK, OnlyMoves
<1>3. TypeOK'
  BY <1>1 DEF IInv, TypeOK, Labels
<1>4. BadgesOK'
  <2>1. \A b \in due : Required[b] <= points
    BY LearningAssumption DEF IInv, TypeOK, BadgesOK
  <2>2. \A b \in badges' : Required[b] <= points
    BY <1>1, <2>1 DEF IInv, BadgesOK
  <2>3. ASSUME NEW b \in Badges \ badges', points > 0, Required[b] <= points, ~lapsed
        PROVE  \E d \in Calls : pc'[d] = "total" \/ (pc'[d] = "grant" /\ Required[b] <= memo[d].sum)
    <3>1. b \notin badges
      BY <1>1, <2>3
    <3>2. PICK d \in Calls : pc[d] = "total" \/ (pc[d] = "grant" /\ Required[b] <= memo[d].sum)
      BY <2>3, <3>1 DEF IInv, BadgesOK
    <3>3. CASE d # c
      BY <1>2, <3>2, <3>3 DEF OnlyMoves
    <3>4. CASE d = c
      BY <1>1, <3>1, <3>2, <3>4
    <3>5. QED
      BY <3>3, <3>4
  <2>4. QED
    BY <1>1, <2>2, <2>3 DEF IInv, BadgesOK
<1>5. CertificatesOK' /\ StreamsOK' /\ VideoOK'
  BY <1>1, <1>2, CertificatesStay, StreamsStay, VideoStays
<1>6. QED
  BY <1>3, <1>4, <1>5 DEF IInv

-----------------------------------------------------------------------------
(* The video *)

UploadStep(c) == Presign(c) \/ WriteRawKey(c) \/ ConfirmUpload(c) \/ SetProcessing(c) \/ EnqueueTranscode(c)

LEMMA UploadStepPreserves ==
  ASSUME IInv, NEW c \in Calls, UploadStep(c)
  PROVE  IInv'
<1>1. TypeOK'
  <2>1. CASE Presign(c) \/ ConfirmUpload(c)
    BY <2>1 DEF IInv, TypeOK, Labels, Step, Presign, ConfirmUpload
  <2>2. CASE WriteRawKey(c) \/ SetProcessing(c)
    <3>1. /\ pc' \in [Calls -> Labels]
          /\ \/ video' = [video EXCEPT !.rawKey = TRUE]
             \/ video' = [video EXCEPT !.status = "processing"]
          /\ UNCHANGED <<studies, score, output, job, failures, lost, memo, faults>>
      BY <2>2 DEF IInv, TypeOK, Labels, Step, WriteRawKey, SetProcessing
    <3>2. QED
      BY <3>1 DEF IInv, TypeOK
  <2>3. CASE EnqueueTranscode(c)
    <3>1. /\ pc' = [pc EXCEPT ![c] = "ok"] /\ faults' \in 0..MaxFaults /\ lost' \in BOOLEAN
          /\ job' = job \/ (job = "none" /\ job' = "waiting")
          /\ UNCHANGED <<studies, score, video, output, failures, memo>>
      <4>1. MaxFaults \in Nat /\ faults \in 0..MaxFaults /\ lost \in BOOLEAN
        BY LearningAssumption DEF IInv, TypeOK
      <4>2. faults' \in {faults, faults + 1} /\ (faults' # faults => faults < MaxFaults)
        BY <2>3 DEF EnqueueTranscode
      <4>3. lost' \in BOOLEAN
        BY <2>3, <4>1 DEF EnqueueTranscode
      <4>4. QED
        BY <2>3, <4>1, <4>2, <4>3 DEF EnqueueTranscode, Step
    <3>2. job = "none" => failures < Attempts
      BY LearningAssumption DEF IInv, VideoOK
    <3>3. QED
      BY <3>1, <3>2 DEF IInv, TypeOK, Labels
  <2>4. QED
    BY <2>1, <2>2, <2>3 DEF UploadStep
<1>2. /\ OnlyMoves(c) /\ memo'[c] = memo[c]
      /\ pc[c] \in {"idle", "rawKey", "processing", "enqueue"}
      /\ pc'[c] \in {"ok", "refused", "rawKey", "processing", "enqueue"}
      /\ UNCHANGED <<studies, score, output, failures>>
  BY DEF IInv, TypeOK, OnlyMoves, Step, UploadStep, Presign, WriteRawKey, ConfirmUpload,
     SetProcessing, EnqueueTranscode
<1>3. VideoOK'
  <2>1. CASE Presign(c) \/ ConfirmUpload(c)
    BY <1>2, <2>1, VideoStays DEF IInv, TypeOK, Presign, ConfirmUpload, Step
  <2>2. CASE WriteRawKey(c)
    BY <1>2, <2>2 DEF IInv, TypeOK, VideoOK, OnlyMoves, WriteRawKey, Step
  <2>3. CASE SetProcessing(c)
    BY <1>2, <2>3 DEF IInv, TypeOK, VideoOK, OnlyMoves, SetProcessing, Step
  <2>4. CASE EnqueueTranscode(c)
    BY <1>2, <2>4 DEF IInv, TypeOK, VideoOK, OnlyMoves, EnqueueTranscode, Step
  <2>5. QED
    BY <2>1, <2>2, <2>3, <2>4 DEF UploadStep
<1>4. CertificatesOK' /\ StreamsOK' /\ BadgesOK'
  BY <1>2, CertificatesStay, StreamsStay, BadgesStay
<1>5. QED
  BY <1>1, <1>3, <1>4 DEF IInv

LEMMA JobStepPreserves ==
  ASSUME IInv, Work \/ FailAttempt \/ ForgetJob
  PROVE  IInv'
<1>1. /\ UNCHANGED <<studies, score, memo, pc>>
      /\ output # "none" => output' # "none"
  BY DEF Work, TakeJob, Transcode, UploadOutput, SetReady, FailAttempt, ForgetJob, JobStep
<1>2. CertificatesOK' /\ StreamsOK' /\ BadgesOK'
  BY <1>1 DEF IInv, CertificatesOK, Complete, LessonsOf, StreamsOK, Watched, BadgesOK
<1>3. TypeOK' /\ VideoOK'
  <2>1. CASE TakeJob
    BY <2>1 DEF IInv, TypeOK, VideoOK, TakeJob, JobStep
  <2>2. CASE Transcode
    BY <2>2 DEF IInv, TypeOK, VideoOK, Transcode, JobStep
  <2>3. CASE UploadOutput
    BY <2>3 DEF IInv, TypeOK, VideoOK, UploadOutput, JobStep
  <2>4. CASE SetReady
    BY <2>4 DEF IInv, TypeOK, VideoOK, SetReady, JobStep
  <2>5. CASE FailAttempt
    <3>1. /\ failures \in Nat /\ failures < Attempts /\ failures' = failures + 1
          /\ faults' \in 0..MaxFaults /\ Attempts \in Nat
      BY <2>5, LearningAssumption DEF IInv, TypeOK, FailAttempt
    <3>2. failures' \in 0..Attempts /\ (failures' # Attempts => failures' < Attempts)
      BY <3>1
    <3>3. QED
      BY <2>5, <3>1, <3>2 DEF IInv, TypeOK, VideoOK, FailAttempt
  <2>6. CASE ForgetJob
    BY <2>6, LearningAssumption DEF IInv, TypeOK, VideoOK, ForgetJob, JobStep, Resting
  <2>7. QED
    BY <2>1, <2>2, <2>3, <2>4, <2>5, <2>6 DEF Work
<1>4. QED
  BY <1>2, <1>3 DEF IInv

StreamStep(c) == Gate(c) \/ CheckEnrolment(c) \/ StreamPlaylist(c)

LEMMA StreamStepPreserves ==
  ASSUME IInv, NEW c \in Calls, StreamStep(c)
  PROVE  IInv'
<1>1. TypeOK'
  <2>1. CASE Gate(c)
    <3>1. memo \in Memos /\ shows \cap lessons \in SUBSET Lessons /\ free \in SUBSET Lessons
      BY DEF IInv, TypeOK, Memos
    <3>2. memo' = [memo EXCEPT ![c].seen = shows \cap lessons, ![c].open = free]
      BY <2>1 DEF Gate
    <3>3. memo' \in Memos
      BY <3>1, <3>2 DEF Memos
    <3>4. pc' \in [Calls -> Labels] /\ UNCHANGED <<studies, score, media, faults>>
      BY <2>1 DEF IInv, TypeOK, Labels, Step, Gate
    <3>5. QED
      BY <3>3, <3>4 DEF IInv, TypeOK, Memos
  <2>2. CASE CheckEnrolment(c) \/ StreamPlaylist(c)
    <3>1. memo \in Memos
      BY DEF IInv, TypeOK, Memos
    <3>2. memo' \in Memos
      BY <2>2, <3>1 DEF Memos, CheckEnrolment, StreamPlaylist
    <3>3. pc' \in [Calls -> Labels] /\ UNCHANGED <<studies, score, media, faults>>
      BY <2>2 DEF IInv, TypeOK, Labels, Step, CheckEnrolment, StreamPlaylist
    <3>4. QED
      BY <3>2, <3>3 DEF IInv, TypeOK, Memos
  <2>3. QED
    BY <2>1, <2>2 DEF StreamStep
<1>2. /\ OnlyMoves(c) /\ memo'[c].sum = memo[c].sum
      /\ pc[c] \in {"idle", "enrolment", "playlist"}
      /\ pc'[c] \in {"refused", "enrolment", "playlist", "granted"}
      /\ UNCHANGED <<studies, score, media>>
  BY DEF IInv, TypeOK, OnlyMoves, Step, StreamStep, Gate, CheckEnrolment, StreamPlaylist
<1>3. StreamsOK'
  <2>1. CASE Gate(c)
    BY <1>2, <2>1 DEF IInv, TypeOK, StreamsOK, OnlyMoves, Gate, Step, Watched
  <2>2. CASE CheckEnrolment(c)
    BY <1>2, <2>2 DEF IInv, TypeOK, StreamsOK, OnlyMoves, CheckEnrolment, Step, Watched
  <2>3. CASE StreamPlaylist(c)
    BY <1>2, <2>3 DEF IInv, TypeOK, StreamsOK, VideoOK, OnlyMoves, StreamPlaylist, Step, Watched
  <2>4. QED
    BY <2>1, <2>2, <2>3 DEF StreamStep
<1>4. CertificatesOK' /\ VideoOK' /\ BadgesOK'
  BY <1>2, CertificatesStay, VideoStays, BadgesStay
<1>5. QED
  BY <1>1, <1>3, <1>4 DEF IInv

LEMMA AwaitRejectsPreserves ==
  ASSUME IInv, NEW c \in Calls, AwaitRejects(c)
  PROVE  IInv'
<1>1. /\ pc' = [pc EXCEPT ![c] = "error"] /\ faults' \in 0..MaxFaults
      /\ lapsed' = (lapsed \/ pc[c] \in {"total", "grant"})
      /\ lost' \in BOOLEAN /\ lapsed' \in BOOLEAN
      /\ UNCHANGED <<studies, points, badges, video, output, job, failures, memo>>
  BY LearningAssumption DEF IInv, TypeOK, AwaitRejects
<1>2. OnlyMoves(c) /\ pc'[c] = "error" /\ memo'[c] = memo[c]
  BY <1>1 DEF IInv, TypeOK, OnlyMoves
<1>3. TypeOK'
  BY <1>1 DEF IInv, TypeOK, Labels
<1>4. BadgesOK'
  <2>1. CASE pc[c] \in {"total", "grant"}
    BY <1>1, <2>1 DEF IInv, BadgesOK
  <2>2. CASE pc[c] \notin {"total", "grant"}
    <3>1. lapsed' = lapsed
      BY <1>1, <2>2 DEF IInv, TypeOK
    <3>2. QED
      BY <1>1, <1>2, <2>2, <3>1, BadgesStay
  <2>3. QED
    BY <2>1, <2>2
<1>5. CertificatesOK' /\ StreamsOK' /\ VideoOK'
  BY <1>1, <1>2, CertificatesStay, StreamsStay, VideoStays
<1>6. QED
  BY <1>3, <1>4, <1>5 DEF IInv

-----------------------------------------------------------------------------

LEMMA InitEstablishes == Init => IInv
<1> SUFFICES ASSUME Init PROVE IInv
  OBVIOUS
<1>1. TypeOK
  <2>1. memo \in Memos
    BY BlankType DEF Init, Memos
  <2>2. /\ enrolled \in SUBSET Courses /\ lessons \in SUBSET Lessons
        /\ progress \in [Lessons -> {"none", "in_progress", "completed"}]
        /\ certificates \in SUBSET Courses /\ complete \in SUBSET Courses
        /\ grown \in SUBSET Courses
        /\ pc \in [Calls -> Labels]
    BY DEF Init, Labels
  <2>3. /\ points \in Nat /\ badges \in SUBSET Badges /\ failures \in 0..Attempts
        /\ failures < Attempts /\ faults \in 0..MaxFaults
    BY LearningAssumption DEF Init
  <2>4. /\ shows \in SUBSET Lessons /\ free \in SUBSET Lessons /\ edits \in 0..MaxEdits
        /\ shown \in SUBSET Lessons /\ opened \in SUBSET Lessons
    BY LearningAssumption DEF Init
  <2>5. video \in [status: {"uploaded", "processing", "ready", "failed"},
                   rawKey: BOOLEAN, playlist: BOOLEAN]
    BY DEF Init
  <2>6. QED
    BY <2>1, <2>2, <2>3, <2>4, <2>5 DEF Init, TypeOK, Memos
<1>2. CertificatesOK /\ StreamsOK /\ VideoOK
  BY DEF Init, CertificatesOK, StreamsOK, VideoOK
<1>3. BadgesOK
  BY BlankType, LearningAssumption DEF Init, BadgesOK
<1>4. QED
  BY <1>1, <1>2, <1>3 DEF IInv

LEMMA StepPreserves == IInv /\ [Next]_vars => IInv'
<1> SUFFICES ASSUME IInv, [Next]_vars PROVE IInv'
  OBVIOUS
<1>1. CASE UNCHANGED vars
  BY <1>1 DEF vars, IInv, TypeOK, CertificatesOK, Complete, LessonsOf, StreamsOK, Watched,
     VideoOK, BadgesOK
<1>2. ASSUME NEW c \in Calls, Begin(c) PROVE IInv'
  BY <1>2, StudyStepPreserves, AwardPreserves, UploadStepPreserves, StreamStepPreserves
  DEF Begin, StudyStep, UploadStep, StreamStep
<1>3. ASSUME NEW c \in Calls, Continue(c) PROVE IInv'
  BY <1>3, StudyStepPreserves, InsertLessonPreserves, UpdateProgressPreserves,
     InsertProgressPreserves, ReadDonePreserves, IssueCertificatePreserves,
     ReadTotalPreserves, GrantBadgePreserves, UploadStepPreserves, StreamStepPreserves
  DEF Continue, StudyStep, UploadStep, StreamStep
<1>4. ASSUME NEW c \in Calls, AwaitRejects(c) PROVE IInv'
  BY <1>4, AwaitRejectsPreserves
<1>5. ASSUME NEW k \in Courses, Purchase(k) PROVE IInv'
  BY <1>5, PurchasePreserves
<1>6. ASSUME NEW l \in Lessons, UpdateLesson(l) PROVE IInv'
  BY <1>6, UpdateLessonPreserves
<1>7. CASE Work \/ FailAttempt \/ ForgetJob
  BY <1>7, JobStepPreserves
<1>8. QED
  BY <1>1, <1>2, <1>3, <1>4, <1>5, <1>6, <1>7 DEF Next

LEMMA Invariance == Spec => []IInv
<1>1. QED
  BY InitEstablishes, StepPreserves, PTL DEF Spec

\* Every variable keeps its type; a transcode job that is at work has attempts
\* left (video/service.ts:36-45, queue/worker.ts).
THEOREM TypeCorrect == Spec => []TypeOK
<1>1. IInv => TypeOK
  BY DEF IInv
<1>2. QED
  BY <1>1, Invariance, PTL

\* Certificates, streams and the "ready" of a video are earned, however many
\* requests interleave (certificates/service.ts:16-40, video/service.ts:58-79).
THEOREM Earned == Spec => []AccessIsEarned
<1>1. IInv => AccessIsEarned
  BY DEF IInv, CertificatesOK, StreamsOK, VideoOK, Watched, AccessIsEarned
<1>2. QED
  BY <1>1, Invariance, PTL

\* The badges follow the points once no handler is at work
\* (gamification/service.ts:33-51).
THEOREM BadgesFollow == Spec => []BadgesMatchPoints
<1>1. IInv => BadgesMatchPoints
  BY DEF IInv, TypeOK, BadgesOK, BadgesMatchPoints
<1>2. QED
  BY <1>1, Invariance, PTL
-----------------------------------------------------------------------------
(* Videos that are processing *)

AtWork == {"waiting", "download", "upload", "write"}

\* A video that is processing has a job at work, or a call about to queue it,
\* or its add was ignored or failed: nobody waits for a job that is not there
\* (video/service.ts:36-45, transcode.ts).
ProcessingIsAtWork ==
  video.status = "processing" => lost \/ job \in AtWork \/ \E c \in Calls : pc[c] = "enqueue"

WorkInv == ProcessingIsAtWork /\ failures <= faults

LEMMA WorkInit == Init => WorkInv
  BY DEF Init, WorkInv, ProcessingIsAtWork

\* A step that leaves the video, its job and the queueing calls as they are.
LEMMA WorkStays ==
  ASSUME WorkInv, UNCHANGED <<video, job, failures, lost>>, faults' \in Nat, faults \in Nat,
         failures \in Nat, faults <= faults',
         \A c \in Calls : pc[c] = "enqueue" => pc'[c] = "enqueue"
  PROVE  WorkInv'
<1>1. ProcessingIsAtWork'
  BY DEF WorkInv, ProcessingIsAtWork
<1>2. QED
  BY <1>1 DEF WorkInv

LEMMA WorkCall ==
  ASSUME IInv, WorkInv, NEW c \in Calls, Begin(c) \/ Continue(c)
  PROVE  WorkInv'
<1>1. failures \in Nat /\ faults \in Nat
  BY LearningAssumption DEF IInv, TypeOK
<1>2. CASE StudyStep(c) \/ InsertLesson(c) \/ UpdateProgress(c) \/ InsertProgress(c) \/ ReadDone(c)
  <2>1. UNCHANGED <<media, faults>> /\ \A d \in Calls : pc[d] = "enqueue" => pc'[d] = "enqueue"
    BY <1>2 DEF IInv, TypeOK, StudyStep, ReadEnrolment, ReadCourse, ReadLesson, ReadEnrolled,
       InsertEnrolment, FindProgress, ReadLessons, InsertLesson, UpdateProgress, InsertProgress,
       ReadDone, Step
  <2>2. QED
    BY <1>1, <2>1, WorkStays DEF media
<1>3. CASE IssueCertificate(c) \/ Award(c) \/ ReadTotal(c) \/ GrantBadge(c)
  <2>1. UNCHANGED media /\ faults' \in {faults, faults + 1}
    BY <1>3 DEF IssueCertificate, Award, ReadTotal, GrantBadge
  <2>2. CASE Award(c) \/ ReadTotal(c) \/ GrantBadge(c)
    <3>1. \A d \in Calls : pc[d] = "enqueue" => pc'[d] = "enqueue"
      BY <2>2 DEF IInv, TypeOK, Award, ReadTotal, GrantBadge, Step
    <3>2. QED
      BY <1>1, <2>1, <3>1, WorkStays DEF media
  <2>3. CASE IssueCertificate(c)
    <3>1. \A d \in Calls : pc[d] = "enqueue" => pc'[d] = "enqueue"
      BY <2>3 DEF IInv, TypeOK, IssueCertificate, Step
    <3>2. QED
      BY <1>1, <2>1, <3>1, WorkStays DEF media
  <2>4. QED
    BY <1>3, <2>2, <2>3
<1>4. CASE StreamStep(c) \/ Presign(c) \/ ConfirmUpload(c)
  <2>1. UNCHANGED <<media, faults>> /\ \A d \in Calls : pc[d] = "enqueue" => pc'[d] = "enqueue"
    BY <1>4 DEF IInv, TypeOK, StreamStep, Gate, CheckEnrolment, StreamPlaylist, Presign,
       ConfirmUpload, Step
  <2>2. QED
    BY <1>1, <2>1, WorkStays DEF media
<1>5. CASE WriteRawKey(c)
  <2>1. video'.status = video.status /\ UNCHANGED <<job, failures, lost, faults>>
    BY <1>5 DEF IInv, TypeOK, WriteRawKey
  <2>2. \A d \in Calls : pc[d] = "enqueue" => pc'[d] = "enqueue"
    BY <1>5 DEF IInv, TypeOK, WriteRawKey, Step
  <2>3. QED
    BY <2>1, <2>2 DEF WorkInv, ProcessingIsAtWork
<1>6. CASE SetProcessing(c)
  <2>1. pc'[c] = "enqueue" /\ UNCHANGED <<failures, faults>>
    BY <1>6 DEF IInv, TypeOK, SetProcessing, Step
  <2>2. QED
    BY <2>1 DEF WorkInv, ProcessingIsAtWork
<1>7. CASE EnqueueTranscode(c)
  <2>1. lost' \/ job' \in AtWork
    BY <1>7 DEF IInv, TypeOK, EnqueueTranscode, AtWork
  <2>2. failures' <= faults'
    BY <1>1, <1>7 DEF WorkInv, EnqueueTranscode
  <2>3. QED
    BY <2>1, <2>2 DEF WorkInv, ProcessingIsAtWork
<1>8. QED
  BY <1>2, <1>3, <1>4, <1>5, <1>6, <1>7 DEF Begin, Continue, StudyStep, StreamStep

LEMMA WorkNext ==
  ASSUME MaxFaults < Attempts
  PROVE  IInv /\ WorkInv /\ [Next]_vars => WorkInv'
<1> SUFFICES ASSUME IInv, WorkInv, [Next]_vars
             PROVE  WorkInv'
  OBVIOUS
<1>1. failures \in Nat /\ faults \in Nat /\ faults <= MaxFaults
  BY LearningAssumption DEF IInv, TypeOK
<1>2. CASE UNCHANGED vars
  BY <1>1, <1>2, WorkStays DEF vars, media
<1>3. ASSUME NEW c \in Calls, AwaitRejects(c)
      PROVE  WorkInv'
  <2>1. pc[c] = "enqueue" => lost'
    BY <1>3 DEF AwaitRejects
  <2>2. lost => lost'
    BY <1>3 DEF AwaitRejects
  <2>3. \A d \in Calls \ {c} : pc'[d] = pc[d]
    BY <1>3 DEF IInv, TypeOK, AwaitRejects
  <2>4. UNCHANGED <<video, job, failures>> /\ faults' = faults + 1
    BY <1>3 DEF AwaitRejects
  <2>5. QED
    BY <1>1, <2>1, <2>2, <2>3, <2>4 DEF WorkInv, ProcessingIsAtWork
<1>4. ASSUME NEW k \in Courses, Purchase(k)
      PROVE  WorkInv'
  BY <1>1, <1>4, WorkStays DEF Purchase, media
<1>10. ASSUME NEW l \in Lessons, UpdateLesson(l)
      PROVE  WorkInv'
  BY <1>1, <1>10, WorkStays DEF UpdateLesson, media
<1>5. CASE TakeJob \/ Transcode \/ UploadOutput
  <2>1. job' \in AtWork /\ UNCHANGED <<failures, faults>>
    BY <1>5 DEF TakeJob, Transcode, UploadOutput, JobStep, AtWork
  <2>2. QED
    BY <2>1 DEF WorkInv, ProcessingIsAtWork
<1>6. CASE SetReady
  <2>1. video'.status = "ready" /\ UNCHANGED <<failures, faults>>
    BY <1>6 DEF IInv, TypeOK, SetReady, JobStep
  <2>2. QED
    BY <2>1 DEF WorkInv, ProcessingIsAtWork
<1>7. CASE FailAttempt
  <2>1. failures' = failures + 1 /\ faults' = faults + 1 /\ faults < MaxFaults
    BY <1>7 DEF FailAttempt
  <2>2. failures' <= faults' /\ failures' # Attempts
    BY <1>1, <2>1, LearningAssumption DEF WorkInv
  <2>3. job' \in AtWork
    BY <1>7, <2>2 DEF FailAttempt, AtWork
  <2>4. QED
    BY <2>2, <2>3 DEF WorkInv, ProcessingIsAtWork
<1>8. CASE ForgetJob
  <2>1. job = "kept" /\ \A c \in Calls : pc[c] # "enqueue"
    BY <1>8 DEF ForgetJob, JobStep, Resting
  <2>2. video.status = "processing" => lost
    BY <2>1 DEF WorkInv, ProcessingIsAtWork, AtWork
  <2>3. UNCHANGED <<video, lost, faults>> /\ failures' = 0
    BY <1>8 DEF ForgetJob, JobStep
  <2>4. QED
    BY <1>1, <2>2, <2>3 DEF WorkInv, ProcessingIsAtWork
<1>9. QED
  BY <1>2, <1>3, <1>4, <1>5, <1>6, <1>7, <1>8, <1>10, WorkCall DEF Next, Work

\* Without a failing, lost or ignored add no video is stuck, when fewer awaits
\* reject than a job has attempts.
THEOREM TranscodeUnderWay ==
  ASSUME MaxFaults < Attempts
  PROVE  Spec => []StuckHasACause
<1>1. IInv /\ WorkInv /\ [Next]_vars => WorkInv'
  BY WorkNext
<1>2. WorkInv => StuckHasACause
  BY DEF WorkInv, ProcessingIsAtWork, StuckHasACause, Stuck, AtWork
<1>3. QED
  BY <1>1, <1>2, WorkInit, Invariance, PTL DEF Spec

\* Of a stuck video nothing moves any more: its job has ended and every confirm
\* returns at the status.
LEMMA StuckNext == IInv /\ Stuck /\ [Next]_vars => Stuck'
<1> SUFFICES ASSUME IInv, Stuck, [Next]_vars
             PROVE  Stuck'
  OBVIOUS
<1> DEFINE Moving == {"processing", "enqueue"}
<1>1. CASE UNCHANGED vars
  BY <1>1 DEF vars, Stuck
<1>2. ASSUME NEW c \in Calls, Begin(c) \/ Continue(c)
      PROVE  Stuck'
  <2>1. pc[c] \notin Moving /\ video.status = "processing"
    BY DEF Stuck
  <2>2. \A d \in Calls \ {c} : pc'[d] = pc[d]
    BY <1>2 DEF IInv, TypeOK, Begin, Continue, Step, ReadEnrolment, InsertEnrolment, ReadCourse,
       InsertLesson, ReadLesson, FindProgress, UpdateProgress, InsertProgress, ReadEnrolled,
       ReadLessons, ReadDone, IssueCertificate, Award, ReadTotal, GrantBadge, Presign,
       WriteRawKey, ConfirmUpload, SetProcessing, EnqueueTranscode, Gate, CheckEnrolment,
       StreamPlaylist
  <2>3. pc'[c] \notin Moving
    BY <1>2, <2>1 DEF IInv, TypeOK, Begin, Continue, Step, ReadEnrolment, InsertEnrolment,
       ReadCourse, InsertLesson, ReadLesson, FindProgress, UpdateProgress, InsertProgress,
       ReadEnrolled, ReadLessons, ReadDone, IssueCertificate, Award, ReadTotal, GrantBadge,
       Presign, WriteRawKey, ConfirmUpload, SetProcessing, EnqueueTranscode, Gate,
       CheckEnrolment, StreamPlaylist
  <2>4. job' = job /\ video'.status = video.status
    BY <1>2, <2>1 DEF IInv, TypeOK, Begin, Continue, Step, ReadEnrolment, InsertEnrolment,
       ReadCourse, InsertLesson, ReadLesson, FindProgress, UpdateProgress, InsertProgress,
       ReadEnrolled, ReadLessons, ReadDone, IssueCertificate, Award, ReadTotal, GrantBadge,
       Presign, WriteRawKey, ConfirmUpload, SetProcessing, EnqueueTranscode, Gate,
       CheckEnrolment, StreamPlaylist, WriteProgress
  <2>5. QED
    BY <2>2, <2>3, <2>4 DEF Stuck
<1>3. ASSUME NEW c \in Calls, AwaitRejects(c)
      PROVE  Stuck'
  BY <1>3 DEF IInv, TypeOK, AwaitRejects, Stuck
<1>4. CASE (\E k \in Courses : Purchase(k)) \/ (\E l \in Lessons : UpdateLesson(l))
  BY <1>4 DEF Purchase, UpdateLesson, Stuck
<1>5. CASE Work \/ FailAttempt \/ ForgetJob
  BY <1>5 DEF Work, TakeJob, Transcode, UploadOutput, SetReady, FailAttempt, ForgetJob, JobStep,
     Stuck
<1>6. QED
  BY <1>1, <1>2, <1>3, <1>4, <1>5 DEF Next

\* A stuck video is never transcoded again (video/service.ts:40-43).
THEOREM StuckStays == Spec => StuckForGood
<1>1. QED
  BY StuckNext, Invariance, PTL DEF Spec, StuckForGood
=============================================================================
