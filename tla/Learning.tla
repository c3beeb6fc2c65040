----------------------------- MODULE Learning ------------------------------
(***************************************************************************)
(* What one learner gets from the courses: enrolment, lesson progress,     *)
(* certificates, points and badges, and the stream of one video from its   *)
(* upload through the transcode job to the playlist                        *)
(* (src/src/modules/courses, certificates, gamification and video).        *)
(*                                                                         *)
(* A call is one request, or one handler of the event bus for an award;    *)
(* an action is one stretch between two awaits.  No call runs in a         *)
(* transaction.  Rows of other learners never meet these.                  *)
(***************************************************************************)
EXTENDS Naturals, FiniteSets

CONSTANTS
  Calls,         \* requests and event handlers
  Courses, Paid, \* courses, and those with a price
  CourseOf,      \* the course of each lesson there is or will be
  VideoLessons,  \* lessons added with the video
  FreeLessons,   \* lessons added with is_free
  Awards,        \* points of the events a handler is called for
  Required,      \* points_required of each badge
  Attempts,      \* attempts of a transcode job
  MaxFaults,     \* bound: awaits that reject
  MaxEdits       \* bound: edits of lessons

Lessons == DOMAIN CourseOf
Badges  == DOMAIN Required

ASSUME LearningAssumption ==
  /\ Paid \subseteq Courses
  /\ Lessons # {} /\ CourseOf \in [Lessons -> Courses]
  /\ VideoLessons \subseteq Lessons /\ FreeLessons \subseteq Lessons
  /\ Awards \subseteq Nat \ {0}
  /\ Required \in [Badges -> Nat]
  /\ Attempts \in Nat \ {0} /\ MaxFaults \in Nat /\ MaxEdits \in Nat

VARIABLES
  enrolled,     \* course_enrollments
  lessons,      \* lessons
  shows, free,  \* lessons whose video_id is the video; lessons with is_free
  progress,     \* lesson_progress: no row or the status
  certificates, \* certificates, by course
  points,       \* sum of points_events
  badges,       \* user_badges
  video,        \* the videos row: [status, rawKey, playlist]
  output,       \* HLS files in S3: "none", "part" or "whole"
  job,          \* the transcode job: where it is, "kept" once finished
  failures,     \* failed attempts of it
  pc,           \* where each call is
  memo,         \* what it was asked for and what it has read
  faults,       \* awaits that rejected
  edits,        \* edits of lessons
  shown,        \* lessons that showed the video at some time
  opened,       \* lessons that were free while they showed it
  complete,     \* courses that were complete at some time
  grown,        \* courses that got a lesson while a certificate was computed
  lapsed,       \* an award failed after its points and no later one has looked
  lost          \* a confirmed upload has no job: add ignored, failed or not reached

shelf   == <<shows, free, edits, shown, opened>>
studies == <<enrolled, lessons, progress, certificates, complete, grown, shelf>>
score   == <<points, badges, lapsed>>
media   == <<video, output, job, failures, lost>>
vars    == <<studies, score, media, memo, pc, faults>>

Labels ==
  {"idle", "enrol", "lesson", "progress", "update", "insert",
   "lessonsOf", "doneOf", "issue", "total", "grant",
   "rawKey", "processing", "enqueue", "gate", "enrolment", "playlist",
   "ok", "granted", "refused", "error"}
Resting  == {"idle", "ok", "granted", "refused", "error"}
Statuses == {"omitted", "in_progress", "completed"}

TypeOK ==
  /\ enrolled \in SUBSET Courses /\ lessons \in SUBSET Lessons
  /\ shows \in SUBSET Lessons /\ free \in SUBSET Lessons /\ edits \in 0..MaxEdits
  /\ shown \in SUBSET Lessons /\ opened \in SUBSET Lessons
  /\ progress \in [Lessons -> {"none", "in_progress", "completed"}]
  /\ certificates \in SUBSET Courses
  /\ points \in Nat /\ badges \in SUBSET Badges
  /\ video \in [status: {"uploaded", "processing", "ready", "failed"},
                rawKey: BOOLEAN, playlist: BOOLEAN]
  /\ output \in {"none", "part", "whole"}
  /\ job \in {"none", "waiting", "download", "upload", "write", "kept"}
  /\ failures \in 0..Attempts /\ (job \in {"waiting", "download", "upload", "write"} => failures < Attempts)
  /\ pc \in [Calls -> Labels]
  /\ memo \in [Calls -> [course: Courses, lesson: Lessons, report: Statuses,
                         mine: SUBSET Courses, seen: SUBSET Lessons,
                         open: SUBSET Lessons, sum: Nat]]
  /\ faults \in 0..MaxFaults
  /\ complete \in SUBSET Courses /\ grown \in SUBSET Courses
  /\ lapsed \in BOOLEAN /\ lost \in BOOLEAN

LessonsOf(k)   == {l \in lessons : CourseOf[l] = k}
Complete(p, k) == LessonsOf(k) # {} /\ \A l \in LessonsOf(k) : p[l] = "completed"

Blank == [course |-> CHOOSE k \in Courses : TRUE, lesson |-> CHOOSE l \in Lessons : TRUE,
          report |-> "omitted", mine |-> {}, seen |-> {}, open |-> {}, sum |-> 0]

\* Lessons and progress are rows of the past; the video is fresh.
Init ==
  /\ enrolled = {}
  /\ lessons \in SUBSET Lessons
  /\ progress \in [Lessons -> {"none", "completed"}]
  /\ \A l \in Lessons \ lessons : progress[l] = "none"
  /\ shows = VideoLessons /\ free = FreeLessons /\ edits = 0
  /\ shown = VideoLessons /\ opened = VideoLessons \cap FreeLessons
  /\ certificates = {}
  /\ points = 0 /\ badges = {}
  /\ video = [status |-> "uploaded", rawKey |-> FALSE, playlist |-> FALSE]
  /\ output = "none" /\ job = "none" /\ failures = 0
  /\ pc = [c \in Calls |-> "idle"]
  /\ memo = [c \in Calls |-> Blank]
  /\ faults = 0
  /\ complete = {k \in Courses : Complete(progress, k)} /\ grown = {}
  /\ lapsed = FALSE /\ lost = FALSE

Step(c, from, to) == pc[c] = from /\ pc' = [pc EXCEPT ![c] = to]

-----------------------------------------------------------------------------
(* Enrolment, lessons and progress *)

\* coursesService.enroll: the course and the learner's row.
ReadEnrolment(c) ==
  /\ \E k \in Courses :
       /\ memo' = [memo EXCEPT ![c].course = k]
       /\ \/ k \in enrolled /\ Step(c, "idle", "ok")
          \/ k \notin enrolled /\ k \in Paid /\ Step(c, "idle", "refused")
          \/ k \notin enrolled /\ k \notin Paid /\ Step(c, "idle", "enrol")
  /\ UNCHANGED <<studies, score, media, faults>>

\* ON CONFLICT DO NOTHING: two of these end with one row.
InsertEnrolment(c) ==
  /\ Step(c, "enrol", "ok")
  /\ enrolled' = enrolled \cup {memo[c].course}
  /\ UNCHANGED <<lessons, progress, certificates, complete, grown, shelf, score, media, memo, faults>>

\* The fulfilment job enrols the buyer of a paid course.
Purchase(k) ==
  /\ k \in Paid \ enrolled
  /\ enrolled' = enrolled \cup {k}
  /\ UNCHANGED <<lessons, progress, certificates, complete, grown, shelf, score, media, memo, pc, faults>>

\* The mentor's addLesson: the course is read, then the lesson inserted.
ReadCourse(c) ==
  /\ Step(c, "idle", "lesson")
  /\ \E l \in Lessons \ lessons : memo' = [memo EXCEPT ![c].lesson = l]
  /\ UNCHANGED <<studies, score, media, faults>>

InsertLesson(c) ==
  /\ Step(c, "lesson", "ok")
  /\ lessons' = lessons \cup {memo[c].lesson}
  /\ grown' = IF \E d \in Calls : pc[d] = "doneOf"
                THEN grown \cup {CourseOf[memo[c].lesson]} ELSE grown
  /\ UNCHANGED <<enrolled, progress, certificates, complete, shelf, score, media, memo, faults>>

\* The mentor's updateLesson: a write of the given columns.  What it reads
\* before, the lesson and its course, exists for good.
UpdateLesson(l) ==
  /\ l \in lessons
  /\ edits < MaxEdits /\ edits' = edits + 1
  /\ shows' \in {shows \cup {l}, shows \ {l}} /\ shown' = shown \cup shows'
  /\ free' \in {free \cup {l}, free \ {l}}    /\ opened' = opened \cup (shows' \cap free')
  /\ UNCHANGED <<enrolled, lessons, progress, certificates, complete, grown,
                 score, media, memo, pc, faults>>

\* recordProgress: the lesson, then the learner's row.
ReadLesson(c) ==
  /\ Step(c, "idle", "progress")
  /\ \E l \in lessons, r \in Statuses :
       memo' = [memo EXCEPT ![c].lesson = l, ![c].report = r]
  /\ UNCHANGED <<studies, score, media, faults>>

FindProgress(c) ==
  /\ Step(c, "progress", IF progress[memo[c].lesson] = "none" THEN "insert" ELSE "update")
  /\ UNCHANGED <<studies, score, media, memo, faults>>

WriteProgress(l, status) ==
  /\ progress' = [progress EXCEPT ![l] = status]
  /\ complete' = complete \cup {k \in Courses : Complete(progress', k)}
  /\ UNCHANGED <<enrolled, lessons, certificates, grown, shelf>>

\* Variant for mutation: an omitted status is written all the same.
UpdateProgressRaw(c) ==
  /\ Step(c, "update", "ok")
  /\ WriteProgress(memo[c].lesson, memo[c].report)
  /\ UNCHANGED <<score, media, memo, faults>>

\* Drizzle leaves a column out of SET when its value is undefined.
UpdateProgress(c) ==
  /\ Step(c, "update", "ok")
  /\ LET l == memo[c].lesson IN
       WriteProgress(l, IF memo[c].report = "omitted" THEN progress[l] ELSE memo[c].report)
  /\ UNCHANGED <<score, media, memo, faults>>

\* The unique index lets one of two inserts through; the other answers 500.
InsertProgress(c) ==
  /\ LET l == memo[c].lesson IN
       \/ /\ progress[l] = "none" /\ Step(c, "insert", "ok")
          /\ WriteProgress(l, IF memo[c].report = "omitted" THEN "in_progress" ELSE memo[c].report)
       \/ /\ progress[l] # "none" /\ Step(c, "insert", "error")
          /\ UNCHANGED studies
  /\ UNCHANGED <<score, media, memo, faults>>

-----------------------------------------------------------------------------
(* Certificates: completedCourses and listMine *)

ReadEnrolled(c) ==
  /\ Step(c, "idle", IF enrolled = {} THEN "ok" ELSE "lessonsOf")
  /\ memo' = [memo EXCEPT ![c].mine = enrolled]
  /\ UNCHANGED <<studies, score, media, faults>>

ReadLessons(c) ==
  /\ Step(c, "lessonsOf", "doneOf")
  /\ memo' = [memo EXCEPT ![c].seen = {l \in lessons : CourseOf[l] \in memo[c].mine}]
  /\ UNCHANGED <<studies, score, media, faults>>

\* Variant for mutation: one completed lesson is enough.
ReadDoneSome(c) ==
  /\ Step(c, "doneOf", "issue")
  /\ memo' = [memo EXCEPT ![c].mine =
       {k \in @ : \E l \in memo[c].seen : CourseOf[l] = k /\ progress[l] = "completed"}]
  /\ UNCHANGED <<studies, score, media, faults>>

ReadDone(c) ==
  /\ Step(c, "doneOf", "issue")
  /\ memo' = [memo EXCEPT ![c].mine =
       {k \in @ : /\ \E l \in memo[c].seen : CourseOf[l] = k
                  /\ \A l \in memo[c].seen : CourseOf[l] = k => progress[l] = "completed"}]
  /\ UNCHANGED <<studies, score, media, faults>>

\* A failing insert is logged and the loop goes on; the last read ends it.
IssueCertificate(c) ==
  /\ \/ \E k \in memo[c].mine :
          /\ Step(c, "issue", "issue")
          /\ memo' = [memo EXCEPT ![c].mine = @ \ {k}]
          /\ \/ certificates' = certificates \cup {k} /\ UNCHANGED faults
             \/ faults < MaxFaults /\ faults' = faults + 1 /\ UNCHANGED certificates
     \/ memo[c].mine = {} /\ Step(c, "issue", "ok") /\ UNCHANGED <<certificates, memo, faults>>
  /\ UNCHANGED <<enrolled, lessons, progress, complete, grown, shelf, score, media>>

-----------------------------------------------------------------------------
(* Points and badges: a handler of the event bus *)

\* Variant for mutation: the total is read before the points are inserted.
AwardReadsFirst(c) ==
  /\ Step(c, "idle", "grant")
  /\ \E p \in Awards : points' = points + p
  /\ memo' = [memo EXCEPT ![c].sum = points]
  /\ lapsed' = FALSE
  /\ UNCHANGED <<studies, badges, media, faults>>

Award(c) ==
  /\ Step(c, "idle", "total")
  /\ \E p \in Awards : points' = points + p
  /\ UNCHANGED <<studies, badges, lapsed, media, memo, faults>>

ReadTotal(c) ==
  /\ Step(c, "total", "grant")
  /\ memo' = [memo EXCEPT ![c].sum = points]
  /\ lapsed' = FALSE
  /\ UNCHANGED <<studies, points, badges, media, faults>>

\* One insert per badge that the total reaches and the learner lacks.
GrantBadge(c) ==
  /\ LET due == {b \in Badges \ badges : Required[b] <= memo[c].sum} IN
       \/ \E b \in due : Step(c, "grant", "grant") /\ badges' = badges \cup {b}
       \/ due = {} /\ Step(c, "grant", "ok") /\ UNCHANGED badges
  /\ UNCHANGED <<studies, points, lapsed, media, memo, faults>>

-----------------------------------------------------------------------------
(* The video: upload, transcode job, stream *)

Presign(c) ==
  /\ Step(c, "idle", IF video.status = "uploaded" THEN "rawKey" ELSE "refused")
  /\ UNCHANGED <<studies, score, media, memo, faults>>

WriteRawKey(c) ==
  /\ Step(c, "rawKey", "ok")
  /\ video' = [video EXCEPT !.rawKey = TRUE]
  /\ UNCHANGED <<studies, score, output, job, failures, lost, memo, faults>>

\* Variant for mutation: the status is not looked at.
ConfirmUploadAgain(c) ==
  /\ Step(c, "idle", IF ~video.rawKey THEN "refused" ELSE "processing")
  /\ UNCHANGED <<studies, score, media, memo, faults>>

ConfirmUpload(c) ==
  /\ Step(c, "idle", IF ~video.rawKey THEN "refused"
                     ELSE IF video.status = "processing" THEN "ok" ELSE "processing")
  /\ UNCHANGED <<studies, score, media, memo, faults>>

SetProcessing(c) ==
  /\ Step(c, "processing", "enqueue")
  /\ video' = [video EXCEPT !.status = "processing"]
  /\ UNCHANGED <<studies, score, output, job, failures, lost, memo, faults>>

\* The job id is the video's: while a job of that id is live or kept the add
\* is ignored, and enqueue turns a rejected add into null.
EnqueueTranscode(c) ==
  /\ Step(c, "enqueue", "ok")
  /\ \/ job = "none" /\ job' = "waiting" /\ UNCHANGED <<lost, faults>>
     \/ job # "none" /\ lost' = (lost \/ job = "kept") /\ UNCHANGED <<job, faults>>
     \/ faults < MaxFaults /\ faults' = faults + 1 /\ lost' = TRUE /\ UNCHANGED job
  /\ UNCHANGED <<studies, score, video, output, failures, memo>>

JobStep(from, to) == job = from /\ job' = to /\ UNCHANGED <<studies, score, lost, memo, pc, faults>>

TakeJob == JobStep("waiting", "download") /\ UNCHANGED <<video, output, failures>>

\* Download, probe and renditions leave only a temporary directory.
Transcode == JobStep("download", "upload") /\ UNCHANGED <<video, output, failures>>

\* Four objects at a time, over the files of an earlier upload.
UploadOutput ==
  /\ \/ output # "part" /\ output' = "part" /\ JobStep("upload", "upload")
     \/ output = "part" /\ output' = "whole" /\ JobStep("upload", "write")
  /\ UNCHANGED <<video, failures>>

SetReady ==
  /\ JobStep("write", "kept")
  /\ video' = [video EXCEPT !.status = "ready", !.playlist = TRUE]
  /\ UNCHANGED <<output, failures>>

\* Variant for mutation: the error is logged and not thrown again.
FailAttemptLogged ==
  /\ job \in {"download", "upload", "write"} /\ faults < MaxFaults
  /\ faults' = faults + 1 /\ UNCHANGED failures
  /\ \/ video' = [video EXCEPT !.status = "failed"]
     \/ UNCHANGED video
  /\ job' = "kept"
  /\ UNCHANGED <<studies, score, output, lost, memo, pc>>

\* The catch sets "failed", unless that update rejects too, and throws.
FailAttempt ==
  /\ job \in {"download", "upload", "write"} /\ faults < MaxFaults
  /\ faults' = faults + 1 /\ failures' = failures + 1
  /\ \/ video' = [video EXCEPT !.status = "failed"]
     \/ UNCHANGED video
  /\ job' = IF failures' = Attempts THEN "kept" ELSE "waiting"
  /\ UNCHANGED <<studies, score, output, lost, memo, pc>>

\* BullMQ drops a kept job after a day or a week: no request lasts that long.
ForgetJob ==
  /\ \A c \in Calls : pc[c] \in Resting
  /\ JobStep("kept", "none") /\ failures' = 0
  /\ UNCHANGED <<video, output>>

\* assertCanStream for a learner: the video and its lessons are read once.
Gate(c) ==
  /\ Step(c, "idle", IF video.status = "ready" /\ shows \cap lessons # {}
                       THEN "enrolment" ELSE "refused")
  /\ memo' = [memo EXCEPT ![c].seen = shows \cap lessons, ![c].open = free]
  /\ UNCHANGED <<studies, score, media, faults>>

\* Then lesson by lesson: was it free, or is its course the learner's?
CheckEnrolment(c) ==
  /\ \E l \in memo[c].seen :
       /\ Step(c, "enrolment",
               IF l \in memo[c].open \/ CourseOf[l] \in enrolled THEN "playlist"
               ELSE IF memo[c].seen = {l} THEN "refused" ELSE "enrolment")
       /\ memo' = [memo EXCEPT ![c].seen = @ \ {l}]
  /\ UNCHANGED <<studies, score, media, faults>>

\* streamMasterPlaylist reads the video again.
StreamPlaylist(c) ==
  /\ Step(c, "playlist", IF video.playlist THEN "granted" ELSE "refused")
  /\ UNCHANGED <<studies, score, media, memo, faults>>

-----------------------------------------------------------------------------

\* An await rejects or the process dies: what follows it in the call is not done.
AwaitRejects(c) ==
  /\ pc[c] \notin Resting \cup {"issue"}
  /\ faults < MaxFaults /\ faults' = faults + 1
  /\ pc' = [pc EXCEPT ![c] = "error"]
  /\ lapsed' = (lapsed \/ pc[c] \in {"total", "grant"})
  /\ lost' = (lost \/ pc[c] = "enqueue")
  /\ UNCHANGED <<studies, points, badges, video, output, job, failures, memo>>

Begin(c) ==
  \/ ReadEnrolment(c) \/ ReadCourse(c) \/ ReadLesson(c) \/ ReadEnrolled(c)
  \/ Award(c)         \/ Presign(c)    \/ ConfirmUpload(c) \/ Gate(c)

Continue(c) ==
  \/ InsertEnrolment(c) \/ InsertLesson(c)     \/ FindProgress(c)  \/ UpdateProgress(c)
  \/ InsertProgress(c)  \/ ReadLessons(c)      \/ ReadDone(c)      \/ IssueCertificate(c)
  \/ ReadTotal(c)       \/ GrantBadge(c)       \/ WriteRawKey(c)   \/ SetProcessing(c)
  \/ EnqueueTranscode(c) \/ CheckEnrolment(c)  \/ StreamPlaylist(c)

Work == TakeJob \/ Transcode \/ UploadOutput \/ SetReady

Next ==
  \/ \E c \in Calls : Begin(c) \/ Continue(c) \/ AwaitRejects(c)
  \/ \E k \in Courses : Purchase(k)
  \/ \E l \in Lessons : UpdateLesson(l)
  \/ Work \/ FailAttempt \/ ForgetJob

Spec == Init /\ [][Next]_vars

-----------------------------------------------------------------------------
(* Properties *)

\* Nobody gets what was not earned, however requests interleave.  A
\* certificate (certificates/service.ts:16-40) names an enrolled course all of
\* whose lessons were completed at one moment, unless the course grew while
\* it was computed; a stream (video/service.ts:58-79) goes to a learner for a
\* lesson that was free while it showed the video, or one that showed it in a
\* course of the learner; a video is ready only with all its files.
AccessIsEarned ==
  /\ \A k \in certificates : k \in enrolled /\ k \in complete \cup grown
  /\ \A c \in Calls : pc[c] = "granted" =>
       /\ \E l \in shown \cap lessons : l \in opened \/ CourseOf[l] \in enrolled
       /\ output # "none"
  /\ video.status = "ready" => output = "whole"

\* Once there are points, no award is running and none lapsed, the badges are
\* exactly those whose threshold the points reach, although each concurrent
\* handler sums the ledger for itself (gamification/service.ts:33-51).
BadgesMatchPoints ==
  /\ \A b \in badges : Required[b] <= points
  /\ points > 0 /\ (\A c \in Calls : pc[c] \notin {"total", "grant"}) /\ ~lapsed
       => \A b \in Badges : Required[b] <= points => b \in badges

\* A video that is processing while nobody transcodes it or is about to queue
\* its job.
Stuck ==
  /\ video.status = "processing" /\ job \notin {"waiting", "download", "upload", "write"}
  /\ \A c \in Calls : pc[c] \notin {"processing", "enqueue"}

\* A video is stuck only when an add failed, was not reached, or was ignored
\* because BullMQ keeps the finished job of that id; overlapping confirms and
\* attempts that fail do not do it (video/service.ts:36-45, transcode.ts:204-213).
StuckHasACause == Stuck => lost

\* And then it stays so: every later confirm is answered with the status, also
\* when BullMQ has dropped the job long since.  A ready video that is confirmed
\* again is lost that way (video/service.ts:40-43), although the confirm is
\* called idempotent (docs/architecture/QUEUEING.md:72-74).
StuckForGood == [][Stuck => Stuck']_vars
=============================================================================
