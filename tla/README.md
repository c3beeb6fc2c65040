# Ayo-SNBT backend: TLA+ models, checks and proofs

This directory is the verification project of the Ayo-SNBT exam-prep backend
(`src/` of the repository: a Fastify API, a BullMQ worker, PostgreSQL, Redis,
MongoDB). Source paths below are relative to the repository root; a bare
`x/service.ts` is under `src/src/modules/`, `shared/...` under `src/src/`.

## 1. The system and its parts

Processes: *API* instances (`src/src/server.ts`, `app.ts`) serve HTTP and
WebSocket requests; *worker* processes (`worker.ts`) consume BullMQ queues.
They share PostgreSQL (rows, unique indexes, single-statement atomicity; only
the questions service uses transactions), Redis (BullMQ, cache, rate limits,
idempotency keys) and MongoDB (chat). Inside one process JavaScript runs to the
next `await`; every `await` is a point where another request or job may run.
That is the grain of every model here: one action per stretch of code between
two awaits that touch shared state.

| Component | State | Operations | What is hard | Module |
| --- | --- | --- | --- | --- |
| Exam sessions (`simulations`) | `simulation_sessions`, `simulation_answers`, two jobs | start, save, flag, submit, auto-submit, grade, review | stale status across awaits, unguarded updates, grading in API and worker at once, retries after a partial failure, lost enqueue | `ExamSession` |
| Practice, attempt policy (`simulations`) | the same tables | start (draw), answer, finish, and the exam routes on a practice | count then insert, a question drawn twice, finish racing an answer or a grading | `QuestionBank` |
| Questions, import, listing (`questions`, `shared/pagination.ts`) | `questions`, options, tags | create, import, remove, restore, list | partial unique index, cursors coarser than the column | `QuestionBank`, `QuestionCsv`, `Listings` |
| Orders, webhooks (`payments`) | `orders`, `payment_events`, fulfil job, enrolments | webhook, lazy expiry, refund, fulfil, edit of a bundle | dedupe row before the effect, unguarded updates | `OrderPayments` |
| Checkout (`payments`, `shared/http/idempotency.ts`) | coupons' `uses_count`, stored responses, orders | create an order, replay | conditional increment without compensation, lookup then store | `Checkout` |
| Token families (`auth`) | `refresh_tokens` | login, refresh, logout, reset, suspend | rotation race, revocation racing an insert | `RefreshTokens`, `SessionBaton` |
| Accounts and guards (`auth`, `admin`, `shared/auth/lockout.ts`, `shared/http/rate-limit-store.ts`, `shared/redis`) | `users`, roles, tokens, two Redis counters, the memory store, the health monitor | register, verify, login, OAuth, suspend, samples | INCR and PEXPIRE are two commands, a Redis that comes and goes | `Accounts` |
| Cache and versions (`shared/cache`) | entries, version counter, flights, a lagging replica | get, bump | a load that began before a bump | `VersionedCache` |
| Chat (`chat`) | rooms, messages, counters, sockets and two registries | create, join, leave, send, read, mark read, close | number before insert, a join that ends after its socket closed | `Chat` |
| Courses, certificates, badges, video | enrolments, lessons, progress, certificates, points, badges, `videos`, transcode job | enrol, add and edit a lesson, progress, issue, award, upload, transcode, stream | several reads of one answer, retained job ids | `Learning` |
| Ranking, results, analytics, Q&A counts, admin totals | none of their own | pure computations | ties, rounding, windows, limits | `Results` |

### How the parts interact

- *Shared rows.* Requests and jobs meet in PostgreSQL. A handler reads a row,
  awaits, and writes: what it has read may be stale. Where the code guards
  against this it does so with a condition in the update (submit, rotation,
  coupon) or a unique index (payment events, answers, enrolments, badges,
  active question texts); most updates name the row only.
- *Calls.* An expired `saveAnswer` calls `submitSession` and `gradeSession` in
  the API process; the worker calls `gradeSession` too. `refresh` and
  `oauthLogin` end in `createRefreshToken`. `createOrder` runs inside the hooks
  of the idempotency plugin. The catalogue's readers go through `CacheAside`.
- *Messages.* `enqueue` adds BullMQ jobs, swallows errors and returns null;
  the worker runs a job until its processor returns, retries it from its start
  when it throws (5 attempts), keeps finished job ids for 24 h or 7 days and
  ignores an add with an id it keeps. Payment providers deliver webhooks at
  least once, possibly at the same time. Chat publishes to Redis, but nothing
  in `src/` subscribes, so other instances hear nothing.
- *Callbacks.* `eventBus.emit` runs listeners of its own process only, and
  only `app.ts` subscribes any: cache bumps, awards of points, notifications.

## 2. Modules

| Module | Models | Instances and proofs |
| --- | --- | --- |
| `ExamSession` | one timed session with its answers, the request that starts it, its owner's requests, the auto-submit and grade jobs | `MC_ExamSession`, `ExamSession_proofs` |
| `RefreshTokens` | the refresh tokens of one account and all requests on them | `MC_RefreshTokens`, `Auth_proofs` |
| `SessionBaton` | abstract: what rotation promises | `RefreshTokens` (`Baton`, a refinement mapping), `Auth_proofs` |
| `ExamPaper` | abstract: what an exam promises its student | `ExamSession` (`Paper`), `ExamSession_proofs` |
| `OrderLedger` | abstract: what an order promises buyer and seller | `OrderPayments` (`Ledger`), `OrderPayments_proofs` |
| `OrderPayments` | one order, webhook deliveries, lazy expiry, refund, bundle edits, the fulfilment job | `MC_OrderPayments`, `OrderPayments_proofs` |
| `Checkout` | requests for orders behind the idempotency plugin, one coupon, the provider's retries, Redis outages | `MC_Checkout`, `Checkout_proofs` |
| `Chat` | one room, its members' sockets and messages | `MC_Chat`, `Chat_proofs` |
| `VersionedCache` | one cached listing, its readers and writers, replica and gate | `MC_VersionedCache`, `VersionedCache_proofs` |
| `Learning` | one learner's courses, certificates, points, badges and one video | `MC_Learning`, `Learning_proofs` |
| `QuestionBank` | the bank, a listing walked page by page, the starts and practice sessions of one learner | `MC_QuestionBank`, `QuestionBank_proofs` |
| `Accounts` | one account, the two counters that guard its sign-in, the Redis health monitor | `MC_Accounts`, `Auth_proofs` |
| `Listings` | cursors, keyset conditions and ten paginated listings as operators | facts, evaluated with `MC_VersionedCache` |
| `Results` | percentile, ranks, banding, streaks, cohorts, revenue, completion as operators | facts, evaluated with `MC_ExamSession` |
| `QuestionCsv` | the CSV scanner as a fold, and the mapping of rows to questions | facts, evaluated with `MC_QuestionBank` |

Common conventions. `pc[x]` is the await at which executor `x` is stopped. In
`ExamSession`, `RefreshTokens`, `OrderPayments` and for the readers of
`VersionedCache` a returned executor may start another request, so only the
overlap of requests is bounded; elsewhere a call, a message or a write happens
once, and their sets bound the number. A status
that was read is kept in the branch `pc` took or in the call's `memo`.
`AwaitRejects(x)` makes the await at which `x` stands reject before its effect,
or kills its process: a request leaves what it has done, a job is thrown back
to BullMQ. History variables (a group named `history`, or described as such
where they are declared) are never read by an action that models code.
Definitions whose comment begins "Variant for mutation" are not part of the
specification: each is an action with one plausible mistake, and shows that the
property it is listed with in `PROJECT.json` notices the mistake.

*ExamSession.* `status`, `result`, `answers`, `marks` and `flagged` are columns
of `simulation_sessions` and `simulation_answers`; an option is "right" or
"wrong", `marks` is `is_correct`, `result` the three counts (score and category
scores are functions of them). `startSession` is three actions, because its two
inserts and its enqueue are separate; `gradeSession` is `GradeRead`,
`ForceSubmit`, `Snapshot`, one `MarkRow` per row, `StoreResult` and
`EmitGraded`, run by a client (expired save), the auto-submit job or the grade
job. `late` is the deadline. The package's soft delete is no variable: admins
may remove and restore it between any two steps, so a grading's `getPackage`
finds it or throws, whichever (`Snapshot`). `lateWrite` remembers that an
answer row was written after the session had left in_progress, the one thing
under which published counts and rows can differ.

*ExamPaper* is the exam without its machinery: a paper is handed out once and
taken in once, and its verdict is published once, as the score of the answers
on it. `ExamSession!Paper` maps `phase` to the status (submitted and graded are
both "closed", since a late forced submit may write "submitted" over "graded"),
`sheet` to `answers`, `verdict` to `result`, `spoiled` to `lateWrite`. Only a
spoiled paper may be revised.

*RefreshTokens, SessionBaton.* `family` and `live` are the columns `family_id`
and `revoked_at` of the tokens issued so far; `suspended` and `resetUsed` the
two account columns the handlers test. `refresh` is `Refresh` (the select),
`CheckUser`, `Rotate` (the conditional update) and `Mint` or `RevokeFamily`;
`login` and `oauthLogin` join at `Mint`. `resetPassword` is five actions, one
per statement and one per revoked row. `SessionBaton` says that the right to
continue a family is in one hand at a time, and that a reported family drops it
unless it is in the air; a family maps to its live token, to "transit" while a
refresh stands between its two writes, to "dropped" after that. `burned` is the
families of which a revoked token was presented, `cut` the tokens older than
the first change of the password, `resets` the times a reset link passed.

*OrderPayments.* `status`, `events`, `bundle` and `enrolled` are
`orders.status`, `payment_events`, `bundle_courses` and the buyer's
`course_enrollments`. `handleWebhook` is `HandleWebhook` (the order is read),
`FindEvent`, `RecordEvent` (the insert, whose unique index rejects a second
one, and the tests on what was read), `SetPaid` and `EnqueueFulfil`.
`fulfillOrder` is `ReadOrder` to `MarkFulfilled`; `updateBundle` is a delete
and an insert. `advanced` is the stale test of the order's status; `applied`
counts updates to paid per event. An event is either one the provider's adapter
calls paid or one it does not.

*OrderLedger* says which steps an order may take: an event is reported once and
counts at most once, courses, fulfilment and refund need a payment that has
counted, and fulfilled needs every course still owed. `OrderPayments!Ledger`
maps `reported` to `events`, `credits` to `applied`, `access` to `enrolled`,
`owed` to the courses that have never left the bundle, `standing` to `status`.
The ledger lets an order expire at any time: that is what the unguarded updates
of the code come to.

*Checkout.* A request is `Send`, `Lookup` (the preHandler: replay, 409, or on
to the handler; Redis may be away, then on), `ReadTarget`, `ReadCoupon`,
`TakeUse` (the guarded increment), `ReadUser`, `Pay` with its retries
(`FailAttempt`), `InsertOrder`, `OnSend` (the store, which also stores a 409).
A key stands for namespace and header, a body for its hash. It ends where
`OrderPayments` begins, at the inserted order. `before[c]` is the calls
answered before `c` was sent, `spoiled` the keys for which Redis failed or that
expired, `LastBefore(c, d)` that `c`'s answer was the last before `d`.

*Chat.* Sending is `SendMessage`, `ReadRoom`, `NextRoomSeq` (`findOneAndUpdate`
with `$inc`), `InsertMessage`, `UpdateRoom` (last message and unread
increments), `Publish`. `Join`/`FinishJoin`, `Leave`, `Close` act on
`roomSockets`, `connections` and a connection's `rooms`. `fresh[u]` is what `u`
has not marked read; `synced`, `page` and `inbox` follow a client that joins
and then fetches the history.

*VersionedCache.* A value is the number of writes it reflects. A writer is
`Commit` and one or two `Bump`s (the second by the event). A reader is
`ReadVersion`, `Lookup` (hit, wait on a flight, or own one), `Load` from the
replica, `Store`; when the query or the SET is rejected, `Settle` clears the
flight and gives the rejection to all who share it; `QueryDirectly` when the
gate is closed or the get was rejected. `floor` is the
replica's state at the last bump, `since[r]` the floor when `r` began.

*Learning.* Enrolment, lessons, which a mentor adds and edits (`UpdateLesson`
changes what is free and which lesson shows the video), progress
(`FindProgress`, then update or insert), certificates (three reads, then an insert the index makes unique),
awards (insert of points, sum, one insert per badge), the video's presign,
confirm and job (`TakeJob`, `Transcode`, `UploadOutput`, `SetReady`,
`FailAttempt`, `ForgetJob` for the id BullMQ drops), the gate on the stream, one
step per lesson. `shown` and `opened` remember which lessons showed the video,
and were free with it, at some time.
Lesson progress in per cent and watch time are not in the state.

*QuestionBank.* The bank's writes are transactions, one action each. A listing
is `StartListing` and one `ReadPage` per page; `Millis` is the rounding of the
cursor. A start counts attempts, draws one random set per key (`PickForKey`;
practice falls back on `PickAny`) and inserts session and answers in two
statements. A practice session is answered and finished by its own routes, and
by `saveAnswer` and `submitSession`, which do not test the type: the first
writes the option and leaves the mark, the second queues a grade job, whose
steps are the call's (`ReadSessionToGrade` to `WriteScore`). `together` is the
most starts that were under way at a time, `late` the marks written after a
finish or a grading had read them, `ends` the last rows of a walk's pages.

*Accounts.* The steps of register, verify, login, OAuth and suspension on one
account; the rate limit's INCR, PEXPIRE and PTTL and the lockout's INCR and
PEXPIRE one by one, with windows that end; the memory store; the monitor's
samples, its hysteresis and the Redis client that gives up reconnecting.
`answered` counts the samples in a row that Redis answered.

*Listings, Results, QuestionCsv* have no state: each operator translates one
function of the code, and the facts at the end (`ASSUME` with a name) compare
it with a reference definition over all small inputs, or exhibit a surprise of
the code. TLC evaluates them at the start of the run whose module extends them.

## 3. Runs

| Run | Bounds | Shows |
| --- | --- | --- |
| `exam_safety` | 2 questions, 2 client requests, both jobs, 1 failing await of a job, 1 lost enqueue, 2 attempts, package removed and restored at will | `ResultMatchesAnswers`, `ReviewShowsFinalMarks`, `GradeJobAtMostOnce`, `ImplementsPaper` |
| `exam_promise` | 1 question, 1 client, either job failing once of 3 tries, no enqueue lost | violated: `GradedInTheEnd` |
| `token_safety` | 3 requests at once, 2 families, 3 tokens, any await rejecting any number of times | `OneSuccessor`, `OldTokensEnd`, `ImplementsBaton` |
| `token_promises` | the same | violated: `RevocationIsComplete` |
| `order_safety` | 2 paid events and 1 other, 2 deliveries at once, 1 reader, 1 admin, 1 mentor, 2 courses, 1 failing await, 1 lost enqueue, 2 attempts | `AccessIsPaid`, `FulfilledIsDelivered`, `RefundIsFinal`, `ImplementsLedger` |
| `order_replay` | 1 event, 2 deliveries, one of which fails, provider redelivers | violated: `ReplayRecovers` |
| `checkout` | 3 requests, 1 key or none, a discounted bundle and a free course, coupon with no limit or 1 use, provider tried twice, Redis fails once, keys expire | `DiscountsWithinLimit`, `NoSecondOrder`, `KeyAnswersAsLastUsed` |
| `chat` | 2 users with a socket each on one instance, 1 message each; one socket joins, leaves, closes and fetches the history | `SendOrder`, `UnreadCoversFresh`, `RegistriesFollowSockets`, `JoinThenHistory` |
| `cache` | 2 readers that repeat, 2 writers, one bumping twice, replica lag, 1 rejected command or query, gate and expiry at will | `BumpIsBarrier`, `EveryReaderReturns` |
| `learning` | 3 calls of any kind, a free and a paid course, 2 lessons of the paid one, one free and one with the video, 1 edit of a lesson, 2 badges, 2 attempts, 1 failing await | `AccessIsEarned`, `BadgesMatchPoints`, `StuckHasACause`, `StuckForGood` |
| `bank` | 3 calls, 4 questions, 3 initial banks, pages of 1 row, 2 keys that share a question, 1 attempt, stamps two to a millisecond, 1 failing await | `PagesCoverListing`, `AttemptsBounded`, `SessionsAreSound` |
| `accounts` | 3 requests from 4 starting situations, 1 admitted per window, locked from the second attempt, 1 outage, 1 new window, 1 dead request | `SignInIsGuarded`, `GateOpensAfterPings`, `GateSettles` |

Each run that passes also checks its module's type invariant.

Why the bounds are enough. Most hazards here are two actors on one row: two
requests beside the jobs give every pair, and a third call is there where the
hazard has a third part (a reuse and a reset beside a rotation, a writer
between two pages, an award beside two others). Two questions are what a partly
marked session needs, two attempts a retry and a final failure. Three tokens
let a family have a predecessor, a present token and a successor, or two
families stand side by side. Two events separate a replay from another paid
event (Midtrans sends 201 and 200 with different ids). A coupon with one use
and a rate limit of one put every second request at the limit. Pages of one row
put a cursor after every row. Two bumps of one writer let a version come
between. In `chat` only one socket is restless, and only it joins, leaves and
closes: the other's part in the history is to send. In `exam_safety` no request
of the student fails, nor does the start: one that stops in the middle leaves
the shared rows as a request that never goes on does, or a lost enqueue, or a
job that fails. In
`order_safety` a mentor sends all courses or none (`Offers`), because after any
edit only the courses that have never left the bundle are owed. One edit of a
lesson (`MaxEdits`) comes before, between or after the reads of a stream's gate
and makes the free lesson the one with the video, or takes either away. The
invariants and refinements are proved without these bounds, for any failing
executors and any `Offers`.

Not all answer edits are sent in every run (`EditsSent`): `exam_safety` sends
"right" and "flag", `exam_promise` "wrong", because an edit's value meets
nothing but `Mark`, `Tally` and the row it is written to. `exam_safety` takes
two states that differ only in `flagged` and `notified` for one (`VIEW`): no
guard and no property reads them. Deadlock is checked in `exam_*`,
`token_*`, `order_*`, `chat` and `cache`, where a request may always be sent; in
the other runs every call runs once, and the system stops when all have
returned.

### Fairness

`ExamSession!Fairness` and `OrderPayments!Fairness` are weak fairness of the
steps inside a handler (an await that does not reject resolves), of the job
steps and of BullMQ's promotion and handing out of jobs. No request has to be
sent, no edit, removal, refund or failure has to happen. Time passes
(`DeadlinePasses`). Both serve violation runs, where fairness makes the
counterexample stronger: in `exam_promise` everything that is left to do is
done and the session still is not graded; in `order_replay` `RetrySpec` adds
that the provider redelivers each event, and redelivery does not help.
`VersionedCache!Fairness` is the same for readers under way (their writers may
stop anywhere). `Accounts!FairSpec` says that the monitor's timer fires and
that the client keeps trying to connect; Redis need not stay up, and
`GateSettles` is conditional on it. No liveness is claimed of the transcode
job: `StuckForGood` is a property of steps.

### What the code does that the repository denies

Three runs end in a counterexample; the other cases below are stated, as the
code has them, by properties that hold. `PROJECT.json` lists each one as a
finding, with the quotation. (`SECURITY.md`, `QUEUEING.md` and
`API-CONVENTIONS.md` are in `docs/architecture`, `FEATURE-SPECS.md` in
`docs/product`, `VIDEO-HLS.md` in `docs/services`, `RUNBOOK.md` in
`docs/guides`.)

| What the repository says | What the code does | Shown by |
| --- | --- | --- |
| "grading is guaranteed even if the student never submits" (`docs/architecture/QUEUEING.md:66`; the comment at `simulations/service.ts:261`) | an auto-submit job that fails after it has set submitted does nothing in its retry (`:544`, `:858`) | `exam_promise`: `GradedInTheEnd` violated |
| a revoked token, when presented, revokes its family; a reset revokes all sessions; a reset token is single-use (`SECURITY.md:30-33`, `:36`, `:42`, `FEATURE-SPECS.md:78`, `:117`) | a rotation between its two writes inserts its token after the revocation, of the family (`auth/service.ts:187`) or of the reset's list (`:235`); two resets pass the test of `used_at` before either sets it (`:227-233`) | `token_promises`: one state refutes all three, `RevocationIsComplete` violated |
| "Idempotency keys (`payment_events.event_id` unique) make replays safe" (`RUNBOOK.md:93`) | a webhook request that dies after recording its event loses the payment: every redelivery finds the event and does nothing (`payments/service.ts:159`) | `order_replay`: `ReplayRecovers` violated |
| an identical retry gets the stored response (`shared/http/idempotency.ts:34-36`, `API-CONVENTIONS.md:110`) | the 409 of a key reused with another body replaces the stored response, so the first request is refused when retried (`:85`) | `checkout`: last conjunct of `KeyAnswersAsLastUsed` |
| no duplicates or gaps, a stable order (`docs/adr/0002-cursor-pagination.md:35`, `shared/pagination.ts:7`, `API-CONVENTIONS.md:97`) | a page that ends among rows of one millisecond hides those after it; one import gives all its rows one `created_at` (`pagination.ts:83`) | `bank`: `PagesCoverListing` says exactly which rows are hidden |
| the start enforces `maxAttempts` (`FEATURE-SPECS.md:665-668`) | n starts at once may exceed it by n - 1 (`simulations/service.ts:195`) | `bank`: `AttemptsBounded`, an exact bound |
| the finish of a practice is idempotent (`FEATURE-SPECS.md:629`) | two finishes, or a finish and a grading, both write; an answer written meanwhile is not counted (`simulations/service.ts:787`) | `bank`: `SessionsAreSound`, with `late` |
| locks of 5, 15 and 60 minutes, a sliding window (`lockout.ts:13-16`, `SECURITY.md:70-76`, `FEATURE-SPECS.md:60-61`) | the durations are computed and used by nobody: a lock lasts until its key ends, an hour after the first failure (`lockout.ts:25`, `:51-55`) | `accounts`: `LockEndsWithItsKey` in `SignInIsGuarded` |
| recovery needs `recoverPings` healthy pings in a row (`degradation.ts:16-17`) | samples that find the memory full count too, so one sample at ease ends a stress (`:103-105`) | `accounts`: `GateOpensAfterPings` |
| "gates recover automatically" when Redis returns (`RUNBOOK.md:72`) | the client gives up after 30 retries, and then no sample succeeds again (`client.ts:20`) | `accounts`: `GateSettles` |
| a repeated confirm is idempotent (`QUEUEING.md:72-74`, `FEATURE-SPECS.md:327`, `VIDEO-HLS.md:21`) | a ready or failed video that is confirmed again is set to processing, the add is ignored, and it stays so (`video/service.ts:40-43`) | `learning`: `StuckHasACause`, `StuckForGood` |
| a failed attempt leaves the video processing (`QUEUEING.md:77`) | it is set to failed (`transcode.ts:204`) | `learning`: `FailAttempt`, part of `StuckHasACause` |
| callers fall back when `enqueue` returns null (`QUEUEING.md:54-56`) | no caller looks at what it returns (`queues.ts:53`) | `learning`: `StuckHasACause` names the lost add; an action of `exam_safety` and `order_safety` |

A property that holds over one of these cases exempts no more than the case:
the rows, marks and starts concerned are computed by the specification (`Cuts`,
`late`, `together`), and of all others the property says what was promised.

Nothing in the repository speaks of the following; a history variable keeps
them apart in a property, or a fact of a pure module states them:

- A save that has read in_progress writes after a submit
  (`simulations/service.ts:332`); `lateWrite`.
- A fulfilment between the two statements of `updateBundle` enrols in none of
  the courses (`payments/service.ts:298`); lazy expiry overwrites a payment
  that arrived after its read (`:114`); a job or delivery that read the order
  before a refund writes over it (`:176`, `:215`).
- Two first requests with one key that overlap both run
  (`shared/http/idempotency.ts:59`).
- A coupon's use taken by an order that then fails is not given back
  (`payments/service.ts:67`).
- A question drawn for two keys breaks the insert and leaves an empty session,
  which counts as an attempt (`simulations/service.ts:257`).
- A practice session is accepted by the exam's save and submit; a save there
  leaves the mark as it was (`simulations/service.ts:326`, `379`).
- INCR without PEXPIRE, when Redis fails in between, limits or locks for good
  (`lockout.ts:25`, `rate-limit-store.ts:66`).
- A stale value may be stored under a version before its first bump: the key
  is absent, read as "1", and the first INCR makes it 1 (`version.ts`).
- A join that ends after its socket closed registers it (`gateway.ts:145`).
- A lesson added while a certificate is computed may be left out of it
  (`certificates/service.ts:38`); `grown`.
- An award that fails after its points leaves its badges to the next award
  (`gamification/service.ts:28`); `lapsed`. A badge with threshold 0 is granted
  only by a first award.
- `listMySessions` cannot read its own cursor: its second page is an error.
- A session graded again counts itself among its peers; the personal rank may
  be worse than the leaderboard's; revenue leaves out fulfilled orders; a
  cohort misses today east of UTC; 199 of 200 lessons are rounded to 100 per cent; an
  empty option in a CSV row shifts the marks, and a cell that reads "text"
  makes its row a header.

## 4. Proofs

All theorems hold for every value of the constants that satisfies the named
assumptions of the modules (executors are disjoint sets, ids differ by kind,
bounds are naturals, the message and writer sets are finite). A proof
module has one inductive invariant per specification, a lemma per action that
it is preserved, a theorem that it holds (`Inductive` or `Invariance`), and one
theorem per property.

*Refinements.* `Refinement` of `Auth_proofs`, `ExamSession_proofs` and
`OrderPayments_proofs` shows, from the inductive invariant, that every step of
the detailed module is a step or a stutter of `SessionBaton`, `ExamPaper` or
`OrderLedger`. `PublishedResultStable` and `EventAppliedOnce`, which the last
two imply, are theorems of their own (`ResultStable`, `AppliedOnce`).

*ExamSession.* `ResultMatchesAnswers` is not inductive: it says nothing of a
grading that is under way when another one finishes. `IInv` adds that every
grading works on rows equal to the present ones unless something was written
late (`SnapshotOK`), that rows it has already marked are marked as they should
be, that an executor past the closing update implies a closed session
(`ClosedOK`), that at most one client ever reaches the enqueueing of the
grading job (`GradeJobOK`), and that an edit in progress is one of the edits.
Every `StoreResult` then stores the same counts, which is also why a second
one is a stutter of the paper.

*RefreshTokens* (in `Auth_proofs`). `OneSuccessor` is nearly inductive; `HeldOK`
(what a request holds was issued) supports it. `ResetOK` says that a reset that
has listed the sessions still has every live old token on its list.
`Refinement` proves that each action is a baton step or a stutter, from
`HolderSpec`, which describes the mapping's CHOOSE by cases.

*OrderPayments.* `OnceOK` says that an event not yet recorded, or recorded by a
delivery that has not reached the update, was never applied, and that two
deliveries never reach the update with one event. `PaidOK` ties the job's
existence to a recorded paid event. `DeliveryOK` says that what a run of the
job has still to write makes up for what the buyer has not got. `RefundFinal`
needs only that each executor is in its own code. For the ledger `CreditOK`
adds that whatever rests on money (the job, an enrolment, an advanced status, a
refund about to be written) rests on an event already applied.

*Checkout.* `UsesOK`: a use is counted before the call that takes it holds one,
and a discounted order held one, so the uses bound the discounts. `KeysOK`: a
key that Redis neither missed nor dropped holds an answer once one of its calls
has one. `SourcesOK`: what is stored came from that key and body. `BeforeOK`
joins them: a call that reached the handler found nothing. `LastOK`: the
answer a key holds is the last, for its call was not answered before another
call, by now answered, was sent; so after another body's answer a retry is
refused.

*VersionedCache.* `CountsOK` bounds the counter (a writer bumps at most twice);
`TagsOK` says nothing is stored or asked for under a version not yet in force,
so a bump that changes the version finds it unused. Hence `CurrentEntryIsFresh`
survives the bump, and `FoundOK` and `StoredOK` carry freshness to the end of a
request through however many bumps happen meanwhile. `SingleFlight` is the
safety half of `EveryReaderReturns`: also after a rejected query or SET nobody
waits on a flight that is gone.

*Chat.* `NumbersOK`: `lastSeq` counts the messages that have a number and
bounds every number. `CountersOK`: a counter is raised once for each message
between "meta" and "publish", after the message was stored and became fresh.
`SocketsOK`: only a socket with its listeners joins, and one that closes with a
join in progress is late.

*Learning.* `CertificatesOK`: between the reads a lesson can only appear in a
course then marked grown, and a new lesson has no progress. `BadgesOK`: whoever
inserted the last points has yet to sum them or has the sum a missing badge
needs. `StreamsOK`: what the gate has read of the lessons was so at some time.
`VideoOK`: while a job is at work the status is not "ready", and a call about
to queue a job saw to that itself. `StuckForGood` needs no invariant: no step
leads out of a stuck state.

*QuestionBank.* Rows after a cursor are ranked by how many are newer;
`PageIsPrefix` proves that a page is the ranks below the limit, has an oldest
row, and leaves out only older rows, none when it is not full. `CursorMoves`
follows: rounding the oldest stamp down passes only rows that this page cuts
off. `WalkOK` says that nothing shown is after the cursor and that of the rows
owed those not yet shown are after the cursor or were cut off; `Below` that the
cursors of a walk only go down, so a row once cut off is on no later page.
`AttemptsOK` counts the attempts and the starts under way together: a start is
let in below the limit, and at most `together` are under way. `CallOK` says
that what a finish or a grading has read of a sheet, or has yet to write, is
what the sheet says but for marks written late, and `GradeOK` says so of the
counts it wrote. `OneRowPerText` (a surjection between sets of one size is
injective) keeps the partial index through an import.

*Accounts* (in `Auth_proofs`). `SignInIsGuarded` counts requests, so its proof
counts them too. `CountsOK` bounds each counter by the calls that are past its
INCR, and its window by the windows that can have begun; `HitsOK` and `TriesOK`
say that the numbers calls hold were given by the counter, each to one call
only. Calls with different numbers in `1..limit` of one window are at most
`limit` many: the pigeonhole lemma `AtMost`. `CountersEnd` says that a counter
without an expiry has a call about to give it one, or lost its Redis. `RowsOK`
keeps each kind of call at the statements of its own handler, whence a session
opened by a password is that of a verified account, and an account without its
role, or verified by half, is one some request is at work on or died at
(`AccountsComplete`). The monitor's count of recoveries is `answered` up to
`RecoverPings`, from which `GateOpens` follows. The assumption `Whole` on the starting accounts says that
no earlier request had been cut short; requests cut short inside a behaviour
are in the model (`MaxDeaths`).

*The safety halves of liveness.* A liveness property fails in one of two ways:
nobody is left to do the work, or somebody is and never goes on. Fairness
excludes the second; that the first never happens is an invariant, and proved:
`GradingNotForgotten` (a session with its auto-submit job is graded, or a job or
request is at work on it), `PaymentNotForgotten` (a recorded payment has given
the courses, or a delivery or the job is at work), `TranscodeUnderWay` (a
processing video has a job at work, a call about to queue it, or a lost add:
`StuckHasACause`), `SingleFlight` (a waiting reader has a loader). The first two
are what the code keeps of promises it breaks, so they hold under conditions,
stated as `Undisturbed`: only the grade job, or the fulfil job, fails, less
often than it is tried (the proof shows that attempts never exceed faults), no
enqueue is lost, and nobody removes the package, lets the order expire or
refunds it. The third needs only fewer faults than attempts; the last needs no
condition.

Only model-checked: the liveness properties `EveryReaderReturns` and
`GateSettles`, since TLAPS treats neither fairness nor ENABLED; the three
counterexamples; and the facts of `Listings`, `Results` and `QuestionCsv`, which fold over data. Every
invariant and every other action property or refinement that a run checks is a
theorem.

## 5. Not modelled

- The circuit breaker (`shared/redis/circuit-breaker.ts`): the class has no
  caller in `src/`.
- Chat presence, typing events and moderation: keys with a time to live that no
  decision reads.
- The time spent on answers (`simulations/service.ts:341-360`): a difference of
  clocks that no other part reads.
- The cooldown and the tryout window of a package: clock comparisons at one
  read.
- Edits of a question while sessions are open: its options are replaced, and
  answers that named one lose it; what a grading should then show is specified
  nowhere.
- Writes of Q&A, notes, challenges, paths, notifications and analytics: single
  statements, apart from an upvote's count (a hazard in the list).
- Stalled BullMQ jobs that run twice at once; e-mail delivery; cascades of
  deleted users.
- Routes, validation, rendering, configuration, logging, metrics, S3 and the
  database driver: no protocol of their own.

## 6. What could come next

Abstract specifications of `Checkout` and of `VersionedCache`; question edits beside open sessions; two API instances in `Accounts` and
`VersionedCache`.
