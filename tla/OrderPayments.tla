--------------------------- MODULE OrderPayments ---------------------------
(***************************************************************************)
(* One order of src/src/modules/payments/service.ts after createOrder has  *)
(* inserted it: the provider's webhook deliveries, the buyer who reads it, *)
(* admins who refund it, mentors who edit its bundle, and the fulfilment   *)
(* job, all at once.  One action is one stretch between two awaits on      *)
(* shared rows; none of these handlers runs in a transaction.              *)
(*                                                                         *)
(* An order of a single course is an order of a bundle nobody edits.       *)
(***************************************************************************)
EXTENDS Naturals

CONSTANTS
  Paid,          \* bound: ids of the provider's events that say "paid"
  Unpaid,        \* bound: ids of its other events (pending, denied)
  Courses,       \* the courses a bundle can list
  Deliveries,    \* concurrent webhook requests
  Readers,       \* concurrent getOrder requests of the buyer
  Admins,        \* concurrent refundOrder requests
  Mentors,       \* concurrent updateBundle requests
  Offers,        \* bound: the course lists they send
  MaxAttempts,   \* BullMQ attempts of a job (5 in queues.ts)
  Faulty,        \* the executors of which an await may reject
  MaxFaults,     \* bound: how many awaits reject in a behaviour
  MaxDrops       \* bound: how many enqueue calls return null

FulfilJob == "pay-fulfill"
NoEvent   == "no event"
Events    == Paid \cup Unpaid
Executors == Deliveries \cup Readers \cup Admins \cup Mentors \cup {FulfilJob}

Pairwise(S, T) == S \cap T = {}

ASSUME EventsAssumption == Pairwise(Paid, Unpaid) /\ NoEvent \notin Events
ASSUME ExecutorsAssumption ==
  /\ Pairwise(Deliveries, Readers \cup Admins \cup Mentors \cup {FulfilJob})
  /\ Pairwise(Readers, Admins \cup Mentors \cup {FulfilJob})
  /\ Pairwise(Admins, Mentors \cup {FulfilJob})
  /\ FulfilJob \notin Mentors
ASSUME BoundsAssumption ==
  /\ MaxAttempts \in Nat \ {0}
  /\ MaxFaults \in Nat
  /\ MaxDrops \in Nat
  /\ Faulty \subseteq Executors
  /\ Offers \subseteq SUBSET Courses

VARIABLES
  status,    \* orders.status
  aged,      \* the order is more than 24 h old
  events,    \* payment_events.event_id of its rows
  bundle,    \* bundle_courses of the ordered bundle
  enrolled,  \* the buyer's course_enrollments
  receipt,   \* a receipt email has been queued
  job,       \* state of the BullMQ job pay-fulfill-<id>
  attempts,  \* its failed attempts
  pc,        \* where each executor is
  advanced,  \* the order status a webhook request has read was an advanced one
  event,     \* the event a webhook request carries
  todo,      \* the courses an executor has still to write
  applied,   \* how many times each event has set the order to paid
  absent,    \* courses that were missing from the bundle at some time
  faults,    \* awaits that have rejected
  drops      \* enqueue calls that returned null

order   == <<status, aged>>
tables  == <<events, bundle, enrolled>>
queue   == <<receipt, job, attempts>>
local   == <<pc, advanced, event, todo>>
history == <<applied, absent, faults, drops>>
vars    == <<order, tables, queue, local, history>>

Statuses == {"pending", "paid", "fulfilled", "refunded", "expired"}
Advanced == {"paid", "fulfilled", "refunded"}
Labels   == {"idle", "findEvent", "recordEvent", "setPaid", "enqueue", "expire", "refund",
             "insertCourses", "readOrder", "readBundle", "enroll", "markFulfilled"}

TypeOK ==
  /\ status \in Statuses
  /\ aged \in BOOLEAN
  /\ events \in SUBSET Events
  /\ bundle \in SUBSET Courses
  /\ enrolled \in SUBSET Courses
  /\ receipt \in BOOLEAN
  /\ job \in {"none", "waiting", "active", "completed", "failed"}
  /\ attempts \in 0..MaxAttempts
  /\ pc \in [Executors -> Labels]
  /\ advanced \in [Deliveries -> BOOLEAN]
  /\ event \in [Deliveries -> Events \cup {NoEvent}]
  /\ todo \in [Executors -> SUBSET Courses]
  /\ applied \in [Events -> Nat]
  /\ absent \in SUBSET Courses
  /\ faults \in 0..MaxFaults
  /\ drops \in 0..MaxDrops

\* Variant for mutation: the insert leaves status to the column's default.
InitDefaultStatus ==
  /\ status = "created"
  /\ aged = FALSE
  /\ events = {}
  /\ bundle = Courses
  /\ enrolled = {}
  /\ receipt = FALSE
  /\ job = "none"
  /\ attempts = 0
  /\ pc = [x \in Executors |-> "idle"]
  /\ advanced = [d \in Deliveries |-> FALSE]
  /\ event = [d \in Deliveries |-> NoEvent]
  /\ todo = [x \in Executors |-> {}]
  /\ applied = [e \in Events |-> 0]
  /\ absent = {}
  /\ faults = 0
  /\ drops = 0

Init ==
  /\ status = "pending"
  /\ aged = FALSE
  /\ events = {}
  /\ bundle = Courses
  /\ enrolled = {}
  /\ receipt = FALSE
  /\ job = "none"
  /\ attempts = 0
  /\ pc = [x \in Executors |-> "idle"]
  /\ advanced = [d \in Deliveries |-> FALSE]
  /\ event = [d \in Deliveries |-> NoEvent]
  /\ todo = [x \in Executors |-> {}]
  /\ applied = [e \in Events |-> 0]
  /\ absent = {}
  /\ faults = 0
  /\ drops = 0

-----------------------------------------------------------------------------
(* Control shared by the actions. *)

Goto(x, label) == /\ pc' = [pc EXCEPT ![x] = label]
                  /\ UNCHANGED <<advanced, event, todo>>

\* The executor stops and forgets what it has read.
Stop(x) == /\ pc' = [pc EXCEPT ![x] = "idle"]
           /\ advanced' = [d \in Deliveries |-> d # x /\ advanced[d]]
           /\ event' = [d \in Deliveries |-> IF d = x THEN NoEvent ELSE event[d]]
           /\ todo' = [todo EXCEPT ![x] = {}]

\* The job processor throws: BullMQ retries the job, up to MaxAttempts attempts.
JobThrows ==
  /\ attempts' = attempts + 1
  /\ job' = IF attempts + 1 < MaxAttempts THEN "waiting" ELSE "failed"

\* queue.add, which may fail: enqueue logs the error and returns null, and
\* no caller here looks at what it returns.
EnqueueFails == drops < MaxDrops /\ drops' = drops + 1

-----------------------------------------------------------------------------
(* handleWebhook *)

\* Variant for mutation: a refunded order counts as unpaid.
HandleWebhookAfterRefund(d, e) ==
  /\ pc[d] = "idle"
  /\ pc' = [pc EXCEPT ![d] = "findEvent"]
  /\ advanced' = [advanced EXCEPT ![d] = status \in {"paid", "fulfilled"}]
  /\ event' = [event EXCEPT ![d] = e]
  /\ UNCHANGED <<todo, order, tables, queue, history>>

HandleWebhook(d, e) ==
  /\ pc[d] = "idle"
  /\ pc' = [pc EXCEPT ![d] = "findEvent"]
  /\ advanced' = [advanced EXCEPT ![d] = status \in Advanced]
  /\ event' = [event EXCEPT ![d] = e]
  /\ UNCHANGED <<todo, order, tables, queue, history>>

\* A replay returns processed: false and does nothing.
FindEvent(d) ==
  /\ pc[d] = "findEvent"
  /\ IF event[d] \in events THEN Stop(d) ELSE Goto(d, "recordEvent")
  /\ UNCHANGED <<order, tables, queue, history>>

\* Variant for mutation: the event's type is not looked at.
RecordEventAnyType(d) ==
  /\ pc[d] = "recordEvent"
  /\ events' = events \cup {event[d]}
  /\ IF event[d] \in events \/ advanced[d] THEN Stop(d) ELSE Goto(d, "setPaid")
  /\ UNCHANGED <<order, bundle, enrolled, queue, history>>

\* Variant for mutation: event_id is not unique.
RecordEventTwice(d) ==
  /\ pc[d] = "recordEvent"
  /\ events' = events \cup {event[d]}
  /\ IF event[d] \in Unpaid \/ advanced[d] THEN Stop(d) ELSE Goto(d, "setPaid")
  /\ UNCHANGED <<order, bundle, enrolled, queue, history>>

\* event_id is unique: of two deliveries that both found nothing, the second
\* insert throws.  The status tested is the one read at the start.
RecordEvent(d) ==
  /\ pc[d] = "recordEvent"
  /\ events' = events \cup {event[d]}
  /\ IF event[d] \in events \/ event[d] \in Unpaid \/ advanced[d]
       THEN Stop(d)
       ELSE Goto(d, "setPaid")
  /\ UNCHANGED <<order, bundle, enrolled, queue, history>>

\* The update names the order only.
SetPaid(d) ==
  /\ pc[d] = "setPaid"
  /\ status' = "paid"
  /\ applied' = [applied EXCEPT ![event[d]] = @ + 1]
  /\ Goto(d, "enqueue")
  /\ UNCHANGED <<aged, tables, queue, absent, faults, drops>>

\* BullMQ ignores an add whose job id it still keeps.
EnqueueFulfil(d) ==
  /\ pc[d] = "enqueue"
  /\ \/ EnqueueFails /\ UNCHANGED job
     \/ job' = (IF job = "none" THEN "waiting" ELSE job) /\ UNCHANGED drops
  /\ Stop(d)
  /\ UNCHANGED <<order, tables, receipt, attempts, applied, absent, faults>>

-----------------------------------------------------------------------------
(* fulfillOrder, run by processPaymentJob *)

TakeJob ==
  /\ job = "waiting"
  /\ pc[FulfilJob] = "idle"
  /\ job' = "active"
  /\ Goto(FulfilJob, "readOrder")
  /\ UNCHANGED <<order, tables, receipt, attempts, history>>

ReadOrder ==
  /\ pc[FulfilJob] = "readOrder"
  /\ IF status = "paid"
       THEN Goto(FulfilJob, "readBundle") /\ UNCHANGED job
       ELSE Stop(FulfilJob) /\ job' = "completed"
  /\ UNCHANGED <<order, tables, receipt, attempts, history>>

ReadBundle ==
  /\ pc[FulfilJob] = "readBundle"
  /\ pc' = [pc EXCEPT ![FulfilJob] = "enroll"]
  /\ todo' = [todo EXCEPT ![FulfilJob] = bundle]
  /\ UNCHANGED <<advanced, event, order, tables, queue, history>>

\* onConflictDoNothing: enrolling twice is enrolling once.
Enroll ==
  /\ pc[FulfilJob] = "enroll"
  /\ \E k \in todo[FulfilJob] :
       /\ enrolled' = enrolled \cup {k}
       /\ todo' = [todo EXCEPT ![FulfilJob] = @ \ {k}]
  /\ UNCHANGED <<pc, advanced, event, order, events, bundle, queue, history>>

\* Variant for mutation: the enrolments are not awaited.
SendReceiptFirst ==
  /\ pc[FulfilJob] = "enroll"
  /\ \/ EnqueueFails /\ UNCHANGED receipt
     \/ receipt' = TRUE /\ UNCHANGED drops
  /\ Goto(FulfilJob, "markFulfilled")
  /\ UNCHANGED <<order, tables, job, attempts, applied, absent, faults>>

SendReceipt ==
  /\ pc[FulfilJob] = "enroll"
  /\ todo[FulfilJob] = {}
  /\ \/ EnqueueFails /\ UNCHANGED receipt
     \/ receipt' = TRUE /\ UNCHANGED drops
  /\ Goto(FulfilJob, "markFulfilled")
  /\ UNCHANGED <<order, tables, job, attempts, applied, absent, faults>>

\* This update names the order only, too.
MarkFulfilled ==
  /\ pc[FulfilJob] = "markFulfilled"
  /\ status' = "fulfilled"
  /\ Stop(FulfilJob)
  /\ job' = "completed"
  /\ UNCHANGED <<aged, tables, receipt, attempts, history>>

\* removeOnComplete and removeOnFail: the job id can be used again.
ForgetJob ==
  /\ job \in {"completed", "failed"}
  /\ job' = "none"
  /\ attempts' = 0
  /\ UNCHANGED <<order, tables, receipt, local, history>>

-----------------------------------------------------------------------------
(* getOrder's lazy expiry, refundOrder, updateBundle *)

GetOrder(r) ==
  /\ pc[r] = "idle"
  /\ status = "pending"
  /\ aged
  /\ Goto(r, "expire")
  /\ UNCHANGED <<order, tables, queue, history>>

ExpireOrder(r) ==
  /\ pc[r] = "expire"
  /\ status' = "expired"
  /\ Stop(r)
  /\ UNCHANGED <<aged, tables, queue, history>>

RefundOrder(a) ==
  /\ pc[a] = "idle"
  /\ status \in {"paid", "fulfilled"}
  /\ Goto(a, "refund")
  /\ UNCHANGED <<order, tables, queue, history>>

SetRefunded(a) ==
  /\ pc[a] = "refund"
  /\ status' = "refunded"
  /\ Stop(a)
  /\ UNCHANGED <<aged, tables, queue, history>>

\* The rows are deleted, and inserted by a second statement.
DeleteCourses(m, S) ==
  /\ pc[m] = "idle"
  /\ bundle' = {}
  /\ absent' = Courses
  /\ pc' = [pc EXCEPT ![m] = "insertCourses"]
  /\ todo' = [todo EXCEPT ![m] = S]
  /\ UNCHANGED <<advanced, event, order, events, enrolled, queue, applied, faults, drops>>

InsertCourses(m) ==
  /\ pc[m] = "insertCourses"
  /\ bundle' = bundle \cup todo[m]
  /\ Stop(m)
  /\ UNCHANGED <<order, events, enrolled, queue, history>>

OrderAges ==
  /\ ~aged
  /\ aged' = TRUE
  /\ UNCHANGED <<status, tables, queue, local, history>>

\* An await rejects, or the process dies.
AwaitRejects(x) ==
  /\ x \in Faulty
  /\ faults < MaxFaults
  /\ pc[x] # "idle"
  /\ faults' = faults + 1
  /\ Stop(x)
  /\ IF x = FulfilJob THEN JobThrows ELSE UNCHANGED <<job, attempts>>
  /\ UNCHANGED <<order, tables, receipt, applied, absent, drops>>

-----------------------------------------------------------------------------
DeliveryStep(d) == FindEvent(d) \/ RecordEvent(d) \/ SetPaid(d) \/ EnqueueFulfil(d)

JobStep == ReadOrder \/ ReadBundle \/ Enroll \/ SendReceipt \/ MarkFulfilled

Next ==
  \/ \E d \in Deliveries : DeliveryStep(d) \/ \E e \in Events : HandleWebhook(d, e)
  \/ TakeJob \/ JobStep \/ ForgetJob
  \/ \E r \in Readers : GetOrder(r) \/ ExpireOrder(r)
  \/ \E a \in Admins : RefundOrder(a) \/ SetRefunded(a)
  \/ \E m \in Mentors : InsertCourses(m) \/ \E S \in Offers : DeleteCourses(m, S)
  \/ OrderAges
  \/ \E x \in Executors : AwaitRejects(x)

Spec == Init /\ [][Next]_vars

\* An await that does not reject resolves, and BullMQ hands out jobs.
Fairness ==
  /\ \A d \in Deliveries : WF_vars(DeliveryStep(d))
  /\ WF_vars(TakeJob) /\ WF_vars(JobStep)

FairSpec == Spec /\ Fairness

\* The provider also delivers each event again and again.
ProviderRetries ==
  \A e \in Paid : WF_vars(\E d \in Deliveries : HandleWebhook(d, e))

RetrySpec == FairSpec /\ ProviderRetries

-----------------------------------------------------------------------------
(* Properties *)

\* Nobody is enrolled by an order for which no paid event is recorded: the
\* job, its retries and a job queued again after its retention included
\* (service.ts:156-205).
AccessIsPaid == enrolled # {} => events \cap Paid # {}

\* An event sets the order to paid at most once, however many deliveries of
\* it run at the same time and whichever of them die half way: the unique
\* index on event_id elects one (service.ts:156-176).
EventAppliedOnce == \A e \in Events : applied[e] <= 1

\* A fulfilled order has delivered: every course that has been in the bundle
\* all the time is enrolled, and the receipt was queued or its enqueue failed
\* (service.ts:194-215).
FulfilledIsDelivered ==
  status = "fulfilled" => (Courses \ absent) \subseteq enrolled /\ (receipt \/ drops > 0)

\* No executor holds a status that a refund makes stale.
Quiet ==
  /\ \A d \in Deliveries :
       /\ pc[d] # "setPaid"
       /\ pc[d] \in {"findEvent", "recordEvent"} => advanced[d]
  /\ \A r \in Readers : pc[r] = "idle"
  /\ pc[FulfilJob] \in {"idle", "readOrder"}

\* A refund during which nobody holds an older status is final: later events,
\* replays, retries and jobs neither move the order nor enrol the buyer in
\* anything more (service.ts:173-175, 189-192, 226).
RefundIsFinal ==
  [][status = "refunded" /\ Quiet
       => status' = "refunded" /\ Quiet' /\ enrolled' = enrolled]_vars

\* Replays are safe: with a provider that redelivers, a paid event that was
\* recorded is not lost (docs/guides/RUNBOOK.md:93,
\* docs/architecture/QUEUEING.md:54-56).
ReplayRecovers == events \cap Paid # {} ~> status # "pending"

\* The order keeps a shop's books, whatever deliveries, jobs, refunds, expiries
\* and edits of its bundle overlap: see OrderLedger.
Ledger == INSTANCE OrderLedger
            WITH Payments <- Paid, reported <- events, credits <- applied,
                 access <- enrolled, owed <- Courses \ absent, standing <- status
ImplementsLedger == Ledger!Spec
=============================================================================
