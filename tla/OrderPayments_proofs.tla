------------------------ MODULE OrderPayments_proofs ------------------------
(***************************************************************************)
(* Proofs about OrderPayments for any events, courses, requests and bounds.*)
(*                                                                         *)
(* The argument: the unique index lets one delivery of an event through to *)
(* the update (OnceOK), only the update of a recorded paid event queues    *)
(* the job (PaidOK), and what a run of the job has still to write makes up *)
(* for what is missing (DeliveryOK).  RefundIsFinal needs WhereOK alone.   *)
(* The refinement of OrderLedger needs CreditOK besides, and HandInv shows *)
(* that no recorded payment is forgotten.                                  *)
(***************************************************************************)
EXTENDS OrderPayments, TLAPS

\* Each executor is in its own code, and a delivery carries an event.
WhereOK ==
  /\ \A d \in Deliveries : /\ pc[d] \in {"idle", "findEvent", "recordEvent", "setPaid", "enqueue"}
                           /\ pc[d] # "idle" => event[d] \in Events
  /\ \A r \in Readers : pc[r] \in {"idle", "expire"}
  /\ \A a \in Admins : pc[a] \in {"idle", "refund"}
  /\ \A m \in Mentors : pc[m] \in {"idle", "insertCourses"}
  /\ pc[FulfilJob] \in {"idle", "readOrder", "readBundle", "enroll", "markFulfilled"}
  /\ pc[FulfilJob] # "idle" <=> job = "active"

\* A job that may still run has an attempt left.
AttemptsOK == job \in {"none", "waiting", "active"} => attempts < MaxAttempts

\* The job exists, and has enrolled, only after a paid event was recorded.
PaidOK ==
  /\ \A d \in Deliveries : pc[d] \in {"setPaid", "enqueue"} => event[d] \in Paid \cap events
  /\ job # "none" \/ enrolled # {} => events \cap Paid # {}

\* An event that is not recorded, or about to be applied, was never applied.
OnceOK ==
  /\ EventAppliedOnce
  /\ \A e \in Events \ events : applied[e] = 0
  /\ \A d \in Deliveries : pc[d] = "setPaid" => applied[event[d]] = 0
  /\ \A c, d \in Deliveries : pc[c] = "setPaid" /\ pc[d] = "setPaid" /\ event[c] = event[d] => c = d

\* A run of the job still holds every lasting course it has not enrolled.
DeliveryOK ==
  /\ Courses \ absent \subseteq bundle
  /\ pc[FulfilJob] = "enroll" => Courses \ absent \subseteq enrolled \cup todo[FulfilJob]
  /\ pc[FulfilJob] = "markFulfilled"
       => Courses \ absent \subseteq enrolled /\ (receipt \/ drops > 0)
  /\ FulfilledIsDelivered

IInv == TypeOK /\ WhereOK /\ AttemptsOK /\ PaidOK /\ OnceOK /\ DeliveryOK

USE DEF order, tables, queue, local, history

LEMMA HandleWebhookPreserves ==
  ASSUME IInv, NEW d \in Deliveries, NEW e \in Events, HandleWebhook(d, e)
  PROVE  IInv'
<1>1. TypeOK'
  BY EventsAssumption, ExecutorsAssumption, BoundsAssumption DEF IInv, TypeOK, WhereOK,
     AttemptsOK, Labels, Statuses, Pairwise, Executors, Events, HandleWebhook
<1>2. WhereOK'
  BY EventsAssumption, ExecutorsAssumption, BoundsAssumption DEF IInv, TypeOK, WhereOK,
     Pairwise, Executors, Events, HandleWebhook
<1>3. AttemptsOK'
  BY EventsAssumption, ExecutorsAssumption, BoundsAssumption DEF IInv, TypeOK, AttemptsOK,
     Pairwise, Executors, Events, HandleWebhook
<1>4. PaidOK'
  BY EventsAssumption, ExecutorsAssumption, BoundsAssumption DEF IInv, TypeOK, WhereOK, PaidOK,
     Pairwise, Executors, Events, HandleWebhook
<1>5. OnceOK'
  BY EventsAssumption, ExecutorsAssumption, BoundsAssumption DEF IInv, TypeOK, WhereOK, PaidOK,
     OnceOK, EventAppliedOnce, Pairwise, Executors, Events, HandleWebhook
<1>6. DeliveryOK'
  BY EventsAssumption, ExecutorsAssumption, BoundsAssumption DEF IInv, TypeOK, WhereOK,
     DeliveryOK, FulfilledIsDelivered, Pairwise, Executors, Events, HandleWebhook
<1>7. QED
  BY <1>1, <1>2, <1>3, <1>4, <1>5, <1>6 DEF IInv

LEMMA FindEventPreserves ==
  ASSUME IInv, NEW d \in Deliveries, FindEvent(d)
  PROVE  IInv'
<1>1. TypeOK'
  <2>1. CASE Stop(d)
    BY <2>1, EventsAssumption, ExecutorsAssumption, BoundsAssumption DEF IInv, TypeOK, WhereOK,
       AttemptsOK, Labels, Statuses, Pairwise, Executors, Events, FindEvent, Goto, Stop
  <2>2. CASE Goto(d, "recordEvent")
    BY <2>2, EventsAssumption, ExecutorsAssumption, BoundsAssumption DEF IInv, TypeOK, WhereOK,
       AttemptsOK, Labels, Statuses, Pairwise, Executors, Events, FindEvent, Goto, Stop
  <2>3. QED
    BY <2>1, <2>2 DEF FindEvent
<1>2. WhereOK'
  BY EventsAssumption, ExecutorsAssumption, BoundsAssumption DEF IInv, TypeOK, WhereOK,
     Pairwise, Executors, Events, FindEvent, Goto, Stop
<1>3. AttemptsOK'
  BY EventsAssumption, ExecutorsAssumption, BoundsAssumption DEF IInv, TypeOK, AttemptsOK,
     Pairwise, Executors, Events, FindEvent, Goto, Stop
<1>4. PaidOK'
  BY EventsAssumption, ExecutorsAssumption, BoundsAssumption DEF IInv, TypeOK, WhereOK, PaidOK,
     Pairwise, Executors, Events, FindEvent, Goto, Stop
<1>5. OnceOK'
  BY EventsAssumption, ExecutorsAssumption, BoundsAssumption DEF IInv, TypeOK, WhereOK, PaidOK,
     OnceOK, EventAppliedOnce, Pairwise, Executors, Events, FindEvent, Goto, Stop
<1>6. DeliveryOK'
  BY EventsAssumption, ExecutorsAssumption, BoundsAssumption DEF IInv, TypeOK, WhereOK,
     DeliveryOK, FulfilledIsDelivered, Pairwise, Executors, Events, FindEvent, Goto, Stop
<1>7. QED
  BY <1>1, <1>2, <1>3, <1>4, <1>5, <1>6 DEF IInv

LEMMA RecordEventPreserves ==
  ASSUME IInv, NEW d \in Deliveries, RecordEvent(d)
  PROVE  IInv'
<1>1. TypeOK'
  <2>1. CASE Stop(d)
    BY <2>1, EventsAssumption, ExecutorsAssumption, BoundsAssumption DEF IInv, TypeOK, WhereOK,
       AttemptsOK, Labels, Statuses, Pairwise, Executors, Events, RecordEvent, Goto, Stop
  <2>2. CASE Goto(d, "setPaid")
    BY <2>2, EventsAssumption, ExecutorsAssumption, BoundsAssumption DEF IInv, TypeOK, WhereOK,
       AttemptsOK, Labels, Statuses, Pairwise, Executors, Events, RecordEvent, Goto, Stop
  <2>3. QED
    BY <2>1, <2>2 DEF RecordEvent
<1>2. WhereOK'
  BY EventsAssumption, ExecutorsAssumption, BoundsAssumption DEF IInv, TypeOK, WhereOK,
     Pairwise, Executors, Events, RecordEvent, Goto, Stop
<1>3. AttemptsOK'
  BY EventsAssumption, ExecutorsAssumption, BoundsAssumption DEF IInv, TypeOK, AttemptsOK,
     Pairwise, Executors, Events, RecordEvent, Goto, Stop
<1>4. PaidOK'
  BY EventsAssumption, ExecutorsAssumption, BoundsAssumption DEF IInv, TypeOK, WhereOK, PaidOK,
     Pairwise, Executors, Events, RecordEvent, Goto, Stop
<1>5. OnceOK'
  BY EventsAssumption, ExecutorsAssumption, BoundsAssumption DEF IInv, TypeOK, WhereOK, PaidOK,
     OnceOK, EventAppliedOnce, Pairwise, Executors, Events, RecordEvent, Goto, Stop
<1>6. DeliveryOK'
  BY EventsAssumption, ExecutorsAssumption, BoundsAssumption DEF IInv, TypeOK, WhereOK,
     DeliveryOK, FulfilledIsDelivered, Pairwise, Executors, Events, RecordEvent, Goto, Stop
<1>7. QED
  BY <1>1, <1>2, <1>3, <1>4, <1>5, <1>6 DEF IInv

LEMMA SetPaidPreserves ==
  ASSUME IInv, NEW d \in Deliveries, SetPaid(d)
  PROVE  IInv'
<1>1. TypeOK'
  BY EventsAssumption, ExecutorsAssumption, BoundsAssumption DEF IInv, TypeOK, WhereOK,
     AttemptsOK, Labels, Statuses, Pairwise, Executors, Events, SetPaid, Goto
<1>2. WhereOK'
  BY EventsAssumption, ExecutorsAssumption, BoundsAssumption DEF IInv, TypeOK, WhereOK,
     Pairwise, Executors, Events, SetPaid, Goto
<1>3. AttemptsOK'
  BY EventsAssumption, ExecutorsAssumption, BoundsAssumption DEF IInv, TypeOK, AttemptsOK,
     Pairwise, Executors, Events, SetPaid, Goto
<1>4. PaidOK'
  BY EventsAssumption, ExecutorsAssumption, BoundsAssumption DEF IInv, TypeOK, WhereOK, PaidOK,
     Pairwise, Executors, Events, SetPaid, Goto
<1>5. OnceOK'
  BY EventsAssumption, ExecutorsAssumption, BoundsAssumption DEF IInv, TypeOK, WhereOK, PaidOK,
     OnceOK, EventAppliedOnce, Pairwise, Executors, Events, SetPaid, Goto
<1>6. DeliveryOK'
  BY EventsAssumption, ExecutorsAssumption, BoundsAssumption DEF IInv, TypeOK, WhereOK,
     DeliveryOK, FulfilledIsDelivered, Pairwise, Executors, Events, SetPaid, Goto
<1>7. QED
  BY <1>1, <1>2, <1>3, <1>4, <1>5, <1>6 DEF IInv

LEMMA EnqueueFulfilPreserves ==
  ASSUME IInv, NEW d \in Deliveries, EnqueueFulfil(d)
  PROVE  IInv'
<1>1. TypeOK'
  BY EventsAssumption, ExecutorsAssumption, BoundsAssumption DEF IInv, TypeOK, WhereOK,
     AttemptsOK, Labels, Statuses, Pairwise, Executors, Events, EnqueueFulfil, Stop,
     EnqueueFails
<1>2. WhereOK'
  BY EventsAssumption, ExecutorsAssumption, BoundsAssumption DEF IInv, TypeOK, WhereOK,
     Pairwise, Executors, Events, EnqueueFulfil, Stop, EnqueueFails
<1>3. AttemptsOK'
  BY EventsAssumption, ExecutorsAssumption, BoundsAssumption DEF IInv, TypeOK, AttemptsOK,
     Pairwise, Executors, Events, EnqueueFulfil, Stop, EnqueueFails
<1>4. PaidOK'
  BY EventsAssumption, ExecutorsAssumption, BoundsAssumption DEF IInv, TypeOK, WhereOK, PaidOK,
     Pairwise, Executors, Events, EnqueueFulfil, Stop, EnqueueFails
<1>5. OnceOK'
  BY EventsAssumption, ExecutorsAssumption, BoundsAssumption DEF IInv, TypeOK, WhereOK, PaidOK,
     OnceOK, EventAppliedOnce, Pairwise, Executors, Events, EnqueueFulfil, Stop, EnqueueFails
<1>6. DeliveryOK'
  BY EventsAssumption, ExecutorsAssumption, BoundsAssumption DEF IInv, TypeOK, WhereOK,
     DeliveryOK, FulfilledIsDelivered, Pairwise, Executors, Events, EnqueueFulfil, Stop,
     EnqueueFails
<1>7. QED
  BY <1>1, <1>2, <1>3, <1>4, <1>5, <1>6 DEF IInv

LEMMA TakeJobPreserves ==
  ASSUME IInv, TakeJob
  PROVE  IInv'
<1>1. TypeOK'
  BY EventsAssumption, ExecutorsAssumption, BoundsAssumption DEF IInv, TypeOK, WhereOK,
     AttemptsOK, Labels, Statuses, Pairwise, Executors, Events, TakeJob, Goto
<1>2. WhereOK'
  BY EventsAssumption, ExecutorsAssumption, BoundsAssumption DEF IInv, TypeOK, WhereOK,
     Pairwise, Executors, Events, TakeJob, Goto
<1>3. AttemptsOK'
  BY EventsAssumption, ExecutorsAssumption, BoundsAssumption DEF IInv, TypeOK, AttemptsOK,
     Pairwise, Executors, Events, TakeJob, Goto
<1>4. PaidOK'
  BY EventsAssumption, ExecutorsAssumption, BoundsAssumption DEF IInv, TypeOK, WhereOK, PaidOK,
     Pairwise, Executors, Events, TakeJob, Goto
<1>5. OnceOK'
  BY EventsAssumption, ExecutorsAssumption, BoundsAssumption DEF IInv, TypeOK, WhereOK, PaidOK,
     OnceOK, EventAppliedOnce, Pairwise, Executors, Events, TakeJob, Goto
<1>6. DeliveryOK'
  BY EventsAssumption, ExecutorsAssumption, BoundsAssumption DEF IInv, TypeOK, WhereOK,
     DeliveryOK, FulfilledIsDelivered, Pairwise, Executors, Events, TakeJob, Goto
<1>7. QED
  BY <1>1, <1>2, <1>3, <1>4, <1>5, <1>6 DEF IInv

LEMMA ReadOrderPreserves ==
  ASSUME IInv, ReadOrder
  PROVE  IInv'
<1>1. TypeOK'
  BY EventsAssumption, ExecutorsAssumption, BoundsAssumption DEF IInv, TypeOK, WhereOK,
     AttemptsOK, Labels, Statuses, Pairwise, Executors, Events, ReadOrder, Goto, Stop
<1>2. WhereOK'
  BY EventsAssumption, ExecutorsAssumption, BoundsAssumption DEF IInv, TypeOK, WhereOK,
     Pairwise, Executors, Events, ReadOrder, Goto, Stop
<1>3. AttemptsOK'
  BY EventsAssumption, ExecutorsAssumption, BoundsAssumption DEF IInv, TypeOK, AttemptsOK,
     Pairwise, Executors, Events, ReadOrder, Goto, Stop
<1>4. PaidOK'
  BY EventsAssumption, ExecutorsAssumption, BoundsAssumption DEF IInv, TypeOK, WhereOK, PaidOK,
     Pairwise, Executors, Events, ReadOrder, Goto, Stop
<1>5. OnceOK'
  BY EventsAssumption, ExecutorsAssumption, BoundsAssumption DEF IInv, TypeOK, WhereOK, PaidOK,
     OnceOK, EventAppliedOnce, Pairwise, Executors, Events, ReadOrder, Goto, Stop
<1>6. DeliveryOK'
  BY EventsAssumption, ExecutorsAssumption, BoundsAssumption DEF IInv, TypeOK, WhereOK,
     DeliveryOK, FulfilledIsDelivered, Pairwise, Executors, Events, ReadOrder, Goto, Stop
<1>7. QED
  BY <1>1, <1>2, <1>3, <1>4, <1>5, <1>6 DEF IInv

LEMMA ReadBundlePreserves ==
  ASSUME IInv, ReadBundle
  PROVE  IInv'
<1>1. TypeOK'
  BY EventsAssumption, ExecutorsAssumption, BoundsAssumption DEF IInv, TypeOK, WhereOK,
     AttemptsOK, Labels, Statuses, Pairwise, Executors, Events, ReadBundle
<1>2. WhereOK'
  BY EventsAssumption, ExecutorsAssumption, BoundsAssumption DEF IInv, TypeOK, WhereOK,
     Pairwise, Executors, Events, ReadBundle
<1>3. AttemptsOK'
  BY EventsAssumption, ExecutorsAssumption, BoundsAssumption DEF IInv, TypeOK, AttemptsOK,
     Pairwise, Executors, Events, ReadBundle
<1>4. PaidOK'
  BY EventsAssumption, ExecutorsAssumption, BoundsAssumption DEF IInv, TypeOK, WhereOK, PaidOK,
     Pairwise, Executors, Events, ReadBundle
<1>5. OnceOK'
  BY EventsAssumption, ExecutorsAssumption, BoundsAssumption DEF IInv, TypeOK, WhereOK, PaidOK,
     OnceOK, EventAppliedOnce, Pairwise, Executors, Events, ReadBundle
<1>6. DeliveryOK'
  BY EventsAssumption, ExecutorsAssumption, BoundsAssumption DEF IInv, TypeOK, WhereOK,
     DeliveryOK, FulfilledIsDelivered, Pairwise, Executors, Events, ReadBundle
<1>7. QED
  BY <1>1, <1>2, <1>3, <1>4, <1>5, <1>6 DEF IInv

LEMMA EnrollPreserves ==
  ASSUME IInv, Enroll
  PROVE  IInv'
<1>1. TypeOK'
  BY EventsAssumption, ExecutorsAssumption, BoundsAssumption DEF IInv, TypeOK, WhereOK,
     AttemptsOK, Labels, Statuses, Pairwise, Executors, Events, Enroll
<1>2. WhereOK'
  BY EventsAssumption, ExecutorsAssumption, BoundsAssumption DEF IInv, TypeOK, WhereOK,
     Pairwise, Executors, Events, Enroll
<1>3. AttemptsOK'
  BY EventsAssumption, ExecutorsAssumption, BoundsAssumption DEF IInv, TypeOK, AttemptsOK,
     Pairwise, Executors, Events, Enroll
<1>4. PaidOK'
  BY EventsAssumption, ExecutorsAssumption, BoundsAssumption DEF IInv, TypeOK, WhereOK, PaidOK,
     Pairwise, Executors, Events, Enroll
<1>5. OnceOK'
  BY EventsAssumption, ExecutorsAssumption, BoundsAssumption DEF IInv, TypeOK, WhereOK, PaidOK,
     OnceOK, EventAppliedOnce, Pairwise, Executors, Events, Enroll
<1>6. DeliveryOK'
  BY EventsAssumption, ExecutorsAssumption, BoundsAssumption DEF IInv, TypeOK, WhereOK,
     DeliveryOK, FulfilledIsDelivered, Pairwise, Executors, Events, Enroll
<1>7. QED
  BY <1>1, <1>2, <1>3, <1>4, <1>5, <1>6 DEF IInv

LEMMA SendReceiptPreserves ==
  ASSUME IInv, SendReceipt
  PROVE  IInv'
<1>1. TypeOK'
  <2>1. CASE EnqueueFails /\ UNCHANGED receipt
    BY <2>1, EventsAssumption, ExecutorsAssumption, BoundsAssumption DEF IInv, TypeOK, WhereOK,
       AttemptsOK, Labels, Statuses, Pairwise, Executors, Events, SendReceipt, Goto,
       EnqueueFails
  <2>2. CASE receipt' = TRUE /\ UNCHANGED drops
    BY <2>2, EventsAssumption, ExecutorsAssumption, BoundsAssumption DEF IInv, TypeOK, WhereOK,
       AttemptsOK, Labels, Statuses, Pairwise, Executors, Events, SendReceipt, Goto,
       EnqueueFails
  <2>3. QED
    BY <2>1, <2>2 DEF SendReceipt
<1>2. WhereOK'
  BY EventsAssumption, ExecutorsAssumption, BoundsAssumption DEF IInv, TypeOK, WhereOK,
     Pairwise, Executors, Events, SendReceipt, Goto, EnqueueFails
<1>3. AttemptsOK'
  BY EventsAssumption, ExecutorsAssumption, BoundsAssumption DEF IInv, TypeOK, AttemptsOK,
     Pairwise, Executors, Events, SendReceipt, Goto, EnqueueFails
<1>4. PaidOK'
  BY EventsAssumption, ExecutorsAssumption, BoundsAssumption DEF IInv, TypeOK, WhereOK, PaidOK,
     Pairwise, Executors, Events, SendReceipt, Goto, EnqueueFails
<1>5. OnceOK'
  BY EventsAssumption, ExecutorsAssumption, BoundsAssumption DEF IInv, TypeOK, WhereOK, PaidOK,
     OnceOK, EventAppliedOnce, Pairwise, Executors, Events, SendReceipt, Goto, EnqueueFails
<1>6. DeliveryOK'
  BY EventsAssumption, ExecutorsAssumption, BoundsAssumption DEF IInv, TypeOK, WhereOK,
     DeliveryOK, FulfilledIsDelivered, Pairwise, Executors, Events, SendReceipt, Goto,
     EnqueueFails
<1>7. QED
  BY <1>1, <1>2, <1>3, <1>4, <1>5, <1>6 DEF IInv

LEMMA MarkFulfilledPreserves ==
  ASSUME IInv, MarkFulfilled
  PROVE  IInv'
<1>1. TypeOK'
  BY EventsAssumption, ExecutorsAssumption, BoundsAssumption DEF IInv, TypeOK, WhereOK,
     AttemptsOK, Labels, Statuses, Pairwise, Executors, Events, MarkFulfilled, Stop
<1>2. WhereOK'
  BY EventsAssumption, ExecutorsAssumption, BoundsAssumption DEF IInv, TypeOK, WhereOK,
     Pairwise, Executors, Events, MarkFulfilled, Stop
<1>3. AttemptsOK'
  BY EventsAssumption, ExecutorsAssumption, BoundsAssumption DEF IInv, TypeOK, AttemptsOK,
     Pairwise, Executors, Events, MarkFulfilled, Stop
<1>4. PaidOK'
  BY EventsAssumption, ExecutorsAssumption, BoundsAssumption DEF IInv, TypeOK, WhereOK, PaidOK,
     Pairwise, Executors, Events, MarkFulfilled, Stop
<1>5. OnceOK'
  BY EventsAssumption, ExecutorsAssumption, BoundsAssumption DEF IInv, TypeOK, WhereOK, PaidOK,
     OnceOK, EventAppliedOnce, Pairwise, Executors, Events, MarkFulfilled, Stop
<1>6. DeliveryOK'
  BY EventsAssumption, ExecutorsAssumption, BoundsAssumption DEF IInv, TypeOK, WhereOK,
     DeliveryOK, FulfilledIsDelivered, Pairwise, Executors, Events, MarkFulfilled, Stop
<1>7. QED
  BY <1>1, <1>2, <1>3, <1>4, <1>5, <1>6 DEF IInv

LEMMA ForgetJobPreserves ==
  ASSUME IInv, ForgetJob
  PROVE  IInv'
<1>1. TypeOK'
  BY EventsAssumption, ExecutorsAssumption, BoundsAssumption DEF IInv, TypeOK, WhereOK,
     AttemptsOK, Labels, Statuses, Pairwise, Executors, Events, ForgetJob
<1>2. WhereOK'
  BY EventsAssumption, ExecutorsAssumption, BoundsAssumption DEF IInv, TypeOK, WhereOK,
     Pairwise, Executors, Events, ForgetJob
<1>3. AttemptsOK'
  BY EventsAssumption, ExecutorsAssumption, BoundsAssumption DEF IInv, TypeOK, AttemptsOK,
     Pairwise, Executors, Events, ForgetJob
<1>4. PaidOK'
  BY EventsAssumption, ExecutorsAssumption, BoundsAssumption DEF IInv, TypeOK, WhereOK, PaidOK,
     Pairwise, Executors, Events, ForgetJob
<1>5. OnceOK'
  BY EventsAssumption, ExecutorsAssumption, BoundsAssumption DEF IInv, TypeOK, WhereOK, PaidOK,
     OnceOK, EventAppliedOnce, Pairwise, Executors, Events, ForgetJob
<1>6. DeliveryOK'
  BY EventsAssumption, ExecutorsAssumption, BoundsAssumption DEF IInv, TypeOK, WhereOK,
     DeliveryOK, FulfilledIsDelivered, Pairwise, Executors, Events, ForgetJob
<1>7. QED
  BY <1>1, <1>2, <1>3, <1>4, <1>5, <1>6 DEF IInv

LEMMA GetOrderPreserves ==
  ASSUME IInv, NEW r \in Readers, GetOrder(r)
  PROVE  IInv'
<1>1. TypeOK'
  BY EventsAssumption, ExecutorsAssumption, BoundsAssumption DEF IInv, TypeOK, WhereOK,
     AttemptsOK, Labels, Statuses, Pairwise, Executors, Events, GetOrder, Goto
<1>2. WhereOK'
  BY EventsAssumption, ExecutorsAssumption, BoundsAssumption DEF IInv, TypeOK, WhereOK,
     Pairwise, Executors, Events, GetOrder, Goto
<1>3. AttemptsOK'
  BY EventsAssumption, ExecutorsAssumption, BoundsAssumption DEF IInv, TypeOK, AttemptsOK,
     Pairwise, Executors, Events, GetOrder, Goto
<1>4. PaidOK'
  BY EventsAssumption, ExecutorsAssumption, BoundsAssumption DEF IInv, TypeOK, WhereOK, PaidOK,
     Pairwise, Executors, Events, GetOrder, Goto
<1>5. OnceOK'
  BY EventsAssumption, ExecutorsAssumption, BoundsAssumption DEF IInv, TypeOK, WhereOK, PaidOK,
     OnceOK, EventAppliedOnce, Pairwise, Executors, Events, GetOrder, Goto
<1>6. DeliveryOK'
  BY EventsAssumption, ExecutorsAssumption, BoundsAssumption DEF IInv, TypeOK, WhereOK,
     DeliveryOK, FulfilledIsDelivered, Pairwise, Executors, Events, GetOrder, Goto
<1>7. QED
  BY <1>1, <1>2, <1>3, <1>4, <1>5, <1>6 DEF IInv

LEMMA ExpireOrderPreserves ==
  ASSUME IInv, NEW r \in Readers, ExpireOrder(r)
  PROVE  IInv'
<1>1. TypeOK'
  BY EventsAssumption, ExecutorsAssumption, BoundsAssumption DEF IInv, TypeOK, WhereOK,
     AttemptsOK, Labels, Statuses, Pairwise, Executors, Events, ExpireOrder, Stop
<1>2. WhereOK'
  BY EventsAssumption, ExecutorsAssumption, BoundsAssumption DEF IInv, TypeOK, WhereOK,
     Pairwise, Executors, Events, ExpireOrder, Stop
<1>3. AttemptsOK'
  BY EventsAssumption, ExecutorsAssumption, BoundsAssumption DEF IInv, TypeOK, AttemptsOK,
     Pairwise, Executors, Events, ExpireOrder, Stop
<1>4. PaidOK'
  BY EventsAssumption, ExecutorsAssumption, BoundsAssumption DEF IInv, TypeOK, WhereOK, PaidOK,
     Pairwise, Executors, Events, ExpireOrder, Stop
<1>5. OnceOK'
  BY EventsAssumption, ExecutorsAssumption, BoundsAssumption DEF IInv, TypeOK, WhereOK, PaidOK,
     OnceOK, EventAppliedOnce, Pairwise, Executors, Events, ExpireOrder, Stop
<1>6. DeliveryOK'
  BY EventsAssumption, ExecutorsAssumption, BoundsAssumption DEF IInv, TypeOK, WhereOK,
     DeliveryOK, FulfilledIsDelivered, Pairwise, Executors, Events, ExpireOrder, Stop
<1>7. QED
  BY <1>1, <1>2, <1>3, <1>4, <1>5, <1>6 DEF IInv

LEMMA RefundOrderPreserves ==
  ASSUME IInv, NEW a \in Admins, RefundOrder(a)
  PROVE  IInv'
<1>1. TypeOK'
  BY EventsAssumption, ExecutorsAssumption, BoundsAssumption DEF IInv, TypeOK, WhereOK,
     AttemptsOK, Labels, Statuses, Pairwise, Executors, Events, RefundOrder, Goto
<1>2. WhereOK'
  BY EventsAssumption, ExecutorsAssumption, BoundsAssumption DEF IInv, TypeOK, WhereOK,
     Pairwise, Executors, Events, RefundOrder, Goto
<1>3. AttemptsOK'
  BY EventsAssumption, ExecutorsAssumption, BoundsAssumption DEF IInv, TypeOK, AttemptsOK,
     Pairwise, Executors, Events, RefundOrder, Goto
<1>4. PaidOK'
  BY EventsAssumption, ExecutorsAssumption, BoundsAssumption DEF IInv, TypeOK, WhereOK, PaidOK,
     Pairwise, Executors, Events, RefundOrder, Goto
<1>5. OnceOK'
  BY EventsAssumption, ExecutorsAssumption, BoundsAssumption DEF IInv, TypeOK, WhereOK, PaidOK,
     OnceOK, EventAppliedOnce, Pairwise, Executors, Events, RefundOrder, Goto
<1>6. DeliveryOK'
  BY EventsAssumption, ExecutorsAssumption, BoundsAssumption DEF IInv, TypeOK, WhereOK,
     DeliveryOK, FulfilledIsDelivered, Pairwise, Executors, Events, RefundOrder, Goto
<1>7. QED
  BY <1>1, <1>2, <1>3, <1>4, <1>5, <1>6 DEF IInv

LEMMA SetRefundedPreserves ==
  ASSUME IInv, NEW a \in Admins, SetRefunded(a)
  PROVE  IInv'
<1>1. TypeOK'
  BY EventsAssumption, ExecutorsAssumption, BoundsAssumption DEF IInv, TypeOK, WhereOK,
     AttemptsOK, Labels, Statuses, Pairwise, Executors, Events, SetRefunded, Stop
<1>2. WhereOK'
  BY EventsAssumption, ExecutorsAssumption, BoundsAssumption DEF IInv, TypeOK, WhereOK,
     Pairwise, Executors, Events, SetRefunded, Stop
<1>3. AttemptsOK'
  BY EventsAssumption, ExecutorsAssumption, BoundsAssumption DEF IInv, TypeOK, AttemptsOK,
     Pairwise, Executors, Events, SetRefunded, Stop
<1>4. PaidOK'
  BY EventsAssumption, ExecutorsAssumption, BoundsAssumption DEF IInv, TypeOK, WhereOK, PaidOK,
     Pairwise, Executors, Events, SetRefunded, Stop
<1>5. OnceOK'
  BY EventsAssumption, ExecutorsAssumption, BoundsAssumption DEF IInv, TypeOK, WhereOK, PaidOK,
     OnceOK, EventAppliedOnce, Pairwise, Executors, Events, SetRefunded, Stop
<1>6. DeliveryOK'
  BY EventsAssumption, ExecutorsAssumption, BoundsAssumption DEF IInv, TypeOK, WhereOK,
     DeliveryOK, FulfilledIsDelivered, Pairwise, Executors, Events, SetRefunded, Stop
<1>7. QED
  BY <1>1, <1>2, <1>3, <1>4, <1>5, <1>6 DEF IInv

LEMMA DeleteCoursesPreserves ==
  ASSUME IInv, NEW m \in Mentors, NEW S \in Offers, DeleteCourses(m, S)
  PROVE  IInv'
<1>1. TypeOK'
  BY EventsAssumption, ExecutorsAssumption, BoundsAssumption DEF IInv, TypeOK, WhereOK,
     AttemptsOK, Labels, Statuses, Pairwise, Executors, Events, DeleteCourses
<1>2. WhereOK'
  BY EventsAssumption, ExecutorsAssumption, BoundsAssumption DEF IInv, TypeOK, WhereOK,
     Pairwise, Executors, Events, DeleteCourses
<1>3. AttemptsOK'
  BY EventsAssumption, ExecutorsAssumption, BoundsAssumption DEF IInv, TypeOK, AttemptsOK,
     Pairwise, Executors, Events, DeleteCourses
<1>4. PaidOK'
  BY EventsAssumption, ExecutorsAssumption, BoundsAssumption DEF IInv, TypeOK, WhereOK, PaidOK,
     Pairwise, Executors, Events, DeleteCourses
<1>5. OnceOK'
  BY EventsAssumption, ExecutorsAssumption, BoundsAssumption DEF IInv, TypeOK, WhereOK, PaidOK,
     OnceOK, EventAppliedOnce, Pairwise, Executors, Events, DeleteCourses
<1>6. DeliveryOK'
  BY EventsAssumption, ExecutorsAssumption, BoundsAssumption DEF IInv, TypeOK, WhereOK,
     DeliveryOK, FulfilledIsDelivered, Pairwise, Executors, Events, DeleteCourses
<1>7. QED
  BY <1>1, <1>2, <1>3, <1>4, <1>5, <1>6 DEF IInv

LEMMA InsertCoursesPreserves ==
  ASSUME IInv, NEW m \in Mentors, InsertCourses(m)
  PROVE  IInv'
<1>1. TypeOK'
  BY EventsAssumption, ExecutorsAssumption, BoundsAssumption DEF IInv, TypeOK, WhereOK,
     AttemptsOK, Labels, Statuses, Pairwise, Executors, Events, InsertCourses, Stop
<1>2. WhereOK'
  BY EventsAssumption, ExecutorsAssumption, BoundsAssumption DEF IInv, TypeOK, WhereOK,
     Pairwise, Executors, Events, InsertCourses, Stop
<1>3. AttemptsOK'
  BY EventsAssumption, ExecutorsAssumption, BoundsAssumption DEF IInv, TypeOK, AttemptsOK,
     Pairwise, Executors, Events, InsertCourses, Stop
<1>4. PaidOK'
  BY EventsAssumption, ExecutorsAssumption, BoundsAssumption DEF IInv, TypeOK, WhereOK, PaidOK,
     Pairwise, Executors, Events, InsertCourses, Stop
<1>5. OnceOK'
  BY EventsAssumption, ExecutorsAssumption, BoundsAssumption DEF IInv, TypeOK, WhereOK, PaidOK,
     OnceOK, EventAppliedOnce, Pairwise, Executors, Events, InsertCourses, Stop
<1>6. DeliveryOK'
  BY EventsAssumption, ExecutorsAssumption, BoundsAssumption DEF IInv, TypeOK, WhereOK,
     DeliveryOK, FulfilledIsDelivered, Pairwise, Executors, Events, InsertCourses, Stop
<1>7. QED
  BY <1>1, <1>2, <1>3, <1>4, <1>5, <1>6 DEF IInv

LEMMA OrderAgesPreserves ==
  ASSUME IInv, OrderAges
  PROVE  IInv'
<1>1. TypeOK'
  BY EventsAssumption, ExecutorsAssumption, BoundsAssumption DEF IInv, TypeOK, WhereOK,
     AttemptsOK, Labels, Statuses, Pairwise, Executors, Events, OrderAges
<1>2. WhereOK'
  BY EventsAssumption, ExecutorsAssumption, BoundsAssumption DEF IInv, TypeOK, WhereOK,
     Pairwise, Executors, Events, OrderAges
<1>3. AttemptsOK'
  BY EventsAssumption, ExecutorsAssumption, BoundsAssumption DEF IInv, TypeOK, AttemptsOK,
     Pairwise, Executors, Events, OrderAges
<1>4. PaidOK'
  BY EventsAssumption, ExecutorsAssumption, BoundsAssumption DEF IInv, TypeOK, WhereOK, PaidOK,
     Pairwise, Executors, Events, OrderAges
<1>5. OnceOK'
  BY EventsAssumption, ExecutorsAssumption, BoundsAssumption DEF IInv, TypeOK, WhereOK, PaidOK,
     OnceOK, EventAppliedOnce, Pairwise, Executors, Events, OrderAges
<1>6. DeliveryOK'
  BY EventsAssumption, ExecutorsAssumption, BoundsAssumption DEF IInv, TypeOK, WhereOK,
     DeliveryOK, FulfilledIsDelivered, Pairwise, Executors, Events, OrderAges
<1>7. QED
  BY <1>1, <1>2, <1>3, <1>4, <1>5, <1>6 DEF IInv

LEMMA AwaitRejectsPreserves ==
  ASSUME IInv, NEW x \in Executors, AwaitRejects(x)
  PROVE  IInv'
<1>1. TypeOK'
  BY EventsAssumption, ExecutorsAssumption, BoundsAssumption DEF IInv, TypeOK, WhereOK,
     AttemptsOK, Labels, Statuses, Pairwise, Executors, Events, AwaitRejects, Stop, JobThrows
<1>2. WhereOK'
  BY EventsAssumption, ExecutorsAssumption, BoundsAssumption DEF IInv, TypeOK, WhereOK,
     Pairwise, Executors, Events, AwaitRejects, Stop, JobThrows
<1>3. AttemptsOK'
  BY EventsAssumption, ExecutorsAssumption, BoundsAssumption DEF IInv, TypeOK, AttemptsOK,
     Pairwise, Executors, Events, AwaitRejects, Stop, JobThrows
<1>4. PaidOK'
  BY EventsAssumption, ExecutorsAssumption, BoundsAssumption DEF IInv, TypeOK, WhereOK, PaidOK,
     Pairwise, Executors, Events, AwaitRejects, Stop, JobThrows
<1>5. OnceOK'
  BY EventsAssumption, ExecutorsAssumption, BoundsAssumption DEF IInv, TypeOK, WhereOK, PaidOK,
     OnceOK, EventAppliedOnce, Pairwise, Executors, Events, AwaitRejects, Stop, JobThrows
<1>6. DeliveryOK'
  BY EventsAssumption, ExecutorsAssumption, BoundsAssumption DEF IInv, TypeOK, WhereOK,
     DeliveryOK, FulfilledIsDelivered, Pairwise, Executors, Events, AwaitRejects, Stop,
     JobThrows
<1>7. QED
  BY <1>1, <1>2, <1>3, <1>4, <1>5, <1>6 DEF IInv

LEMMA InitEstablishes == Init => IInv
<1>1. SUFFICES ASSUME Init PROVE IInv
  OBVIOUS
<1>2. TypeOK
  <2>1. advanced \in [Deliveries -> BOOLEAN] /\ receipt \in BOOLEAN /\ aged \in BOOLEAN
    BY <1>1 DEF Init
  <2>2. attempts \in 0..MaxAttempts /\ faults \in 0..MaxFaults /\ drops \in 0..MaxDrops
    BY <1>1, BoundsAssumption DEF Init
  <2>3. QED
    BY <1>1, <2>1, <2>2 DEF Init, TypeOK, Labels, Statuses
<1>3. WhereOK
  BY <1>1 DEF Init, WhereOK, Executors
<1>4. AttemptsOK
  BY <1>1, BoundsAssumption DEF Init, AttemptsOK
<1>5. PaidOK
  BY <1>1 DEF Init, PaidOK, Executors
<1>6. OnceOK
  BY <1>1 DEF Init, OnceOK, EventAppliedOnce, Executors
<1>7. DeliveryOK
  BY <1>1 DEF Init, DeliveryOK, FulfilledIsDelivered, Executors
<1>8. QED
  BY <1>2, <1>3, <1>4, <1>5, <1>6, <1>7 DEF IInv

LEMMA StutterPreserves == IInv /\ UNCHANGED vars => IInv'
  BY DEF vars, IInv, TypeOK, WhereOK, AttemptsOK, PaidOK, OnceOK, EventAppliedOnce, DeliveryOK,
     FulfilledIsDelivered

LEMMA NextPreserves == IInv /\ [Next]_vars => IInv'
<1>1. SUFFICES ASSUME IInv, [Next]_vars PROVE IInv'
  OBVIOUS
<1>2. ASSUME NEW d \in Deliveries, DeliveryStep(d) \/ \E e \in Events : HandleWebhook(d, e)
      PROVE  IInv'
  BY <1>1, <1>2, HandleWebhookPreserves, FindEventPreserves, RecordEventPreserves,
     SetPaidPreserves, EnqueueFulfilPreserves DEF DeliveryStep
<1>3. ASSUME TakeJob \/ JobStep \/ ForgetJob PROVE IInv'
  BY <1>1, <1>3, TakeJobPreserves, ReadOrderPreserves, ReadBundlePreserves, EnrollPreserves,
     SendReceiptPreserves, MarkFulfilledPreserves, ForgetJobPreserves DEF JobStep
<1>4. ASSUME NEW r \in Readers, GetOrder(r) \/ ExpireOrder(r) PROVE IInv'
  BY <1>1, <1>4, GetOrderPreserves, ExpireOrderPreserves
<1>5. ASSUME NEW a \in Admins, RefundOrder(a) \/ SetRefunded(a) PROVE IInv'
  BY <1>1, <1>5, RefundOrderPreserves, SetRefundedPreserves
<1>6. ASSUME NEW m \in Mentors, InsertCourses(m) \/ \E S \in Offers : DeleteCourses(m, S)
      PROVE  IInv'
  BY <1>1, <1>6, InsertCoursesPreserves, DeleteCoursesPreserves
<1>7. QED
  BY <1>1, <1>2, <1>3, <1>4, <1>5, <1>6, OrderAgesPreserves, AwaitRejectsPreserves,
     StutterPreserves DEF Next

-----------------------------------------------------------------------------

\* The inductive invariant.
THEOREM Inductive == Spec => []IInv
  BY InitEstablishes, NextPreserves, PTL DEF Spec

\* Every variable keeps its type; attempts never exceed the limit.
THEOREM TypeCorrect == Spec => []TypeOK
<1>1. IInv => TypeOK
  BY DEF IInv
<1>2. QED
  BY <1>1, Inductive, PTL

\* Nobody is enrolled by an order without a recorded paid event.
THEOREM AccessNeedsPayment == Spec => []AccessIsPaid
<1>1. IInv => AccessIsPaid
  BY DEF IInv, PaidOK, AccessIsPaid
<1>2. QED
  BY <1>1, Inductive, PTL

\* An event is applied at most once by any number of deliveries.
THEOREM AppliedOnce == Spec => []EventAppliedOnce
<1>1. IInv => EventAppliedOnce
  BY DEF IInv, OnceOK
<1>2. QED
  BY <1>1, Inductive, PTL

\* A fulfilled order has enrolled the lasting courses and sent the receipt.
THEOREM FulfilmentDelivers == Spec => []FulfilledIsDelivered
<1>1. IInv => FulfilledIsDelivered
  BY DEF IInv, DeliveryOK
<1>2. QED
  BY <1>1, Inductive, PTL

-----------------------------------------------------------------------------
(* The action property. *)

LEMMA RefundStep ==
  ASSUME IInv, Next, status = "refunded", Quiet
  PROVE  status' = "refunded" /\ Quiet' /\ enrolled' = enrolled
<1>1. ASSUME NEW d \in Deliveries, DeliveryStep(d) \/ \E e \in Events : HandleWebhook(d, e)
      PROVE  status' = "refunded" /\ Quiet' /\ enrolled' = enrolled
  <2>1. ASSUME NEW e \in Events, HandleWebhook(d, e)
        PROVE  status' = "refunded" /\ Quiet' /\ enrolled' = enrolled
    BY <2>1, ExecutorsAssumption
       DEF IInv, TypeOK, Quiet, Advanced, Pairwise, Executors, HandleWebhook
  <2>2. CASE FindEvent(d)
    BY <2>2, ExecutorsAssumption
       DEF IInv, TypeOK, Quiet, Pairwise, Executors, FindEvent, Goto, Stop
  <2>3. CASE RecordEvent(d)
    BY <2>3, ExecutorsAssumption
       DEF IInv, TypeOK, Quiet, Pairwise, Executors, RecordEvent, Goto, Stop
  <2>4. CASE EnqueueFulfil(d)
    BY <2>4, ExecutorsAssumption
       DEF IInv, TypeOK, Quiet, Pairwise, Executors, EnqueueFulfil, Stop
  <2>5. ~SetPaid(d)
    BY DEF Quiet, SetPaid
  <2>6. QED
    BY <1>1, <2>1, <2>2, <2>3, <2>4, <2>5 DEF DeliveryStep
<1>2. ASSUME TakeJob \/ JobStep \/ ForgetJob
      PROVE  status' = "refunded" /\ Quiet' /\ enrolled' = enrolled
  BY <1>2, ExecutorsAssumption
     DEF IInv, TypeOK, Quiet, Pairwise, Executors, TakeJob, JobStep, ReadOrder, ReadBundle, Enroll,
         SendReceipt, MarkFulfilled, ForgetJob, Goto, Stop
<1>3. ASSUME NEW r \in Readers, GetOrder(r) \/ ExpireOrder(r)
      PROVE  status' = "refunded" /\ Quiet' /\ enrolled' = enrolled
  BY <1>3 DEF Quiet, GetOrder, ExpireOrder
<1>4. ASSUME NEW a \in Admins, RefundOrder(a) \/ SetRefunded(a)
      PROVE  status' = "refunded" /\ Quiet' /\ enrolled' = enrolled
  BY <1>4, ExecutorsAssumption
     DEF IInv, TypeOK, Quiet, Pairwise, Executors, RefundOrder, SetRefunded, Goto, Stop
<1>5. ASSUME NEW m \in Mentors, InsertCourses(m) \/ \E S \in Offers : DeleteCourses(m, S)
      PROVE  status' = "refunded" /\ Quiet' /\ enrolled' = enrolled
  BY <1>5, ExecutorsAssumption
     DEF IInv, TypeOK, Quiet, Pairwise, Executors, InsertCourses, DeleteCourses, Stop
<1>6. ASSUME OrderAges
      PROVE  status' = "refunded" /\ Quiet' /\ enrolled' = enrolled
  BY <1>6 DEF Quiet, OrderAges
<1>7. ASSUME NEW x \in Executors, AwaitRejects(x)
      PROVE  status' = "refunded" /\ Quiet' /\ enrolled' = enrolled
  BY <1>7, ExecutorsAssumption
     DEF IInv, TypeOK, Quiet, Pairwise, Executors, AwaitRejects, Stop
<1>8. QED
  BY <1>1, <1>2, <1>3, <1>4, <1>5, <1>6, <1>7 DEF Next

\* A refund nobody overlaps is final.
THEOREM RefundFinal == Spec => RefundIsFinal
<1>1. IInv /\ [Next]_vars
        => [(status = "refunded" /\ Quiet)
              => status' = "refunded" /\ Quiet' /\ enrolled' = enrolled]_vars
  BY RefundStep
<1>2. QED
  BY <1>1, Inductive, PTL DEF Spec, RefundIsFinal
-----------------------------------------------------------------------------
(* The refinement of OrderLedger. *)

Credited == \E e \in Paid : applied[e] > 0

\* Whatever rests on the money rests on a payment that has been applied: the
\* job, the courses it gave, the standing, and a refund about to be written.
CreditOK ==
  /\ enrolled # {} \/ status \in Advanced \/ job # "none" => Credited
  /\ \A d \in Deliveries : pc[d] = "enqueue" => Credited
  /\ \A a \in Admins : pc[a] = "refund" => Credited

BooksSame == UNCHANGED <<events, applied, enrolled, Courses \ absent, status>>

LEMMA SetPaidCredits ==
  ASSUME IInv, NEW d \in Deliveries, SetPaid(d)
  PROVE  Credited' /\ Ledger!Credit(event[d])
<1>1. event[d] \in Paid \cap events /\ applied[event[d]] = 0
  BY DEF IInv, PaidOK, OnceOK, SetPaid
<1>2. applied' = [applied EXCEPT ![event[d]] = 1] /\ applied'[event[d]] = 1
  BY <1>1 DEF IInv, TypeOK, Events, SetPaid
<1>3. QED
  BY <1>1, <1>2 DEF Credited, Ledger!Credit, SetPaid

LEMMA CreditStep ==
  ASSUME IInv, CreditOK, Next
  PROVE  CreditOK'
<1>1. ASSUME NEW d \in Deliveries, SetPaid(d)
      PROVE  CreditOK'
  BY <1>1, SetPaidCredits DEF CreditOK
<1>2. ASSUME applied' = applied, Credited
      PROVE  CreditOK'
  BY <1>2 DEF CreditOK, Credited
<1>3. ASSUME NEW d \in Deliveries,
             \/ FindEvent(d) \/ RecordEvent(d) \/ EnqueueFulfil(d)
             \/ \E e \in Events : HandleWebhook(d, e)
      PROVE  CreditOK'
  BY <1>2, <1>3, ExecutorsAssumption
     DEF CreditOK, Credited, IInv, TypeOK, Pairwise, Executors, HandleWebhook, FindEvent,
         RecordEvent, EnqueueFulfil, Goto, Stop
<1>4. ASSUME TakeJob \/ JobStep \/ ForgetJob
      PROVE  CreditOK'
  <2>1. job # "none" /\ applied' = applied
    BY <1>4 DEF IInv, WhereOK, TakeJob, JobStep, ReadOrder, ReadBundle, Enroll, SendReceipt,
       MarkFulfilled, ForgetJob
  <2>2. QED
    BY <1>2, <2>1 DEF CreditOK
<1>5. ASSUME NEW r \in Readers, GetOrder(r) \/ ExpireOrder(r)
      PROVE  CreditOK'
  BY <1>5, ExecutorsAssumption
     DEF CreditOK, Credited, IInv, TypeOK, Advanced, Pairwise, Executors, GetOrder, ExpireOrder,
         Goto, Stop
<1>6. ASSUME NEW a \in Admins, RefundOrder(a) \/ SetRefunded(a)
      PROVE  CreditOK'
  <2>1. Credited /\ applied' = applied
    BY <1>6 DEF CreditOK, Advanced, RefundOrder, SetRefunded
  <2>2. QED
    BY <1>2, <2>1
<1>7. ASSUME NEW m \in Mentors, InsertCourses(m) \/ \E S \in Offers : DeleteCourses(m, S)
      PROVE  CreditOK'
  BY <1>7, ExecutorsAssumption
     DEF CreditOK, Credited, IInv, TypeOK, Pairwise, Executors, InsertCourses, DeleteCourses, Stop
<1>8. ASSUME OrderAges
      PROVE  CreditOK'
  BY <1>8 DEF CreditOK, Credited, OrderAges
<1>9. ASSUME NEW x \in Executors, AwaitRejects(x)
      PROVE  CreditOK'
  <2>1. job' # "none" => job # "none"
    BY <1>9 DEF IInv, WhereOK, AwaitRejects, JobThrows
  <2>2. QED
    BY <1>9, <2>1, ExecutorsAssumption
       DEF CreditOK, Credited, IInv, TypeOK, Pairwise, Executors, AwaitRejects, Stop
<1>10. QED
  BY <1>1, <1>3, <1>4, <1>5, <1>6, <1>7, <1>8, <1>9 DEF Next, DeliveryStep

LEMMA CreditNext == IInv /\ CreditOK /\ [Next]_vars => CreditOK'
<1>1. IInv /\ CreditOK /\ UNCHANGED vars => CreditOK'
  BY DEF vars, CreditOK, Credited
<1>2. QED
  BY <1>1, CreditStep

LEMMA CreditInit == Init => CreditOK
  BY ExecutorsAssumption DEF Init, CreditOK, Advanced, Pairwise, Executors

THEOREM CreditInvariant == Spec => []CreditOK
  BY CreditInit, CreditNext, Inductive, PTL DEF Spec

LEMMA LedgerInit == Init => Ledger!Init
  BY DEF Init, Ledger!Init

LEMMA CreditedMeans == Credited <=> Ledger!Credited
  BY DEF Credited, Ledger!Credited

\* A delivery reports its event, then credits it.
LEMMA LedgerDelivery ==
  ASSUME IInv, NEW d \in Deliveries, DeliveryStep(d) \/ \E e \in Events : HandleWebhook(d, e)
  PROVE  Ledger!Next \/ BooksSame
<1>1. CASE FindEvent(d) \/ EnqueueFulfil(d) \/ \E e \in Events : HandleWebhook(d, e)
  BY <1>1 DEF BooksSame, FindEvent, EnqueueFulfil, HandleWebhook
<1>2. CASE RecordEvent(d)
  <2>1. event[d] \in Events
    BY <1>2 DEF IInv, WhereOK, RecordEvent
  <2>2. CASE event[d] \in events
    BY <1>2, <2>2 DEF BooksSame, RecordEvent
  <2>3. CASE event[d] \notin events
    <3>1. Ledger!Report(event[d])
      BY <1>2, <2>3 DEF Ledger!Report, RecordEvent
    <3>2. QED
      BY <2>1, <3>1 DEF Ledger!Next
  <2>4. QED
    BY <2>2, <2>3
<1>3. CASE SetPaid(d)
  <2>1. event[d] \in Events
    BY <1>3 DEF IInv, WhereOK, SetPaid
  <2>2. QED
    BY <1>3, <2>1, SetPaidCredits DEF Ledger!Next
<1>4. QED
  BY <1>1, <1>2, <1>3 DEF DeliveryStep

\* A run of the job gives course by course and then calls the order fulfilled.
LEMMA LedgerJob ==
  ASSUME IInv, CreditOK, TakeJob \/ JobStep \/ ForgetJob
  PROVE  Ledger!Next \/ BooksSame
<1>1. CASE TakeJob \/ ReadOrder \/ ReadBundle \/ SendReceipt \/ ForgetJob
  BY <1>1 DEF BooksSame, TakeJob, ReadOrder, ReadBundle, SendReceipt, ForgetJob
<1>2. CASE Enroll
  <2>1. PICK k \in todo[FulfilJob] : enrolled' = enrolled \cup {k}
    BY <1>2 DEF Enroll
  <2>2. k \in Courses
    BY <2>1, ExecutorsAssumption DEF IInv, TypeOK, Executors
  <2>3. Credited
    BY <1>2 DEF CreditOK, IInv, WhereOK, Enroll
  <2>4. Ledger!Give(k)
    BY <1>2, <2>1, <2>3, CreditedMeans DEF Ledger!Give, Enroll
  <2>5. QED
    BY <2>2, <2>4 DEF Ledger!Next
<1>3. CASE MarkFulfilled
  <2>1. Credited /\ Courses \ absent \subseteq enrolled
    BY <1>3 DEF CreditOK, IInv, WhereOK, DeliveryOK, MarkFulfilled
  <2>2. Ledger!Fulfil
    BY <1>3, <2>1, CreditedMeans DEF Ledger!Fulfil, MarkFulfilled
  <2>3. QED
    BY <2>2 DEF Ledger!Next
<1>4. QED
  BY <1>1, <1>2, <1>3 DEF JobStep

\* Readers let the order expire, admins refund what was paid, mentors withdraw.
LEMMA LedgerOthers ==
  ASSUME IInv, CreditOK,
         \/ \E r \in Readers : GetOrder(r) \/ ExpireOrder(r)
         \/ \E a \in Admins : RefundOrder(a) \/ SetRefunded(a)
         \/ \E m \in Mentors :
              InsertCourses(m) \/ \E S \in Offers : DeleteCourses(m, S)
  PROVE  Ledger!Next \/ BooksSame
<1>1. ASSUME NEW r \in Readers, GetOrder(r) \/ ExpireOrder(r)
      PROVE  Ledger!Expire \/ BooksSame
  BY <1>1 DEF Ledger!Expire, BooksSame, GetOrder, ExpireOrder
<1>2. ASSUME NEW a \in Admins, RefundOrder(a) \/ SetRefunded(a)
      PROVE  Ledger!Refund \/ BooksSame
  <2>1. CASE RefundOrder(a)
    BY <2>1 DEF BooksSame, RefundOrder
  <2>2. CASE SetRefunded(a)
    <3>1. Credited
      BY <2>2 DEF CreditOK, SetRefunded
    <3>2. QED
      BY <2>2, <3>1, CreditedMeans DEF Ledger!Refund, SetRefunded
  <2>3. QED
    BY <1>2, <2>1, <2>2
<1>3. ASSUME NEW m \in Mentors,
             InsertCourses(m) \/ \E S \in Offers : DeleteCourses(m, S)
      PROVE  Ledger!Withdraw \/ BooksSame
  BY <1>3 DEF Ledger!Withdraw, BooksSame, InsertCourses, DeleteCourses
<1>4. QED
  BY <1>1, <1>2, <1>3 DEF Ledger!Next

LEMMA LedgerNext ==
  IInv /\ CreditOK /\ [Next]_vars => [Ledger!Next]_(Ledger!ledger)
<1>1. SUFFICES ASSUME IInv, CreditOK, [Next]_vars
               PROVE  Ledger!Next \/ BooksSame
  BY DEF BooksSame, Ledger!ledger
<1>2. CASE UNCHANGED vars
  BY <1>2 DEF vars, BooksSame
<1>3. CASE OrderAges \/ \E x \in Executors : AwaitRejects(x)
  BY <1>3 DEF BooksSame, OrderAges, AwaitRejects
<1>4. QED
  BY <1>1, <1>2, <1>3, LedgerDelivery, LedgerJob, LedgerOthers DEF Next

\* Every behaviour of an order is one of the ledger's: each payment is counted
\* once, courses and refunds rest on a counted payment, and fulfilled orders
\* have given what they owe.
THEOREM Refinement == Spec => ImplementsLedger
  BY LedgerInit, LedgerNext, Inductive, CreditInvariant, PTL
     DEF Spec, Ledger!Spec, ImplementsLedger
-----------------------------------------------------------------------------
(* No recorded payment is forgotten when nobody lets the order expire or     *)
(* refunds it, only the job fails, and less often than it is tried, and no   *)
(* enqueue is lost.                                                          *)

Undisturbed ==
  /\ Readers = {} /\ Admins = {}
  /\ Faulty \subseteq {FulfilJob} /\ MaxFaults < MaxAttempts /\ MaxDrops = 0

Given == Courses \ absent \subseteq enrolled

\* A payment that was recorded has given the lasting courses, or somebody is
\* still at work on it: a delivery before its update or its enqueue, or the
\* job (service.ts:156-215).  What fairness adds is that they go on.
PaymentIsInHand ==
  events \cap Paid # {} =>
    \/ Given
    \/ job \in {"waiting", "active"}
    \/ \E d \in Deliveries : pc[d] \in {"setPaid", "enqueue"}

\* A credited order waits for its job, which never gives up.
HandInv ==
  /\ attempts <= faults /\ job # "failed"
  /\ status \in {"pending", "paid", "fulfilled"}
  /\ Credited => status # "pending"
  /\ \A d \in Deliveries : advanced[d] => Credited
  /\ events \cap Paid # {} => Credited \/ \E d \in Deliveries : pc[d] = "setPaid"
  /\ Credited =>
       Given \/ job \in {"waiting", "active"} \/ \E d \in Deliveries : pc[d] = "enqueue"
  /\ job = "completed" => Given

LEMMA HandInit == Init => HandInv
  BY ExecutorsAssumption, BoundsAssumption, EventsAssumption
     DEF Init, HandInv, Credited, Events

LEMMA HandDelivery ==
  ASSUME Undisturbed, IInv, CreditOK, HandInv, NEW d \in Deliveries,
         DeliveryStep(d) \/ \E e \in Events : HandleWebhook(d, e)
  PROVE  HandInv'
<1>1. \A c \in Deliveries : c \in Executors /\ c # FulfilJob
  BY ExecutorsAssumption DEF Pairwise, Executors
<1>2. ASSUME NEW e \in Events, HandleWebhook(d, e)
      PROVE  HandInv'
  <2>1. /\ pc[d] = "idle" /\ pc' = [pc EXCEPT ![d] = "findEvent"]
        /\ advanced' = [advanced EXCEPT ![d] = status \in Advanced]
        /\ UNCHANGED <<order, tables, queue, history>>
    BY <1>2 DEF HandleWebhook
  <2>2. status \in Advanced => Credited
    BY DEF CreditOK
  <2>3. QED
    BY <1>1, <2>1, <2>2 DEF IInv, TypeOK, HandInv, Credited, Given
<1>3. CASE FindEvent(d)
  <2>1. /\ pc[d] = "findEvent"
        /\ \A c \in Deliveries \ {d} : pc'[c] = pc[c]
        /\ \A c \in Deliveries : advanced'[c] => advanced[c]
        /\ UNCHANGED <<order, tables, queue, history>>
    BY <1>1, <1>3 DEF IInv, TypeOK, FindEvent, Goto, Stop
  <2>2. QED
    BY <2>1 DEF HandInv, Credited, Given
<1>4. CASE RecordEvent(d)
  <2>1. /\ pc[d] = "recordEvent"
        /\ events' = events \cup {event[d]}
        /\ \A c \in Deliveries \ {d} : pc'[c] = pc[c]
        /\ \A c \in Deliveries : advanced'[c] => advanced[c]
        /\ UNCHANGED <<order, bundle, enrolled, queue, history>>
    BY <1>1, <1>4 DEF IInv, TypeOK, RecordEvent, Goto, Stop
  <2>2. event[d] \in events \/ event[d] \in Unpaid \/ advanced[d] \/ pc'[d] = "setPaid"
    BY <1>1, <1>4 DEF IInv, TypeOK, RecordEvent, Goto
  <2>3. events' \cap Paid # {} => Credited \/ \E c \in Deliveries : pc'[c] = "setPaid"
    BY <2>1, <2>2, EventsAssumption DEF HandInv, Pairwise
  <2>4. QED
    BY <2>1, <2>3 DEF HandInv, Credited, Given
<1>5. CASE SetPaid(d)
  <2>1. /\ Credited' /\ status' = "paid" /\ pc'[d] = "enqueue"
        /\ UNCHANGED <<advanced, tables, queue, absent, faults, drops>>
    BY <1>1, <1>5, SetPaidCredits DEF IInv, TypeOK, SetPaid, Goto
  <2>2. QED
    BY <2>1 DEF HandInv, Given
<1>6. CASE EnqueueFulfil(d)
  <2>1. job' = (IF job = "none" THEN "waiting" ELSE job)
    BY <1>6, BoundsAssumption DEF IInv, TypeOK, Undisturbed, EnqueueFulfil, EnqueueFails
  <2>2. /\ \A c \in Deliveries \ {d} : pc'[c] = pc[c]
        /\ \A c \in Deliveries : advanced'[c] => advanced[c]
        /\ UNCHANGED <<order, tables, receipt, attempts, applied, absent, faults>>
        /\ pc[d] = "enqueue"
    BY <1>1, <1>6 DEF IInv, TypeOK, EnqueueFulfil, Stop
  <2>3. job' \in {"waiting", "active"} \/ (job = "completed" /\ job' = job)
    BY <2>1 DEF HandInv, IInv, TypeOK
  <2>4. QED
    BY <2>2, <2>3 DEF HandInv, Credited, Given
<1>7. QED
  BY <1>2, <1>3, <1>4, <1>5, <1>6 DEF DeliveryStep

LEMMA HandJob ==
  ASSUME Undisturbed, IInv, CreditOK, HandInv, TakeJob \/ JobStep \/ ForgetJob
  PROVE  HandInv'
<1>1. \A c \in Deliveries : c \in Executors /\ c # FulfilJob
  BY ExecutorsAssumption DEF Pairwise, Executors
<1>2. /\ \A c \in Deliveries : pc'[c] = pc[c]
      /\ \A c \in Deliveries : advanced'[c] => advanced[c]
      /\ UNCHANGED <<events, absent, applied, faults>>
  BY <1>1 DEF IInv, TypeOK, TakeJob, JobStep, ReadOrder, ReadBundle, Enroll, SendReceipt,
     MarkFulfilled, ForgetJob, Goto, Stop
<1>3. Credited' <=> Credited
  BY <1>2 DEF Credited
<1>4. CASE TakeJob \/ ReadBundle \/ Enroll \/ SendReceipt
  <2>1. job' \in {"waiting", "active"} /\ UNCHANGED <<status, attempts>>
    BY <1>4 DEF IInv, WhereOK, TakeJob, ReadBundle, Enroll, SendReceipt
  <2>2. QED
    BY <1>2, <1>3, <2>1 DEF HandInv
<1>5. CASE ReadOrder
  <2>1. job = "active" /\ UNCHANGED <<status, attempts, enrolled>>
    BY <1>5 DEF IInv, WhereOK, ReadOrder
  <2>2. Credited
    BY <2>1 DEF CreditOK
  <2>3. job' = job \/ (job' = "completed" /\ status = "fulfilled")
    BY <1>5, <2>2 DEF HandInv, ReadOrder
  <2>4. status = "fulfilled" => Given
    BY DEF IInv, DeliveryOK, FulfilledIsDelivered, Given
  <2>5. QED
    BY <1>2, <1>3, <2>1, <2>3, <2>4 DEF HandInv, Given
<1>6. CASE MarkFulfilled
  <2>1. Given
    BY <1>6 DEF IInv, DeliveryOK, MarkFulfilled, Given
  <2>2. status' = "fulfilled" /\ job' = "completed" /\ UNCHANGED <<attempts, enrolled>>
    BY <1>6 DEF MarkFulfilled
  <2>3. QED
    BY <1>2, <1>3, <2>1, <2>2 DEF HandInv, Given
<1>7. CASE ForgetJob
  <2>1. job = "completed" /\ job' = "none" /\ attempts' = 0 /\ UNCHANGED <<status, enrolled>>
    BY <1>7 DEF HandInv, ForgetJob
  <2>2. faults \in Nat
    BY BoundsAssumption DEF IInv, TypeOK
  <2>3. QED
    BY <1>2, <1>3, <2>1, <2>2 DEF HandInv, Given
<1>8. QED
  BY <1>4, <1>5, <1>6, <1>7 DEF JobStep

LEMMA HandOthers ==
  ASSUME Undisturbed, IInv, HandInv,
         \/ \E m \in Mentors : InsertCourses(m) \/ \E S \in Offers : DeleteCourses(m, S)
         \/ OrderAges
         \/ \E x \in Executors : AwaitRejects(x)
  PROVE  HandInv'
<1>1. \A c \in Deliveries : c \in Executors /\ c # FulfilJob /\ c \notin Mentors
  BY ExecutorsAssumption DEF Pairwise, Executors
<1>2. CASE \E m \in Mentors : InsertCourses(m) \/ \E S \in Offers : DeleteCourses(m, S)
  <2>1. /\ \A c \in Deliveries : pc'[c] = pc[c]
        /\ \A c \in Deliveries : advanced'[c] => advanced[c]
        /\ UNCHANGED <<order, events, enrolled, queue, applied, faults, drops>>
    BY <1>1, <1>2 DEF IInv, TypeOK, InsertCourses, DeleteCourses, Stop
  <2>2. absent' = absent \/ absent' = Courses
    BY <1>2 DEF InsertCourses, DeleteCourses
  <2>3. Given => Given'
    BY <2>1, <2>2 DEF Given
  <2>4. QED
    BY <2>1, <2>3 DEF HandInv, Credited
<1>3. CASE OrderAges
  BY <1>3 DEF OrderAges, HandInv, Credited, Given
<1>4. ASSUME NEW x \in Executors, AwaitRejects(x)
      PROVE  HandInv'
  <2>1. x = FulfilJob /\ faults < MaxFaults
    BY <1>4 DEF Undisturbed, AwaitRejects
  <2>2. attempts \in Nat /\ faults \in Nat /\ faults' = faults + 1 /\ attempts' = attempts + 1
    BY <1>4, <2>1, BoundsAssumption DEF IInv, TypeOK, AwaitRejects, JobThrows
  <2>3. attempts + 1 < MaxAttempts
    BY <2>1, <2>2, BoundsAssumption DEF HandInv, Undisturbed
  <2>4. job' = "waiting"
    BY <1>4, <2>1, <2>3 DEF AwaitRejects, JobThrows
  <2>5. /\ \A c \in Deliveries : pc'[c] = pc[c] /\ advanced'[c] = advanced[c]
        /\ UNCHANGED <<status, events, enrolled, applied, absent>>
    BY <1>1, <1>4, <2>1 DEF IInv, TypeOK, AwaitRejects, Stop
  <2>6. QED
    BY <2>2, <2>4, <2>5 DEF HandInv, Credited, Given
<1>5. QED
  BY <1>2, <1>3, <1>4

\* While nobody disturbs the order, no recorded payment is forgotten.
THEOREM PaymentNotForgotten ==
  ASSUME Undisturbed
  PROVE  Spec => []PaymentIsInHand
<1>1. IInv /\ CreditOK /\ HandInv /\ [Next]_vars => HandInv'
  <2>1. SUFFICES ASSUME IInv, CreditOK, HandInv, [Next]_vars
                 PROVE  HandInv'
    OBVIOUS
  <2>2. CASE UNCHANGED vars
    <3>1. UNCHANGED <<status, events, enrolled, job, attempts, pc, advanced, applied, absent,
                      faults>>
      BY <2>2 DEF vars, order, tables, queue, local, history
    <3>2. (Credited' <=> Credited) /\ (Given' <=> Given)
      BY <3>1 DEF Credited, Given
    <3>3. QED
      BY <2>1, <3>1, <3>2 DEF HandInv
  <2>3. QED
    BY <2>1, <2>2, HandDelivery, HandJob, HandOthers DEF Next, Undisturbed
<1>2. HandInv => PaymentIsInHand
  BY DEF HandInv, PaymentIsInHand
<1>3. QED
  BY <1>1, <1>2, HandInit, Inductive, CreditInvariant, PTL DEF Spec
=============================================================================
