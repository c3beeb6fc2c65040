----------------------------- MODULE Checkout ------------------------------
(***************************************************************************)
(* POST /payments/orders behind the Idempotency-Key plugin: createOrder of *)
(* src/src/modules/payments/service.ts, the hooks of                       *)
(* src/src/shared/http/idempotency.ts and the retry loop around the        *)
(* payment provider.  One action is one stretch between two awaits; none   *)
(* of it runs in a transaction.                                            *)
(*                                                                         *)
(* A key stands for the whole Redis key, namespace included, and a body    *)
(* for its hash.  Whether a course or bundle is for sale, and whether the  *)
(* coupon is expired or of another course, is left open at every read.     *)
(***************************************************************************)
EXTENDS Naturals, FiniteSets

CONSTANTS
  Calls,      \* HTTP requests; a client's retry is a call of its own
  Keys,       \* Idempotency-Key values
  Bodies,     \* request bodies: [target: {"free", "course", "bundle"}, coupon: BOOLEAN]
  NoCall,     \* "nothing stored" under a key, and "not answered"
  Limits,     \* max_uses of the coupon; 0 stands for NULL
  Attempts,   \* attempts of the provider call
  MaxOutages  \* bound: times Redis goes down

NoKey == "no key"

ASSUME CheckoutAssumption ==
  /\ NoCall \notin Calls /\ NoKey \notin Keys
  /\ \A b \in Bodies : b.target \in {"free", "course", "bundle"} /\ b.coupon \in BOOLEAN
  /\ Limits \subseteq Nat
  /\ Attempts \in Nat \ {0}
  /\ MaxOutages \in Nat

VARIABLES
  store,     \* Redis: the call whose response and body hash a key holds
  redisUp,   \* Redis answers
  outages,   \* times it went down
  limit,     \* max_uses of the coupon
  uses,      \* uses_count of the coupon
  orders,    \* the calls whose orders row is inserted
  pc,        \* where each call is
  sentKey,   \* its header
  body,      \* its body
  keyed,     \* calls with request.idempotencyKey set
  held,      \* calls that have raised uses_count
  tries,     \* failed attempts of the provider call
  status,    \* class of the response
  source,    \* call whose handler produced the response
  before,    \* calls that were answered before this one was sent
  spoiled    \* keys that Redis failed to read, failed to store or dropped

redis   == <<store, redisUp, outages>>
rows    == <<limit, uses, orders>>
sent    == <<sentKey, body, before>>
reply   == <<status, source>>
vars    == <<redis, rows, sent, reply, pc, keyed, held, tries, spoiled>>

Labels   == {"idle", "lookup", "target", "coupon", "take", "user", "pay", "insert", "send", "done"}
Statuses == {"none", "created", "enrolled", "rejected", "mismatch", "error"}

TypeOK ==
  /\ store \in [Keys -> Calls \cup {NoCall}]
  /\ redisUp \in BOOLEAN /\ outages \in 0..MaxOutages
  /\ limit \in Limits /\ uses \in Nat /\ (limit > 0 => uses <= limit)
  /\ orders \in SUBSET Calls
  /\ pc \in [Calls -> Labels]
  /\ sentKey \in [Calls -> Keys \cup {NoKey}]
  /\ body \in [Calls -> Bodies]
  /\ keyed \in SUBSET Calls /\ held \in SUBSET Calls
  /\ tries \in [Calls -> 0..Attempts]
  /\ status \in [Calls -> Statuses]
  /\ source \in [Calls -> Calls \cup {NoCall}]
  /\ before \in [Calls -> SUBSET Calls]
  /\ spoiled \in SUBSET Keys

Answered == {c \in Calls : pc[c] = "done"}

Init ==
  /\ store = [k \in Keys |-> NoCall]
  /\ redisUp = TRUE /\ outages = 0
  /\ limit \in Limits /\ uses = 0
  /\ orders = {}
  /\ pc = [c \in Calls |-> "idle"]
  /\ sentKey \in [Calls -> Keys \cup {NoKey}]
  /\ body \in [Calls -> Bodies]
  /\ keyed = {} /\ held = {}
  /\ tries = [c \in Calls |-> 0]
  /\ status = [c \in Calls |-> "none"]
  /\ source = [c \in Calls |-> NoCall]
  /\ before = [c \in Calls |-> {}]
  /\ spoiled = {}

Goto(c, label) == pc' = [pc EXCEPT ![c] = label] /\ UNCHANGED reply

\* reply.send or a thrown error: the response then passes through onSend.
Respond(c, class, origin) ==
  /\ pc' = [pc EXCEPT ![c] = "send"]
  /\ status' = [status EXCEPT ![c] = class]
  /\ source' = [source EXCEPT ![c] = origin]

Send(c) ==
  /\ pc[c] = "idle"
  /\ Goto(c, IF sentKey[c] = NoKey THEN "target" ELSE "lookup")
  /\ before' = [before EXCEPT ![c] = Answered]
  /\ UNCHANGED <<redis, rows, sentKey, body, keyed, held, tries, spoiled>>

-----------------------------------------------------------------------------
(* The preHandler hook. *)

\* Variant for mutation: the stored body hash is not compared.
LookupAnyBody(c) ==
  /\ pc[c] = "lookup"
  /\ keyed' = IF redisUp THEN keyed \cup {c} ELSE keyed
  /\ spoiled' = IF redisUp THEN spoiled ELSE spoiled \cup {sentKey[c]}
  /\ LET s == store[sentKey[c]] IN
       IF ~redisUp \/ s = NoCall THEN Goto(c, "target") ELSE Respond(c, status[s], source[s])
  /\ UNCHANGED <<redis, rows, sent, held, tries>>

Lookup(c) ==
  /\ pc[c] = "lookup"
  /\ keyed' = IF redisUp THEN keyed \cup {c} ELSE keyed
  /\ spoiled' = IF redisUp THEN spoiled ELSE spoiled \cup {sentKey[c]}
  /\ LET s == store[sentKey[c]] IN
       IF ~redisUp \/ s = NoCall  THEN Goto(c, "target")
       ELSE IF body[s] = body[c] THEN Respond(c, status[s], source[s])
                                 ELSE Respond(c, "mismatch", c)
  /\ UNCHANGED <<redis, rows, sent, held, tries>>

-----------------------------------------------------------------------------
(* createOrder *)

\* Not found, not published; a free course enrols at once.
ReadTarget(c) ==
  /\ pc[c] = "target"
  /\ \/ Respond(c, "rejected", c)
     \/ body[c].target = "free" /\ Respond(c, "enrolled", c)
     \/ body[c].target # "free" /\ Goto(c, IF body[c].coupon THEN "coupon" ELSE "user")
  /\ UNCHANGED <<redis, rows, sent, keyed, held, tries, spoiled>>

ReadCoupon(c) ==
  /\ pc[c] = "coupon"
  /\ \/ Respond(c, "rejected", c)
     \/ (limit = 0 \/ uses < limit) /\ Goto(c, "take")
  /\ UNCHANGED <<redis, rows, sent, keyed, held, tries, spoiled>>

\* Variant for mutation: the update does not repeat the test of max_uses.
TakeUseUnguarded(c) ==
  /\ pc[c] = "take"
  /\ uses' = uses + 1 /\ held' = held \cup {c} /\ Goto(c, "user")
  /\ UNCHANGED <<redis, limit, orders, sent, keyed, tries, spoiled>>

\* Variant for mutation: the use is counted once the order exists.
TakeUseLater(c) ==
  /\ pc[c] = "take"
  /\ held' = held \cup {c} /\ Goto(c, "user")
  /\ UNCHANGED <<redis, rows, sent, keyed, tries, spoiled>>

TakeUse(c) ==
  /\ pc[c] = "take"
  /\ \/ (limit = 0 \/ uses < limit)
        /\ uses' = uses + 1 /\ held' = held \cup {c} /\ Goto(c, "user")
     \/ limit > 0 /\ uses >= limit
        /\ Respond(c, "rejected", c) /\ UNCHANGED <<uses, held>>
  /\ UNCHANGED <<redis, limit, orders, sent, keyed, tries, spoiled>>

ReadUser(c) ==
  /\ pc[c] = "user"
  /\ \/ Respond(c, "rejected", c)
     \/ Goto(c, "pay")
  /\ UNCHANGED <<redis, rows, sent, keyed, held, tries, spoiled>>

\* retryWithBackoff around createPayment: an attempt fails or its answer is lost.
FailAttempt(c) ==
  /\ pc[c] = "pay"
  /\ tries' = [tries EXCEPT ![c] = @ + 1]
  /\ IF tries'[c] = Attempts THEN Respond(c, "error", c) ELSE Goto(c, "pay")
  /\ UNCHANGED <<redis, rows, sent, keyed, held, spoiled>>

Pay(c) ==
  /\ pc[c] = "pay"
  /\ Goto(c, "insert")
  /\ UNCHANGED <<redis, rows, sent, keyed, held, tries, spoiled>>

\* The insert may commit and its answer still be lost.
InsertOrder(c) ==
  /\ pc[c] = "insert"
  /\ orders' = orders \cup {c}
  /\ \/ Respond(c, "created", c)
     \/ Respond(c, "error", c)
  /\ UNCHANGED <<redis, limit, uses, sent, keyed, held, tries, spoiled>>

\* Any await of the handler rejects: the error handler answers 500.
AwaitRejects(c) ==
  /\ pc[c] \in {"target", "coupon", "take", "user", "insert"}
  /\ Respond(c, "error", c)
  /\ UNCHANGED <<redis, rows, sent, keyed, held, tries, spoiled>>

-----------------------------------------------------------------------------
(* The onSend hook. *)

\* Variant for mutation: only 200 responses are stored.
OnSendSkips201(c) ==
  /\ pc[c] = "send"
  /\ pc' = [pc EXCEPT ![c] = "done"]
  /\ IF c \in keyed /\ status[c] \notin {"error", "created"}
       THEN IF redisUp THEN store' = [store EXCEPT ![sentKey[c]] = c] /\ UNCHANGED spoiled
                       ELSE spoiled' = spoiled \cup {sentKey[c]} /\ UNCHANGED store
       ELSE UNCHANGED <<store, spoiled>>
  /\ UNCHANGED <<redisUp, outages, rows, sent, reply, keyed, held, tries>>

\* The 409 of Lookup passes here too and is stored with the other body's hash.
OnSend(c) ==
  /\ pc[c] = "send"
  /\ pc' = [pc EXCEPT ![c] = "done"]
  /\ IF c \in keyed /\ status[c] # "error"
       THEN IF redisUp THEN store' = [store EXCEPT ![sentKey[c]] = c] /\ UNCHANGED spoiled
                       ELSE spoiled' = spoiled \cup {sentKey[c]} /\ UNCHANGED store
       ELSE UNCHANGED <<store, spoiled>>
  /\ UNCHANGED <<redisUp, outages, rows, sent, reply, keyed, held, tries>>

RedisFlips ==
  /\ redisUp => outages < MaxOutages
  /\ redisUp' = ~redisUp
  /\ outages' = IF redisUp THEN outages + 1 ELSE outages
  /\ UNCHANGED <<store, rows, sent, reply, pc, keyed, held, tries, spoiled>>

\* The 24 hours of a key end.
Expire(k) ==
  /\ store[k] # NoCall
  /\ store' = [store EXCEPT ![k] = NoCall]
  /\ spoiled' = spoiled \cup {k}
  /\ UNCHANGED <<redisUp, outages, rows, sent, reply, pc, keyed, held, tries>>

Handle(c) ==
  \/ Lookup(c)     \/ ReadTarget(c) \/ ReadCoupon(c) \/ TakeUse(c)
  \/ ReadUser(c)   \/ FailAttempt(c) \/ Pay(c)       \/ InsertOrder(c)
  \/ AwaitRejects(c) \/ OnSend(c)

Next ==
  \/ \E c \in Calls : Send(c) \/ Handle(c)
  \/ RedisFlips
  \/ \E k \in Keys : Expire(k)

Spec == Init /\ [][Next]_vars

-----------------------------------------------------------------------------
(* Properties *)

Discounted == {c \in orders : body[c].coupon}
Holding    == {c \in held \ orders : pc[c] \in {"user", "pay", "insert"}}

\* Concurrent orders (service.ts:67): the orders sold at a discount and those
\* about to be are never more than the uses counted, nor these than max_uses.
DiscountsWithinLimit ==
  /\ Cardinality(Discounted \cup Holding) <= uses
  /\ limit > 0 => uses <= limit

Retry(c1, c2) ==
  /\ c1 # c2 /\ c1 \in before[c2]
  /\ sentKey[c1] = sentKey[c2] /\ sentKey[c1] # NoKey
  /\ body[c1] = body[c2]

\* A call repeated with its key and body after it was answered 201 makes no
\* second order, whatever other calls used the key for, as long as Redis
\* answered and the key lived (idempotency.ts:59-67).
NoSecondOrder ==
  \A c1, c2 \in orders :
    Retry(c1, c2) /\ status[c1] = "created" => sentKey[c1] \in spoiled

\* The key of c and d, both answered, was used with two bodies.
Reused(k) == \E c, d \in Calls : /\ sentKey[c] = k /\ sentKey[d] = k
                                 /\ pc[c] # "idle" /\ pc[d] # "idle" /\ body[c] # body[d]

\* c was answered before d was sent, and every other call with the key and body
\* of d was answered before c was sent or sent after d was answered.
LastBefore(c, d) ==
  /\ c \in before[d]
  /\ \A x \in Calls \ {d} : sentKey[x] = sentKey[d] /\ body[x] = body[d] /\ pc[x] # "idle"
                            => x \in before[c] \/ d \in before[x]

\* A key answers as it was last used.  A replayed answer was given to the same
\* key and body.  After any answer the handler never runs again for the key.
\* An identical retry is replayed as long as the key was used with one body,
\* and only as long: once another body was answered (a 409, which onSend
\* stores over the first answer, idempotency.ts:66, 85) the retry is refused.
\* The comment at idempotency.ts:34-36 promises the replay in this case too.
KeyAnswersAsLastUsed ==
  /\ \A c \in Answered : source[c] # c =>
       sentKey[source[c]] = sentKey[c] /\ body[source[c]] = body[c]
  /\ \A c, d \in Answered :
       /\ c \in before[d] /\ status[c] # "error"
       /\ sentKey[c] = sentKey[d] /\ sentKey[d] \in Keys \ spoiled
       => /\ source[d] # d \/ status[d] = "mismatch"
          /\ body[c] = body[d] /\ ~Reused(sentKey[d]) => source[d] # d
          /\ body[c] # body[d] /\ LastBefore(c, d) => status[d] = "mismatch"
=============================================================================
