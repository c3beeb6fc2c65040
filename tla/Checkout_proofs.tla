-------------------------- MODULE Checkout_proofs --------------------------
(***************************************************************************)
(* Proofs about Checkout for any calls, keys, bodies, limits and outages.  *)
(*                                                                         *)
(* The argument.  UsesOK: a use is counted before the call that takes it   *)
(* is remembered as holding one, and a discounted order holds one, so the  *)
(* uses bound the discounts.  KeysOK: a key that Redis neither missed nor  *)
(* dropped holds an answer as soon as one of its calls has one.            *)
(* SourcesOK: what is stored under a key came from that key and body.      *)
(* BeforeOK joins them: a call that reached the handler found nothing, so  *)
(* every call answered before it was sent had failed.  LastOK: what a key  *)
(* holds was answered last, so a call that finds another body's answer is  *)
(* refused.                                                                *)
(***************************************************************************)
EXTENDS Checkout, FiniteSetTheorems, TLAPS

Handling == {"target", "coupon", "take", "user", "pay", "insert"}

\* A call has an answer once it is sent, and its own if it has an order.
ProgressOK ==
  \A c \in Calls :
    /\ pc[c] \in {"idle", "lookup"} \cup Handling
         => status[c] = "none" /\ source[c] = NoCall /\ tries[c] < Attempts
    /\ pc[c] \in {"send", "done"} => status[c] # "none" /\ source[c] \in Calls
    /\ pc[c] = "lookup" => sentKey[c] \in Keys
    /\ c \in keyed => sentKey[c] \in Keys
    /\ c \in orders => pc[c] \in {"send", "done"} /\ source[c] = c

UsesOK ==
  /\ IsFiniteSet(held) /\ Cardinality(held) <= uses
  /\ \A c \in Calls : body[c].coupon /\ (c \in orders \/ pc[c] \in {"user", "pay", "insert"})
                        => c \in held

KeysOK ==
  /\ \A k \in Keys : store[k] # NoCall => pc[store[k]] = "done" /\ sentKey[store[k]] = k
  /\ \A c \in Calls : sentKey[c] \in Keys \ spoiled =>
       /\ pc[c] \notin {"idle", "lookup"} => c \in keyed
       /\ pc[c] = "done" /\ status[c] # "error" => store[sentKey[c]] # NoCall

SourcesOK ==
  \A c \in Calls : pc[c] \in {"send", "done"} =>
    /\ sentKey[source[c]] = sentKey[c] /\ body[source[c]] = body[c]
    /\ status[source[c]] # "none"

BeforeOK ==
  \A c, d \in Calls : c \in before[d] =>
    /\ pc[c] = "done" /\ pc[d] # "idle"
    /\ sentKey[c] = sentKey[d] /\ sentKey[d] \in Keys \ spoiled /\ status[c] # "error" =>
         /\ pc[d] \notin Handling /\ d \notin orders
         /\ pc[d] \in {"send", "done"} => source[d] # d \/ status[d] = "mismatch"
         /\ pc[d] \in {"send", "done"} /\ body[c] = body[d] /\ ~Reused(sentKey[d]) => source[d] # d

LastOK ==
  /\ \A c \in Calls :
       pc[c] = "done" /\ sentKey[c] \in Keys \ spoiled /\ status[c] # "error"
       => store[sentKey[c]] = c \/ store[sentKey[c]] \notin before[c]
  /\ \A c, d \in Calls :
       /\ LastBefore(c, d) /\ status[c] # "error" /\ body[c] # body[d]
       /\ sentKey[c] = sentKey[d] /\ sentKey[d] \in Keys \ spoiled
       /\ pc[d] \in {"send", "done"}
       => status[d] = "mismatch"

IInv == TypeOK /\ ProgressOK /\ UsesOK /\ KeysOK /\ SourcesOK /\ BeforeOK /\ LastOK

USE DEF redis, rows, sent, reply

-----------------------------------------------------------------------------
(* What every step of createOrder does to the keys *)

\* c moves on in the handler, or answers with its own response.
HandlerStep(c) ==
  /\ pc[c] \in Handling
  /\ \/ \E l \in Handling : Goto(c, l)
     \/ \E class \in Statuses \ {"none"} : Respond(c, class, c)
  /\ \/ UNCHANGED orders
     \/ orders' = orders \cup {c} /\ pc'[c] = "send"
  /\ UNCHANGED <<store, sent, keyed, spoiled>>

LEMMA HandlerStepKeepsKeys ==
  ASSUME IInv, NEW c \in Calls, HandlerStep(c)
  PROVE  KeysOK' /\ SourcesOK' /\ BeforeOK' /\ LastOK'
<1>1. /\ \A d \in Calls \ {c} : pc'[d] = pc[d] /\ status'[d] = status[d] /\ source'[d] = source[d]
      /\ pc'[c] \in Handling \cup {"send"}
      /\ pc'[c] = "send" => source'[c] = c /\ status'[c] # "none"
      /\ UNCHANGED <<store, sentKey, body, before, keyed, spoiled>>
  BY DEF IInv, TypeOK, HandlerStep, Goto, Respond, Handling
<1>2. orders' \subseteq orders \cup {c} /\ orders \subseteq orders'
  BY DEF HandlerStep
<1>3. pc[c] \in Handling /\ status[c] = "none" /\ source[c] = NoCall
  BY DEF IInv, HandlerStep, ProgressOK
<1>4. KeysOK'
  BY <1>1, <1>3, CheckoutAssumption DEF IInv, TypeOK, KeysOK, Handling
<1>5. SourcesOK'
  BY <1>1, <1>3, CheckoutAssumption DEF IInv, TypeOK, ProgressOK, SourcesOK, Handling
<1>6. BeforeOK'
  <2>1. \A k \in Keys : Reused(k) => Reused(k)'
    BY <1>1, <1>3 DEF IInv, TypeOK, Reused, Handling
  <2>2. QED
    BY <1>1, <1>2, <1>3, <2>1 DEF IInv, TypeOK, ProgressOK, BeforeOK, Handling
<1>7. LastOK'
  <2>1. \A a, d \in Calls : LastBefore(a, d)' => LastBefore(a, d)
    BY <1>1, <1>3 DEF IInv, TypeOK, LastBefore, Handling
  <2>2. \A a, d \in Calls : LastBefore(a, d) => a # c
    BY <1>3 DEF IInv, BeforeOK, LastBefore, Handling
  <2>3. \A a \in Calls : LastBefore(a, c) /\ sentKey[a] = sentKey[c]
                             /\ sentKey[c] \in Keys \ spoiled => status[a] = "error"
    BY <1>3 DEF IInv, BeforeOK, LastBefore
  <2>4. QED
    BY <1>1, <1>3, <2>1, <2>2, <2>3 DEF IInv, TypeOK, LastOK, Handling
<1>8. QED
  BY <1>4, <1>5, <1>6, <1>7

-----------------------------------------------------------------------------
(* One lemma for each step of createOrder *)

LEMMA ReadTargetPreserves ==
  ASSUME IInv, NEW c \in Calls, ReadTarget(c)
  PROVE  IInv'
<1>1. TypeOK'
  BY CheckoutAssumption, SMTT(30) DEF IInv, TypeOK, ProgressOK, Labels, Statuses, Handling,
     ReadTarget, Goto, Respond
<1>2. ProgressOK'
  BY CheckoutAssumption DEF IInv, TypeOK, ProgressOK, Handling, ReadTarget, Goto, Respond
<1>3. UsesOK'
  BY CheckoutAssumption DEF IInv, TypeOK, UsesOK, Handling, ReadTarget, Goto, Respond
<1>4. HandlerStep(c)
  BY CheckoutAssumption DEF IInv, TypeOK, HandlerStep, Statuses, Handling, ReadTarget, Goto, Respond
<1>5. QED
  BY <1>1, <1>2, <1>3, <1>4, HandlerStepKeepsKeys DEF IInv

LEMMA ReadCouponPreserves ==
  ASSUME IInv, NEW c \in Calls, ReadCoupon(c)
  PROVE  IInv'
<1>1. TypeOK'
  <2>1. /\ pc' \in [Calls -> Labels] /\ status' \in [Calls -> Statuses]
        /\ source' \in [Calls -> Calls \cup {NoCall}]
    <3>1. CASE Respond(c, "rejected", c)
      BY <3>1 DEF IInv, TypeOK, Labels, Statuses, Respond
    <3>2. CASE Goto(c, "take")
      BY <3>2 DEF IInv, TypeOK, Labels, Goto
    <3>3. QED
      BY <3>1, <3>2 DEF ReadCoupon
  <2>2. UNCHANGED <<redis, rows, sent, keyed, held, tries, spoiled>>
    BY DEF ReadCoupon
  <2>3. QED
    BY <2>1, <2>2 DEF IInv, TypeOK
<1>2. ProgressOK'
  BY CheckoutAssumption DEF IInv, TypeOK, ProgressOK, Handling, ReadCoupon, Goto, Respond
<1>3. UsesOK'
  BY CheckoutAssumption DEF IInv, TypeOK, UsesOK, Handling, ReadCoupon, Goto, Respond
<1>4. HandlerStep(c)
  BY CheckoutAssumption DEF IInv, TypeOK, HandlerStep, Statuses, Handling, ReadCoupon, Goto, Respond
<1>5. QED
  BY <1>1, <1>2, <1>3, <1>4, HandlerStepKeepsKeys DEF IInv

LEMMA TakeUsePreserves ==
  ASSUME IInv, NEW c \in Calls, TakeUse(c)
  PROVE  IInv'
<1>1. TypeOK'
  BY CheckoutAssumption DEF IInv, TypeOK, ProgressOK, Labels, Statuses, Handling, TakeUse, Goto,
     Respond
<1>2. ProgressOK'
  BY CheckoutAssumption DEF IInv, TypeOK, ProgressOK, Handling, TakeUse, Goto, Respond
<1>3. UsesOK'
  <2>1. CASE held' = held \cup {c} /\ uses' = uses + 1
    <3>1. IsFiniteSet(held') /\ Cardinality(held') <= Cardinality(held) + 1
      <4>1. IsFiniteSet(held) /\ Cardinality(held) \in Nat
        BY FS_CardinalityType DEF IInv, UsesOK
      <4>2. /\ IsFiniteSet(held \cup {c})
            /\ \/ Cardinality(held \cup {c}) = Cardinality(held)
               \/ Cardinality(held \cup {c}) = Cardinality(held) + 1
        BY <4>1, FS_AddElement
      <4>3. QED
        BY <2>1, <4>1, <4>2
    <3>2. Cardinality(held) \in Nat /\ Cardinality(held') \in Nat
      BY <3>1, FS_CardinalityType DEF IInv, UsesOK
    <3>3. QED
      BY <2>1, <3>1, <3>2, CheckoutAssumption DEF IInv, TypeOK, UsesOK, TakeUse, Goto, Respond
  <2>2. CASE held' = held /\ uses' = uses
    BY <2>2, CheckoutAssumption DEF IInv, TypeOK, UsesOK, Handling, TakeUse, Goto, Respond
  <2>3. QED
    BY <2>1, <2>2 DEF TakeUse
<1>4. HandlerStep(c)
  BY CheckoutAssumption DEF IInv, TypeOK, HandlerStep, Statuses, Handling, TakeUse, Goto, Respond
<1>5. QED
  BY <1>1, <1>2, <1>3, <1>4, HandlerStepKeepsKeys DEF IInv

LEMMA ReadUserPreserves ==
  ASSUME IInv, NEW c \in Calls, ReadUser(c)
  PROVE  IInv'
<1>1. TypeOK'
  BY CheckoutAssumption DEF IInv, TypeOK, ProgressOK, Labels, Statuses, Handling, ReadUser, Goto,
     Respond
<1>2. ProgressOK'
  BY CheckoutAssumption DEF IInv, TypeOK, ProgressOK, Handling, ReadUser, Goto, Respond
<1>3. UsesOK'
  BY CheckoutAssumption DEF IInv, TypeOK, UsesOK, Handling, ReadUser, Goto, Respond
<1>4. HandlerStep(c)
  BY CheckoutAssumption DEF IInv, TypeOK, HandlerStep, Statuses, Handling, ReadUser, Goto, Respond
<1>5. QED
  BY <1>1, <1>2, <1>3, <1>4, HandlerStepKeepsKeys DEF IInv

LEMMA FailAttemptPreserves ==
  ASSUME IInv, NEW c \in Calls, FailAttempt(c)
  PROVE  IInv'
<1>1. TypeOK'
  BY CheckoutAssumption, SMTT(30) DEF IInv, TypeOK, ProgressOK, Labels, Statuses, Handling,
     FailAttempt, Goto, Respond
<1>2. ProgressOK'
  <2>1. /\ tries[c] \in Nat /\ tries[c] < Attempts /\ tries'[c] = tries[c] + 1
        /\ \A d \in Calls \ {c} : tries'[d] = tries[d]
        /\ Attempts \in Nat
    BY CheckoutAssumption DEF IInv, TypeOK, ProgressOK, Handling, FailAttempt
  <2>2. CASE tries'[c] = Attempts
    BY <2>1, <2>2 DEF IInv, TypeOK, ProgressOK, Handling, FailAttempt, Respond
  <2>3. CASE tries'[c] # Attempts
    <3>1. tries'[c] < Attempts
      BY <2>1, <2>3
    <3>2. QED
      BY <2>1, <2>3, <3>1 DEF IInv, TypeOK, ProgressOK, Handling, FailAttempt, Goto
  <2>4. QED
    BY <2>2, <2>3
<1>3. UsesOK'
  BY CheckoutAssumption DEF IInv, TypeOK, UsesOK, Handling, FailAttempt, Goto, Respond
<1>4. HandlerStep(c)
  BY CheckoutAssumption DEF IInv, TypeOK, HandlerStep, Statuses, Handling, FailAttempt, Goto,
     Respond
<1>5. QED
  BY <1>1, <1>2, <1>3, <1>4, HandlerStepKeepsKeys DEF IInv

LEMMA PayPreserves ==
  ASSUME IInv, NEW c \in Calls, Pay(c)
  PROVE  IInv'
<1>1. TypeOK'
  BY CheckoutAssumption DEF IInv, TypeOK, ProgressOK, Labels, Statuses, Handling, Pay, Goto, Respond
<1>2. ProgressOK'
  BY CheckoutAssumption DEF IInv, TypeOK, ProgressOK, Handling, Pay, Goto, Respond
<1>3. UsesOK'
  BY CheckoutAssumption DEF IInv, TypeOK, UsesOK, Handling, Pay, Goto, Respond
<1>4. HandlerStep(c)
  BY CheckoutAssumption DEF IInv, TypeOK, HandlerStep, Statuses, Handling, Pay, Goto, Respond
<1>5. QED
  BY <1>1, <1>2, <1>3, <1>4, HandlerStepKeepsKeys DEF IInv

LEMMA InsertOrderPreserves ==
  ASSUME IInv, NEW c \in Calls, InsertOrder(c)
  PROVE  IInv'
<1>1. TypeOK'
  BY CheckoutAssumption DEF IInv, TypeOK, ProgressOK, Labels, Statuses, Handling, InsertOrder,
     Goto, Respond
<1>2. ProgressOK'
  BY CheckoutAssumption DEF IInv, TypeOK, ProgressOK, Handling, InsertOrder, Goto, Respond
<1>3. UsesOK'
  BY CheckoutAssumption DEF IInv, TypeOK, UsesOK, Handling, InsertOrder, Goto, Respond
<1>4. HandlerStep(c)
  BY CheckoutAssumption DEF IInv, TypeOK, HandlerStep, Statuses, Handling, InsertOrder, Goto,
     Respond
<1>5. QED
  BY <1>1, <1>2, <1>3, <1>4, HandlerStepKeepsKeys DEF IInv

LEMMA AwaitRejectsPreserves ==
  ASSUME IInv, NEW c \in Calls, AwaitRejects(c)
  PROVE  IInv'
<1>1. TypeOK'
  BY CheckoutAssumption DEF IInv, TypeOK, ProgressOK, Labels, Statuses, Handling, AwaitRejects,
     Goto, Respond
<1>2. ProgressOK'
  BY CheckoutAssumption DEF IInv, TypeOK, ProgressOK, Handling, AwaitRejects, Goto, Respond
<1>3. UsesOK'
  BY CheckoutAssumption DEF IInv, TypeOK, UsesOK, Handling, AwaitRejects, Goto, Respond
<1>4. HandlerStep(c)
  BY CheckoutAssumption DEF IInv, TypeOK, HandlerStep, Statuses, Handling, AwaitRejects, Goto,
     Respond
<1>5. QED
  BY <1>1, <1>2, <1>3, <1>4, HandlerStepKeepsKeys DEF IInv

-----------------------------------------------------------------------------
(* The hooks, Redis and the client *)

LEMMA SendPreserves ==
  ASSUME IInv, NEW c \in Calls, Send(c)
  PROVE  IInv'
<1>1. TypeOK'
  BY DEF IInv, TypeOK, Labels, Answered, Send, Goto
<1>2. ProgressOK'
  BY DEF IInv, TypeOK, ProgressOK, Handling, Send, Goto
<1>3. UsesOK'
  BY DEF IInv, TypeOK, UsesOK, Send, Goto
<1>4. KeysOK'
  BY CheckoutAssumption DEF IInv, TypeOK, KeysOK, Send, Goto
<1>5. SourcesOK'
  BY DEF IInv, TypeOK, SourcesOK, Send, Goto
<1>6. BeforeOK'
  <2>1. \A k \in Keys : Reused(k) => Reused(k)'
    BY DEF IInv, TypeOK, Reused, Send, Goto
  <2>2. QED
    BY <2>1, CheckoutAssumption DEF IInv, TypeOK, ProgressOK, BeforeOK, Handling, Answered, Send,
       Goto
<1>7. LastOK'
  <2>1. /\ pc[c] = "idle" /\ pc'[c] \in {"lookup", "target"} /\ before'[c] = Answered
        /\ \A d \in Calls \ {c} : pc'[d] = pc[d] /\ before'[d] = before[d]
        /\ UNCHANGED <<store, sentKey, body, status, spoiled>>
    BY DEF IInv, TypeOK, Send, Goto
  <2>2. \A a, d \in Calls : LastBefore(a, d)' /\ a # c /\ d # c => LastBefore(a, d)
    BY <2>1 DEF LastBefore
  <2>3. \A a, d \in Calls : LastBefore(a, d)' => a # c
    BY <2>1 DEF IInv, BeforeOK, LastBefore, Answered
  <2>4. QED
    BY <2>1, <2>2, <2>3 DEF IInv, LastOK
<1>8. QED
  BY <1>1, <1>2, <1>3, <1>4, <1>5, <1>6, <1>7 DEF IInv

LEMMA LookupPreserves ==
  ASSUME IInv, NEW c \in Calls, Lookup(c)
  PROVE  IInv'
<1> DEFINE s == store[sentKey[c]]
<1>1. /\ pc[c] = "lookup" /\ sentKey[c] \in Keys /\ s \in Calls \cup {NoCall}
      /\ status[c] = "none" /\ source[c] = NoCall /\ c \notin orders
  BY DEF IInv, TypeOK, ProgressOK, Lookup
<1>2. /\ s \in Calls => /\ pc[s] = "done" /\ s # c /\ sentKey[s] = sentKey[c]
                         /\ status[s] \in Statuses \ {"none"} /\ source[s] \in Calls
                         /\ sentKey[source[s]] = sentKey[c] /\ body[source[s]] = body[s]
                         /\ source[s] # c
  BY <1>1, CheckoutAssumption DEF IInv, TypeOK, ProgressOK, KeysOK, SourcesOK
<1>3. /\ keyed' = (IF redisUp THEN keyed \cup {c} ELSE keyed)
      /\ spoiled' = (IF redisUp THEN spoiled ELSE spoiled \cup {sentKey[c]})
      /\ UNCHANGED <<redis, rows, sent, held, tries>>
  BY DEF Lookup
<1>4. CASE Goto(c, "target") /\ (~redisUp \/ s = NoCall)
  <2>1. TypeOK' /\ ProgressOK' /\ UsesOK'
    BY <1>1, <1>3, <1>4 DEF IInv, TypeOK, ProgressOK, UsesOK, Labels, Handling, Goto
  <2>2. KeysOK' /\ SourcesOK'
    BY <1>1, <1>3, <1>4 DEF IInv, TypeOK, KeysOK, SourcesOK, Goto
  <2>3. BeforeOK'
    <3>1. \A k \in Keys : Reused(k) => Reused(k)'
      BY <1>1, <1>3, <1>4 DEF IInv, TypeOK, Reused, Goto
    <3>2. \A d \in Calls : pc[d] = "done" /\ sentKey[d] = sentKey[c] /\ sentKey[c] \notin spoiled'
                              => status[d] = "error"
      BY <1>1, <1>3, <1>4 DEF IInv, TypeOK, KeysOK
    <3>3. QED
      BY <1>1, <1>3, <1>4, <3>1, <3>2 DEF IInv, TypeOK, BeforeOK, Handling, Goto
  <2>4. LastOK'
    <3>1. \A a, d \in Calls : LastBefore(a, d)' => LastBefore(a, d)
      BY <1>1, <1>3, <1>4 DEF IInv, TypeOK, LastBefore, Goto
    <3>2. QED
      BY <1>1, <1>3, <1>4, <3>1 DEF IInv, TypeOK, LastOK, Goto
  <2>5. QED
    BY <2>1, <2>2, <2>3, <2>4 DEF IInv
<1>5. ASSUME s \in Calls, NEW class \in Statuses \ {"none"}, NEW origin \in Calls,
             Respond(c, class, origin),
             \/ origin # c /\ sentKey[origin] = sentKey[c] /\ body[origin] = body[c]
                  /\ status[origin] # "none"
             \/ origin = c /\ class = "mismatch",
             class = "mismatch" \/ body[s] = body[c],
             origin = c <=> body[s] # body[c]
      PROVE  IInv'
  <2>1. TypeOK' /\ ProgressOK' /\ UsesOK'
    BY <1>1, <1>3, <1>5 DEF IInv, TypeOK, ProgressOK, UsesOK, Labels, Handling, Respond
  <2>2. KeysOK'
    BY <1>1, <1>2, <1>3, <1>5 DEF IInv, TypeOK, KeysOK, Respond
  <2>3. SourcesOK'
    BY <1>1, <1>2, <1>3, <1>5 DEF IInv, TypeOK, SourcesOK, Respond
  <2>4. BeforeOK'
    <3>1. \A k \in Keys : Reused(k) => Reused(k)'
      BY <1>1, <1>3, <1>5 DEF IInv, TypeOK, Reused, Respond
    <3>2. origin = c => Reused(sentKey[c])
      BY <1>1, <1>2, <1>5 DEF Reused
    <3>3. QED
      BY <1>1, <1>3, <1>5, <3>1, <3>2 DEF IInv, TypeOK, BeforeOK, Handling, Respond
  <2>5. LastOK'
    <3>1. \A a, d \in Calls : LastBefore(a, d)' => LastBefore(a, d)
      BY <1>1, <1>3, <1>5 DEF IInv, TypeOK, LastBefore, Respond
    <3>2. ASSUME NEW a \in Calls, LastBefore(a, c), status[a] # "error", body[a] # body[c],
                 sentKey[a] = sentKey[c], sentKey[c] \in Keys \ spoiled
          PROVE  class = "mismatch"
      <4>1. pc[a] = "done" /\ (s = a \/ s \notin before[a])
        BY <3>2 DEF IInv, BeforeOK, LastOK, LastBefore
      <4>2. c \notin before[s]
        BY <1>1, <1>5 DEF IInv, BeforeOK
      <4>3. body[s] # body[c]
        BY <1>2, <1>5, <3>2, <4>1, <4>2 DEF LastBefore
      <4>4. QED
        BY <1>5, <4>3
    <3>3. QED
      BY <1>1, <1>3, <1>5, <3>1, <3>2 DEF IInv, TypeOK, BeforeOK, LastBefore, LastOK, Respond
  <2>6. QED
    BY <2>1, <2>2, <2>3, <2>4, <2>5 DEF IInv
<1>6. CASE redisUp /\ s # NoCall /\ body[s] = body[c]
  <2>1. Respond(c, status[s], source[s])
    BY <1>6 DEF Lookup
  <2>2. status[source[s]] # "none"
    BY <1>1, <1>2, <1>6 DEF IInv, SourcesOK
  <2>3. QED
    BY <1>1, <1>2, <1>5, <1>6, <2>1, <2>2
<1>7. CASE redisUp /\ s # NoCall /\ body[s] # body[c]
  <2>1. Respond(c, "mismatch", c)
    BY <1>7 DEF Lookup
  <2>2. QED
    BY <1>1, <1>5, <1>7, <2>1 DEF Statuses
<1>8. QED
  BY <1>4, <1>6, <1>7 DEF Lookup

LEMMA OnSendPreserves ==
  ASSUME IInv, NEW c \in Calls, OnSend(c)
  PROVE  IInv'
<1>1. c \in keyed => sentKey[c] \in Keys
  BY DEF IInv, ProgressOK
<1>2. TypeOK'
  BY <1>1 DEF IInv, TypeOK, Labels, OnSend
<1>3. ProgressOK'
  BY DEF IInv, TypeOK, ProgressOK, Handling, OnSend
<1>4. UsesOK'
  BY DEF IInv, TypeOK, UsesOK, OnSend
<1>5. KeysOK'
  BY <1>1, CheckoutAssumption DEF IInv, TypeOK, KeysOK, OnSend
<1>6. SourcesOK'
  BY DEF IInv, TypeOK, SourcesOK, OnSend
<1>7. BeforeOK'
  <2>1. \A k \in Keys : Reused(k) => Reused(k)'
    BY DEF IInv, TypeOK, Reused, OnSend
  <2>2. QED
    BY <2>1 DEF IInv, TypeOK, BeforeOK, Handling, OnSend
<1>8. LastOK'
  <2>1. /\ pc[c] = "send" /\ pc' = [pc EXCEPT ![c] = "done"]
        /\ UNCHANGED <<sentKey, body, before, status>> /\ spoiled \subseteq spoiled'
    BY DEF OnSend
  <2>2. \A a, d \in Calls : LastBefore(a, d)' => LastBefore(a, d)
    BY <2>1 DEF IInv, TypeOK, LastBefore
  <2>3. \A d \in Calls : c \notin before[d]
    BY <2>1 DEF IInv, BeforeOK
  <2>4. \A d \in Calls : pc'[d] = "done" /\ sentKey[d] \in Keys \ spoiled' /\ status[d] # "error"
           => store'[sentKey[d]] = d \/ store'[sentKey[d]] \notin before[d]
    <3>1. CASE c \in keyed /\ status[c] # "error" /\ redisUp
      BY <1>1, <2>1, <2>3, <3>1 DEF IInv, TypeOK, LastOK, OnSend
    <3>2. CASE ~(c \in keyed /\ status[c] # "error" /\ redisUp)
      <4>1. UNCHANGED store
        BY <3>2 DEF OnSend
      <4>2. sentKey[c] \in Keys \ spoiled' => status[c] = "error"
        BY <2>1, <3>2 DEF IInv, KeysOK, OnSend
      <4>3. QED
        BY <2>1, <4>1, <4>2 DEF IInv, TypeOK, LastOK
    <3>3. QED
      BY <3>1, <3>2
  <2>5. QED
    BY <2>1, <2>2, <2>3, <2>4 DEF IInv, TypeOK, LastOK, LastBefore
<1>9. QED
  BY <1>2, <1>3, <1>4, <1>5, <1>6, <1>7, <1>8 DEF IInv

LEMMA RedisFlipsPreserves ==
  ASSUME IInv, RedisFlips
  PROVE  IInv'
<1>1. TypeOK'
  BY CheckoutAssumption DEF IInv, TypeOK, RedisFlips
<1>2. QED
  BY <1>1 DEF IInv, ProgressOK, UsesOK, KeysOK, SourcesOK, BeforeOK, LastOK, LastBefore,
     Reused, RedisFlips

LEMMA ExpirePreserves ==
  ASSUME IInv, NEW k \in Keys, Expire(k)
  PROVE  IInv'
<1>1. TypeOK'
  BY DEF IInv, TypeOK, Expire
<1>2. ProgressOK' /\ UsesOK' /\ SourcesOK'
  BY DEF IInv, ProgressOK, UsesOK, SourcesOK, Expire
<1>3. KeysOK'
  BY DEF IInv, TypeOK, KeysOK, Expire
<1>4. BeforeOK'
  BY DEF IInv, BeforeOK, Reused, Expire
<1>5. LastOK'
  BY DEF IInv, TypeOK, LastOK, LastBefore, Expire
<1>6. QED
  BY <1>1, <1>2, <1>3, <1>4, <1>5 DEF IInv

-----------------------------------------------------------------------------

LEMMA InitEstablishes == Init => IInv
<1> SUFFICES ASSUME Init PROVE IInv
  OBVIOUS
<1>1. TypeOK
  BY CheckoutAssumption DEF Init, TypeOK, Labels, Statuses
<1>2. ProgressOK /\ KeysOK /\ SourcesOK /\ BeforeOK /\ LastOK
  BY CheckoutAssumption DEF Init, ProgressOK, KeysOK, SourcesOK, BeforeOK, LastOK, LastBefore,
     Handling
<1>3. UsesOK
  BY FS_EmptySet DEF Init, UsesOK
<1>4. QED
  BY <1>1, <1>2, <1>3 DEF IInv

LEMMA StepPreserves == IInv /\ [Next]_vars => IInv'
<1> SUFFICES ASSUME IInv, [Next]_vars PROVE IInv'
  OBVIOUS
<1>1. CASE UNCHANGED vars
  BY <1>1 DEF IInv, TypeOK, ProgressOK, UsesOK, KeysOK, SourcesOK, BeforeOK, LastOK, LastBefore,
     Reused, vars
<1>2. ASSUME NEW c \in Calls, Send(c) PROVE IInv'
  BY <1>2, SendPreserves
<1>3. ASSUME NEW c \in Calls, Handle(c) PROVE IInv'
  BY <1>3, LookupPreserves, ReadTargetPreserves, ReadCouponPreserves, TakeUsePreserves,
     ReadUserPreserves, FailAttemptPreserves, PayPreserves, InsertOrderPreserves,
     AwaitRejectsPreserves, OnSendPreserves DEF Handle
<1>4. CASE RedisFlips
  BY <1>4, RedisFlipsPreserves
<1>5. ASSUME NEW k \in Keys, Expire(k) PROVE IInv'
  BY <1>5, ExpirePreserves
<1>6. QED
  BY <1>1, <1>2, <1>3, <1>4, <1>5 DEF Next

LEMMA Invariance == Spec => []IInv
<1>1. QED
  BY InitEstablishes, StepPreserves, PTL DEF Spec

\* Every variable keeps its type, and uses_count never passes max_uses, however
\* many orders take a use at once (payments/service.ts:66-73).
THEOREM TypeCorrect == Spec => []TypeOK
<1>1. IInv => TypeOK
  BY DEF IInv
<1>2. QED
  BY <1>1, Invariance, PTL

\* The discounts given and those about to be are covered by uses that were
\* counted, and these stay within the limit (payments/service.ts:56-104).
THEOREM DiscountsCovered == Spec => []DiscountsWithinLimit
<1>1. IInv => DiscountsWithinLimit
  <2> SUFFICES ASSUME IInv PROVE DiscountsWithinLimit
    OBVIOUS
  <2>1. Discounted \cup Holding \subseteq held
    BY DEF IInv, TypeOK, UsesOK, Discounted, Holding
  <2>2. /\ IsFiniteSet(Discounted \cup Holding)
        /\ Cardinality(Discounted \cup Holding) <= Cardinality(held)
    BY <2>1, FS_Subset DEF IInv, UsesOK
  <2>3. Cardinality(held) \in Nat /\ Cardinality(Discounted \cup Holding) \in Nat
    BY <2>2, FS_CardinalityType DEF IInv, UsesOK
  <2>4. QED
    BY <2>2, <2>3, CheckoutAssumption DEF IInv, TypeOK, UsesOK, DiscountsWithinLimit
<1>2. QED
  BY <1>1, Invariance, PTL

\* A call repeated after its 201 makes no second order unless Redis failed or
\* the key ended (idempotency.ts:47-89).
THEOREM OneOrderPerRetry == Spec => []NoSecondOrder
<1>1. IInv => NoSecondOrder
  BY CheckoutAssumption DEF IInv, TypeOK, BeforeOK, NoSecondOrder, Retry
<1>2. QED
  BY <1>1, Invariance, PTL

\* A key answers as it was last used: identical retries are replayed until
\* another body is answered under it, and refused from then on
\* (idempotency.ts:47-89).
THEOREM KeysAnswerAsLastUsed == Spec => []KeyAnswersAsLastUsed
<1>1. IInv => KeyAnswersAsLastUsed
  <2> SUFFICES ASSUME IInv PROVE KeyAnswersAsLastUsed
    OBVIOUS
  <2>1. \A c \in Answered : source[c] # c =>
          sentKey[source[c]] = sentKey[c] /\ body[source[c]] = body[c]
    BY DEF IInv, SourcesOK, Answered
  <2>2. ASSUME NEW c \in Answered, NEW d \in Answered, c \in before[d], status[c] # "error",
               sentKey[c] = sentKey[d], sentKey[d] \in Keys \ spoiled
        PROVE  /\ source[d] # d \/ status[d] = "mismatch"
               /\ body[c] = body[d] /\ ~Reused(sentKey[d]) => source[d] # d
               /\ body[c] # body[d] /\ LastBefore(c, d) => status[d] = "mismatch"
    BY <2>2 DEF IInv, BeforeOK, LastOK, Answered
  <2>3. QED
    BY <2>1, <2>2 DEF KeyAnswersAsLastUsed
<1>2. QED
  BY <1>1, Invariance, PTL
=============================================================================
