----------------------------- MODULE OrderLedger -----------------------------
(***************************************************************************)
(* What an order promises (docs/architecture/QUEUEING.md:79-84): every     *)
(* payment the provider reports counts once, courses are only given for a  *)
(* payment that has counted, and an order is called fulfilled only when    *)
(* everything it still owes has been given.                                *)
(*                                                                         *)
(* The standing of an order is the word of whoever wrote last, because the *)
(* updates in payments/service.ts name the order and not its status.       *)
(***************************************************************************)
EXTENDS Naturals

CONSTANTS Events, Payments, Courses

VARIABLES reported,   \* the events the provider has reported
          credits,    \* how many times each of them has counted
          access,     \* the courses the buyer has been given
          owed,       \* the courses that have been on offer all the time
          standing    \* what the order says of itself

ledger == <<reported, credits, access, owed, standing>>

Init == /\ reported = {}
        /\ credits = [e \in Events |-> 0]
        /\ access = {}
        /\ owed = Courses
        /\ standing = "pending"

Credited == \E e \in Payments : credits[e] > 0

Report(e) == /\ e \notin reported
             /\ reported' = reported \cup {e}
             /\ UNCHANGED <<credits, access, owed, standing>>

\* A reported payment counts, once.
Credit(e) == /\ e \in reported \cap Payments
             /\ credits[e] = 0
             /\ credits' = [credits EXCEPT ![e] = 1]
             /\ standing' = "paid"
             /\ UNCHANGED <<reported, access, owed>>

Give(k) == /\ Credited
           /\ access' = access \cup {k}
           /\ UNCHANGED <<reported, credits, owed, standing>>

Fulfil == /\ Credited
          /\ owed \subseteq access
          /\ standing' = "fulfilled"
          /\ UNCHANGED <<reported, credits, access, owed>>

\* The money goes back, which needs money: the courses stay.
Refund == /\ Credited
          /\ standing' = "refunded"
          /\ UNCHANGED <<reported, credits, access, owed>>

Expire == /\ standing' = "expired"
          /\ UNCHANGED <<reported, credits, access, owed>>

\* The mentor takes the bundle apart.
Withdraw == /\ owed' = {}
            /\ UNCHANGED <<reported, credits, access, standing>>

Next == \/ \E e \in Events : Report(e) \/ Credit(e)
        \/ \E k \in Courses : Give(k)
        \/ Fulfil \/ Refund \/ Expire \/ Withdraw

Spec == Init /\ [][Next]_ledger
=============================================================================
