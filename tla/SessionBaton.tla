---------------------------- MODULE SessionBaton ----------------------------
(***************************************************************************)
(* What refresh-token rotation promises (docs/architecture/SECURITY.md:26):*)
(* the right to continue a session family is a baton.  It is in one hand   *)
(* at a time, it passes from a token to a token never seen before, and     *)
(* once dropped nobody picks it up again.  A report of theft drops the     *)
(* baton for good, unless it is in the air: then one hand still gets it,   *)
(* which is less than the document says (RefreshTokens!ReuseEndsFamily).   *)
(***************************************************************************)
CONSTANTS Tokens, Families

Nobody  == "nobody"    \* the family has not been opened
Transit == "transit"   \* its token is spent, the next one not yet issued
Dropped == "dropped"   \* no token of it will ever work again

VARIABLES holder,      \* who may continue each family
          past,        \* the tokens that have been issued
          reported     \* the families of which a spent token was presented

Init == /\ holder = [f \in Families |-> Nobody]
        /\ past = {}
        /\ reported = {}

\* A login opens a family and hands its first token out.
Open(f, t) == /\ t \notin past
              /\ past' = past \cup {t}
              /\ holder[f] = Nobody
              /\ holder' = [holder EXCEPT ![f] = t]
              /\ UNCHANGED reported

\* A refresh spends the token ...
Spend(f) == /\ holder[f] \in Tokens
            /\ holder' = [holder EXCEPT ![f] = Transit]
            /\ UNCHANGED <<past, reported>>

\* ... and hands out its successor.
Deliver(f, t) == /\ t \notin past
                 /\ past' = past \cup {t}
                 /\ holder[f] = Transit
                 /\ holder' = [holder EXCEPT ![f] = t]
                 /\ UNCHANGED reported

\* Somebody presents a spent token.
Report(f) == /\ holder[f] # Nobody
             /\ reported' = reported \cup {f}
             /\ holder' = [holder EXCEPT ![f] = IF @ = Transit THEN Transit ELSE Dropped]
             /\ UNCHANGED past

\* Logout, password reset, or a refresh that fails half way.
Drop(f) == /\ holder[f] \in Tokens \cup {Transit}
           /\ holder' = [holder EXCEPT ![f] = Dropped]
           /\ UNCHANGED <<past, reported>>

Next == \E f \in Families :
          \/ \E t \in Tokens : Open(f, t) \/ Deliver(f, t)
          \/ Spend(f)
          \/ Report(f) \/ Drop(f)

Spec == Init /\ [][Next]_<<holder, past, reported>>
=============================================================================
