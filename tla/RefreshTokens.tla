--------------------------- MODULE RefreshTokens ---------------------------
(***************************************************************************)
(* The refresh tokens of one account: login, refresh, logout, password     *)
(* reset and suspension of src/src/modules/auth/service.ts, with any       *)
(* number of requests in progress at once.  One action is one stretch      *)
(* between two awaits on the refresh_tokens, users or password_resets      *)
(* rows; none of these handlers runs in a transaction.                     *)
(*                                                                         *)
(* A live token presented after its expiry, or one not found, is rejected  *)
(* without any effect, so expiry needs no action here.                     *)
(***************************************************************************)
EXTENDS Naturals, FiniteSets

CONSTANTS
  Tokens,      \* bound: the refresh tokens that can be issued
  Families,    \* bound: the session families that can be opened
  Requests     \* concurrent requests

NoFamily == "no family"
NoToken  == "no token"

ASSUME DistinctAssumption ==
  /\ NoFamily \notin Families
  /\ Tokens \cap {NoToken, "nobody", "transit", "dropped"} = {}

VARIABLES
  family,     \* family of each issued token
  live,       \* issued tokens with revoked_at NULL
  suspended,  \* users.status = 'suspended'
  resetUsed,  \* password_resets.used_at is set
  pc,         \* where each request is
  tok,        \* the token a refresh presents; NoToken in a login
  todo,       \* the sessions a password reset has listed and not revoked
  burned,     \* families on which revokeFamily has run
  resets,     \* how often the reset link has set a password; 2 is "again"
  cut,        \* tokens that existed when it first did
  resetDone   \* a password reset has returned

rows    == <<family, live>>
accountRow == <<suspended, resetUsed>>
local   == <<pc, tok, todo>>
history == <<burned, resets, cut, resetDone>>
vars    == <<rows, accountRow, local, history>>

RequestLabels == {"idle", "checkUser", "rotate", "reuse", "mint",
                  "setPassword", "markUsed", "list", "revoke"}

TypeOK ==
  /\ family \in [Tokens -> Families \cup {NoFamily}]
  /\ live \in SUBSET Tokens
  /\ suspended \in BOOLEAN
  /\ resetUsed \in BOOLEAN
  /\ pc \in [Requests -> RequestLabels]
  /\ tok \in [Requests -> Tokens \cup {NoToken}]
  /\ todo \in [Requests -> SUBSET Tokens]
  /\ burned \in SUBSET Families
  /\ resets \in 0..2
  /\ cut \in SUBSET Tokens
  /\ resetDone \in BOOLEAN

Issued == {t \in Tokens : family[t] # NoFamily}

\* The requests that have spent a token of family f and not yet replaced it.
Minting(f) == {r \in Requests : pc[r] = "mint" /\ tok[r] # NoToken /\ family[tok[r]] = f}

Init ==
  /\ family = [t \in Tokens |-> NoFamily]
  /\ live = {}
  /\ suspended = FALSE
  /\ resetUsed = FALSE
  /\ pc = [r \in Requests |-> "idle"]
  /\ tok = [r \in Requests |-> NoToken]
  /\ todo = [r \in Requests |-> {}]
  /\ burned = {}
  /\ resets = 0
  /\ cut = {}
  /\ resetDone = FALSE

Proceed(r, label) == /\ pc' = [pc EXCEPT ![r] = label]
                     /\ UNCHANGED <<tok, todo>>

Return(r) == /\ pc' = [pc EXCEPT ![r] = "idle"]
             /\ tok' = [tok EXCEPT ![r] = NoToken]
             /\ todo' = [todo EXCEPT ![r] = {}]

-----------------------------------------------------------------------------
(* login, oauthLogin: buildAuthResult opens a new family. *)

Login(r) ==
  /\ pc[r] = "idle"
  /\ ~suspended
  /\ Proceed(r, "mint")
  /\ UNCHANGED <<rows, accountRow, history>>

\* The status is not read on this path.
OAuthLogin(r) ==
  /\ pc[r] = "idle"
  /\ Proceed(r, "mint")
  /\ UNCHANGED <<rows, accountRow, history>>

\* createRefreshToken, the last write of login and of refresh.
Mint(r) ==
  /\ pc[r] = "mint"
  /\ \E t \in Tokens \ Issued, f \in Families :
       /\ IF tok[r] = NoToken THEN \A u \in Issued : family[u] # f ELSE f = family[tok[r]]
       /\ family' = [family EXCEPT ![t] = f]
       /\ live' = live \cup {t}
  /\ Return(r)
  /\ UNCHANGED <<accountRow, history>>

-----------------------------------------------------------------------------
(* refresh *)

Refresh(r, t) ==
  /\ pc[r] = "idle"
  /\ t \in Issued
  /\ pc' = [pc EXCEPT ![r] = IF t \in live THEN "checkUser" ELSE "reuse"]
  /\ tok' = [tok EXCEPT ![r] = t]
  /\ UNCHANGED <<todo, rows, accountRow, history>>

CheckUser(r) ==
  /\ pc[r] = "checkUser"
  /\ IF suspended THEN Return(r) ELSE Proceed(r, "rotate")
  /\ UNCHANGED <<rows, accountRow, history>>

\* Variant for mutation: the update has no revoked_at condition.
RotateUnguarded(r) ==
  /\ pc[r] = "rotate"
  /\ live' = live \ {tok[r]}
  /\ Proceed(r, "mint")
  /\ UNCHANGED <<family, accountRow, history>>

Rotate(r) ==
  /\ pc[r] = "rotate"
  /\ IF tok[r] \in live
       THEN live' = live \ {tok[r]} /\ Proceed(r, "mint")
       ELSE Proceed(r, "reuse") /\ UNCHANGED live
  /\ UNCHANGED <<family, accountRow, history>>

\* Variant for mutation: only the presented token is revoked.
RevokeTokenOnly(r) ==
  /\ pc[r] = "reuse"
  /\ live' = live \ {tok[r]}
  /\ burned' = burned \cup {family[tok[r]]}
  /\ Return(r)
  /\ UNCHANGED <<family, accountRow, resets, cut, resetDone>>

\* revokeFamily: the update finds the rows there are; a successor that is
\* still to be inserted is not among them.
RevokeFamily(r) ==
  /\ pc[r] = "reuse"
  /\ live' = {t \in live : family[t] # family[tok[r]]}
  /\ burned' = burned \cup {family[tok[r]]}
  /\ Return(r)
  /\ UNCHANGED <<family, accountRow, resets, cut, resetDone>>

-----------------------------------------------------------------------------
(* logout, resetPassword, setUserStatus *)

Logout(t) ==
  /\ t \in Issued
  /\ live' = live \ {t}
  /\ UNCHANGED <<family, accountRow, local, history>>

ResetPassword(r) ==
  /\ pc[r] = "idle"
  /\ ~resetUsed
  /\ Proceed(r, "setPassword")
  /\ UNCHANGED <<rows, accountRow, history>>

SetPassword(r) ==
  /\ pc[r] = "setPassword"
  /\ resets' = IF resets = 0 THEN 1 ELSE 2
  /\ cut' = IF resets = 0 THEN Issued ELSE cut
  /\ Proceed(r, "markUsed")
  /\ UNCHANGED <<rows, accountRow, burned, resetDone>>

MarkResetUsed(r) ==
  /\ pc[r] = "markUsed"
  /\ resetUsed' = TRUE
  /\ Proceed(r, "list")
  /\ UNCHANGED <<suspended, rows, history>>

\* Variant for mutation: revoked tokens only are listed.
ListRevoked(r) ==
  /\ pc[r] = "list"
  /\ pc' = [pc EXCEPT ![r] = "revoke"]
  /\ todo' = [todo EXCEPT ![r] = Issued \ live]
  /\ UNCHANGED <<tok, rows, accountRow, history>>

\* Variant for mutation: the families of the sessions are collected, not the
\* tokens.
ListFamilies(r) ==
  /\ pc[r] = "list"
  /\ pc' = [pc EXCEPT ![r] = "revoke"]
  /\ todo' = [todo EXCEPT ![r] = {family[t] : t \in Issued}]
  /\ UNCHANGED <<tok, rows, accountRow, history>>

ListSessions(r) ==
  /\ pc[r] = "list"
  /\ pc' = [pc EXCEPT ![r] = "revoke"]
  /\ todo' = [todo EXCEPT ![r] = Issued]
  /\ UNCHANGED <<tok, rows, accountRow, history>>

RevokeSession(r) ==
  /\ pc[r] = "revoke"
  /\ \E t \in todo[r] : /\ live' = live \ {t}
                        /\ todo' = [todo EXCEPT ![r] = @ \ {t}]
  /\ UNCHANGED <<pc, tok, family, accountRow, history>>

ResetReturns(r) ==
  /\ pc[r] = "revoke"
  /\ todo[r] = {}
  /\ resetDone' = TRUE
  /\ Return(r)
  /\ UNCHANGED <<rows, accountRow, burned, resets, cut>>

SetUserStatus ==
  /\ suspended' = ~suspended
  /\ UNCHANGED <<resetUsed, rows, local, history>>

\* An await rejects, or the process dies: the request leaves what it has done.
AwaitRejects(r) ==
  /\ pc[r] # "idle"
  /\ Return(r)
  /\ UNCHANGED <<rows, accountRow, history>>

-----------------------------------------------------------------------------
RequestStep(r) ==
  \/ Login(r) \/ OAuthLogin(r) \/ Mint(r)
  \/ \E t \in Tokens : Refresh(r, t)
  \/ CheckUser(r) \/ Rotate(r) \/ RevokeFamily(r)
  \/ ResetPassword(r) \/ SetPassword(r) \/ MarkResetUsed(r)
  \/ ListSessions(r) \/ RevokeSession(r) \/ ResetReturns(r)
  \/ AwaitRejects(r)

Next ==
  \/ \E r \in Requests : RequestStep(r)
  \/ \E t \in Tokens : Logout(t)
  \/ SetUserStatus

Spec == Init /\ [][Next]_vars

-----------------------------------------------------------------------------
(* Properties *)

\* A family has one usable token, or one refresh about to insert one, never
\* two of either: the conditional update of service.ts:181-185 elects one of
\* the requests that present the same token.
OneSuccessor ==
  /\ \A t, u \in live : family[t] = family[u] => t = u
  /\ \A t \in live : Minting(family[t]) = {}
  /\ \A f \in Families : \A r, s \in Minting(f) : r = s

\* When a password reset returns, every token that existed when the password
\* was first changed is unusable, also when two requests use the link at once
\* and one of them dies half way.  This is the part of the promise
\* ResetEndsSessions that the code keeps (service.ts:222-236): tokens, not
\* sessions, because a refresh may replace a token after the list was read.
OldTokensEnd == resetDone => cut \cap live = {}

\* What docs/architecture/SECURITY.md promises of every way to revoke.
\* Lines 30-33: presenting a revoked token revokes the whole family.
ReuseEndsFamily == \A t \in live : family[t] \notin burned

\* Line 36: a password reset revokes all sessions of the account.
ResetEndsSessions ==
  resetDone => \A t \in live : \A u \in cut : family[t] # family[u]

\* Line 42: the reset token is single-use.
LinkUsedOnce == resets <= 1

\* The code keeps none of the three: revokeFamily and the reset's loop miss the
\* successor that a refresh is about to insert (service.ts:187-191, 235), and
\* two requests pass the check of used_at before either sets it (:222-233).
\* The property is their disjunction, so that the one state that violates it
\* refutes each of them.
RevocationIsComplete == ReuseEndsFamily \/ ResetEndsSessions \/ LinkUsedOnce

\* Rotation implements the baton, which a report of theft takes from its
\* holder but not out of the air: see SessionBaton.
Holder == [f \in Families |->
             IF \E t \in live : family[t] = f THEN CHOOSE t \in live : family[t] = f
             ELSE IF Minting(f) # {} THEN "transit"
             ELSE IF \E t \in Issued : family[t] = f THEN "dropped"
             ELSE "nobody"]
Baton == INSTANCE SessionBaton WITH holder <- Holder, past <- Issued, reported <- burned
ImplementsBaton == Baton!Spec
=============================================================================
