---------------------------- MODULE Auth_proofs ----------------------------
(***************************************************************************)
(* Proofs about the auth service: RefreshTokens, for every set of tokens,  *)
(* families and requests, and Accounts, for every finite set of requests,  *)
(* every limit and every threshold.  The two have no state in common.      *)
(*                                                                         *)
(* Refresh tokens: a family's right to continue is in one place, a live    *)
(* token or a refresh between its two writes.  The conditional update is   *)
(* the only way from the first to the second, and the insert of a token    *)
(* never issued before the only way back.                                  *)
(*                                                                         *)
(* Sign-in: a number a counter gives out is given to one call in its       *)
(* window, so 1..Max bounds the calls that hold one of them (AtMost); a    *)
(* counter with no time to live was made by a call that is still to set    *)
(* it; and an incomplete row has the call that completes it, or died.  The *)
(* gate: the monitor's count of recoveries is the number of answered       *)
(* samples in a row.                                                       *)
(***************************************************************************)
EXTENDS RefreshTokens, Accounts, FiniteSetTheorems, TLAPS

-----------------------------------------------------------------------------
(* REFRESH TOKENS *)

\* What a request holds is a token that has been issued.
HeldOK ==
  /\ live \subseteq Issued
  /\ \A r \in Requests : tok[r] # NoToken => tok[r] \in Issued
  /\ \A r \in Requests : pc[r] \in {"checkUser", "rotate", "reuse"} => tok[r] # NoToken
  /\ \A r \in Requests : pc[r] = "idle" => tok[r] = NoToken

\* A reset that has listed the sessions still has to revoke every token of
\* cut that is live.
ResetOK ==
  /\ cut \subseteq Issued
  /\ resets = 0 => ~resetDone
  /\ \A r \in Requests : pc[r] \in {"markUsed", "list", "revoke"} => resets # 0
  /\ \A r \in Requests : pc[r] = "revoke" => cut \cap live \subseteq todo[r]

IInv == TypeOK /\ HeldOK /\ OneSuccessor /\ ResetOK /\ OldTokensEnd

USE DEF rows, accountRow, local, history, vars

LEMMA LoginPreserves ==
  ASSUME IInv, NEW r \in Requests, Login(r)
  PROVE  IInv'
<1>1. TypeOK'
  BY DistinctAssumption DEF IInv, TypeOK, HeldOK, RequestLabels, Issued, Login, Proceed
<1>2. HeldOK'
  BY DistinctAssumption DEF IInv, TypeOK, HeldOK, Issued, Login, Proceed
<1>3. OneSuccessor'
  BY DistinctAssumption DEF IInv, TypeOK, HeldOK, OneSuccessor, Minting, Issued, Login, Proceed
<1>4. ResetOK' /\ OldTokensEnd'
  BY DistinctAssumption DEF IInv, TypeOK, HeldOK, ResetOK, OldTokensEnd, Issued, Login, Proceed
<1>5. QED
  BY <1>1, <1>2, <1>3, <1>4 DEF IInv

LEMMA OAuthLoginPreserves ==
  ASSUME IInv, NEW r \in Requests, OAuthLogin(r)
  PROVE  IInv'
<1>1. TypeOK'
  BY DistinctAssumption DEF IInv, TypeOK, HeldOK, RequestLabels, Issued, OAuthLogin, Proceed
<1>2. HeldOK'
  BY DistinctAssumption DEF IInv, TypeOK, HeldOK, Issued, OAuthLogin, Proceed
<1>3. OneSuccessor'
  BY DistinctAssumption DEF IInv, TypeOK, HeldOK, OneSuccessor, Minting, Issued, OAuthLogin,
     Proceed
<1>4. ResetOK' /\ OldTokensEnd'
  BY DistinctAssumption DEF IInv, TypeOK, HeldOK, ResetOK, OldTokensEnd, Issued, OAuthLogin,
     Proceed
<1>5. QED
  BY <1>1, <1>2, <1>3, <1>4 DEF IInv

LEMMA MintPreserves ==
  ASSUME IInv, NEW r \in Requests, Mint(r)
  PROVE  IInv'
<1>1. TypeOK'
  BY DistinctAssumption DEF IInv, TypeOK, HeldOK, RequestLabels, Issued, Mint, Return
<1>2. HeldOK'
  BY DistinctAssumption DEF IInv, TypeOK, HeldOK, Issued, Mint, Return
<1>3. OneSuccessor'
  BY DistinctAssumption DEF IInv, TypeOK, HeldOK, OneSuccessor, Minting, Issued, Mint, Return
<1>4. ResetOK' /\ OldTokensEnd'
  BY DistinctAssumption DEF IInv, TypeOK, HeldOK, ResetOK, OldTokensEnd, Issued, Mint, Return
<1>5. QED
  BY <1>1, <1>2, <1>3, <1>4 DEF IInv

LEMMA RefreshPreserves ==
  ASSUME IInv, NEW r \in Requests, NEW t \in Tokens, Refresh(r, t)
  PROVE  IInv'
<1>1. TypeOK'
  BY DistinctAssumption DEF IInv, TypeOK, HeldOK, RequestLabels, Issued, Refresh
<1>2. HeldOK'
  BY DistinctAssumption DEF IInv, TypeOK, HeldOK, Issued, Refresh
<1>3. OneSuccessor'
  BY DistinctAssumption DEF IInv, TypeOK, HeldOK, OneSuccessor, Minting, Issued, Refresh
<1>4. ResetOK' /\ OldTokensEnd'
  BY DistinctAssumption DEF IInv, TypeOK, HeldOK, ResetOK, OldTokensEnd, Issued, Refresh
<1>5. QED
  BY <1>1, <1>2, <1>3, <1>4 DEF IInv

LEMMA CheckUserPreserves ==
  ASSUME IInv, NEW r \in Requests, CheckUser(r)
  PROVE  IInv'
<1>1. TypeOK'
  BY DistinctAssumption DEF IInv, TypeOK, HeldOK, RequestLabels, Issued, CheckUser, Proceed, Return
<1>2. HeldOK'
  BY DistinctAssumption DEF IInv, TypeOK, HeldOK, Issued, CheckUser, Proceed, Return
<1>3. OneSuccessor'
  BY DistinctAssumption DEF IInv, TypeOK, HeldOK, OneSuccessor, Minting, Issued, CheckUser,
     Proceed, Return
<1>4. ResetOK' /\ OldTokensEnd'
  BY DistinctAssumption DEF IInv, TypeOK, HeldOK, ResetOK, OldTokensEnd, Issued, CheckUser,
     Proceed, Return
<1>5. QED
  BY <1>1, <1>2, <1>3, <1>4 DEF IInv

LEMMA RotatePreserves ==
  ASSUME IInv, NEW r \in Requests, Rotate(r)
  PROVE  IInv'
<1>1. TypeOK'
  BY DistinctAssumption DEF IInv, TypeOK, HeldOK, RequestLabels, Issued, Rotate, Proceed
<1>2. HeldOK'
  BY DistinctAssumption DEF IInv, TypeOK, HeldOK, Issued, Rotate, Proceed
<1>3. OneSuccessor'
  BY DistinctAssumption DEF IInv, TypeOK, HeldOK, OneSuccessor, Minting, Issued, Rotate, Proceed
<1>4. ResetOK' /\ OldTokensEnd'
  BY DistinctAssumption DEF IInv, TypeOK, HeldOK, ResetOK, OldTokensEnd, Issued, Rotate, Proceed
<1>5. QED
  BY <1>1, <1>2, <1>3, <1>4 DEF IInv

LEMMA RevokeFamilyPreserves ==
  ASSUME IInv, NEW r \in Requests, RevokeFamily(r)
  PROVE  IInv'
<1>1. TypeOK'
  BY DistinctAssumption DEF IInv, TypeOK, HeldOK, RequestLabels, Issued, RevokeFamily, Return
<1>2. HeldOK'
  BY DistinctAssumption DEF IInv, TypeOK, HeldOK, Issued, RevokeFamily, Return
<1>3. OneSuccessor'
  BY DistinctAssumption DEF IInv, TypeOK, HeldOK, OneSuccessor, Minting, Issued,
     RevokeFamily, Return
<1>4. ResetOK' /\ OldTokensEnd'
  BY DistinctAssumption DEF IInv, TypeOK, HeldOK, ResetOK, OldTokensEnd, Issued,
     RevokeFamily, Return
<1>5. QED
  BY <1>1, <1>2, <1>3, <1>4 DEF IInv

LEMMA LogoutPreserves ==
  ASSUME IInv, NEW t \in Tokens, Logout(t)
  PROVE  IInv'
<1>1. TypeOK'
  BY DistinctAssumption DEF IInv, TypeOK, HeldOK, RequestLabels, Issued, Logout
<1>2. HeldOK'
  BY DistinctAssumption DEF IInv, TypeOK, HeldOK, Issued, Logout
<1>3. OneSuccessor'
  BY DistinctAssumption DEF IInv, TypeOK, HeldOK, OneSuccessor, Minting, Issued, Logout
<1>4. ResetOK' /\ OldTokensEnd'
  BY DistinctAssumption DEF IInv, TypeOK, HeldOK, ResetOK, OldTokensEnd, Issued, Logout
<1>5. QED
  BY <1>1, <1>2, <1>3, <1>4 DEF IInv

LEMMA ResetPasswordPreserves ==
  ASSUME IInv, NEW r \in Requests, ResetPassword(r)
  PROVE  IInv'
<1>1. TypeOK'
  BY DistinctAssumption DEF IInv, TypeOK, HeldOK, RequestLabels, Issued, ResetPassword, Proceed
<1>2. HeldOK'
  BY DistinctAssumption DEF IInv, TypeOK, HeldOK, Issued, ResetPassword, Proceed
<1>3. OneSuccessor'
  BY DistinctAssumption DEF IInv, TypeOK, HeldOK, OneSuccessor, Minting, Issued,
     ResetPassword, Proceed
<1>4. ResetOK' /\ OldTokensEnd'
  BY DistinctAssumption DEF IInv, TypeOK, HeldOK, ResetOK, OldTokensEnd, Issued,
     ResetPassword, Proceed
<1>5. QED
  BY <1>1, <1>2, <1>3, <1>4 DEF IInv

LEMMA SetPasswordPreserves ==
  ASSUME IInv, NEW r \in Requests, SetPassword(r)
  PROVE  IInv'
<1>1. TypeOK'
  BY DistinctAssumption DEF IInv, TypeOK, HeldOK, RequestLabels, Issued, SetPassword, Proceed
<1>2. HeldOK'
  BY DistinctAssumption DEF IInv, TypeOK, HeldOK, Issued, SetPassword, Proceed
<1>3. OneSuccessor'
  BY DistinctAssumption DEF IInv, TypeOK, HeldOK, OneSuccessor, Minting, Issued,
     SetPassword, Proceed
<1>4. ResetOK' /\ OldTokensEnd'
  BY DistinctAssumption DEF IInv, TypeOK, HeldOK, ResetOK, OldTokensEnd, Issued,
     SetPassword, Proceed
<1>5. QED
  BY <1>1, <1>2, <1>3, <1>4 DEF IInv

LEMMA MarkUsedPreserves ==
  ASSUME IInv, NEW r \in Requests, MarkResetUsed(r)
  PROVE  IInv'
<1>1. TypeOK'
  BY DistinctAssumption DEF IInv, TypeOK, HeldOK, RequestLabels, Issued, MarkResetUsed, Proceed
<1>2. HeldOK'
  BY DistinctAssumption DEF IInv, TypeOK, HeldOK, Issued, MarkResetUsed, Proceed
<1>3. OneSuccessor'
  BY DistinctAssumption DEF IInv, TypeOK, HeldOK, OneSuccessor, Minting, Issued, MarkResetUsed,
     Proceed
<1>4. ResetOK' /\ OldTokensEnd'
  BY DistinctAssumption DEF IInv, TypeOK, HeldOK, ResetOK, OldTokensEnd, Issued, MarkResetUsed,
     Proceed
<1>5. QED
  BY <1>1, <1>2, <1>3, <1>4 DEF IInv

LEMMA ListSessionsPreserves ==
  ASSUME IInv, NEW r \in Requests, ListSessions(r)
  PROVE  IInv'
<1>1. TypeOK'
  BY DistinctAssumption DEF IInv, TypeOK, HeldOK, RequestLabels, Issued, ListSessions
<1>2. HeldOK'
  BY DistinctAssumption DEF IInv, TypeOK, HeldOK, Issued, ListSessions
<1>3. OneSuccessor'
  BY DistinctAssumption DEF IInv, TypeOK, HeldOK, OneSuccessor, Minting, Issued, ListSessions
<1>4. ResetOK' /\ OldTokensEnd'
  BY DistinctAssumption DEF IInv, TypeOK, HeldOK, ResetOK, OldTokensEnd, Issued, ListSessions
<1>5. QED
  BY <1>1, <1>2, <1>3, <1>4 DEF IInv

LEMMA RevokeSessionPreserves ==
  ASSUME IInv, NEW r \in Requests, RevokeSession(r)
  PROVE  IInv'
<1>1. TypeOK'
  BY DistinctAssumption DEF IInv, TypeOK, HeldOK, RequestLabels, Issued, RevokeSession
<1>2. HeldOK'
  BY DistinctAssumption DEF IInv, TypeOK, HeldOK, Issued, RevokeSession
<1>3. OneSuccessor'
  BY DistinctAssumption DEF IInv, TypeOK, HeldOK, OneSuccessor, Minting, Issued, RevokeSession
<1>4. ResetOK' /\ OldTokensEnd'
  BY DistinctAssumption DEF IInv, TypeOK, HeldOK, ResetOK, OldTokensEnd, Issued, RevokeSession
<1>5. QED
  BY <1>1, <1>2, <1>3, <1>4 DEF IInv

LEMMA ResetReturnsPreserves ==
  ASSUME IInv, NEW r \in Requests, ResetReturns(r)
  PROVE  IInv'
<1>1. TypeOK'
  BY DistinctAssumption DEF IInv, TypeOK, HeldOK, RequestLabels, Issued, ResetReturns, Return
<1>2. HeldOK'
  BY DistinctAssumption DEF IInv, TypeOK, HeldOK, Issued, ResetReturns, Return
<1>3. OneSuccessor'
  BY DistinctAssumption DEF IInv, TypeOK, HeldOK, OneSuccessor, Minting, Issued,
     ResetReturns, Return
<1>4. ResetOK' /\ OldTokensEnd'
  BY DistinctAssumption DEF IInv, TypeOK, HeldOK, ResetOK, OldTokensEnd, Issued,
     ResetReturns, Return
<1>5. QED
  BY <1>1, <1>2, <1>3, <1>4 DEF IInv

LEMMA SetUserStatusPreserves ==
  ASSUME IInv, SetUserStatus
  PROVE  IInv'
<1>1. TypeOK'
  BY DistinctAssumption DEF IInv, TypeOK, HeldOK, RequestLabels, Issued, SetUserStatus
<1>2. HeldOK'
  BY DistinctAssumption DEF IInv, TypeOK, HeldOK, Issued, SetUserStatus
<1>3. OneSuccessor'
  BY DistinctAssumption DEF IInv, TypeOK, HeldOK, OneSuccessor, Minting, Issued, SetUserStatus
<1>4. ResetOK' /\ OldTokensEnd'
  BY DistinctAssumption DEF IInv, TypeOK, HeldOK, ResetOK, OldTokensEnd, Issued, SetUserStatus
<1>5. QED
  BY <1>1, <1>2, <1>3, <1>4 DEF IInv

LEMMA AwaitRejectsPreserves ==
  ASSUME IInv, NEW r \in Requests, AwaitRejects(r)
  PROVE  IInv'
<1>1. TypeOK'
  BY DistinctAssumption DEF IInv, TypeOK, HeldOK, RequestLabels, Issued, AwaitRejects, Return
<1>2. HeldOK'
  BY DistinctAssumption DEF IInv, TypeOK, HeldOK, Issued, AwaitRejects, Return
<1>3. OneSuccessor'
  BY DistinctAssumption DEF IInv, TypeOK, HeldOK, OneSuccessor, Minting, Issued,
     AwaitRejects, Return
<1>4. ResetOK' /\ OldTokensEnd'
  BY DistinctAssumption DEF IInv, TypeOK, HeldOK, ResetOK, OldTokensEnd, Issued,
     AwaitRejects, Return
<1>5. QED
  BY <1>1, <1>2, <1>3, <1>4 DEF IInv

-----------------------------------------------------------------------------
LEMMA InitEstablishes == Init => IInv
<1>1. SUFFICES ASSUME Init
               PROVE  IInv
  OBVIOUS
<1>2. TypeOK
  <2>1. resets \in 0..2
    BY <1>1 DEF Init
  <2>2. QED
    BY <1>1, <2>1 DEF Init, TypeOK, RequestLabels
<1>3. Issued = {} /\ \A f \in Families : Minting(f) = {}
  BY <1>1 DEF Init, Issued, Minting
<1>4. HeldOK /\ OneSuccessor /\ ResetOK /\ OldTokensEnd
  BY <1>1, <1>3 DEF Init, HeldOK, OneSuccessor, ResetOK, OldTokensEnd
<1>5. QED
  BY <1>2, <1>4 DEF IInv

LEMMA StutterPreserves == IInv /\ UNCHANGED vars => IInv'
BY DEF IInv, TypeOK, HeldOK, OneSuccessor, ResetOK, OldTokensEnd, Minting, Issued

LEMMA NextPreserves == IInv /\ [Next]_vars => IInv'
<1>1. SUFFICES ASSUME IInv, Next
               PROVE  IInv'
  BY StutterPreserves
<1>2. ASSUME NEW r \in Requests, RequestStep(r)
      PROVE  IInv'
  BY <1>1, <1>2, LoginPreserves, OAuthLoginPreserves, MintPreserves, RefreshPreserves,
     CheckUserPreserves, RotatePreserves, RevokeFamilyPreserves, ResetPasswordPreserves,
     SetPasswordPreserves, MarkUsedPreserves, ListSessionsPreserves, RevokeSessionPreserves,
     ResetReturnsPreserves, AwaitRejectsPreserves
  DEF RequestStep
<1>3. QED
  BY <1>1, <1>2, LogoutPreserves, SetUserStatusPreserves DEF Next

\* The inductive invariant holds in every reachable state.
THEOREM Inductive == Spec => []IInv
  BY InitEstablishes, NextPreserves, PTL DEF Spec

\* Every value of the refresh token model has its type.
THEOREM TokensTyped == Spec => []TypeOK
<1>1. IInv => TypeOK
  BY DEF IInv
<1>2. QED
  BY <1>1, Inductive, PTL

\* No family ever has two usable tokens, nor one that is usable while a
\* refresh is about to insert another.
THEOREM AtMostOneSuccessor == Spec => []OneSuccessor
<1>1. IInv => OneSuccessor
  BY DEF IInv
<1>2. QED
  BY <1>1, Inductive, PTL

\* A password reset that has returned has ended every token older than the
\* new password.
THEOREM ResetEndsOldTokens == Spec => []OldTokensEnd
<1>1. IInv => OldTokensEnd
  BY DEF IInv
<1>2. QED
  BY <1>1, Inductive, PTL

-----------------------------------------------------------------------------
(* Refinement. *)

LiveIn(f) == {t \in live : family[t] = f}
Opened(f) == \E t \in Issued : family[t] = f

\* Holder by cases, without its CHOOSE.
HolderSpec ==
  \A f \in Families :
    /\ \A t \in LiveIn(f) : Holder[f] = t
    /\ LiveIn(f) = {} /\ Minting(f) # {} => Holder[f] = "transit"
    /\ LiveIn(f) = {} /\ Minting(f) = {} /\ Opened(f) => Holder[f] = "dropped"
    /\ LiveIn(f) = {} /\ Minting(f) = {} /\ ~Opened(f) => Holder[f] = "nobody"

LEMMA HolderCases == IInv => HolderSpec
<1>1. SUFFICES ASSUME IInv, NEW f \in Families
               PROVE  /\ \A t \in LiveIn(f) : Holder[f] = t
                      /\ LiveIn(f) = {} /\ Minting(f) # {} => Holder[f] = "transit"
                      /\ LiveIn(f) = {} /\ Minting(f) = {} /\ Opened(f) => Holder[f] = "dropped"
                      /\ LiveIn(f) = {} /\ Minting(f) = {} /\ ~Opened(f) => Holder[f] = "nobody"
  BY DEF HolderSpec
<1>2. ASSUME NEW t \in LiveIn(f)
      PROVE  Holder[f] = t
  <2>1. Holder[f] = CHOOSE u \in live : family[u] = f
    BY DEF Holder, LiveIn
  <2>2. \A u \in live : family[u] = f => u = t
    BY <1>1 DEF IInv, OneSuccessor, LiveIn
  <2>3. QED
    BY <2>1, <2>2 DEF LiveIn
<1>3. LiveIn(f) = {} => ~ \E t \in live : family[t] = f
  BY DEF LiveIn
<1>4. QED
  BY <1>2, <1>3 DEF Holder, Opened

LEMMA HolderCasesNext == IInv' => HolderSpec'
  BY HolderCases, PTL

\* A step that changes nothing a family's holder depends on keeps it.
LEMMA HolderFrame ==
  ASSUME IInv, IInv', NEW f \in Families,
         LiveIn(f)' = LiveIn(f),
         Minting(f)' = {} <=> Minting(f) = {},
         Opened(f)' <=> Opened(f)
  PROVE  Holder'[f] = Holder[f]
<1>1. HolderSpec /\ HolderSpec'
  BY HolderCases, HolderCasesNext
<1>2. CASE \E t \in LiveIn(f) : TRUE
  <2>1. PICK t \in LiveIn(f) : TRUE
    BY <1>2
  <2>2. Holder[f] = t
    BY <1>1, <2>1 DEF HolderSpec
  <2>3. Holder'[f] = t
    BY <1>1, <2>1 DEF HolderSpec
  <2>4. QED
    BY <2>2, <2>3
<1>3. CASE LiveIn(f) = {}
  <2>1. LiveIn(f)' = {}
    BY <1>3
  <2>2. QED
    BY <1>1, <1>3, <2>1 DEF HolderSpec
<1>4. QED
  BY <1>2, <1>3

\* A step that changes it for at most one family is one of the baton's.
LEMMA HolderUpdate ==
  ASSUME NEW f \in Families, NEW h, Holder'[f] = h,
         \A g \in Families : g # f => Holder'[g] = Holder[g]
  PROVE  Holder' = [Holder EXCEPT ![f] = h]
<1>1. Holder = [g \in Families |-> Holder[g]]
  BY DEF Holder
<1>2. Holder' = [g \in Families |-> Holder'[g]]
  BY DEF Holder
<1>3. QED
  BY <1>1, <1>2

LEMMA HolderSame ==
  ASSUME \A g \in Families : Holder'[g] = Holder[g]
  PROVE  Holder' = Holder
  BY DEF Holder

LEMMA BatonInit == Init => Baton!Init
  BY DistinctAssumption DEF Init, Baton!Init, Baton!Nobody, Holder, Minting, Issued

\* An insert opens a family (login) or delivers the baton (refresh).
LEMMA BatonMint ==
  ASSUME IInv, IInv', NEW r \in Requests, Mint(r)
  PROVE  Baton!Next
<1>1. PICK t \in Tokens \ Issued, f \in Families :
        /\ IF tok[r] = NoToken THEN \A u \in Issued : family[u] # f ELSE f = family[tok[r]]
        /\ family' = [family EXCEPT ![t] = f]
        /\ live' = live \cup {t}
  BY DEF Mint
<1>2. /\ pc' = [pc EXCEPT ![r] = "idle"] /\ tok' = [tok EXCEPT ![r] = NoToken] /\ pc[r] = "mint"
      /\ burned' = burned
  BY DEF Mint, Return
<1>3. Issued' = Issued \cup {t}
  BY <1>1, DistinctAssumption DEF IInv, TypeOK, Issued
<1>4. HolderSpec /\ HolderSpec'
  BY HolderCases, HolderCasesNext
<1>5. Holder'[f] = t
  <2>1. t \in LiveIn(f)'
    BY <1>1 DEF IInv, TypeOK, LiveIn
  <2>2. QED
    BY <1>4, <2>1 DEF HolderSpec
<1>6. ASSUME NEW g \in Families, g # f
      PROVE  Holder'[g] = Holder[g]
  <2>1. LiveIn(g)' = LiveIn(g)
    BY <1>1, <1>6 DEF IInv, TypeOK, HeldOK, Issued, LiveIn
  <2>2. Minting(g)' = Minting(g)
    BY <1>1, <1>2, <1>6 DEF IInv, TypeOK, HeldOK, Issued, Minting
  <2>3. Opened(g)' <=> Opened(g)
    BY <1>1, <1>3, <1>6 DEF IInv, TypeOK, Issued, Opened
  <2>4. QED
    BY <2>1, <2>2, <2>3, HolderFrame
<1>7. Holder' = [Holder EXCEPT ![f] = t]
  BY <1>5, <1>6, HolderUpdate
<1>8. CASE tok[r] = NoToken
  <2>1. ~Opened(f) /\ LiveIn(f) = {} /\ Minting(f) = {}
    BY <1>1, <1>8 DEF IInv, HeldOK, Opened, LiveIn, Minting
  <2>2. Holder[f] = "nobody"
    BY <1>4, <2>1 DEF HolderSpec
  <2>3. Baton!Open(f, t)
    BY <1>1, <1>2, <1>3, <1>7, <2>2 DEF Baton!Open, Baton!Nobody
  <2>4. QED
    BY <1>1, <2>3 DEF Baton!Next
<1>9. CASE tok[r] # NoToken
  <2>1. r \in Minting(f)
    BY <1>1, <1>2, <1>9 DEF Minting
  <2>2. LiveIn(f) = {}
    BY <2>1 DEF IInv, OneSuccessor, LiveIn
  <2>3. Holder[f] = "transit"
    BY <1>4, <2>1, <2>2 DEF HolderSpec
  <2>4. Baton!Deliver(f, t)
    BY <1>1, <1>2, <1>3, <1>7, <2>3 DEF Baton!Deliver, Baton!Transit
  <2>5. QED
    BY <1>1, <2>4 DEF Baton!Next
<1>10. QED
  BY <1>8, <1>9

\* The conditional update spends the token or changes nothing.
LEMMA BatonRotate ==
  ASSUME IInv, IInv', NEW r \in Requests, Rotate(r)
  PROVE  Baton!Next \/ UNCHANGED <<Holder, Issued, burned>>
<1>1. /\ pc[r] = "rotate" /\ tok[r] \in Tokens /\ tok[r] \in Issued
      /\ tok' = tok /\ family' = family /\ burned' = burned
      /\ Issued' = Issued
  BY DistinctAssumption DEF Rotate, Proceed, IInv, TypeOK, HeldOK, Issued
<1>2. HolderSpec /\ HolderSpec'
  BY HolderCases, HolderCasesNext
<1>3. CASE tok[r] \in live
  <2>1. PICK f \in Families : f = family[tok[r]] /\ tok[r] # NoToken
    BY <1>1, DistinctAssumption DEF IInv, TypeOK, Issued
  <2>2. live' = live \ {tok[r]} /\ pc' = [pc EXCEPT ![r] = "mint"]
    BY <1>3 DEF Rotate, Proceed
  <2>3. Holder[f] = tok[r]
    BY <1>2, <1>3, <2>1 DEF HolderSpec, LiveIn
  <2>4. r \in Minting(f)'
    BY <1>1, <2>1, <2>2 DEF IInv, TypeOK, Minting
  <2>5. LiveIn(f)' = {}
    BY <1>1, <1>3, <2>1, <2>2 DEF IInv, OneSuccessor, LiveIn
  <2>6. Holder'[f] = "transit"
    BY <1>2, <2>1, <2>4, <2>5 DEF HolderSpec
  <2>7. ASSUME NEW g \in Families, g # f
        PROVE  Holder'[g] = Holder[g]
    <3>1. LiveIn(g)' = LiveIn(g)
      BY <1>1, <2>1, <2>2, <2>7 DEF LiveIn
    <3>2. Minting(g)' = Minting(g)
      BY <1>1, <2>1, <2>2, <2>7 DEF IInv, TypeOK, Minting
    <3>3. Opened(g)' <=> Opened(g)
      BY <1>1 DEF Opened
    <3>4. QED
      BY <3>1, <3>2, <3>3, HolderFrame
  <2>8. Holder' = [Holder EXCEPT ![f] = "transit"]
    BY <2>1, <2>6, <2>7, HolderUpdate
  <2>9. Baton!Spend(f)
    BY <1>1, <2>1, <2>3, <2>8 DEF Baton!Spend, Baton!Transit
  <2>10. QED
    BY <2>1, <2>9 DEF Baton!Next
<1>4. CASE tok[r] \notin live
  <2>1. live' = live /\ pc' = [pc EXCEPT ![r] = "reuse"]
    BY <1>4 DEF Rotate, Proceed
  <2>2. ASSUME NEW g \in Families
        PROVE  Holder'[g] = Holder[g]
    <3>1. LiveIn(g)' = LiveIn(g) /\ (Opened(g)' <=> Opened(g))
      BY <1>1, <2>1 DEF LiveIn, Opened
    <3>2. Minting(g)' = Minting(g)
      BY <1>1, <2>1 DEF IInv, TypeOK, Minting
    <3>3. QED
      BY <3>1, <3>2, HolderFrame
  <2>3. QED
    BY <1>1, <2>2, HolderSame
<1>5. QED
  BY <1>3, <1>4

\* A step that only revokes tokens of one family, or gives up its rotation,
\* drops the baton or changes nothing.
LEMMA BatonRevoke ==
  ASSUME IInv, IInv', NEW f \in Families, UNCHANGED <<family, burned>>,
         live' \subseteq live,
         LiveIn(f)' = LiveIn(f) \/ LiveIn(f)' = {},
         Minting(f)' \subseteq Minting(f),
         \A g \in Families : g # f => LiveIn(g)' = LiveIn(g) /\ Minting(g)' = Minting(g)
  PROVE  Baton!Next \/ UNCHANGED <<Holder, Issued, burned>>
<1>1. Issued' = Issued /\ \A g \in Families : Opened(g)' <=> Opened(g)
  BY DEF Issued, Opened
<1>2. HolderSpec /\ HolderSpec'
  BY HolderCases, HolderCasesNext
<1>3. \A g \in Families : g # f => Holder'[g] = Holder[g]
  BY <1>1, HolderFrame
<1>4. CASE LiveIn(f)' = LiveIn(f) /\ (Minting(f)' = {} <=> Minting(f) = {})
  BY <1>1, <1>3, <1>4, HolderFrame, HolderSame
<1>5. CASE LiveIn(f)' # LiveIn(f) \/ (Minting(f)' = {} /\ Minting(f) # {})
  <2>1. /\ Holder[f] \in Tokens \cup {"transit"}
        /\ LiveIn(f)' = {} /\ Minting(f)' = {} /\ Opened(f)
    <3>1. CASE LiveIn(f)' # LiveIn(f)
      <4>1. PICK t \in LiveIn(f) : TRUE
        BY <3>1
      <4>2. Holder[f] = t /\ t \in Tokens
        BY <1>2, <4>1 DEF HolderSpec, LiveIn, IInv, TypeOK
      <4>3. Minting(f) = {}
        BY <4>1 DEF IInv, OneSuccessor, LiveIn
      <4>4. Opened(f)
        BY <4>1 DEF IInv, HeldOK, Opened, LiveIn
      <4>5. QED
        BY <3>1, <4>2, <4>3, <4>4
    <3>2. CASE Minting(f)' = {} /\ Minting(f) # {}
      <4>1. LiveIn(f) = {}
        BY <3>2 DEF IInv, OneSuccessor, LiveIn
      <4>2. Holder[f] = "transit"
        BY <1>2, <3>2, <4>1 DEF HolderSpec
      <4>3. Opened(f)
        BY <3>2 DEF IInv, HeldOK, Opened, Minting
      <4>4. QED
        BY <3>2, <4>1, <4>2, <4>3
    <3>3. QED
      BY <1>5, <3>1, <3>2
  <2>2. Holder'[f] = "dropped"
    BY <1>1, <1>2, <2>1 DEF HolderSpec
  <2>3. Holder' = [Holder EXCEPT ![f] = "dropped"]
    BY <1>3, <2>2, HolderUpdate
  <2>4. Baton!Drop(f)
    BY <1>1, <2>1, <2>3 DEF Baton!Drop, Baton!Transit, Baton!Dropped
  <2>5. QED
    BY <2>4 DEF Baton!Next
<1>6. QED
  BY <1>4, <1>5

\* Presenting a spent token is a report: it takes the family's live token, and
\* leaves a rotation between its two writes alone.
LEMMA BatonRevokeFamily ==
  ASSUME IInv, IInv', NEW r \in Requests, RevokeFamily(r)
  PROVE  Baton!Next
<1>1. PICK f \in Families : f = family[tok[r]]
  BY DistinctAssumption DEF RevokeFamily, IInv, TypeOK, HeldOK, Issued
<1>2. /\ pc[r] = "reuse" /\ family' = family /\ burned' = burned \cup {f}
      /\ live' = {t \in live : family[t] # f}
      /\ pc' = [pc EXCEPT ![r] = "idle"] /\ tok' = [tok EXCEPT ![r] = NoToken]
  BY <1>1 DEF RevokeFamily, Return
<1>3. \A g \in Families : Minting(g)' = Minting(g) /\ (Opened(g)' <=> Opened(g))
  BY <1>2 DEF IInv, TypeOK, Minting, Opened, Issued
<1>4. \A g \in Families : g # f => Holder'[g] = Holder[g]
  <2>1. \A g \in Families : g # f => LiveIn(g)' = LiveIn(g)
    BY <1>2 DEF LiveIn
  <2>2. QED
    BY <1>3, <2>1, HolderFrame
<1>5. LiveIn(f)' = {} /\ Opened(f) /\ Issued' = Issued
  BY <1>1, <1>2 DEF IInv, HeldOK, LiveIn, Opened, Issued
<1>6. HolderSpec /\ HolderSpec'
  BY HolderCases, HolderCasesNext
<1>7. Holder[f] # "nobody"
  <2>1. CASE \E t \in LiveIn(f) : TRUE
    <3>1. PICK t \in LiveIn(f) : TRUE
      BY <2>1
    <3>2. Holder[f] = t /\ t \in Tokens
      BY <1>6, <3>1 DEF HolderSpec, LiveIn, IInv, TypeOK
    <3>3. QED
      BY <3>2, DistinctAssumption
  <2>2. CASE LiveIn(f) = {}
    BY <1>5, <1>6, <2>2 DEF HolderSpec
  <2>3. QED
    BY <2>1, <2>2
<1>8. Holder'[f] = IF Holder[f] = "transit" THEN "transit" ELSE "dropped"
  <2>1. CASE Minting(f) # {}
    <3>1. LiveIn(f) = {}
      BY <2>1 DEF IInv, OneSuccessor, LiveIn
    <3>2. QED
      BY <1>3, <1>5, <1>6, <2>1, <3>1 DEF HolderSpec
  <2>2. CASE Minting(f) = {}
    <3>1. Holder'[f] = "dropped"
      BY <1>3, <1>5, <1>6, <2>2 DEF HolderSpec
    <3>2. Holder[f] # "transit"
      <4>1. CASE \E t \in LiveIn(f) : TRUE
        <5>1. PICK t \in LiveIn(f) : TRUE
          BY <4>1
        <5>2. Holder[f] = t /\ t \in Tokens
          BY <1>6, <5>1 DEF HolderSpec, LiveIn, IInv, TypeOK
        <5>3. QED
          BY <5>2, DistinctAssumption
      <4>2. CASE LiveIn(f) = {}
        BY <1>5, <1>6, <2>2, <4>2 DEF HolderSpec
      <4>3. QED
        BY <4>1, <4>2
    <3>3. QED
      BY <3>1, <3>2
  <2>3. QED
    BY <2>1, <2>2
<1>9. Holder' = [Holder EXCEPT ![f] = IF @ = "transit" THEN "transit" ELSE "dropped"]
  BY <1>4, <1>8, HolderUpdate
<1>10. Baton!Report(f)
  BY <1>2, <1>5, <1>7, <1>9 DEF Baton!Report, Baton!Nobody, Baton!Transit, Baton!Dropped
<1>11. QED
  BY <1>10 DEF Baton!Next

\* Revoking one token, of any family, by logout or by a password reset.
LEMMA BatonRevokeToken ==
  ASSUME IInv, IInv', NEW t \in Tokens, t \in live => t \in Issued,
         live' = live \ {t}, UNCHANGED <<family, pc, tok, burned>>
  PROVE  Baton!Next \/ UNCHANGED <<Holder, Issued, burned>>
<1>1. \A g \in Families : Minting(g)' = Minting(g)
  BY DEF Minting
<1>2. CASE t \in live
  <2>1. PICK f \in Families : f = family[t]
    BY <1>2 DEF IInv, TypeOK, Issued
  <2>2. LiveIn(f)' = {}
    BY <1>2, <2>1 DEF LiveIn, IInv, OneSuccessor
  <2>3. \A g \in Families : g # f => LiveIn(g)' = LiveIn(g)
    BY <2>1 DEF LiveIn
  <2>4. live' \subseteq live
    OBVIOUS
  <2>5. QED
    BY <1>1, <2>1, <2>2, <2>3, <2>4, BatonRevoke
<1>3. CASE t \notin live
  <2>1. \A g \in Families : LiveIn(g)' = LiveIn(g) /\ (Opened(g)' <=> Opened(g))
    BY <1>3 DEF LiveIn, Opened, Issued
  <2>2. Issued' = Issued
    BY DEF Issued
  <2>3. QED
    BY <1>1, <2>1, <2>2, HolderFrame, HolderSame
<1>4. QED
  BY <1>2, <1>3

LEMMA BatonAwaitRejects ==
  ASSUME IInv, IInv', NEW r \in Requests, AwaitRejects(r)
  PROVE  Baton!Next \/ UNCHANGED <<Holder, Issued, burned>>
<1>1. /\ UNCHANGED <<family, live, burned>>
      /\ pc' = [pc EXCEPT ![r] = "idle"] /\ tok' = [tok EXCEPT ![r] = NoToken]
  BY DEF AwaitRejects, Return
<1>2. \A g \in Families : LiveIn(g)' = LiveIn(g) /\ (Opened(g)' <=> Opened(g)) /\ Issued' = Issued
  BY <1>1 DEF LiveIn, Opened, Issued
<1>3. CASE pc[r] = "mint" /\ tok[r] # NoToken
  <2>1. PICK f \in Families : f = family[tok[r]]
    BY <1>3 DEF IInv, TypeOK, HeldOK, Issued
  <2>2. Minting(f)' \subseteq Minting(f)
    BY <1>1 DEF IInv, TypeOK, Minting
  <2>3. \A g \in Families : g # f => Minting(g)' = Minting(g)
    BY <1>1, <1>3, <2>1 DEF IInv, TypeOK, Minting
  <2>4. live' \subseteq live
    BY <1>1
  <2>5. QED
    BY <1>1, <1>2, <2>1, <2>2, <2>3, <2>4, BatonRevoke
<1>4. CASE ~(pc[r] = "mint" /\ tok[r] # NoToken)
  <2>1. \A g \in Families : Minting(g)' = Minting(g)
    BY <1>1, <1>4 DEF IInv, TypeOK, Minting
  <2>2. Issued' = Issued
    BY <1>1 DEF Issued
  <2>3. QED
    BY <1>1, <1>2, <2>1, <2>2, HolderFrame, HolderSame
<1>5. QED
  BY <1>3, <1>4

\* The other actions touch neither the rows nor a request between its writes.
LEMMA BatonStutter ==
  ASSUME IInv, IInv', UNCHANGED <<rows, burned>>, \A g \in Families : Minting(g)' = Minting(g)
  PROVE  UNCHANGED <<Holder, Issued, burned>>
<1>1. \A g \in Families : LiveIn(g)' = LiveIn(g) /\ (Opened(g)' <=> Opened(g))
  BY DEF LiveIn, Opened, Issued
<1>2. Issued' = Issued
  BY DEF Issued
<1>3. QED
  BY <1>1, <1>2, HolderFrame, HolderSame

LEMMA BatonNext ==
  ASSUME IInv, IInv', [Next]_vars
  PROVE  [Baton!Next]_<<Holder, Issued, burned>>
<1>1. ASSUME NEW r \in Requests, RequestStep(r)
      PROVE  Baton!Next \/ UNCHANGED <<Holder, Issued, burned>>
  <2>1. CASE Mint(r)
    BY <2>1, BatonMint
  <2>2. CASE Rotate(r)
    BY <2>2, BatonRotate
  <2>3. CASE RevokeFamily(r)
    BY <2>3, BatonRevokeFamily
  <2>4. CASE RevokeSession(r)
    <3>1. PICK t \in todo[r] : live' = live \ {t}
      BY <2>4 DEF RevokeSession
    <3>2. t \in Tokens /\ (t \in live => t \in Issued) /\ UNCHANGED <<family, pc, tok, burned>>
      BY <2>4, <3>1 DEF RevokeSession, IInv, TypeOK, HeldOK
    <3>3. QED
      BY <3>1, <3>2, BatonRevokeToken
  <2>5. CASE AwaitRejects(r)
    BY <2>5, BatonAwaitRejects
  <2>6. CASE \/ Login(r) \/ OAuthLogin(r) \/ CheckUser(r) \/ ResetPassword(r) \/ SetPassword(r)
             \/ MarkResetUsed(r) \/ ListSessions(r) \/ ResetReturns(r)
             \/ \E t \in Tokens : Refresh(r, t)
    <3>1. UNCHANGED <<rows, burned>>
      BY <2>6 DEF Login, OAuthLogin, CheckUser, ResetPassword, SetPassword, MarkResetUsed,
                  ListSessions, ResetReturns, Refresh
    <3>2. \A s \in Requests : s # r => pc'[s] = pc[s] /\ tok'[s] = tok[s]
      BY <2>6 DEF IInv, TypeOK, Login, OAuthLogin, CheckUser, ResetPassword,
         SetPassword, MarkResetUsed,
                  ListSessions, ResetReturns, Refresh, Proceed, Return
    <3>3. /\ ~(pc[r] = "mint" /\ tok[r] # NoToken)
          /\ ~(pc'[r] = "mint" /\ tok'[r] # NoToken)
      BY <2>6 DEF IInv, TypeOK, HeldOK, Login, OAuthLogin, CheckUser, ResetPassword,
         SetPassword,
                  MarkResetUsed, ListSessions, ResetReturns, Refresh, Proceed, Return
    <3>4. \A g \in Families : Minting(g)' = Minting(g)
      BY <3>1, <3>2, <3>3 DEF Minting
    <3>5. QED
      BY <3>1, <3>4, BatonStutter
  <2>7. QED
    BY <1>1, <2>1, <2>2, <2>3, <2>4, <2>5, <2>6 DEF RequestStep
<1>2. ASSUME NEW t \in Tokens, Logout(t)
      PROVE  Baton!Next \/ UNCHANGED <<Holder, Issued, burned>>
  BY <1>2, BatonRevokeToken DEF Logout
<1>3. CASE SetUserStatus
  BY <1>3, BatonStutter DEF SetUserStatus, Minting
<1>4. CASE UNCHANGED vars
  BY <1>4, BatonStutter DEF Minting
<1>5. QED
  BY <1>1, <1>2, <1>3, <1>4 DEF Next

\* Every behaviour of the refresh tokens is one of the baton's: a family is
\* never in two hands, and once dropped never picked up again.
THEOREM Refinement == Spec => ImplementsBaton
<1>1. IInv /\ IInv' /\ [Next]_vars => [Baton!Next]_<<Holder, Issued, burned>>
  BY BatonNext
<1>2. QED
  BY <1>1, BatonInit, Inductive, PTL DEF Spec, Baton!Spec, ImplementsBaton

-----------------------------------------------------------------------------
(* SIGN-IN *)

\* Calls that may have raised the route's counter, the lockout counter, or
\* have cleared it.
RateTaken == {c \in Calls : at[c] \notin {"idle", "rate"}}
InMemory  == {c \in Calls : hit[c].store = "memory"}
LockTaken == {c \in Calls : at[c] \notin {"idle", "rate", "expire", "ttl", "lock"}}
Cleared   == {c \in Calls : at[c] = "session"}

CountsOK ==
  /\ rate.count <= Cardinality(RateTaken) /\ rate.window <= windows
  /\ memory.count <= Cardinality(InMemory) /\ memory.window <= windows
  /\ lock.count <= Cardinality(LockTaken) /\ lock.window <= windows + Cardinality(Cleared)

\* A hit is a number its counter has given, to one call only.
Given(h, k) ==
  h.count > 0 /\ h.window <= k.window /\ (h.window = k.window => h.count <= k.count)

HitsOK ==
  /\ \A c \in Calls :
       /\ at[c] \in {"idle", "rate"} => hit[c].store = "none"
       /\ at[c] \in {"expire", "ttl"} => hit[c].store = "redis"
       /\ hit[c].store = "redis" => Given(hit[c], rate)
       /\ hit[c].store = "memory" => Given(hit[c], memory)
  /\ \A c, d \in Calls : c # d /\ hit[c].store # "none" => hit[c] # hit[d]

TriesOK ==
  /\ \A c \in Calls : try[c].count > 0 => Given(try[c], lock)
  /\ \A c, d \in Calls : c # d /\ try[c].count > 0 => try[c] # try[d]

\* The statements of each kind of call.
Route(k) ==
  {"idle", "done"} \cup
  CASE k = "good" -> {"rate", "expire", "ttl", "lock", "lockExpire", "user", "clear", "session"}
    [] k = "bad" -> {"rate", "expire", "ttl", "lock", "lockExpire", "user"}
    [] k = "register" -> {"insert", "role", "token", "mail", "died"}
    [] k = "verify" -> {"read", "mark", "activate", "died"}
    [] k = "oauth" -> {"read", "email", "create", "oauthRole", "link", "session", "died"}
    [] OTHER -> {"read", "set"}

RowsOK ==
  /\ account.status = "none" => account.token = "none"
  /\ \A c \in Calls :
       /\ at[c] \in Route(kind[c])
       /\ at[c] \in {"role", "token", "mail", "set"} => account.status # "none"
       /\ kind[c] = "verify" /\ at[c] # "idle" => account.token # "none"
       /\ kind[c] = "good" /\ at[c] \in {"clear", "session"} => account.verified

RedisInv == CountsOK /\ HitsOK /\ TriesOK /\ CountersEnd
RowsInv  == RowsOK /\ AccountsComplete
GuardInv == AccountsTypeOK /\ RedisInv /\ RowsInv

\* A counted attempt that is refused has gone no further, and the first attempt
\* of a window holds the number one until its key has its hour.
LockedOut ==
  \A c \in Calls :
    /\ at[c] = "lockExpire" => try[c].count = 1
    /\ Locked(try[c].count) => at[c] \in {"lockExpire", "done"}

\* The monitor has counted the samples that were answered.
MonitorOK == answered = monitor.recoveries

USE DEF link, health, counters, call, Hit, Try

-----------------------------------------------------------------------------
(* Sizes *)

LEMMA CallsSize ==
  ASSUME NEW S, S \subseteq Calls
  PROVE  IsFiniteSet(S) /\ Cardinality(S) \in Nat /\ Cardinality(S) <= Cardinality(Calls)
BY AccountsAssumption, FS_Subset, FS_CardinalityType

LEMMA Grows ==
  ASSUME NEW S, NEW T, S \subseteq T, T \subseteq Calls
  PROVE  Cardinality(S) <= Cardinality(T)
BY CallsSize, FS_Subset

LEMMA GrowsByOne ==
  ASSUME NEW S, NEW T, S \subseteq T, T \subseteq Calls, NEW c \in T, c \notin S
  PROVE  Cardinality(S) + 1 <= Cardinality(T)
<1>1. S \cup {c} \subseteq T /\ S \subseteq Calls
  OBVIOUS
<1>2. Cardinality(S \cup {c}) <= Cardinality(T)
  BY <1>1, Grows
<1>3. Cardinality(S \cup {c}) = Cardinality(S) + 1
  BY <1>1, CallsSize, FS_AddElement
<1>4. QED
  BY <1>2, <1>3

\* The ranges of the counters.
LEMMA Ranges ==
  /\ Cardinality(Calls) \in Nat /\ Counts \subseteq Nat /\ Epochs \subseteq Nat
  /\ \A n \in Nat : n \in Counts <=> n <= Cardinality(Calls)
  /\ \A n \in Nat : n \in Epochs <=> n <= MaxWindows + Cardinality(Calls)
  /\ MaxWindows \in Nat /\ Max \in Nat /\ LockAt \in Nat
BY AccountsAssumption, CallsSize DEF Counts, Epochs

\* Different numbers between 1 and n: there are n of them at most.
LEMMA AtMost ==
  ASSUME NEW S, S \subseteq Calls, NEW n \in Nat, NEW f \in [S -> 1..n],
         \A c, d \in S : c # d => f[c] # f[d]
  PROVE  Cardinality(S) <= n
<1>1. IsFiniteSet(1..n) /\ Cardinality(1..n) = n
  BY FS_Interval
<1>2. IsFiniteSet(S) /\ Cardinality(S) \in Nat
  BY CallsSize
<1>3. SUFFICES ASSUME n < Cardinality(S) PROVE FALSE
  BY <1>2
<1>4. \E c, d \in S : c # d /\ f[c] = f[d]
  BY <1>1, <1>2, <1>3, FS_PigeonHole
<1>5. QED
  BY <1>4

-----------------------------------------------------------------------------
(* What the invariant says of a sign-in *)

LEMMA AdmittedBounded == GuardInv => AdmittedPerWindow
<1>1. SUFFICES ASSUME GuardInv, NEW s \in {"redis", "memory"}, NEW w \in Epochs
               PROVE  Cardinality({c \in Calls : hit[c].store = s /\ hit[c].window = w
                                                   /\ Admitted(hit[c])}) <= Max
  BY DEF AdmittedPerWindow
<1> DEFINE S == {c \in Calls : hit[c].store = s /\ hit[c].window = w /\ Admitted(hit[c])}
           f == [c \in S |-> hit[c].count]
<1>2. f \in [S -> 1..Max]
  BY DEF Admitted
<1>3. ASSUME NEW c \in S, NEW d \in S, c # d
      PROVE  f[c] # f[d]
  <2>1. hit[c] # hit[d] /\ hit[c].store = hit[d].store /\ hit[c].window = hit[d].window
    BY <1>1, <1>3 DEF GuardInv, RedisInv, HitsOK
  <2>2. \A h, g \in Hit :
          h.store = g.store /\ h.count = g.count /\ h.window = g.window => h = g
    OBVIOUS
  <2>3. /\ hit[c] \in Hit
        /\ hit[d] \in Hit
    BY <1>1, <1>3 DEF GuardInv, AccountsTypeOK
  <2>4. hit[c].count # hit[d].count
    BY <2>1, <2>2, <2>3
  <2>5. f[c] = hit[c].count /\ f[d] = hit[d].count
    BY <1>3
  <2> HIDE DEF f
  <2>6. QED
    BY <2>4, <2>5
<1>4. Max \in Nat /\ S \subseteq Calls
  BY Ranges
<1> HIDE DEF S, f
<1>5. Cardinality(S) <= Max
  BY <1>2, <1>3, <1>4, AtMost
<1>6. QED
  BY <1>5 DEF S

LEMMA ChecksBounded == GuardInv /\ LockedOut => ChecksPerWindow
<1>1. SUFFICES ASSUME GuardInv, LockedOut, NEW w \in Epochs
               PROVE  Cardinality({c \in Calls : try[c].window = w
                                      /\ try[c].count \in 1..(LockAt - 1)}) < LockAt
  BY DEF ChecksPerWindow, LockedOut
<1> DEFINE S == {c \in Calls : try[c].window = w /\ try[c].count \in 1..(LockAt - 1)}
           f == [c \in S |-> try[c].count]
<1>2. f \in [S -> 1..(LockAt - 1)]
  OBVIOUS
<1>3. ASSUME NEW c \in S, NEW d \in S, c # d
      PROVE  f[c] # f[d]
  <2>1. try[c] # try[d] /\ try[c].window = try[d].window
    BY <1>1, <1>3 DEF GuardInv, RedisInv, TriesOK
  <2>2. \A h, g \in Try :
          h.count = g.count /\ h.window = g.window => h = g
    OBVIOUS
  <2>3. /\ try[c] \in Try
        /\ try[d] \in Try
    BY <1>1, <1>3 DEF GuardInv, AccountsTypeOK
  <2>4. try[c].count # try[d].count
    BY <2>1, <2>2, <2>3
  <2>5. f[c] = try[c].count /\ f[d] = try[d].count
    BY <1>3
  <2> HIDE DEF f
  <2>6. QED
    BY <2>4, <2>5
<1>4. LockAt \in Nat \ {0}
  BY AccountsAssumption
<1>5. Cardinality(S) \in Nat
  BY CallsSize
<1>6. LockAt - 1 \in Nat /\ S \subseteq Calls
  BY <1>4
<1> HIDE DEF S, f
<1>7. Cardinality(S) <= LockAt - 1
  BY <1>2, <1>3, <1>6, AtMost
<1>8. QED
  BY <1>4, <1>5, <1>7 DEF S

LEMMA GuardHolds == GuardInv /\ LockedOut => SignInGuards
BY AdmittedBounded, ChecksBounded
   DEF GuardInv, RedisInv, RowsInv, RowsOK, SignInGuards, SessionsAreEarned

\* The numbers the counts are about.
Numbers ==
  /\ rate.count \in Nat /\ memory.count \in Nat /\ lock.count \in Nat
  /\ rate.window \in Nat /\ memory.window \in Nat /\ lock.window \in Nat /\ windows \in Nat
  /\ Cardinality(RateTaken) \in Nat /\ Cardinality(InMemory) \in Nat
  /\ Cardinality(LockTaken) \in Nat /\ Cardinality(Cleared) \in Nat

LEMMA Sized == AccountsTypeOK => Numbers
<1>1. SUFFICES ASSUME AccountsTypeOK PROVE Numbers
  OBVIOUS
<1>2. /\ RateTaken \subseteq Calls /\ InMemory \subseteq Calls
      /\ LockTaken \subseteq Calls /\ Cleared \subseteq Calls
  BY DEF RateTaken, InMemory, LockTaken, Cleared
<1>3. /\ Cardinality(RateTaken) \in Nat /\ Cardinality(InMemory) \in Nat
      /\ Cardinality(LockTaken) \in Nat /\ Cardinality(Cleared) \in Nat
  BY <1>2, CallsSize
<1>4. \A k \in Counter : k.count \in Nat /\ k.window \in Nat
  BY Ranges DEF Counter
<1>5. windows \in Nat
  BY <1>1, Ranges DEF AccountsTypeOK
<1>6. QED
  BY <1>1, <1>3, <1>4, <1>5 DEF AccountsTypeOK, Numbers

LEMMA SizedNext == AccountsTypeOK' => Numbers'
BY Sized, PTL

-----------------------------------------------------------------------------
(* Frames *)

\* A step that leaves the counters, the row and the calls alone.
LEMMA Elsewhere ==
  ASSUME GuardInv, UNCHANGED <<counters, account, call, at>>
  PROVE  RedisInv' /\ RowsInv'
<1>1. CountsOK' /\ HitsOK' /\ TriesOK' /\ CountersEnd'
  BY DEF GuardInv, RedisInv, CountsOK, RateTaken, InMemory, LockTaken, Cleared, HitsOK, TriesOK,
     Given,
         CountersEnd
<1>2. RowsOK' /\ AccountsComplete'
  BY DEF GuardInv, RowsInv, RowsOK, AccountsComplete
<1>3. QED
  BY <1>1, <1>2 DEF RedisInv, RowsInv

\* A call goes on without writing to the users row, and is not the one that
\* completes it.
LEMMA RowsKept ==
  ASSUME GuardInv, NEW c \in Calls, NEW label \in Route(kind[c]),
         at[c] \notin {"role", "oauthRole", "activate", "died"},
         label \in {"role", "token", "mail", "set"} => account.status # "none",
         kind[c] = "verify" => account.token # "none",
         kind[c] = "good" /\ label \in {"clear", "session"} => account.verified,
         at' = [at EXCEPT ![c] = label], UNCHANGED <<account, kind>>
  PROVE  RowsInv'
<1>1. at \in [Calls -> Labels]
  BY DEF GuardInv, AccountsTypeOK
<1>2. RowsOK'
  BY <1>1 DEF GuardInv, RowsInv, RowsOK
<1>3. AccountsComplete'
  BY <1>1 DEF GuardInv, RowsInv, AccountsComplete
<1>4. QED
  BY <1>2, <1>3 DEF RowsInv

\* A call that is at no statement of the two counters goes on.
LEMMA CountersKept ==
  ASSUME GuardInv, NEW c \in Calls, NEW label \in Labels,
         at[c] \notin {"rate", "expire", "ttl", "lock", "lockExpire", "session"},
         label \notin {"idle", "expire", "ttl"},
         at[c] # "idle" => label \notin {"rate", "lock"},
         at' = [at EXCEPT ![c] = label], UNCHANGED <<counters, call>>
  PROVE  RedisInv'
<1>1. at \in [Calls -> Labels]
  BY DEF GuardInv, AccountsTypeOK
<1>2. CountsOK'
  <2>1. RateTaken \subseteq RateTaken' /\ RateTaken' \subseteq Calls
    BY <1>1 DEF RateTaken
  <2>2. LockTaken \subseteq LockTaken' /\ LockTaken' \subseteq Calls
    BY <1>1 DEF LockTaken
  <2>3. Cleared \subseteq Cleared' /\ Cleared' \subseteq Calls
    BY <1>1 DEF Cleared
  <2>4. InMemory' = InMemory
    BY DEF InMemory
  <2>5. /\ Cardinality(RateTaken) <= Cardinality(RateTaken')
        /\ Cardinality(LockTaken) <= Cardinality(LockTaken')
        /\ Cardinality(Cleared) <= Cardinality(Cleared')
    BY <2>1, <2>2, <2>3, Grows
  <2>6. Numbers /\ Cardinality(RateTaken') \in Nat /\ Cardinality(LockTaken') \in Nat
        /\ Cardinality(Cleared') \in Nat
    BY <2>1, <2>2, <2>3, CallsSize, Sized DEF GuardInv
  <2>7. QED
    BY <2>4, <2>5, <2>6
    DEF GuardInv, RedisInv, CountsOK, Numbers
<1>3. HitsOK' /\ TriesOK'
  BY <1>1 DEF GuardInv, RedisInv, HitsOK, TriesOK, Given
<1>4. CountersEnd'
  BY <1>1 DEF GuardInv, RedisInv, CountersEnd
<1>5. QED
  BY <1>2, <1>3, <1>4 DEF RedisInv

-----------------------------------------------------------------------------
(* Sign-in *)

\* A login falls back to the instance's memory; its command to Redis may have
\* been run (rate.count, rate.ttl) or not.
LEMMA FallsBack ==
  ASSUME GuardInv, NEW c \in Calls, at[c] \in {"rate", "expire", "ttl"}, MemoryHit(c),
         UNCHANGED <<lock, windows, try, kind, account>>,
         rate' \in Counter, rate'.window = rate.window,
         rate'.count \in {rate.count, rate.count + 1},
         rate'.count > rate.count => at[c] = "rate",
         lost \subseteq lost',
         rate'.count > 0 /\ ~rate'.ttl =>
           "rate" \in lost' \/ \E d \in Calls \ {c} : at[d] = "expire"
  PROVE  /\ memory' \in Counter
         /\ hit' \in [Calls -> Hit]
         /\ at' \in [Calls -> Labels]
         /\ RedisInv' /\ RowsInv'
<1> DEFINE h == [store |-> "memory", count |-> memory.count + 1, window |-> memory.window]
           label == IF Admitted(h) THEN "lock" ELSE "done"
<1>1. /\ memory' = [memory EXCEPT !.count = memory.count + 1]
      /\ hit' = [hit EXCEPT ![c] = h] /\ at' = [at EXCEPT ![c] = label]
  BY DEF MemoryHit, Incremented, Goto
<1>2. /\ at \in [Calls -> Labels] /\ label \in {"lock", "done"} /\ memory \in Counter
      /\ hit \in [Calls -> Hit]
      /\ Numbers
  BY Sized DEF GuardInv, AccountsTypeOK
<1>3. memory'.count = memory.count + 1 /\ memory'.window = memory.window /\ memory'.ttl = memory.ttl
  BY <1>1, <1>2 DEF Counter
<1>4. /\ RateTaken \subseteq RateTaken' /\ RateTaken' \subseteq Calls
      /\ at[c] = "rate" => c \in RateTaken' /\ c \notin RateTaken
  BY <1>1, <1>2 DEF RateTaken
<1>5. /\ InMemory \subseteq InMemory' /\ InMemory' \subseteq Calls
      /\ c \in InMemory' /\ c \notin InMemory
  BY <1>1, <1>2 DEF InMemory, GuardInv, RedisInv, HitsOK
<1>6. LockTaken \subseteq LockTaken' /\ LockTaken' \subseteq Calls
  BY <1>1, <1>2 DEF LockTaken
<1>7. Cleared' = Cleared
  BY <1>1, <1>2 DEF Cleared
<1>8. /\ Cardinality(RateTaken) <= Cardinality(RateTaken') /\ Cardinality(RateTaken') \in Nat
      /\ at[c] = "rate" => Cardinality(RateTaken) + 1 <= Cardinality(RateTaken')
  BY <1>4, Grows, GrowsByOne, CallsSize
<1>9. /\ Cardinality(InMemory) + 1 <= Cardinality(InMemory')
      /\ Cardinality(InMemory') \in Nat /\ Cardinality(InMemory') <= Cardinality(Calls)
  BY <1>5, GrowsByOne, CallsSize
<1>10. Cardinality(LockTaken) <= Cardinality(LockTaken') /\ Cardinality(LockTaken') \in Nat
  BY <1>6, Grows, CallsSize
<1>11. CountsOK'
  BY <1>2, <1>3, <1>7, <1>8, <1>9, <1>10 DEF GuardInv, RedisInv, CountsOK, Numbers
<1>12. memory.count + 1 \in Counts
  BY <1>2, <1>9, Ranges DEF GuardInv, RedisInv, CountsOK, Numbers
<1>13. memory' \in Counter /\ h \in Hit
  BY <1>1, <1>2, <1>12 DEF Counter
<1>14. HitsOK'
  <2>1. \A d \in Calls : /\ at'[d] \in {"idle", "rate"} => hit'[d].store = "none"
                         /\ at'[d] \in {"expire", "ttl"} => hit'[d].store = "redis"
    BY <1>1, <1>2 DEF GuardInv, RedisInv, HitsOK
  <2>2. \A d \in Calls : hit'[d].store = "redis" => Given(hit'[d], rate')
    <3>1. TAKE d \in Calls
    <3>2. HAVE hit'[d].store = "redis"
    <3>3. d # c /\ hit'[d] = hit[d]
      BY <1>1, <1>2, <3>2
    <3>4. Given(hit[d], rate)
      BY <3>2, <3>3 DEF GuardInv, RedisInv, HitsOK
    <3>5. hit[d].count \in Nat /\ hit[d].window \in Nat
      BY <1>2, Ranges
    <3>6. QED
      BY <1>2, <3>3, <3>4, <3>5 DEF Given, Numbers
  <2>3. \A d \in Calls : hit'[d].store = "memory" => Given(hit'[d], memory')
    <3>1. TAKE d \in Calls
    <3>2. HAVE hit'[d].store = "memory"
    <3>3. CASE d = c
      BY <1>1, <1>2, <1>3, <3>3 DEF Given, Numbers
    <3>4. CASE d # c
      <4>1. hit'[d] = hit[d]
        BY <1>1, <1>2, <3>4
      <4>2. Given(hit[d], memory)
        BY <3>2, <4>1 DEF GuardInv, RedisInv, HitsOK
      <4>3. hit[d].count \in Nat /\ hit[d].window \in Nat
        BY <1>2, Ranges
      <4>4. QED
        BY <1>2, <1>3, <4>1, <4>2, <4>3 DEF Given, Numbers
    <3>5. QED
      BY <3>3, <3>4
  <2>4. ASSUME NEW d \in Calls, d # c, hit[d].store = "memory", hit[d].window = memory.window
        PROVE  hit[d].count # memory.count + 1
    BY <1>2, <2>4, Ranges DEF GuardInv, RedisInv, HitsOK, Given, Numbers
  <2>5. \A d \in Calls : d # c => hit[d] # h
    BY <2>4
  <2>6. \A d, e \in Calls : d # e /\ hit'[d].store # "none" => hit'[d] # hit'[e]
    BY <1>1, <1>2, <2>5 DEF GuardInv, RedisInv, HitsOK
  <2>7. QED
    BY <2>1, <2>2, <2>3, <2>6 DEF HitsOK
<1>15. TriesOK'
  BY DEF GuardInv, RedisInv, TriesOK, Given
<1>16. CountersEnd'
  BY <1>1, <1>2 DEF GuardInv, RedisInv, CountersEnd
<1>17. RowsInv'
  <2>1. kind[c] \in {"good", "bad"} /\ label \in Route(kind[c])
    BY <1>2 DEF GuardInv, RowsInv, RowsOK, Route, AccountsTypeOK, Kinds
  <2>2. QED
    BY <1>1, <1>2, <2>1, RowsKept
<1>18. QED
  BY <1>1, <1>2, <1>11, <1>13, <1>14, <1>15, <1>16, <1>17 DEF RedisInv, Labels

\* What a command to Redis does to the link.
LEMMA LinkTyped ==
  ASSUME AccountsTypeOK, Answered \/ Broken \/ Refused
  PROVE  /\ up' \in BOOLEAN /\ client' \in {"connected", "reconnecting", "ended"}
         /\ troubles' \in 0..MaxTroubles
<1>1. MaxTroubles \in Nat
  BY AccountsAssumption
<1>2. QED
  BY <1>1 DEF AccountsTypeOK, Answered, Broken, Refused, LoseConnection

LEMMA BypassRedisPreserves ==
  ASSUME GuardInv, NEW c \in Calls, BypassRedis(c)
  PROVE  GuardInv'
<1>1. /\ MemoryHit(c) /\ at[c] = "rate" /\ UNCHANGED <<link, rate, lock, lost, windows, try>>
      /\ UNCHANGED <<health, account, kind, deaths>>
  BY DEF BypassRedis, Guarded, At
<1>2. rate \in Counter /\ Numbers
  BY Sized DEF GuardInv, AccountsTypeOK
<1>3. rate'.count > 0 /\ ~rate'.ttl => "rate" \in lost' \/ \E d \in Calls \ {c} : at[d] = "expire"
  BY <1>1 DEF GuardInv, RedisInv, CountersEnd
<1>4. /\ memory' \in Counter
      /\ hit' \in [Calls -> Hit]
      /\ at' \in [Calls -> Labels]
      /\ RedisInv' /\ RowsInv'
  BY <1>1, <1>2, <1>3, FallsBack DEF Numbers
<1>5. QED
  BY <1>1, <1>4 DEF GuardInv, AccountsTypeOK

\* INCR answered: the call holds the counter's newest number.
LEMMA RateAnswered ==
  ASSUME GuardInv, NEW c \in Calls, RateIncr(c), Answered, rate' = Incremented(rate),
         hit' = [hit EXCEPT ![c] = [store |-> "redis", count |-> Total(rate), window |-> rate.window]],
         Goto(c, IF Total(rate) = 1 THEN "expire" ELSE "ttl"), UNCHANGED <<memory, lost>>
  PROVE  GuardInv'
<1> DEFINE h == [store |-> "redis", count |-> rate.count + 1, window |-> rate.window]
           label == IF rate.count + 1 = 1 THEN "expire" ELSE "ttl"
<1>1. /\ rate' = [rate EXCEPT !.count = rate.count + 1]
      /\ hit' = [hit EXCEPT ![c] = h] /\ at' = [at EXCEPT ![c] = label] /\ at[c] = "rate"
      /\ UNCHANGED <<link, memory, lost, lock, windows, try>>
      /\ UNCHANGED <<health, account, kind, deaths>>
  BY DEF RateIncr, Incremented, Total, Goto, At, Answered, Guarded
<1>2. /\ at \in [Calls -> Labels] /\ label \in {"expire", "ttl"} /\ rate \in Counter
      /\ hit \in [Calls -> Hit]
      /\ Numbers
  BY Sized DEF GuardInv, AccountsTypeOK
<1>3. rate'.count = rate.count + 1 /\ rate'.window = rate.window /\ rate'.ttl = rate.ttl
  BY <1>1, <1>2 DEF Counter
<1>4. RateTaken \subseteq RateTaken' /\ RateTaken' \subseteq Calls /\ c \in RateTaken' /\ c \notin RateTaken
  BY <1>1, <1>2 DEF RateTaken
<1>5. InMemory' = InMemory /\ LockTaken' = LockTaken /\ Cleared' = Cleared
  BY <1>1, <1>2 DEF InMemory, LockTaken, Cleared, GuardInv, RedisInv, HitsOK
<1>6. /\ Cardinality(RateTaken) + 1 <= Cardinality(RateTaken')
      /\ Cardinality(RateTaken') \in Nat /\ Cardinality(RateTaken') <= Cardinality(Calls)
  BY <1>4, GrowsByOne, CallsSize
<1>7. CountsOK'
  BY <1>1, <1>2, <1>3, <1>5, <1>6 DEF GuardInv, RedisInv, CountsOK, Numbers
<1>8. rate.count + 1 \in Counts
  BY <1>2, <1>6, Ranges DEF GuardInv, RedisInv, CountsOK, Numbers
<1>9. /\ rate' \in Counter /\ (rate'.ttl => rate'.count > 0)
      /\ h \in Hit
  BY <1>1, <1>2, <1>3, <1>8 DEF Counter, Numbers
<1>10. AccountsTypeOK'
  BY <1>1, <1>2, <1>9 DEF GuardInv, AccountsTypeOK, Labels
<1>11. HitsOK'
  <2>1. \A d \in Calls : /\ at'[d] \in {"idle", "rate"} => hit'[d].store = "none"
                         /\ at'[d] \in {"expire", "ttl"} => hit'[d].store = "redis"
    BY <1>1, <1>2 DEF GuardInv, RedisInv, HitsOK
  <2>2. \A d \in Calls : hit'[d].store = "memory" => Given(hit'[d], memory')
    BY <1>1, <1>2 DEF GuardInv, RedisInv, HitsOK
  <2>3. \A d \in Calls : hit'[d].store = "redis" => Given(hit'[d], rate')
    <3>1. TAKE d \in Calls
    <3>2. HAVE hit'[d].store = "redis"
    <3>3. CASE d = c
      BY <1>1, <1>2, <1>3, <3>3 DEF Given, Numbers
    <3>4. CASE d # c
      <4>1. hit'[d] = hit[d]
        BY <1>1, <1>2, <3>4
      <4>2. Given(hit[d], rate)
        BY <3>2, <4>1 DEF GuardInv, RedisInv, HitsOK
      <4>3. hit[d].count \in Nat /\ hit[d].window \in Nat
        BY <1>2, Ranges
      <4>4. QED
        BY <1>2, <1>3, <4>1, <4>2, <4>3 DEF Given, Numbers
    <3>5. QED
      BY <3>3, <3>4
  <2>4. ASSUME NEW d \in Calls, d # c, hit[d].store = "redis", hit[d].window = rate.window
        PROVE  hit[d].count # rate.count + 1
    BY <1>2, <2>4, Ranges DEF GuardInv, RedisInv, HitsOK, Given, Numbers
  <2>5. \A d \in Calls : d # c => hit[d] # h
    BY <2>4
  <2>6. \A d, e \in Calls : d # e /\ hit'[d].store # "none" => hit'[d] # hit'[e]
    BY <1>1, <1>2, <2>5 DEF GuardInv, RedisInv, HitsOK
  <2>7. QED
    BY <2>1, <2>2, <2>3, <2>6 DEF HitsOK
<1>12. TriesOK'
  BY <1>1 DEF GuardInv, RedisInv, TriesOK, Given
<1>13. CountersEnd'
  <2>1. rate.count = 0 => at'[c] = "expire"
    BY <1>1, <1>2
  <2>2. rate.count > 0 /\ ~rate.ttl => "rate" \in lost' \/ \E d \in Calls : at'[d] = "expire"
    BY <1>1, <1>2 DEF GuardInv, RedisInv, CountersEnd
  <2>3. lock'.count > 0 /\ ~lock'.ttl => "lock" \in lost' \/ \E d \in Calls : at'[d] = "lockExpire"
    BY <1>1, <1>2 DEF GuardInv, RedisInv, CountersEnd
  <2>4. QED
    BY <1>2, <1>3, <2>1, <2>2, <2>3 DEF CountersEnd, Numbers
<1>14. RowsInv'
  <2>1. kind[c] \in {"good", "bad"} /\ label \in Route(kind[c])
    BY <1>1, <1>2 DEF GuardInv, RowsInv, RowsOK, Route, AccountsTypeOK, Kinds
  <2>2. QED
    BY <1>1, <1>2, <2>1, RowsKept
<1>15. QED
  BY <1>7, <1>10, <1>11, <1>12, <1>13, <1>14 DEF GuardInv, RedisInv

LEMMA RateIncrPreserves ==
  ASSUME GuardInv, NEW c \in Calls, RateIncr(c)
  PROVE  GuardInv'
<1>1. CASE Answered /\ rate' = Incremented(rate) /\ UNCHANGED <<memory, lost>>
           /\ hit' = [hit EXCEPT ![c] = [store |-> "redis", count |-> Total(rate), window |-> rate.window]]
           /\ Goto(c, IF Total(rate) = 1 THEN "expire" ELSE "ttl")
  BY <1>1, RateAnswered
<1>2. CASE \/ /\ Broken /\ rate' = Incremented(rate)
              /\ lost' = IF rate.count = 0 THEN lost \cup {"rate"} ELSE lost
              /\ MemoryHit(c)
           \/ Refused /\ MemoryHit(c) /\ UNCHANGED <<rate, lost>>
  <2>1. /\ MemoryHit(c) /\ at[c] = "rate" /\ UNCHANGED <<lock, windows, try>>
        /\ UNCHANGED <<health, account, kind, deaths>>
        /\ rate' = [rate EXCEPT !.count = rate.count + 1] \/ rate' = rate
    BY <1>2 DEF RateIncr, Guarded, At, Incremented
  <2>2. rate \in Counter /\ Numbers /\ lost \subseteq {"rate", "lock"} /\ at \in [Calls -> Labels]
        /\ (rate.ttl => rate.count > 0)
    BY Sized DEF GuardInv, AccountsTypeOK
  <2>3. /\ rate'.window = rate.window /\ rate'.ttl = rate.ttl
        /\ rate'.count \in {rate.count, rate.count + 1}
    BY <2>1, <2>2 DEF Counter
  <2>4. rate.count + 1 \in Counts
    <3>1. RateTaken \cup {c} \subseteq Calls /\ c \notin RateTaken
      BY <2>1 DEF RateTaken
    <3>2. Cardinality(RateTaken) + 1 <= Cardinality(RateTaken \cup {c})
      BY <3>1, GrowsByOne
    <3>3. Cardinality(RateTaken \cup {c}) \in Nat
          /\ Cardinality(RateTaken \cup {c}) <= Cardinality(Calls)
      BY <3>1, CallsSize
    <3>4. QED
      BY <2>2, <3>2, <3>3, Ranges DEF GuardInv, RedisInv, CountsOK, Numbers
  <2>5. rate' \in Counter /\ (rate'.ttl => rate'.count > 0)
    BY <2>1, <2>2, <2>3, <2>4 DEF Counter, Numbers
  <2>6. rate'.count > 0 /\ ~rate'.ttl => "rate" \in lost' \/ \E d \in Calls \ {c} : at[d] = "expire"
    <3>1. rate.count > 0 /\ ~rate.ttl => "rate" \in lost \/ \E d \in Calls \ {c} : at[d] = "expire"
      BY <2>1 DEF GuardInv, RedisInv, CountersEnd
    <3>2. lost \subseteq lost' /\ (rate' = rate \/ rate.count > 0 \/ "rate" \in lost')
      BY <1>2, <2>2 DEF Numbers
    <3>3. QED
      BY <2>2, <2>3, <3>1, <3>2 DEF Numbers
  <2>7. lost \subseteq lost' /\ lost' \subseteq {"rate", "lock"}
    BY <1>2, <2>2
  <2>8. /\ memory' \in Counter
        /\ hit' \in [Calls -> Hit]
        /\ at' \in [Calls -> Labels]
        /\ RedisInv' /\ RowsInv'
    BY <2>1, <2>2, <2>3, <2>5, <2>6, <2>7, FallsBack
  <2>9. /\ up' \in BOOLEAN /\ client' \in {"connected", "reconnecting", "ended"}
        /\ troubles' \in 0..MaxTroubles
    BY <1>2, LinkTyped DEF GuardInv
  <2>10. QED
    BY <2>1, <2>5, <2>7, <2>8, <2>9 DEF GuardInv, AccountsTypeOK
<1>3. QED
  BY <1>1, <1>2 DEF RateIncr

LEMMA RateExpirePreserves ==
  ASSUME GuardInv, NEW c \in Calls, RateExpire(c)
  PROVE  GuardInv'
<1>1. /\ at[c] = "expire" /\ UNCHANGED <<lock, windows, try>>
      /\ UNCHANGED <<health, account, kind, deaths>>
      /\ rate' = [rate EXCEPT !.ttl = rate.count > 0] \/ rate' = rate
  BY DEF RateExpire, Guarded, At, WithTtl
<1>2. /\ rate \in Counter /\ Numbers /\ lost \subseteq {"rate", "lock"} /\ at \in [Calls -> Labels]
      /\ rate.ttl => rate.count > 0
      /\ hit \in [Calls -> Hit]
  BY Sized DEF GuardInv, AccountsTypeOK
<1>3. /\ rate' \in Counter /\ rate'.window = rate.window /\ rate'.count = rate.count
      /\ rate'.ttl => rate'.count > 0
  <2>1. (rate.count > 0) \in BOOLEAN
    OBVIOUS
  <2>2. PICK b \in BOOLEAN : (rate' = [rate EXCEPT !.ttl = b] /\ (b => rate.count > 0)) \/ rate' = rate
    BY <1>1, <2>1
  <2>3. QED
    BY <1>2, <2>2 DEF Counter
<1>4. /\ up' \in BOOLEAN /\ client' \in {"connected", "reconnecting", "ended"}
      /\ troubles' \in 0..MaxTroubles
  BY LinkTyped DEF GuardInv, RateExpire
<1>5. CASE Answered /\ rate' = WithTtl(rate) /\ Goto(c, "ttl") /\ UNCHANGED <<memory, lost, hit>>
  <2>1. at' = [at EXCEPT ![c] = "ttl"] /\ rate'.ttl = (rate.count > 0)
    BY <1>2, <1>5 DEF Goto, WithTtl, Counter
  <2>2. RateTaken' = RateTaken /\ InMemory' = InMemory /\ LockTaken' = LockTaken /\ Cleared' = Cleared
    BY <1>1, <1>2, <1>5, <2>1 DEF RateTaken, InMemory, LockTaken, Cleared
  <2>3. CountsOK'
    BY <1>1, <1>3, <1>5, <2>2 DEF GuardInv, RedisInv, CountsOK
  <2>4. HitsOK' /\ TriesOK'
    BY <1>1, <1>2, <1>3, <1>5, <2>1 DEF GuardInv, RedisInv, HitsOK, TriesOK, Given
  <2>5. CountersEnd'
    <3>1. ~(rate'.count > 0 /\ ~rate'.ttl)
      BY <1>3, <2>1
    <3>2. lock'.count > 0 /\ ~lock'.ttl => "lock" \in lost' \/ \E d \in Calls : at'[d] = "lockExpire"
      BY <1>1, <1>2, <1>5, <2>1 DEF GuardInv, RedisInv, CountersEnd
    <3>3. QED
      BY <3>1, <3>2 DEF CountersEnd
  <2>6. AccountsTypeOK'
    BY <1>1, <1>2, <1>3, <1>4, <1>5, <2>1 DEF GuardInv, AccountsTypeOK, Labels
  <2>7. RowsInv'
    <3>1. kind[c] \in {"good", "bad"} /\ "ttl" \in Route(kind[c])
      BY <1>1 DEF GuardInv, RowsInv, RowsOK, Route, AccountsTypeOK, Kinds
    <3>2. QED
      BY <1>1, <2>1, <3>1, RowsKept
  <2>8. QED
    BY <2>3, <2>4, <2>5, <2>6, <2>7 DEF GuardInv, RedisInv
<1>6. CASE \/ Broken /\ rate' = WithTtl(rate) /\ MemoryHit(c) /\ UNCHANGED lost
           \/ Refused /\ MemoryHit(c) /\ lost' = lost \cup {"rate"} /\ UNCHANGED rate
  <2>1. rate'.count > 0 /\ ~rate'.ttl => "rate" \in lost' \/ \E d \in Calls \ {c} : at[d] = "expire"
    BY <1>2, <1>6 DEF WithTtl, Counter
  <2>2. lost \subseteq lost' /\ lost' \subseteq {"rate", "lock"} /\ MemoryHit(c)
    BY <1>2, <1>6
  <2>3. /\ memory' \in Counter
        /\ hit' \in [Calls -> Hit]
        /\ at' \in [Calls -> Labels]
        /\ RedisInv' /\ RowsInv'
    BY <1>1, <1>2, <1>3, <2>1, <2>2, FallsBack DEF Numbers
  <2>4. QED
    BY <1>1, <1>3, <1>4, <2>2, <2>3 DEF GuardInv, AccountsTypeOK
<1>7. QED
  BY <1>5, <1>6 DEF RateExpire

LEMMA RateTtlPreserves ==
  ASSUME GuardInv, NEW c \in Calls, RateTtl(c)
  PROVE  GuardInv'
<1>1. /\ at[c] = "ttl" /\ UNCHANGED <<rate, lock, lost, windows, try>>
      /\ UNCHANGED <<health, account, kind, deaths>>
  BY DEF RateTtl, Guarded, At
<1>2. rate \in Counter /\ Numbers /\ at \in [Calls -> Labels]
      /\ hit \in [Calls -> Hit]
  BY Sized DEF GuardInv, AccountsTypeOK
<1>3. /\ up' \in BOOLEAN /\ client' \in {"connected", "reconnecting", "ended"}
      /\ troubles' \in 0..MaxTroubles
  BY LinkTyped DEF GuardInv, RateTtl
<1>4. CASE Answered /\ Goto(c, IF Admitted(hit[c]) THEN "lock" ELSE "done") /\ UNCHANGED <<memory, hit>>
  <2> DEFINE label == IF Admitted(hit[c]) THEN "lock" ELSE "done"
  <2>1. at' = [at EXCEPT ![c] = label] /\ label \in {"lock", "done"}
    BY <1>4 DEF Goto
  <2> HIDE DEF label
  <2>2. /\ RateTaken' = RateTaken /\ InMemory' = InMemory /\ Cleared' = Cleared
        /\ LockTaken \subseteq LockTaken' /\ LockTaken' \subseteq Calls
    BY <1>1, <1>2, <1>4, <2>1 DEF RateTaken, InMemory, LockTaken, Cleared
  <2>3. Cardinality(LockTaken) <= Cardinality(LockTaken') /\ Cardinality(LockTaken') \in Nat
    BY <2>2, Grows, CallsSize
  <2>4. CountsOK'
    BY <1>1, <1>2, <1>4, <2>2, <2>3 DEF GuardInv, RedisInv, CountsOK, Numbers
  <2>5. HitsOK' /\ TriesOK'
    BY <1>1, <1>2, <1>4, <2>1 DEF GuardInv, RedisInv, HitsOK, TriesOK, Given
  <2>6. CountersEnd'
    BY <1>1, <1>2, <1>4, <2>1 DEF GuardInv, RedisInv, CountersEnd
  <2>7. AccountsTypeOK'
    BY <1>1, <1>2, <1>3, <1>4, <2>1 DEF GuardInv, AccountsTypeOK, Labels
  <2>8. RowsInv'
    <3>1. kind[c] \in {"good", "bad"} /\ label \in Route(kind[c])
      BY <1>1, <2>1 DEF GuardInv, RowsInv, RowsOK, Route, AccountsTypeOK, Kinds
    <3>2. QED
      BY <1>1, <2>1, <3>1, RowsKept
  <2>9. QED
    BY <2>4, <2>5, <2>6, <2>7, <2>8 DEF GuardInv, RedisInv
<1>5. CASE (Broken \/ Refused) /\ MemoryHit(c)
  <2>1. rate'.count > 0 /\ ~rate'.ttl => "rate" \in lost' \/ \E d \in Calls \ {c} : at[d] = "expire"
    BY <1>1 DEF GuardInv, RedisInv, CountersEnd
  <2>2. /\ memory' \in Counter
        /\ hit' \in [Calls -> Hit]
        /\ at' \in [Calls -> Labels]
        /\ RedisInv' /\ RowsInv'
    BY <1>1, <1>2, <1>5, <2>1, FallsBack DEF Numbers
  <2>3. QED
    BY <1>1, <1>3, <2>2 DEF GuardInv, AccountsTypeOK
<1>6. QED
  BY <1>4, <1>5 DEF RateTtl

\* An attempt leaves the lockout counter, counted (try) or let through.
LEMMA Counted ==
  ASSUME GuardInv, NEW c \in Calls, at[c] = "lock", NEW label \in {"lockExpire", "done", "user"},
         at' = [at EXCEPT ![c] = label], UNCHANGED <<rate, memory, windows, hit, kind, account>>,
         \/ lock' = [lock EXCEPT !.count = lock.count + 1]
         \/ lock' = lock /\ try' = try,
         \/ try' = [try EXCEPT ![c] = [count |-> lock.count + 1, window |-> lock.window]]
         \/ try' = try,
         lost \subseteq lost',
         lock' # lock /\ lock.count = 0 => label = "lockExpire" \/ "lock" \in lost'
  PROVE  /\ lock' \in Counter /\ (lock'.ttl => lock'.count > 0)
         /\ try' \in [Calls -> Try]
         /\ at' \in [Calls -> Labels]
         /\ RedisInv' /\ RowsInv'
<1>1. /\ lock \in Counter /\ Numbers /\ at \in [Calls -> Labels] /\ (lock.ttl => lock.count > 0)
      /\ try \in [Calls -> Try]
  BY Sized DEF GuardInv, AccountsTypeOK
<1>2. /\ lock'.window = lock.window /\ lock'.ttl = lock.ttl
      /\ lock'.count \in {lock.count, lock.count + 1}
  BY <1>1 DEF Counter
<1>3. /\ RateTaken' = RateTaken /\ InMemory' = InMemory /\ Cleared' = Cleared
      /\ LockTaken \subseteq LockTaken' /\ LockTaken' \subseteq Calls
      /\ c \in LockTaken' /\ c \notin LockTaken
  BY <1>1 DEF RateTaken, InMemory, LockTaken, Cleared
<1>4. /\ Cardinality(LockTaken) + 1 <= Cardinality(LockTaken')
      /\ Cardinality(LockTaken') \in Nat /\ Cardinality(LockTaken') <= Cardinality(Calls)
  BY <1>3, GrowsByOne, CallsSize
<1>5. CountsOK'
  BY <1>1, <1>2, <1>3, <1>4 DEF GuardInv, RedisInv, CountsOK, Numbers
<1>6. lock.count + 1 \in Counts
  BY <1>1, <1>4, Ranges DEF GuardInv, RedisInv, CountsOK, Numbers
<1>7. lock' \in Counter /\ (lock'.ttl => lock'.count > 0)
  BY <1>1, <1>2, <1>6 DEF Counter, Numbers
<1>8. try' \in [Calls -> Try] /\ at' \in [Calls -> Labels]
  BY <1>1, <1>6 DEF Counter, Labels
<1>9. HitsOK'
  BY <1>1 DEF GuardInv, RedisInv, HitsOK, Given
<1>10. TriesOK'
  <2>1. \A d \in Calls : try'[d].count > 0 => Given(try'[d], lock')
    <3>1. TAKE d \in Calls
    <3>2. HAVE try'[d].count > 0
    <3>3. CASE try'[d] = try[d]
      <4>1. Given(try[d], lock)
        BY <3>2, <3>3 DEF GuardInv, RedisInv, TriesOK
      <4>2. try[d].count \in Nat /\ try[d].window \in Nat
        BY <1>1, Ranges
      <4>3. QED
        BY <1>1, <1>2, <3>3, <4>1, <4>2 DEF Given, Numbers
    <3>4. CASE try'[d] # try[d]
      <4>1. try'[d] = [count |-> lock.count + 1, window |-> lock.window] /\ lock'.count = lock.count + 1
        BY <1>1, <3>4 DEF Counter
      <4>2. QED
        BY <1>1, <1>2, <4>1 DEF Given, Numbers
    <3>5. QED
      BY <3>3, <3>4
  <2>2. ASSUME NEW d \in Calls, try[d].count > 0
        PROVE  try[d] # [count |-> lock.count + 1, window |-> lock.window]
    <3>1. Given(try[d], lock)
      BY <2>2 DEF GuardInv, RedisInv, TriesOK
    <3>2. try[d].count \in Nat /\ try[d].window \in Nat
      BY <1>1, Ranges
    <3>3. QED
      BY <1>1, <3>1, <3>2 DEF Given, Numbers
  <2>3. ASSUME NEW d \in Calls, try[d].count = 0
        PROVE  try[d] # [count |-> lock.count + 1, window |-> lock.window]
    BY <1>1, <2>3 DEF Numbers
  <2>4. \A d \in Calls : try[d].count > 0 \/ try[d].count = 0
    BY <1>1, Ranges
  <2>5. \A d, e \in Calls : d # e /\ try'[d].count > 0 => try'[d] # try'[e]
    BY <1>1, <2>2, <2>3, <2>4 DEF GuardInv, RedisInv, TriesOK
  <2>6. QED
    BY <2>1, <2>5 DEF TriesOK
<1>11. CountersEnd'
  <2>1. rate'.count > 0 /\ ~rate'.ttl => "rate" \in lost' \/ \E d \in Calls : at'[d] = "expire"
    BY <1>1 DEF GuardInv, RedisInv, CountersEnd
  <2>2. lock.count > 0 /\ ~lock.ttl => "lock" \in lost' \/ \E d \in Calls : at'[d] = "lockExpire"
    BY <1>1 DEF GuardInv, RedisInv, CountersEnd
  <2>3. lock' # lock /\ lock.count = 0 => "lock" \in lost' \/ at'[c] = "lockExpire"
    BY <1>1
  <2>4. QED
    BY <1>1, <1>2, <2>1, <2>2, <2>3 DEF CountersEnd, Numbers
<1>12. RowsInv'
  <2>1. kind[c] \in {"good", "bad"} /\ label \in Route(kind[c])
    BY DEF GuardInv, RowsInv, RowsOK, Route, AccountsTypeOK, Kinds
  <2>2. QED
    BY <2>1, RowsKept
<1>13. QED
  BY <1>5, <1>7, <1>8, <1>9, <1>10, <1>11, <1>12 DEF RedisInv

LEMMA LockIncrPreserves ==
  ASSUME GuardInv, NEW c \in Calls, LockIncr(c)
  PROVE  GuardInv'
<1>1. /\ at[c] = "lock" /\ UNCHANGED <<rate, memory, windows, hit>>
      /\ UNCHANGED <<health, account, kind, deaths>>
      /\ lost \subseteq lost' /\ lost' \subseteq lost \cup {"lock"}
  BY DEF LockIncr, Guarded, At
<1>2. /\ \/ lock' = [lock EXCEPT !.count = lock.count + 1]
         \/ lock' = lock /\ try' = try
      /\ \/ try' = [try EXCEPT ![c] = [count |-> lock.count + 1, window |-> lock.window]]
         \/ try' = try
  BY DEF LockIncr, Incremented, Total
<1>3. PICK label \in {"lockExpire", "done", "user"} :
        /\ at' = [at EXCEPT ![c] = label]
        /\ lock' # lock /\ lock.count = 0 => label = "lockExpire" \/ "lock" \in lost'
  <2>1. lock.count \in Nat
    BY Sized DEF GuardInv, Numbers
  <2>2. QED
    BY <2>1 DEF LockIncr, Total, Goto
<1>4. /\ up' \in BOOLEAN /\ client' \in {"connected", "reconnecting", "ended"}
      /\ troubles' \in 0..MaxTroubles
  BY LinkTyped DEF GuardInv, LockIncr
<1>5. /\ lock' \in Counter /\ (lock'.ttl => lock'.count > 0)
      /\ try' \in [Calls -> Try]
      /\ at' \in [Calls -> Labels]
      /\ RedisInv' /\ RowsInv'
  BY <1>1, <1>2, <1>3, Counted
<1>6. QED
  BY <1>1, <1>4, <1>5 DEF GuardInv, AccountsTypeOK

\* The key of the next window.
LEMMA NextWindow ==
  ASSUME NEW w \in Epochs
  PROVE  [count |-> 0, ttl |-> FALSE, window |-> w] \in Counter
<1>1. 0 \in Counts
  BY Ranges
<1>2. QED
  BY <1>1 DEF Counter

LEMMA LockExpirePreserves ==
  ASSUME GuardInv, NEW c \in Calls, LockExpire(c)
  PROVE  GuardInv'
<1>1. /\ at[c] = "lockExpire" /\ UNCHANGED <<rate, memory, windows, hit>>
      /\ UNCHANGED <<health, account, kind, deaths>>
      /\ lost \subseteq lost' /\ lost' \subseteq lost \cup {"lock"}
      /\ lock' = WithTtl(lock) \/ (lock' = lock /\ "lock" \in lost')
      /\ try' = try \/ try' = [try EXCEPT ![c] = NoTry]
  BY DEF LockExpire, Guarded, At
<1>2. /\ lock \in Counter /\ Numbers /\ at \in [Calls -> Labels] /\ (lock.ttl => lock.count > 0)
      /\ try \in [Calls -> Try]
  BY Sized DEF GuardInv, AccountsTypeOK
<1>3. PICK label \in {"done", "user"} : at' = [at EXCEPT ![c] = label]
  BY DEF LockExpire, Goto
<1>4. /\ lock' \in Counter /\ lock'.window = lock.window /\ lock'.count = lock.count
      /\ lock'.ttl => lock'.count > 0
      /\ lock'.count > 0 /\ ~lock'.ttl => "lock" \in lost'
  <2>1. (lock.count > 0) \in BOOLEAN
    OBVIOUS
  <2>2. CASE lock' = WithTtl(lock)
    <3>1. PICK b \in BOOLEAN : lock' = [lock EXCEPT !.ttl = b] /\ (b <=> lock.count > 0)
      BY <2>1, <2>2 DEF WithTtl
    <3>2. QED
      BY <1>2, <3>1 DEF Counter
  <2>3. QED
    BY <1>1, <1>2, <2>2
<1>5. /\ up' \in BOOLEAN /\ client' \in {"connected", "reconnecting", "ended"}
      /\ troubles' \in 0..MaxTroubles
  BY LinkTyped DEF GuardInv, LockExpire
<1>6. 0 \in Counts /\ 0 \in Epochs
  BY Ranges
<1>7. AccountsTypeOK'
  BY <1>1, <1>2, <1>3, <1>4, <1>5, <1>6 DEF GuardInv, AccountsTypeOK, NoTry, Labels
<1>8. CountsOK'
  <2>1. RateTaken' = RateTaken /\ InMemory' = InMemory /\ LockTaken' = LockTaken /\ Cleared' = Cleared
    BY <1>1, <1>2, <1>3 DEF RateTaken, InMemory, LockTaken, Cleared
  <2>2. QED
    BY <1>1, <1>4, <2>1 DEF GuardInv, RedisInv, CountsOK
<1>9. HitsOK'
  BY <1>1, <1>2, <1>3 DEF GuardInv, RedisInv, HitsOK, Given
<1>10. TriesOK'
  <2>1. \A d \in Calls : try'[d].count > 0 => try'[d] = try[d]
    BY <1>1, <1>2 DEF NoTry
  <2>2. \A d \in Calls : try'[d] = try[d] \/ try'[d].count = 0
    BY <1>1, <1>2 DEF NoTry
  <2>3. \A d \in Calls : try'[d].count > 0 => Given(try'[d], lock')
    BY <1>4, <2>1 DEF GuardInv, RedisInv, TriesOK, Given
  <2>4. \A d, e \in Calls : d # e /\ try'[d].count > 0 => try'[d] # try'[e]
    BY <2>1, <2>2 DEF GuardInv, RedisInv, TriesOK
  <2>5. QED
    BY <2>3, <2>4 DEF TriesOK
<1>11. CountersEnd'
  <2>1. rate'.count > 0 /\ ~rate'.ttl => "rate" \in lost' \/ \E d \in Calls : at'[d] = "expire"
    BY <1>1, <1>2, <1>3 DEF GuardInv, RedisInv, CountersEnd
  <2>2. QED
    BY <1>4, <2>1 DEF CountersEnd
<1>12. RowsInv'
  <2>1. kind[c] \in {"good", "bad"} /\ label \in Route(kind[c])
    BY <1>1 DEF GuardInv, RowsInv, RowsOK, Route, AccountsTypeOK, Kinds
  <2>2. QED
    BY <1>1, <1>3, <2>1, RowsKept
<1>13. QED
  BY <1>7, <1>8, <1>9, <1>10, <1>11, <1>12 DEF GuardInv, RedisInv

LEMMA CheckPasswordPreserves ==
  ASSUME GuardInv, NEW c \in Calls, CheckPassword(c)
  PROVE  GuardInv'
<1> DEFINE label == IF MayLogIn(c) THEN "clear" ELSE "done"
<1>1. /\ at[c] = "user" /\ UNCHANGED <<link, counters, hit, try>>
      /\ UNCHANGED <<health, account, kind, deaths>>
      /\ at' = [at EXCEPT ![c] = label] /\ label \in {"clear", "done"}
  BY DEF CheckPassword, Guarded, At, Goto
<1>2. AccountsTypeOK'
  BY <1>1 DEF GuardInv, AccountsTypeOK, Labels
<1>3. RowsInv'
  <2>1. kind[c] \in {"good", "bad"}
    BY <1>1 DEF GuardInv, RowsInv, RowsOK, Route, AccountsTypeOK, Kinds
  <2>2. label = "clear" => kind[c] = "good" /\ account.verified
    BY DEF MayLogIn
  <2>3. label \in Route(kind[c])
    BY <2>1, <2>2 DEF Route
  <2>4. QED
    BY <1>1, <2>1, <2>2, <2>3, RowsKept
<1>4. RedisInv'
  BY <1>1, CountersKept DEF Labels
<1>5. QED
  BY <1>2, <1>3, <1>4 DEF GuardInv

LEMMA ClearLockPreserves ==
  ASSUME GuardInv, NEW c \in Calls, ClearLock(c)
  PROVE  GuardInv'
<1>1. /\ at[c] = "clear" /\ at' = [at EXCEPT ![c] = "session"]
      /\ UNCHANGED <<rate, memory, lost, windows, hit, try>>
      /\ UNCHANGED <<health, account, kind, deaths>>
      /\ lock' = [count |-> 0, ttl |-> FALSE, window |-> lock.window + 1] \/ lock' = lock
  BY DEF ClearLock, Guarded, At, Goto, Absent
<1>2. /\ lock \in Counter /\ Numbers /\ at \in [Calls -> Labels] /\ (lock.ttl => lock.count > 0)
      /\ try \in [Calls -> Try]
      /\ windows \in 0..MaxWindows
  BY Sized DEF GuardInv, AccountsTypeOK
<1>3. /\ RateTaken' = RateTaken /\ InMemory' = InMemory /\ LockTaken' = LockTaken
      /\ Cleared \subseteq Cleared' /\ Cleared' \subseteq Calls /\ c \in Cleared' /\ c \notin Cleared
  BY <1>1, <1>2 DEF RateTaken, InMemory, LockTaken, Cleared
<1>4. /\ Cardinality(Cleared) + 1 <= Cardinality(Cleared')
      /\ Cardinality(Cleared') \in Nat /\ Cardinality(Cleared') <= Cardinality(Calls)
  BY <1>3, GrowsByOne, CallsSize
<1>5. /\ lock'.window \in {lock.window, lock.window + 1}
      /\ lock'.count \in {0, lock.count}
      /\ lock'.window # lock.window => lock'.count = 0
      /\ lock' = lock \/ lock'.window = lock.window + 1
  BY <1>1
<1>6. CountsOK'
  BY <1>1, <1>2, <1>3, <1>4, <1>5 DEF GuardInv, RedisInv, CountsOK, Numbers
<1>7. lock.window + 1 \in Epochs /\ 0 \in Counts
  BY <1>2, <1>4, Ranges DEF GuardInv, RedisInv, CountsOK, Numbers
<1>8. lock' \in Counter /\ (lock'.ttl => lock'.count > 0)
  BY <1>1, <1>2, <1>7, NextWindow
<1>9. /\ up' \in BOOLEAN /\ client' \in {"connected", "reconnecting", "ended"}
      /\ troubles' \in 0..MaxTroubles
  BY LinkTyped DEF GuardInv, ClearLock
<1>10. AccountsTypeOK'
  BY <1>1, <1>2, <1>8, <1>9 DEF GuardInv, AccountsTypeOK, Labels
<1>11. HitsOK'
  BY <1>1, <1>2 DEF GuardInv, RedisInv, HitsOK, Given
<1>12. TriesOK'
  <2>1. \A d \in Calls : try[d].count > 0 => Given(try[d], lock')
    <3>1. TAKE d \in Calls
    <3>2. HAVE try[d].count > 0
    <3>3. Given(try[d], lock)
      BY <3>2 DEF GuardInv, RedisInv, TriesOK
    <3>4. try[d].count \in Nat /\ try[d].window \in Nat
      BY <1>2, Ranges
    <3>5. QED
      BY <1>2, <1>5, <3>3, <3>4 DEF Given, Numbers
  <2>2. QED
    BY <1>1, <2>1 DEF GuardInv, RedisInv, TriesOK
<1>13. CountersEnd'
  <2>1. lock' = lock \/ lock'.count = 0
    BY <1>1
  <2>2. QED
    BY <1>1, <1>2, <2>1 DEF GuardInv, RedisInv, CountersEnd
<1>14. RowsInv'
  <2>1. kind[c] = "good" /\ "session" \in Route(kind[c]) /\ account.verified
    BY <1>1 DEF GuardInv, RowsInv, RowsOK, Route, AccountsTypeOK, Kinds
  <2>2. QED
    BY <1>1, <2>1, RowsKept
<1>15. QED
  BY <1>6, <1>10, <1>11, <1>12, <1>13, <1>14 DEF GuardInv, RedisInv

\* A window runs out: the counter starts again under the next one's number.
LEMMA WindowEndsPreserves ==
  ASSUME GuardInv, WindowEnds
  PROVE  GuardInv'
<1>1. /\ windows < MaxWindows /\ windows' = windows + 1
      /\ UNCHANGED <<link, health, lost, account, call, at, deaths>>
      /\ \A k \in {<<rate, rate'>>, <<memory, memory'>>, <<lock, lock'>>} :
           k[2] = k[1] \/ k[2] = [count |-> 0, ttl |-> FALSE, window |-> k[1].window + 1]
  BY DEF WindowEnds, Absent
<1>2. /\ rate' = rate \/ rate' = [count |-> 0, ttl |-> FALSE, window |-> rate.window + 1]
      /\ memory' = memory \/ memory' = [count |-> 0, ttl |-> FALSE, window |-> memory.window + 1]
      /\ lock' = lock \/ lock' = [count |-> 0, ttl |-> FALSE, window |-> lock.window + 1]
  BY DEF WindowEnds, Absent
<1>3. /\ rate \in Counter /\ memory \in Counter /\ lock \in Counter /\ Numbers
      /\ windows \in 0..MaxWindows
      /\ hit \in [Calls -> Hit]
      /\ try \in [Calls -> Try]
  BY Sized DEF GuardInv, AccountsTypeOK
<1>4. RateTaken' = RateTaken /\ InMemory' = InMemory /\ LockTaken' = LockTaken /\ Cleared' = Cleared
  BY <1>1 DEF RateTaken, InMemory, LockTaken, Cleared
<1>5. CountsOK'
  BY <1>1, <1>2, <1>3, <1>4 DEF GuardInv, RedisInv, CountsOK, Numbers
<1>6. /\ Cardinality(Cleared) <= Cardinality(Calls)
      /\ windows' \in 0..MaxWindows /\ windows' \in Nat
  BY <1>1, <1>3, CallsSize, Ranges DEF Cleared
<1>7. /\ rate.window + 1 \in Epochs /\ memory.window + 1 \in Epochs
      /\ lock.window + 1 \in Epochs /\ 0 \in Counts
  BY <1>1, <1>3, <1>6, Ranges DEF GuardInv, RedisInv, CountsOK, Numbers
<1>8. rate' \in Counter /\ memory' \in Counter /\ lock' \in Counter
  BY <1>2, <1>3, <1>7, NextWindow
<1>9. AccountsTypeOK'
  <2>1. (rate'.ttl => rate'.count > 0) /\ (lock'.ttl => lock'.count > 0)
    BY <1>2 DEF GuardInv, AccountsTypeOK
  <2>2. QED
    BY <1>1, <1>3, <1>6, <1>8, <2>1 DEF GuardInv, AccountsTypeOK
<1>10. \A h \in Try \cup Hit :
         /\ Given(h, rate) => Given(h, rate')
         /\ Given(h, memory) => Given(h, memory')
         /\ Given(h, lock) => Given(h, lock')
  <2>1. TAKE h \in Try \cup Hit
  <2>2. h.count \in Nat /\ h.window \in Nat
    BY Ranges
  <2>3. QED
    BY <1>2, <1>3, <2>2 DEF Given, Numbers
<1>11. HitsOK' /\ TriesOK'
  BY <1>1, <1>3, <1>10 DEF GuardInv, RedisInv, HitsOK, TriesOK
<1>12. CountersEnd'
  BY <1>1, <1>2 DEF GuardInv, RedisInv, CountersEnd
<1>13. RowsInv'
  BY <1>1 DEF GuardInv, RowsInv, RowsOK, AccountsComplete
<1>14. QED
  BY <1>5, <1>9, <1>11, <1>12, <1>13 DEF GuardInv, RedisInv

-----------------------------------------------------------------------------
(* The account's row *)

LEMMA BeginPreserves ==
  ASSUME GuardInv, NEW c \in Calls, Begin(c)
  PROVE  GuardInv'
<1>1. at[c] = "idle" /\ kind[c] \in Kinds /\ at \in [Calls -> Labels]
  BY DEF Begin, At, GuardInv, AccountsTypeOK
<1>2. UNCHANGED <<link, health, counters, account, call, deaths>>
  BY DEF Begin
<1>3. PICK label \in {"rate", "insert", "done", "read"} :
        /\ at' = [at EXCEPT ![c] = label]
        /\ label \in Route(kind[c])
  BY <1>1 DEF Begin, Goto, Logins, Route, Kinds
<1>4. kind[c] = "verify" => account.token # "none"
  BY DEF Begin
<1>5. AccountsTypeOK'
  BY <1>1, <1>2, <1>3 DEF GuardInv, AccountsTypeOK, Labels
<1>6. RedisInv'
  BY <1>1, <1>2, <1>3, CountersKept DEF Labels
<1>7. RowsInv'
  BY <1>1, <1>2, <1>3, <1>4, RowsKept
<1>8. QED
  BY <1>5, <1>6, <1>7 DEF GuardInv

\* A statement on the row: what it must respect.
LEMMA Written ==
  ASSUME GuardInv, NEW c \in Calls, NEW row \in AccountState, NEW label \in Route(kind[c]) \ {"idle"},
         Write(c, row, label),
         at[c] \in {"insert", "role", "token", "mail", "read", "mark", "activate", "email", "create",
                    "oauthRole", "link", "set"},
         account.verified => row.verified,
         row.status = "none" => account.status = "none" /\ row.token = "none",
         row.token = "none" => account.token = "none",
         label \in {"role", "token", "mail", "set"} => row.status # "none",
         row.status # "none" /\ ~row.role =>
           \/ label \in {"role", "oauthRole"}
           \/ account.status # "none" /\ ~account.role /\ at[c] \notin {"role", "oauthRole"},
         row.token = "used" /\ ~row.verified =>
           \/ label = "activate"
           \/ account.token = "used" /\ ~account.verified /\ at[c] # "activate"
  PROVE  GuardInv'
<1>1. /\ account' = row /\ at' = [at EXCEPT ![c] = label]
      /\ UNCHANGED <<link, health, counters, call, deaths>>
  BY DEF Write, Goto
<1>2. /\ at \in [Calls -> Labels] /\ kind[c] \in Kinds
      /\ kind[c] \in {"register", "verify", "oauth", "suspend", "activate"}
  BY DEF GuardInv, RowsInv, RowsOK, Route, AccountsTypeOK, Kinds
<1>3. label \in Labels \ {"idle", "rate", "expire", "ttl", "lock", "lockExpire"}
  BY <1>2 DEF Route, Labels
<1>4. AccountsTypeOK'
  BY <1>1, <1>2, <1>3 DEF GuardInv, AccountsTypeOK
<1>5. RedisInv'
  BY <1>1, <1>3, CountersKept
<1>6. RowsOK'
  <2>1. row.status = "none" => row.token = "none"
    OBVIOUS
  <2>2. ASSUME NEW d \in Calls
        PROVE  /\ at'[d] \in Route(kind[d])
               /\ at'[d] \in {"role", "token", "mail", "set"} => row.status # "none"
               /\ kind[d] = "verify" /\ at'[d] # "idle" => row.token # "none"
               /\ kind[d] = "good" /\ at'[d] \in {"clear", "session"} => row.verified
    BY <1>1, <1>2 DEF GuardInv, RowsInv, RowsOK
  <2>3. QED
    BY <1>1, <2>1, <2>2 DEF RowsOK
<1>7. AccountsComplete'
  <2>1. row.status # "none" /\ ~row.role => \E d \in Calls : at'[d] \in {"role", "oauthRole", "died"}
    BY <1>1, <1>2 DEF GuardInv, RowsInv, AccountsComplete
  <2>2. row.token = "used" /\ ~row.verified => \E d \in Calls : at'[d] \in {"activate", "died"}
    BY <1>1, <1>2 DEF GuardInv, RowsInv, AccountsComplete
  <2>3. QED
    BY <1>1, <2>1, <2>2 DEF AccountsComplete
<1>8. QED
  BY <1>4, <1>5, <1>6, <1>7 DEF GuardInv, RowsInv

\* Register.
LEMMA RegisterPreserves ==
  ASSUME GuardInv, NEW c \in Calls, InsertUser(c) \/ InsertRole(c) \/ InsertToken(c) \/ QueueMail(c)
  PROVE  GuardInv'
<1>1. account \in AccountState /\ kind[c] \in Kinds
  BY DEF GuardInv, AccountsTypeOK
<1>2. /\ at[c] \in {"insert", "role", "token", "mail"} => kind[c] = "register"
      /\ at[c] = "oauthRole" => kind[c] = "oauth"
      /\ at[c] \in {"role", "token", "mail"} => account.status # "none"
      /\ account.status = "none" => account.token = "none"
  BY <1>1 DEF GuardInv, RowsInv, RowsOK, Route, Kinds
<1>3. CASE InsertUser(c)
  <2>1. at[c] = "insert" /\ {"role", "done"} \subseteq Route(kind[c]) \ {"idle"}
    BY <1>2, <1>3 DEF InsertUser, At, Route
  <2>2. CASE account.status = "none"
    <3>1. Write(c, [account EXCEPT !.status = "pending", !.password = TRUE], "role")
      BY <1>3, <2>2 DEF InsertUser
    <3>2. QED
      BY <1>1, <1>2, <2>1, <2>2, <3>1, Written DEF AccountState
  <2>3. CASE account.status # "none"
    <3>1. Write(c, account, "done")
      BY <1>3, <2>3 DEF InsertUser, Read
    <3>2. QED
      BY <1>1, <1>2, <2>1, <2>3, <3>1, Written
  <2>4. QED
    BY <2>2, <2>3
<1>4. CASE InsertRole(c)
  <2>1. PICK label \in {"token", "link"} :
          /\ at[c] \in {"role", "oauthRole"}
          /\ label \in Route(kind[c]) \ {"idle"} /\ (label = "token" => account.status # "none")
          /\ Write(c, [account EXCEPT !.role = TRUE], label)
    BY <1>2, <1>4 DEF InsertRole, At, Route
  <2>2. QED
    BY <1>1, <1>2, <2>1, Written DEF AccountState
<1>5. CASE InsertToken(c)
  <2>1. /\ at[c] = "token" /\ "mail" \in Route(kind[c]) \ {"idle"} /\ account.status # "none"
        /\ Write(c, [account EXCEPT !.token = "live"], "mail")
    BY <1>2, <1>5 DEF InsertToken, At, Route
  <2>2. QED
    BY <1>1, <1>2, <2>1, Written DEF AccountState
<1>6. CASE QueueMail(c)
  <2>1. at[c] = "mail" /\ "done" \in Route(kind[c]) \ {"idle"} /\ account.status # "none"
    BY <1>2, <1>6 DEF QueueMail, At, Route
  <2>2. CASE Write(c, [account EXCEPT !.token = "mailed"], "done")
    BY <1>1, <1>2, <2>1, <2>2, Written DEF AccountState
  <2>3. CASE Write(c, account, "done")
    BY <1>1, <1>2, <2>1, <2>3, Written
  <2>4. QED
    BY <1>6, <2>2, <2>3 DEF QueueMail, Read
<1>7. QED
  BY <1>3, <1>4, <1>5, <1>6

\* Verify.
LEMMA VerifyPreserves ==
  ASSUME GuardInv, NEW c \in Calls, ReadToken(c) \/ MarkUsed(c) \/ Activate(c)
  PROVE  GuardInv'
<1>1. account \in AccountState /\ kind[c] \in Kinds /\ at[c] \in {"read", "mark", "activate"}
  BY DEF GuardInv, AccountsTypeOK, ReadToken, MarkUsed, Activate, At
<1>2. kind[c] = "verify"
  BY <1>1 DEF GuardInv, RowsInv, RowsOK, Route, Kinds, ReadToken, MarkUsed, Activate, At
<1>3. /\ {"mark", "activate", "done"} \subseteq Route(kind[c]) \ {"idle"}
      /\ account.token # "none" /\ account.status # "none"
  BY <1>1, <1>2 DEF GuardInv, RowsInv, RowsOK, Route
<1>4. CASE ReadToken(c)
  <2>1. PICK label \in {"mark", "done"} : at[c] = "read" /\ Write(c, account, label)
    BY <1>4 DEF ReadToken, At, Read
  <2>2. QED
    BY <1>1, <1>3, <2>1, Written
<1>5. CASE MarkUsed(c)
  <2>1. at[c] = "mark" /\ Write(c, [account EXCEPT !.token = "used"], "activate")
    BY <1>5 DEF MarkUsed, At
  <2>2. QED
    BY <1>1, <1>3, <2>1, Written DEF AccountState
<1>6. CASE Activate(c)
  <2>1. Write(c, [account EXCEPT !.verified = TRUE, !.status = "active"], "done") /\ at[c] = "activate"
    BY <1>6 DEF Activate, At
  <2>2. QED
    BY <1>1, <1>3, <2>1, Written DEF AccountState
<1>7. QED
  BY <1>4, <1>5, <1>6

\* OAuth.
LEMMA OAuthPreserves ==
  ASSUME GuardInv, NEW c \in Calls,
         ReadIdentity(c) \/ FindByEmail(c) \/ CreateVerified(c) \/ LinkIdentity(c)
  PROVE  GuardInv'
<1>1. /\ account \in AccountState /\ kind[c] \in Kinds
      /\ at[c] \in {"read", "email", "create", "link"}
  BY DEF GuardInv, AccountsTypeOK, ReadIdentity, FindByEmail, CreateVerified, LinkIdentity, At
<1>2. kind[c] = "oauth"
  BY <1>1 DEF GuardInv, RowsInv, RowsOK, Route, Kinds, ReadIdentity, FindByEmail, CreateVerified,
              LinkIdentity, At
<1>3. /\ {"session", "email", "create", "link", "oauthRole", "done"} \subseteq Route(kind[c]) \ {"idle"}
      /\ account.status = "none" => account.token = "none"
  BY <1>2 DEF GuardInv, RowsInv, RowsOK, Route
<1>4. CASE CreateVerified(c) /\ account.status = "none"
  <2>1. Write(c, [account EXCEPT !.status = "active", !.verified = TRUE], "oauthRole")
        /\ at[c] = "create"
    BY <1>4 DEF CreateVerified, At
  <2>2. QED
    BY <1>1, <1>3, <1>4, <2>1, Written DEF AccountState
<1>5. CASE LinkIdentity(c) /\ ~account.linked
  <2>1. Write(c, [account EXCEPT !.linked = TRUE], "session") /\ at[c] = "link"
    BY <1>5 DEF LinkIdentity, At
  <2>2. QED
    BY <1>1, <1>3, <1>5, <2>1, Written DEF AccountState
<1>6. CASE \/ ReadIdentity(c) \/ FindByEmail(c)
           \/ CreateVerified(c) /\ account.status # "none"
           \/ LinkIdentity(c) /\ account.linked
  <2>1. PICK label \in {"session", "email", "create", "link", "done"} : Write(c, account, label)
    BY <1>6 DEF ReadIdentity, FindByEmail, CreateVerified, LinkIdentity, Read
  <2>2. QED
    BY <1>1, <1>3, <2>1, Written
<1>7. QED
  BY <1>4, <1>5, <1>6

\* setUserStatus of the admin.
LEMMA StatusPreserves ==
  ASSUME GuardInv, NEW c \in Calls, ReadStatus(c) \/ SetStatus(c)
  PROVE  GuardInv'
<1>1. account \in AccountState /\ kind[c] \in Kinds /\ at[c] \in {"read", "set"}
  BY DEF GuardInv, AccountsTypeOK, ReadStatus, SetStatus, At
<1>2. kind[c] \in {"suspend", "activate"}
  BY <1>1 DEF GuardInv, RowsInv, RowsOK, Route, Kinds, ReadStatus, SetStatus, At
<1>3. /\ {"set", "done"} \subseteq Route(kind[c]) \ {"idle"}
      /\ account.status = "none" => account.token = "none"
      /\ at[c] = "set" => account.status # "none"
  BY <1>2 DEF GuardInv, RowsInv, RowsOK, Route
<1>4. CASE ReadStatus(c)
  <2>1. PICK label \in {"set", "done"} :
          Write(c, account, label) /\ (label = "set" => account.status # "none") /\ at[c] = "read"
    BY <1>4 DEF ReadStatus, Read, At
  <2>2. QED
    BY <1>1, <1>3, <2>1, Written
<1>5. CASE SetStatus(c)
  <2>1. Write(c, [account EXCEPT !.status = Target(c)], "done") /\ at[c] = "set"
        /\ Target(c) \in {"suspended", "active"}
    BY <1>5 DEF SetStatus, At, Target
  <2>2. QED
    BY <1>1, <1>3, <2>1, Written DEF AccountState
<1>6. QED
  BY <1>4, <1>5

\* A request that dies between its statements leaves the row as it is, and is
\* the witness of what is missing.
LEMMA DiePreserves ==
  ASSUME GuardInv, NEW c \in Calls, Die(c)
  PROVE  GuardInv'
<1>1. /\ at[c] \in {"role", "token", "activate", "oauthRole", "link"}
      /\ at' = [at EXCEPT ![c] = "died"] /\ deaths' = deaths + 1 /\ deaths < MaxDeaths
      /\ UNCHANGED <<link, health, counters, account, call>>
  BY DEF Die, Goto
<1>2. at \in [Calls -> Labels] /\ kind[c] \in Kinds
  BY DEF GuardInv, AccountsTypeOK
<1>3. deaths' \in 0..MaxDeaths
  BY <1>1, AccountsAssumption DEF GuardInv, AccountsTypeOK
<1>4. AccountsTypeOK'
  BY <1>1, <1>2, <1>3 DEF GuardInv, AccountsTypeOK, Labels
<1>5. RedisInv'
  BY <1>1, CountersKept DEF Labels
<1>6. RowsOK'
  <2>1. kind[c] \in {"register", "verify", "oauth"}
    BY <1>1, <1>2 DEF GuardInv, RowsInv, RowsOK, Route, Kinds
  <2>2. QED
    BY <1>1, <1>2, <2>1 DEF GuardInv, RowsInv, RowsOK, Route
<1>7. AccountsComplete'
  BY <1>1, <1>2 DEF GuardInv, RowsInv, AccountsComplete
<1>8. QED
  BY <1>4, <1>5, <1>6, <1>7 DEF GuardInv, RowsInv

-----------------------------------------------------------------------------
(* The link to Redis and the monitor *)

LEMMA LinkPreserves ==
  ASSUME GuardInv, Drop \/ Restore \/ Reconnect \/ GiveUp \/ MemoryPressure
  PROVE  GuardInv'
<1>1. UNCHANGED <<monitor, answered, counters, account, call, at, deaths>>
  BY DEF Drop, Restore, Reconnect, GiveUp, MemoryPressure
<1>2. /\ up' \in BOOLEAN /\ client' \in {"connected", "reconnecting", "ended"}
      /\ pressure' \in BOOLEAN /\ troubles' \in 0..MaxTroubles
  <2>1. MaxTroubles \in Nat
    BY AccountsAssumption
  <2>2. pressure' \in BOOLEAN
    <3>1. pressure' = pressure \/ pressure' = ~pressure
      BY DEF Drop, Restore, Reconnect, GiveUp, MemoryPressure
    <3>2. (~pressure) \in BOOLEAN /\ pressure \in BOOLEAN
      BY DEF GuardInv, AccountsTypeOK
    <3>3. QED
      BY <3>1, <3>2
  <2>3. /\ troubles' \in 0..MaxTroubles /\ up' \in BOOLEAN
        /\ client' \in {"connected", "reconnecting", "ended"}
    <3>1. CASE Drop
      BY <2>1, <3>1 DEF GuardInv, AccountsTypeOK, Drop, LoseConnection
    <3>2. CASE Restore \/ Reconnect \/ GiveUp
      <4>1. UNCHANGED troubles /\ (up' = up \/ up' = TRUE)
        BY <3>2 DEF Restore, Reconnect, GiveUp
      <4>2. client' \in {client, "connected", "ended"}
        BY <3>2 DEF Restore, Reconnect, GiveUp
      <4>3. QED
        BY <4>1, <4>2 DEF GuardInv, AccountsTypeOK
    <3>3. CASE MemoryPressure
      <4>1. troubles' = troubles \/ (troubles < MaxTroubles /\ troubles' = troubles + 1)
        BY <3>3 DEF MemoryPressure
      <4>2. UNCHANGED <<up, client>>
        BY <3>3 DEF MemoryPressure
      <4>3. QED
        BY <2>1, <4>1, <4>2 DEF GuardInv, AccountsTypeOK
    <3>4. QED
      BY <3>1, <3>2, <3>3
  <2>4. QED
    BY <2>2, <2>3
<1>3. AccountsTypeOK'
  BY <1>1, <1>2 DEF GuardInv, AccountsTypeOK
<1>4. QED
  BY <1>1, <1>3, Elsewhere DEF GuardInv

LEMMA SamplePreserves ==
  ASSUME GuardInv, Sample
  PROVE  GuardInv'
<1>1. /\ monitor' = Evaluate /\ UNCHANGED <<link, pressure, counters, account, call, at, deaths>>
      /\ answered' = IF client = "connected" THEN UpTo(answered, RecoverPings) ELSE 0
  BY DEF Sample
<1>2. FailThreshold \in Nat \ {0} /\ RecoverPings \in Nat \ {0}
  BY AccountsAssumption
<1>3. /\ UpTo(monitor.failures, FailThreshold) \in 0..FailThreshold
      /\ UpTo(monitor.recoveries, RecoverPings) \in 0..RecoverPings
      /\ monitor.state \in {"healthy", "stressed", "down"}
  BY <1>2 DEF UpTo, GuardInv, AccountsTypeOK
<1>4. monitor' \in [state : {"healthy", "stressed", "down"},
                    failures : 0..FailThreshold, recoveries : 0..RecoverPings]
  BY <1>1, <1>2, <1>3 DEF Evaluate, Failed, Recovered
<1>5. answered' \in 0..RecoverPings
  BY <1>1, <1>2 DEF UpTo, GuardInv, AccountsTypeOK
<1>6. AccountsTypeOK'
  BY <1>1, <1>4, <1>5 DEF GuardInv, AccountsTypeOK
<1>7. QED
  BY <1>1, <1>6, Elsewhere DEF GuardInv

-----------------------------------------------------------------------------

LEMMA AccountsBegin == AccountsInit => GuardInv
<1>1. SUFFICES ASSUME AccountsInit PROVE GuardInv
  OBVIOUS
<1>2. PICK s \in Starts : kind = s.kind /\ account = s.account
  BY <1>1 DEF AccountsInit
<1>3. kind \in [Calls -> Kinds] /\ account \in AccountState /\ Whole(account)
  BY <1>2, AccountsAssumption
<1>4. 0 \in Counts /\ 0 \in Epochs
  BY Ranges
<1>5. /\ 0 \in 0..MaxTroubles /\ 0 \in 0..MaxWindows /\ 0 \in 0..MaxDeaths
      /\ 0 \in 0..FailThreshold /\ 0 \in 0..RecoverPings
  BY AccountsAssumption
<1>6. /\ NoHit \in Hit
      /\ NoTry \in Try
      /\ Absent(0) \in Counter
  BY <1>4 DEF NoHit, NoTry, Absent, Counter
<1>7. AccountsTypeOK
  <2>1. /\ rate \in Counter /\ memory \in Counter /\ lock \in Counter
        /\ rate.ttl = FALSE /\ lock.ttl = FALSE
    BY <1>1, <1>6 DEF AccountsInit, Absent
  <2>2. \A k \in {rate, lock} : k.ttl => k.count > 0
    BY <2>1
  <2>3. /\ hit \in [Calls -> Hit]
        /\ try \in [Calls -> Try]
        /\ at \in [Calls -> Labels]
    BY <1>1, <1>6 DEF AccountsInit, Labels
  <2>4. /\ up \in BOOLEAN /\ client \in {"connected", "reconnecting", "ended"}
        /\ pressure \in BOOLEAN /\ lost \subseteq {"rate", "lock"}
        /\ troubles \in 0..MaxTroubles /\ windows \in 0..MaxWindows /\ deaths \in 0..MaxDeaths
        /\ monitor \in [state : {"healthy", "stressed", "down"},
                        failures : 0..FailThreshold, recoveries : 0..RecoverPings]
        /\ answered \in 0..RecoverPings
    BY <1>1, <1>5 DEF AccountsInit
  <2>5. QED
    BY <1>3, <2>1, <2>2, <2>3, <2>4 DEF AccountsTypeOK
<1>8. CountsOK
  BY <1>1, <1>7, Sized DEF AccountsInit, CountsOK, Absent, Numbers
<1>9. HitsOK /\ TriesOK /\ CountersEnd
  BY <1>1 DEF AccountsInit, HitsOK, TriesOK, CountersEnd, NoHit, NoTry, Absent
<1>10. RowsOK /\ AccountsComplete
  BY <1>1, <1>3 DEF AccountsInit, RowsOK, AccountsComplete, Whole, Route
<1>11. QED
  BY <1>7, <1>8, <1>9, <1>10 DEF GuardInv, RedisInv, RowsInv

LEMMA GuardStep == GuardInv /\ [AccountsNext]_accountsVars => GuardInv'
<1>1. SUFFICES ASSUME GuardInv, AccountsNext PROVE GuardInv'
  <2>1. CASE UNCHANGED accountsVars
    BY <2>1, Elsewhere DEF accountsVars, GuardInv, AccountsTypeOK
  <2>2. QED
    BY <2>1
<1>2. ASSUME NEW c \in Calls, SignIn(c)
      PROVE  GuardInv'
  BY <1>1, <1>2, BypassRedisPreserves, RateIncrPreserves, RateExpirePreserves, RateTtlPreserves,
     LockIncrPreserves, LockExpirePreserves, CheckPasswordPreserves, ClearLockPreserves
  DEF SignIn
<1>3. ASSUME NEW c \in Calls, Manage(c)
      PROVE  GuardInv'
  BY <1>1, <1>3, RegisterPreserves, VerifyPreserves, OAuthPreserves, StatusPreserves
  DEF Manage
<1>4. ASSUME NEW c \in Calls, Begin(c) \/ Die(c)
      PROVE  GuardInv'
  BY <1>1, <1>4, BeginPreserves, DiePreserves
<1>5. CASE WindowEnds \/ Drop \/ Restore \/ Reconnect \/ GiveUp \/ MemoryPressure \/ Sample
  BY <1>1, <1>5, WindowEndsPreserves, LinkPreserves, SamplePreserves
<1>6. QED
  BY <1>1, <1>2, <1>3, <1>4, <1>5 DEF AccountsNext

THEOREM GuardInvariant == AccountsSpec => []GuardInv
BY AccountsBegin, GuardStep, PTL DEF AccountsSpec

\* Every value of the accounts model has its type, for any number of requests.
THEOREM AccountsTyped == AccountsSpec => []AccountsTypeOK
<1>1. GuardInv => AccountsTypeOK
  BY DEF GuardInv
<1>2. QED
  BY <1>1, GuardInvariant, PTL

-----------------------------------------------------------------------------
(* The lock and the gate *)

\* The steps of an attempt at the lockout counter.
LEMMA LockedOutCounts ==
  ASSUME GuardInv, LockedOut, NEW c \in Calls, LockIncr(c) \/ LockExpire(c)
  PROVE  LockedOut'
<1>1. /\ at \in [Calls -> Labels]
      /\ try \in [Calls -> Try]
      /\ lock.count \in Nat /\ LockAt \in Nat \ {0}
  BY Sized, AccountsAssumption DEF GuardInv, AccountsTypeOK, Numbers
<1>2. \A d \in Calls : d # c => at'[d] = at[d] /\ try'[d] = try[d]
  BY <1>1 DEF LockIncr, LockExpire, Goto
<1>3. CASE LockIncr(c)
  <2>1. CASE /\ try' = [try EXCEPT ![c] = [count |-> Total(lock), window |-> lock.window]]
             /\ Goto(c, CASE Total(lock) = 1 -> "lockExpire"
                          [] Total(lock) # 1 /\ Locked(Total(lock)) -> "done"
                          [] OTHER -> "user")
    <3>1. try'[c].count = lock.count + 1
      BY <1>1, <2>1 DEF Total
    <3>2. /\ at'[c] = "lockExpire" => lock.count + 1 = 1
          /\ Locked(lock.count + 1) => at'[c] \in {"lockExpire", "done"}
      BY <1>1, <2>1 DEF Total, Goto
    <3>3. QED
      BY <1>2, <3>1, <3>2 DEF LockedOut
  <2>2. CASE Goto(c, "user") /\ UNCHANGED try
    BY <1>1, <1>2, <1>3, <2>2 DEF LockedOut, Goto, LockIncr, At
  <2>3. QED
    BY <1>3, <2>1, <2>2 DEF LockIncr
<1>4. CASE LockExpire(c)
  <2>1. at[c] = "lockExpire" /\ try[c].count = 1
    BY <1>4 DEF LockExpire, At, LockedOut
  <2>2. CASE Goto(c, IF Locked(1) THEN "done" ELSE "user") /\ UNCHANGED try
    BY <1>1, <1>2, <2>1, <2>2 DEF LockedOut, Goto
  <2>3. CASE Goto(c, "user") /\ try' = [try EXCEPT ![c] = NoTry]
    <3>1. at'[c] = "user" /\ try'[c].count = 0 /\ ~Locked(0)
      BY <1>1, <2>3 DEF Goto, NoTry, Locked
    <3>2. QED
      BY <1>2, <3>1 DEF LockedOut
  <2>4. QED
    BY <1>4, <2>2, <2>3 DEF LockExpire
<1>5. QED
  BY <1>3, <1>4

\* Every other step leaves the numbers alone, and moves no call that was refused.
LEMMA LockedOutStep == GuardInv /\ LockedOut /\ [AccountsNext]_accountsVars => LockedOut'
<1>1. SUFFICES ASSUME GuardInv, LockedOut, [AccountsNext]_accountsVars PROVE LockedOut'
  OBVIOUS
<1>2. at \in [Calls -> Labels]
  BY <1>1 DEF GuardInv, AccountsTypeOK
<1>3. ASSUME NEW c \in Calls, NEW label \in Labels \ {"lockExpire"}, UNCHANGED try,
             at[c] \notin {"lockExpire", "done"}, at' = [at EXCEPT ![c] = label]
      PROVE  LockedOut'
  BY <1>1, <1>2, <1>3 DEF LockedOut
<1>4. ASSUME UNCHANGED <<try, at>> PROVE LockedOut'
  BY <1>1, <1>4 DEF LockedOut
<1>5. ASSUME NEW c \in Calls, SignIn(c) PROVE LockedOut'
  <2>1. CASE LockIncr(c) \/ LockExpire(c)
    BY <1>1, <2>1, LockedOutCounts
  <2>2. CASE BypassRedis(c) \/ RateIncr(c) \/ RateExpire(c) \/ RateTtl(c) \/ CheckPassword(c) \/ ClearLock(c)
    <3>1. PICK label \in {"lock", "done", "expire", "ttl", "clear", "session"} :
            at' = [at EXCEPT ![c] = label]
      BY <2>2 DEF BypassRedis, RateIncr, RateExpire, RateTtl, CheckPassword, ClearLock, MemoryHit, Goto
    <3>2. UNCHANGED try /\ at[c] \notin {"lockExpire", "done"}
      BY <2>2 DEF BypassRedis, RateIncr, RateExpire, RateTtl, CheckPassword, ClearLock, At
    <3>3. QED
      BY <1>3, <3>1, <3>2 DEF Labels
  <2>3. QED
    BY <1>5, <2>1, <2>2 DEF SignIn
<1>6. ASSUME NEW c \in Calls, Begin(c) \/ Manage(c) \/ Die(c) PROVE LockedOut'
  <2>1. PICK label \in Labels \ {"lockExpire"} : at' = [at EXCEPT ![c] = label]
    BY <1>6 DEF Begin, Manage, Die, InsertUser, InsertRole, InsertToken, QueueMail, ReadToken,
       MarkUsed, Activate, ReadIdentity, FindByEmail, CreateVerified, LinkIdentity, ReadStatus,
       SetStatus, Write, Read, Goto, Labels
  <2>2. UNCHANGED try /\ at[c] \notin {"lockExpire", "done"}
    BY <1>6 DEF Begin, Manage, Die, InsertUser, InsertRole, InsertToken, QueueMail, ReadToken,
       MarkUsed, Activate, ReadIdentity, FindByEmail, CreateVerified, LinkIdentity, ReadStatus,
       SetStatus, Write, Read, At
  <2>3. QED
    BY <1>3, <2>1, <2>2
<1>7. CASE WindowEnds \/ Drop \/ Restore \/ Reconnect \/ GiveUp \/ MemoryPressure \/ Sample
  BY <1>4, <1>7 DEF WindowEnds, Drop, Restore, Reconnect, GiveUp, MemoryPressure, Sample
<1>8. CASE UNCHANGED accountsVars
  BY <1>4, <1>8 DEF accountsVars
<1>9. QED
  BY <1>1, <1>5, <1>6, <1>7, <1>8 DEF AccountsNext

LEMMA LockedOutInit == AccountsInit => LockedOut
<1>1. ~Locked(0)
  BY AccountsAssumption DEF Locked
<1>2. QED
  BY <1>1 DEF AccountsInit, LockedOut, NoTry

\* The lockout counter never falls but to the end of its hour or a login that
\* was let through.
LEMMA LockFalls ==
  ASSUME GuardInv, LockedOut, [AccountsNext]_accountsVars
  PROVE  LockEndsWithItsKey
<1>1. lock \in Counter /\ lock.count \in Nat /\ LockAt \in Nat /\ at \in [Calls -> Labels]
  BY Sized, AccountsAssumption DEF GuardInv, AccountsTypeOK, Numbers
<1>2. lock'.count \in Nat
  BY GuardStep, SizedNext DEF GuardInv, Numbers
<1>3. SUFFICES ASSUME lock' # lock, lock'.count < lock.count PROVE LockEndsWithItsKey
  BY <1>1, <1>2 DEF LockEndsWithItsKey
<1>4. ASSUME NEW c \in Calls, SignIn(c) PROVE LockEndsWithItsKey
  <2>1. CASE LockIncr(c) \/ LockExpire(c)
    <3>1. \/ lock' = [lock EXCEPT !.count = lock.count + 1]
          \/ lock' = [lock EXCEPT !.ttl = lock.count > 0]
          \/ lock' = lock
      BY <2>1 DEF LockIncr, LockExpire, Incremented, WithTtl
    <3>2. ASSUME lock' = [lock EXCEPT !.ttl = lock.count > 0] PROVE lock'.count = lock.count
      BY <1>1, <3>2, Zenon DEF Counter
    <3>3. ASSUME lock' = [lock EXCEPT !.count = lock.count + 1] PROVE lock'.count = lock.count + 1
      BY <1>1, <3>3 DEF Counter
    <3>4. QED
      BY <1>1, <1>3, <3>1, <3>2, <3>3
  <2>2. CASE ClearLock(c)
    <3>1. at[c] = "clear" /\ at'[c] = "session" /\ ~Locked(try[c].count)
      BY <1>1, <2>2 DEF ClearLock, At, Goto, LockedOut
    <3>2. QED
      BY <3>1 DEF LockEndsWithItsKey
  <2>3. CASE BypassRedis(c) \/ RateIncr(c) \/ RateExpire(c) \/ RateTtl(c) \/ CheckPassword(c)
    BY <1>3, <2>3 DEF BypassRedis, RateIncr, RateExpire, RateTtl, CheckPassword
  <2>4. QED
    BY <1>4, <2>1, <2>2, <2>3 DEF SignIn
<1>5. CASE WindowEnds
  BY <1>3, <1>5 DEF WindowEnds, LockEndsWithItsKey
<1>6. ASSUME NEW c \in Calls, Begin(c) \/ Manage(c) \/ Die(c) PROVE UNCHANGED lock
  BY <1>6 DEF Begin, Manage, Die, InsertUser, InsertRole, InsertToken, QueueMail, ReadToken,
     MarkUsed, Activate, ReadIdentity, FindByEmail, CreateVerified, LinkIdentity, ReadStatus,
     SetStatus, Write, Read
<1>7. CASE Drop \/ Restore \/ Reconnect \/ GiveUp \/ MemoryPressure \/ Sample \/ UNCHANGED accountsVars
  BY <1>3, <1>7 DEF Drop, Restore, Reconnect, GiveUp, MemoryPressure, Sample, accountsVars
<1>8. QED
  BY <1>3, <1>4, <1>5, <1>6, <1>7 DEF AccountsNext

\* The rate limit and the lockout bound what gets through, their counters run
\* out, a lock lasts until its key ends, and a session belongs to a complete,
\* verified account, for any number of requests, any limits, and however Redis
\* fails.
THEOREM SignInGuarded == AccountsSpec => SignInIsGuarded
<1>1. GuardInv /\ LockedOut /\ [AccountsNext]_accountsVars => [LockEndsWithItsKey]_accountsVars
  BY LockFalls
<1>2. QED
  BY <1>1, GuardHolds, LockedOutInit, LockedOutStep, GuardInvariant, PTL
  DEF AccountsSpec, SignInIsGuarded

\* Only the monitor's timer moves the monitor.
LEMMA OthersKeepMonitor ==
  ASSUME [AccountsNext]_accountsVars, ~Sample
  PROVE  UNCHANGED <<monitor, answered>>
<1>1. ASSUME NEW c \in Calls, SignIn(c) PROVE UNCHANGED <<monitor, answered>>
  BY <1>1 DEF SignIn, BypassRedis, RateIncr, RateExpire, RateTtl, LockIncr, LockExpire,
     CheckPassword, ClearLock, Guarded
<1>2. ASSUME NEW c \in Calls, Begin(c) \/ Manage(c) \/ Die(c) PROVE UNCHANGED <<monitor, answered>>
  BY <1>2 DEF Begin, Manage, Die, InsertUser, InsertRole, InsertToken, QueueMail, ReadToken,
     MarkUsed, Activate, ReadIdentity, FindByEmail, CreateVerified, LinkIdentity, ReadStatus,
     SetStatus, Write, Read
<1>3. CASE WindowEnds \/ Drop \/ Restore \/ Reconnect \/ GiveUp \/ MemoryPressure
  BY <1>3 DEF WindowEnds, Drop, Restore, Reconnect, GiveUp, MemoryPressure
<1>4. CASE UNCHANGED accountsVars
  BY <1>4 DEF accountsVars
<1>5. QED
  BY <1>1, <1>2, <1>3, <1>4 DEF AccountsNext

LEMMA MonitorStep == MonitorOK /\ [AccountsNext]_accountsVars => MonitorOK'
<1>1. SUFFICES ASSUME MonitorOK, [AccountsNext]_accountsVars PROVE MonitorOK'
  OBVIOUS
<1>2. CASE Sample
  BY <1>1, <1>2 DEF Sample, Evaluate, Failed, Recovered, MonitorOK
<1>3. CASE UNCHANGED <<monitor, answered>>
  BY <1>1, <1>3 DEF MonitorOK
<1>4. ~Sample => UNCHANGED <<monitor, answered>>
  BY <1>1, OthersKeepMonitor
<1>5. QED
  BY <1>2, <1>3, <1>4

\* The gate opens on a sample at ease that ends RecoverPings answered ones, never
\* sooner, and on no sample of a client that has given up, whatever the
\* thresholds and however often Redis fails.
THEOREM GateOpens == AccountsSpec => GateOpensAfterPings
<1>1. GuardInv /\ MonitorOK /\ [AccountsNext]_accountsVars =>
        [monitor'.state = "healthy" <=>
           /\ client = "connected" /\ ~pressure
           /\ monitor.state = "healthy" \/ answered' = RecoverPings]_<<monitor, answered>>
  <2>1. SUFFICES ASSUME GuardInv, MonitorOK, Sample
                 PROVE  monitor'.state = "healthy" <=>
                          /\ client = "connected" /\ ~pressure
                          /\ monitor.state = "healthy" \/ answered' = RecoverPings
    BY OthersKeepMonitor
  <2>2. CASE client # "connected"
    <3>1. monitor' = Failed /\ Failed.state # "healthy"
      BY <2>1, <2>2 DEF Sample, Evaluate, Failed, GuardInv, AccountsTypeOK
    <3>2. QED
      BY <2>2, <3>1
  <2>3. CASE client = "connected"
    BY <2>1, <2>3 DEF Sample, Evaluate, Recovered, MonitorOK
  <2>4. QED
    BY <2>2, <2>3
<1>2. AccountsInit => MonitorOK
  BY DEF AccountsInit, MonitorOK
<1>3. QED
  BY <1>1, <1>2, MonitorStep, GuardInvariant, PTL DEF AccountsSpec, GateOpensAfterPings
=============================================================================
