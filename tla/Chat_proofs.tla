---------------------------- MODULE Chat_proofs ----------------------------
(***************************************************************************)
(* Proofs about Chat for any users, sockets, instances and finitely many   *)
(* messages.                                                               *)
(*                                                                         *)
(* The argument.  NumbersOK: lastSeq counts the messages that have a       *)
(* number and bounds every number, so each new one is greater than all of  *)
(* them.  CountersOK: a counter is raised once for each message between    *)
(* "meta" and "publish", after the message is stored and after it entered  *)
(* the member's unread set.  SocketsOK: only a socket with its listeners   *)
(* joins, and one that closes with a join in progress is late.             *)
(***************************************************************************)
EXTENDS Chat, FiniteSetTheorems, TLAPS

Numbered  == {m \in Messages : seq[m] > 0}
Counted   == {m \in Messages : at[m] \in {"publish", "done"}}

CountedFor(u)  == {m \in Counted : SenderUser(m) # u}
CountedNew(u)  == {m \in Counted : m \in fresh[u]}

NumbersOK ==
  /\ lastSeq = Cardinality(Numbered)
  /\ \A m, n \in Messages : m # n /\ seq[m] > 0 => seq[m] # seq[n]
  /\ \A m \in Messages :
       /\ at[m] \in {"idle", "room", "seq"} => seq[m] = 0
       /\ at[m] \in {"insert", "meta", "publish", "done"} => seq[m] > 0
  /\ \A n \in Messages : \A m \in earlier[n] :
       at[m] = "done" /\ (seq[n] > 0 => seq[m] < seq[n])

CountersOK ==
  /\ \A m \in Messages : at[m] \in {"meta", "publish", "done"} => m \in log
  /\ \A m \in log : at[m] \in {"meta", "publish", "done", "failed"}
  /\ \A u \in Users :
       /\ fresh[u] \subseteq log
       /\ \A m \in fresh[u] : u \in snapshot[m] /\ SenderUser(m) # u
       /\ Cardinality(CountedNew(u)) <= unread[u]
       /\ unread[u] <= Cardinality(CountedFor(u))

SocketsOK ==
  /\ \A s \in Sockets :
       /\ s \in joining \cup roomSockets \cup rooms => phase[s] = "open"
       /\ phase[s] = "presence" => s \in connections
       /\ phase[s] = "open" /\ s \notin closed
            => s \in connections /\ (s \in roomSockets <=> s \in rooms)
       /\ phase[s] = "open" /\ s \in closed => s \notin connections
       /\ s \in closed \cap (joining \cup roomSockets) => s \in lateJoin
  /\ synced \subseteq roomSockets \ closed

IInv == TypeOK /\ NumbersOK /\ CountersOK /\ SocketsOK /\ JoinThenHistory

USE DEF room, handler, gateway, client, history

-----------------------------------------------------------------------------
(* Sizes *)

LEMMA SubsetSize ==
  ASSUME NEW S, S \subseteq Messages
  PROVE  IsFiniteSet(S) /\ Cardinality(S) \in Nat /\ Cardinality(S) <= Cardinality(Messages)
BY ChatAssumption, FS_Subset, FS_CardinalityType

LEMMA OneMore ==
  ASSUME NEW S, S \subseteq Messages, NEW m \in Messages, m \notin S
  PROVE  Cardinality(S \cup {m}) = Cardinality(S) + 1
<1>1. IsFiniteSet(S)
  BY SubsetSize
<1>2. QED
  BY <1>1, FS_AddElement

LEMMA AtMostOneMore ==
  ASSUME NEW S, S \subseteq Messages, NEW T, NEW m \in Messages, T \subseteq S \cup {m}
  PROVE  Cardinality(T) <= Cardinality(S) + 1
<1>1. S \cup {m} \subseteq Messages /\ T \subseteq Messages
  OBVIOUS
<1>2. Cardinality(S) \in Nat /\ Cardinality(T) \in Nat /\ Cardinality(S \cup {m}) \in Nat
      /\ IsFiniteSet(S) /\ IsFiniteSet(S \cup {m})
  BY <1>1, SubsetSize
<1>3. Cardinality(S \cup {m}) <= Cardinality(S) + 1
  BY <1>2, FS_AddElement
<1>4. Cardinality(T) <= Cardinality(S \cup {m})
  BY <1>2, FS_Subset
<1>5. QED
  BY <1>2, <1>3, <1>4

LEMMA Smaller ==
  ASSUME NEW S, S \subseteq Messages, NEW T, T \subseteq S
  PROVE  Cardinality(T) <= Cardinality(S)
<1>1. IsFiniteSet(S)
  BY SubsetSize
<1>2. QED
  BY <1>1, FS_Subset

LEMMA MessageBound == Cardinality(Messages) \in Nat
BY ChatAssumption, FS_CardinalityType

-----------------------------------------------------------------------------
(* Steps that leave a part alone *)

LEMMA NumbersStay ==
  ASSUME IInv, NEW m \in Messages, NEW stage \in Stages, Goto(m, stage),
         at[m] # "done",
         UNCHANGED <<lastSeq, seq>>,
         stage \in {"idle", "room", "seq"} => at[m] \in {"idle", "room", "seq"},
         stage \in {"insert", "meta", "publish", "done"}
           => at[m] \in {"insert", "meta", "publish", "done"},
         \/ UNCHANGED earlier
         \/ at[m] = "idle" /\ earlier' = [earlier EXCEPT ![m] = Acknowledged]
  PROVE  NumbersOK'
<1>1. Numbered' = Numbered
  BY DEF Numbered
<1>2. \A n \in Messages : seq[n] \in Nat
  BY MessageBound DEF IInv, TypeOK
<1>3. \A n \in Messages : \A k \in earlier'[n] :
        at'[k] = "done" /\ (seq[n] > 0 => seq[k] < seq[n])
  BY <1>2 DEF IInv, TypeOK, NumbersOK, Goto, Acknowledged
<1>4. QED
  BY <1>1, <1>3 DEF IInv, TypeOK, NumbersOK, Goto

LEMMA CountersStay ==
  ASSUME IInv, NEW m \in Messages, NEW stage \in Stages, Goto(m, stage),
         UNCHANGED <<unread, log, fresh>>,
         \A n \in Messages : n # m => snapshot'[n] = snapshot[n],
         \/ /\ at[m] \in {"idle", "room", "seq", "insert"}
            /\ stage \in {"room", "seq", "insert", "failed"}
         \/ at[m] \in {"meta"} /\ stage = "failed" /\ UNCHANGED snapshot
         \/ at[m] = "publish" /\ stage = "done" /\ UNCHANGED snapshot
  PROVE  CountersOK'
<1>1. /\ \A n \in Messages \ {m} : at'[n] = at[n]
      /\ at'[m] = stage
  BY DEF IInv, TypeOK, Goto
<1>2. Counted' = Counted
  BY <1>1 DEF Counted
<1>3. /\ \A u \in Users : CountedFor(u)' = CountedFor(u) /\ CountedNew(u)' = CountedNew(u)
  BY <1>2 DEF CountedFor, CountedNew, SenderUser
<1>4. \A u \in Users : \A n \in fresh[u] : snapshot'[n] = snapshot[n]
  BY DEF IInv, TypeOK, CountersOK
<1>5. /\ \A n \in Messages : at'[n] \in {"meta", "publish", "done"} => n \in log
      /\ \A n \in log : at'[n] \in {"meta", "publish", "done", "failed"}
  BY <1>1 DEF IInv, TypeOK, CountersOK
<1>6. QED
  BY <1>3, <1>4, <1>5 DEF IInv, CountersOK, SenderUser

LEMMA NoMessageStep ==
  ASSUME IInv, UNCHANGED <<lastSeq, unread, log, handler, earlier, fresh>>
  PROVE  NumbersOK' /\ CountersOK'
<1>1. Numbered' = Numbered /\ Counted' = Counted
  BY DEF Numbered, Counted
<1>2. \A u \in Users : CountedFor(u)' = CountedFor(u) /\ CountedNew(u)' = CountedNew(u)
  BY <1>1 DEF CountedFor, CountedNew, SenderUser
<1>3. NumbersOK'
  BY <1>1 DEF IInv, NumbersOK
<1>4. CountersOK'
  BY <1>2 DEF IInv, CountersOK, SenderUser
<1>5. QED
  BY <1>3, <1>4

LEMMA NoSocketStep ==
  ASSUME IInv, UNCHANGED <<gateway, synced, lateJoin>>
  PROVE  SocketsOK'
BY DEF IInv, SocketsOK

-----------------------------------------------------------------------------
(* The message handler *)

LEMMA SendMessagePreserves ==
  ASSUME IInv, NEW m \in Messages, SendMessage(m)
  PROVE  IInv'
<1>1. TypeOK'
  BY DEF IInv, TypeOK, SendMessage, Goto, Stages, Acknowledged
<1>2. NumbersOK' /\ CountersOK' /\ SocketsOK'
  BY NumbersStay, CountersStay, NoSocketStep DEF SendMessage, Stages
<1>3. JoinThenHistory'
  BY DEF IInv, TypeOK, CountersOK, SendMessage, Goto, JoinThenHistory
<1>4. QED
  BY <1>1, <1>2, <1>3 DEF IInv

LEMMA RefuseMessagePreserves ==
  ASSUME IInv, NEW m \in Messages, RefuseMessage(m)
  PROVE  IInv'
<1>1. TypeOK'
  BY DEF IInv, TypeOK, RefuseMessage, Goto, Stages
<1>2. NumbersOK' /\ CountersOK' /\ SocketsOK'
  BY NumbersStay, CountersStay, NoSocketStep DEF RefuseMessage, Stages
<1>3. JoinThenHistory'
  BY DEF IInv, TypeOK, RefuseMessage, Goto, JoinThenHistory
<1>4. QED
  BY <1>1, <1>2, <1>3 DEF IInv

LEMMA ReadRoomPreserves ==
  ASSUME IInv, NEW m \in Messages, ReadRoom(m)
  PROVE  IInv'
<1>1. TypeOK'
  BY DEF IInv, TypeOK, ReadRoom, Goto, Stages
<1>2. NumbersOK' /\ SocketsOK'
  BY NumbersStay, NoSocketStep DEF ReadRoom, Stages
<1>3. CountersOK'
  BY CountersStay DEF IInv, TypeOK, ReadRoom, Stages
<1>4. JoinThenHistory'
  BY DEF IInv, TypeOK, CountersOK, ReadRoom, Goto, JoinThenHistory
<1>5. QED
  BY <1>1, <1>2, <1>3, <1>4 DEF IInv

LEMMA NextRoomSeqPreserves ==
  ASSUME IInv, NEW m \in Messages, NextRoomSeq(m)
  PROVE  IInv'
<1>1. /\ at[m] = "seq" /\ at' = [at EXCEPT ![m] = "insert"]
      /\ lastSeq' = lastSeq + 1 /\ seq' = [seq EXCEPT ![m] = lastSeq + 1]
      /\ UNCHANGED <<members, unread, log, creating, snapshot, gateway, client, history>>
  BY DEF NextRoomSeq, Goto
<1>2. /\ lastSeq \in Nat /\ lastSeq = Cardinality(Numbered) /\ seq[m] = 0
      /\ \A n \in Messages : seq[n] \in Nat /\ seq[n] <= lastSeq
  BY <1>1, MessageBound DEF IInv, TypeOK, NumbersOK
<1>3. Numbered' = Numbered \cup {m} /\ m \notin Numbered
  <2>1. seq'[m] = lastSeq + 1 /\ \A n \in Messages \ {m} : seq'[n] = seq[n]
    BY <1>1 DEF IInv, TypeOK
  <2>2. seq'[m] > 0 /\ ~(seq[m] > 0)
    BY <1>2, <2>1
  <2>3. QED
    BY <2>1, <2>2 DEF Numbered
<1>4. lastSeq' = Cardinality(Numbered')
  BY <1>1, <1>2, <1>3, OneMore DEF Numbered
<1>5. lastSeq' \in 0..Cardinality(Messages)
  <2>1. Numbered' \subseteq Messages
    BY DEF Numbered
  <2>2. QED
    BY <1>4, <2>1, SubsetSize, MessageBound
<1>6. TypeOK'
  <2>1. seq' \in [Messages -> 0..lastSeq']
    BY <1>1, <1>2 DEF IInv, TypeOK
  <2>2. at' \in [Messages -> Stages]
    BY <1>1 DEF IInv, TypeOK, Stages
  <2>3. QED
    BY <1>1, <1>5, <2>1, <2>2 DEF IInv, TypeOK
<1>7. NumbersOK'
  <2>1. \A k, n \in Messages : k # n /\ seq'[k] > 0 => seq'[k] # seq'[n]
    BY <1>1, <1>2 DEF IInv, TypeOK, NumbersOK
  <2>2. \A n \in Messages :
          /\ at'[n] \in {"idle", "room", "seq"} => seq'[n] = 0
          /\ at'[n] \in {"insert", "meta", "publish", "done"} => seq'[n] > 0
    BY <1>1, <1>2 DEF IInv, TypeOK, NumbersOK
  <2>3. \A n \in Messages : \A k \in earlier[n] :
          at'[k] = "done" /\ (seq'[n] > 0 => seq'[k] < seq'[n])
    BY <1>1, <1>2 DEF IInv, TypeOK, NumbersOK
  <2>4. QED
    BY <1>1, <1>4, <2>1, <2>2, <2>3 DEF NumbersOK
<1>8. CountersOK'
  BY <1>1, CountersStay DEF Goto, Stages
<1>9. SocketsOK' /\ JoinThenHistory'
  BY <1>1, NoSocketStep DEF IInv, TypeOK, CountersOK, JoinThenHistory
<1>10. QED
  BY <1>6, <1>7, <1>8, <1>9 DEF IInv

LEMMA InsertMessagePreserves ==
  ASSUME IInv, NEW m \in Messages, InsertMessage(m)
  PROVE  IInv'
<1>1. /\ at[m] = "insert" /\ at' = [at EXCEPT ![m] = "meta"]
      /\ log' = log \cup {m}
      /\ fresh' = [u \in Users |-> IF u \in snapshot[m] \ {SenderUser(m)}
                                     THEN fresh[u] \cup {m} ELSE fresh[u]]
      /\ UNCHANGED <<members, lastSeq, unread, creating, seq, snapshot, gateway, client,
                     earlier, reads, lateJoin>>
  BY DEF InsertMessage, Goto
<1>2. TypeOK'
  BY <1>1 DEF IInv, TypeOK, Stages
<1>3. NumbersOK'
  BY <1>1, NumbersStay DEF Goto, Stages
<1>4. CountersOK'
  <2>1. Counted' = Counted /\ m \notin Counted
    BY <1>1 DEF IInv, TypeOK, Counted
  <2>2. \A u \in Users : CountedFor(u)' = CountedFor(u) /\ CountedNew(u)' = CountedNew(u)
    BY <1>1, <2>1 DEF CountedFor, CountedNew, SenderUser
  <2>3. /\ \A n \in Messages : at'[n] \in {"meta", "publish", "done"} => n \in log'
        /\ \A n \in log' : at'[n] \in {"meta", "publish", "done", "failed"}
    BY <1>1 DEF IInv, TypeOK, CountersOK
  <2>4. \A u \in Users : /\ fresh'[u] \subseteq log'
                         /\ \A n \in fresh'[u] : u \in snapshot[n] /\ SenderUser(n) # u
    BY <1>1 DEF IInv, TypeOK, CountersOK
  <2>5. QED
    BY <1>1, <2>2, <2>3, <2>4 DEF IInv, CountersOK, SenderUser
<1>5. SocketsOK' /\ JoinThenHistory'
  BY <1>1, NoSocketStep DEF IInv, TypeOK, JoinThenHistory
<1>6. QED
  BY <1>2, <1>3, <1>4, <1>5 DEF IInv

LEMMA UpdateRoomPreserves ==
  ASSUME IInv, NEW m \in Messages, UpdateRoom(m)
  PROVE  IInv'
<1>1. /\ at[m] = "meta" /\ at' = [at EXCEPT ![m] = "publish"]
      /\ unread' = [u \in Users |-> IF u \in snapshot[m] \ {SenderUser(m)}
                                      THEN unread[u] + 1 ELSE unread[u]]
      /\ UNCHANGED <<members, lastSeq, log, creating, seq, snapshot, gateway, client, history>>
  BY DEF UpdateRoom, Goto
<1>2. Counted' = Counted \cup {m} /\ m \notin Counted
  BY <1>1 DEF IInv, TypeOK, Counted
<1>3. ASSUME NEW u \in Users
      PROVE  /\ Cardinality(CountedNew(u)') <= unread'[u]
             /\ unread'[u] <= Cardinality(CountedFor(u)')
             /\ unread'[u] \in 0..Cardinality(Messages)
  <2>1. /\ CountedNew(u) \subseteq Messages /\ CountedNew(u)' \subseteq Messages
        /\ CountedFor(u) \subseteq Messages /\ CountedFor(u)' \subseteq Messages
    BY DEF Counted, CountedNew, CountedFor
  <2>2. /\ Cardinality(CountedNew(u)) \in Nat /\ Cardinality(CountedNew(u)') \in Nat
        /\ Cardinality(CountedFor(u)) \in Nat /\ Cardinality(CountedFor(u)') \in Nat
        /\ Cardinality(CountedFor(u)') <= Cardinality(Messages)
    BY <2>1, SubsetSize
  <2>3. /\ unread[u] \in Nat /\ Cardinality(CountedNew(u)) <= unread[u]
        /\ unread[u] <= Cardinality(CountedFor(u))
    BY MessageBound DEF IInv, TypeOK, CountersOK
  <2>4. CASE u \in snapshot[m] \ {SenderUser(m)}
    <3>1. unread'[u] = unread[u] + 1
      BY <1>1, <2>4
    <3>2. CountedFor(u)' = CountedFor(u) \cup {m} /\ m \notin CountedFor(u)
      BY <1>1, <1>2, <2>4 DEF CountedFor, SenderUser
    <3>3. Cardinality(CountedFor(u)') = Cardinality(CountedFor(u)) + 1
      BY <2>1, <3>2, OneMore
    <3>4. CountedNew(u)' \subseteq CountedNew(u) \cup {m}
      BY <1>1, <1>2 DEF CountedNew
    <3>5. Cardinality(CountedNew(u)') <= Cardinality(CountedNew(u)) + 1
      BY <2>1, <3>4, AtMostOneMore
    <3>6. QED
      BY <2>2, <2>3, <3>1, <3>3, <3>5, MessageBound
  <2>5. CASE u \notin snapshot[m] \ {SenderUser(m)}
    <3>1. unread'[u] = unread[u]
      BY <1>1, <2>5
    <3>2. m \notin fresh[u]
      BY <2>5 DEF IInv, CountersOK
    <3>3. CountedNew(u)' = CountedNew(u)
      BY <1>1, <1>2, <3>2 DEF CountedNew
    <3>4. CountedFor(u) \subseteq CountedFor(u)'
      BY <1>2 DEF CountedFor, SenderUser
    <3>5. Cardinality(CountedFor(u)) <= Cardinality(CountedFor(u)')
      BY <2>1, <3>4, Smaller
    <3>6. QED
      BY <2>2, <2>3, <3>1, <3>3, <3>5, MessageBound
  <2>6. QED
    BY <2>4, <2>5
<1>4. TypeOK'
  <2>1. unread' \in [Users -> 0..Cardinality(Messages)]
    BY <1>1, <1>3
  <2>2. at' \in [Messages -> Stages]
    BY <1>1 DEF IInv, TypeOK, Stages
  <2>3. QED
    BY <1>1, <2>1, <2>2 DEF IInv, TypeOK
<1>5. NumbersOK'
  BY <1>1, NumbersStay DEF Goto, Stages
<1>6. CountersOK'
  <2>1. /\ \A n \in Messages : at'[n] \in {"meta", "publish", "done"} => n \in log
        /\ \A n \in log : at'[n] \in {"meta", "publish", "done", "failed"}
    BY <1>1 DEF IInv, TypeOK, CountersOK
  <2>2. QED
    BY <1>1, <1>3, <2>1 DEF IInv, CountersOK, SenderUser
<1>7. SocketsOK' /\ JoinThenHistory'
  BY <1>1, NoSocketStep DEF IInv, TypeOK, JoinThenHistory
<1>8. QED
  BY <1>4, <1>5, <1>6, <1>7 DEF IInv

LEMMA PublishPreserves ==
  ASSUME IInv, NEW m \in Messages, Publish(m)
  PROVE  IInv'
<1>1. TypeOK'
  BY DEF IInv, TypeOK, Publish, Goto, Stages
<1>2. NumbersOK' /\ CountersOK' /\ SocketsOK'
  BY NumbersStay, CountersStay, NoSocketStep DEF Publish, Stages
<1>3. JoinThenHistory'
  BY DEF IInv, TypeOK, SocketsOK, Publish, Goto, JoinThenHistory
<1>4. QED
  BY <1>1, <1>2, <1>3 DEF IInv

-----------------------------------------------------------------------------
(* Rooms and marking them read *)

LEMMA RoomStepPreserves ==
  ASSUME IInv, NEW u \in Users, FindRoom(u) \/ InsertRoom(u) \/ AddMember(u)
  PROVE  IInv'
<1>1. /\ UNCHANGED <<lastSeq, unread, log, handler, gateway, client, history>>
      /\ members' \in SUBSET Users /\ creating' \in SUBSET Users
  BY DEF IInv, TypeOK, FindRoom, InsertRoom, AddMember
<1>2. TypeOK'
  BY <1>1 DEF IInv, TypeOK
<1>3. NumbersOK' /\ CountersOK' /\ SocketsOK'
  BY <1>1, NoMessageStep, NoSocketStep
<1>4. JoinThenHistory'
  BY <1>1 DEF IInv, JoinThenHistory
<1>5. QED
  BY <1>2, <1>3, <1>4 DEF IInv

LEMMA MarkReadPreserves ==
  ASSUME IInv, NEW u \in Users, MarkRead(u)
  PROVE  IInv'
<1>1. /\ unread' = [unread EXCEPT ![u] = 0] /\ fresh' = [fresh EXCEPT ![u] = {}]
      /\ reads[u] < MaxReads /\ reads' = [reads EXCEPT ![u] = @ + 1]
      /\ UNCHANGED <<members, lastSeq, log, creating, handler, gateway, client, earlier, lateJoin>>
  BY DEF MarkRead
<1>2. TypeOK'
  BY <1>1, MessageBound, ChatAssumption DEF IInv, TypeOK
<1>3. NumbersOK'
  BY <1>1 DEF IInv, NumbersOK, Numbered
<1>4. CountersOK'
  <2>1. Counted' = Counted
    BY <1>1 DEF Counted
  <2>2. \A v \in Users : CountedFor(v)' = CountedFor(v)
    BY <1>1, <2>1 DEF CountedFor, SenderUser
  <2>3. \A v \in Users \ {u} : CountedNew(v)' = CountedNew(v) /\ fresh'[v] = fresh[v]
                                /\ unread'[v] = unread[v]
    BY <1>1, <2>1 DEF IInv, TypeOK, CountedNew
  <2>4. CountedNew(u)' = {} /\ unread'[u] = 0 /\ fresh'[u] = {}
    BY <1>1, <2>1 DEF IInv, TypeOK, CountedNew
  <2>5. Cardinality(CountedNew(u)') <= unread'[u] /\ unread'[u] <= Cardinality(CountedFor(u)')
    <3>1. CountedFor(u)' \subseteq Messages
      BY DEF CountedFor, Counted
    <3>2. Cardinality(CountedFor(u)') \in Nat
      BY <3>1, SubsetSize
    <3>3. Cardinality(CountedNew(u)') = 0
      BY <2>4, FS_EmptySet
    <3>4. QED
      BY <2>4, <3>2, <3>3
  <2>6. ASSUME NEW v \in Users \ {u}
        PROVE  Cardinality(CountedNew(v)') <= unread'[v] /\ unread'[v] <= Cardinality(CountedFor(v)')
    <3>1. CountedNew(v)' = CountedNew(v) /\ CountedFor(v)' = CountedFor(v) /\ unread'[v] = unread[v]
      BY <2>2, <2>3
    <3>2. Cardinality(CountedNew(v)) <= unread[v] /\ unread[v] <= Cardinality(CountedFor(v))
      BY DEF IInv, CountersOK
    <3>3. QED
      BY <3>1, <3>2
  <2>7. \A v \in Users : /\ fresh'[v] \subseteq log'
                         /\ \A m \in fresh'[v] : v \in snapshot'[m] /\ SenderUser(m) # v
    BY <1>1, <2>3, <2>4 DEF IInv, CountersOK, SenderUser
  <2>8. /\ \A m \in Messages : at'[m] \in {"meta", "publish", "done"} => m \in log'
        /\ \A m \in log' : at'[m] \in {"meta", "publish", "done", "failed"}
    BY <1>1 DEF IInv, CountersOK
  <2>9. QED
    BY <2>5, <2>6, <2>7, <2>8 DEF CountersOK, SenderUser
<1>5. SocketsOK' /\ JoinThenHistory'
  BY <1>1, NoSocketStep DEF IInv, JoinThenHistory
<1>6. QED
  BY <1>2, <1>3, <1>4, <1>5 DEF IInv

-----------------------------------------------------------------------------
(* Sockets *)

LEMMA SocketStepPreserves ==
  ASSUME IInv, NEW s \in Sockets,
         \/ Accept(s) \/ Register(s) \/ AttachListeners(s) \/ Join(s) \/ FinishJoin(s)
         \/ Leave(s) \/ Close(s)
  PROVE  IInv'
<1>1. UNCHANGED <<room, creating, handler, inbox, page, earlier, fresh, reads>>
  BY DEF Accept, Register, AttachListeners, Join, FinishJoin, Leave, Close
<1>2. TypeOK'
  <2>1. /\ phase' \in [Sockets -> {"new", "auth", "presence", "open", "deaf"}]
        /\ closed' \in SUBSET Sockets /\ connections' \in SUBSET Sockets
        /\ roomSockets' \in SUBSET Sockets /\ rooms' \in SUBSET Sockets
        /\ joining' \in SUBSET Sockets /\ synced' \in SUBSET Sockets
        /\ lateJoin' \in SUBSET Sockets
    BY DEF IInv, TypeOK, Accept, Register, AttachListeners, Join, FinishJoin, Leave, Close
  <2>2. QED
    BY <1>1, <2>1 DEF IInv, TypeOK
<1>3. NumbersOK' /\ CountersOK'
  BY <1>1, NoMessageStep
<1>4. SocketsOK'
  <2>1. CASE Accept(s) \/ Register(s) \/ AttachListeners(s)
    BY <2>1 DEF IInv, TypeOK, SocketsOK, Accept, Register, AttachListeners
  <2>2. CASE Join(s)
    BY <2>2 DEF IInv, TypeOK, SocketsOK, Join, Live
  <2>3. CASE FinishJoin(s)
    BY <2>3 DEF IInv, TypeOK, SocketsOK, FinishJoin
  <2>4. CASE Leave(s)
    BY <2>4 DEF IInv, TypeOK, SocketsOK, Leave, Live
  <2>5. CASE Close(s)
    BY <2>5 DEF IInv, TypeOK, SocketsOK, Close
  <2>6. QED
    BY <2>1, <2>2, <2>3, <2>4, <2>5
<1>5. JoinThenHistory'
  <2>1. synced' \subseteq synced
    BY DEF Accept, Register, AttachListeners, Join, FinishJoin, Leave, Close
  <2>2. QED
    BY <1>1, <2>1 DEF IInv, JoinThenHistory
<1>6. QED
  BY <1>2, <1>3, <1>4, <1>5 DEF IInv

LEMMA HistoryPreserves ==
  ASSUME IInv, NEW s \in Sockets, History(s)
  PROVE  IInv'
<1>1. TypeOK'
  BY DEF IInv, TypeOK, History
<1>2. NumbersOK' /\ CountersOK'
  BY NoMessageStep DEF History
<1>3. SocketsOK'
  BY DEF IInv, SocketsOK, History, Live
<1>4. JoinThenHistory'
  BY DEF IInv, TypeOK, History, JoinThenHistory
<1>5. QED
  BY <1>1, <1>2, <1>3, <1>4 DEF IInv

-----------------------------------------------------------------------------

LEMMA InitEstablishes == Init => IInv
<1> SUFFICES ASSUME Init PROVE IInv
  OBVIOUS
<1>1. TypeOK
  BY MessageBound, ChatAssumption DEF Init, TypeOK, Stages
<1>2. NumbersOK
  <2>1. Numbered = {}
    BY DEF Init, Numbered
  <2>2. QED
    BY <2>1, FS_EmptySet DEF Init, NumbersOK
<1>3. CountersOK
  <2>1. Counted = {}
    BY DEF Init, Counted
  <2>2. \A u \in Users : CountedFor(u) = {} /\ CountedNew(u) = {}
    BY <2>1 DEF CountedFor, CountedNew
  <2>3. QED
    BY <2>2, FS_EmptySet, SMTT(30) DEF Init, CountersOK
<1>4. SocketsOK /\ JoinThenHistory
  BY DEF Init, SocketsOK, JoinThenHistory
<1>5. QED
  BY <1>1, <1>2, <1>3, <1>4 DEF IInv

LEMMA StepPreserves == IInv /\ [Next]_vars => IInv'
<1> SUFFICES ASSUME IInv, [Next]_vars PROVE IInv'
  OBVIOUS
<1>1. CASE UNCHANGED vars
  <2>1. TypeOK' /\ JoinThenHistory'
    BY <1>1 DEF vars, IInv, TypeOK, JoinThenHistory
  <2>2. QED
    BY <1>1, <2>1, NoMessageStep, NoSocketStep DEF vars, IInv
<1>2. ASSUME NEW u \in Users, FindRoom(u) \/ InsertRoom(u) \/ AddMember(u) \/ MarkRead(u)
      PROVE  IInv'
  BY <1>2, RoomStepPreserves, MarkReadPreserves
<1>3. ASSUME NEW m \in Messages,
             \/ SendMessage(m) \/ RefuseMessage(m) \/ ReadRoom(m) \/ NextRoomSeq(m)
             \/ InsertMessage(m) \/ UpdateRoom(m) \/ Publish(m)
      PROVE  IInv'
  BY <1>3, SendMessagePreserves, RefuseMessagePreserves, ReadRoomPreserves,
     NextRoomSeqPreserves, InsertMessagePreserves, UpdateRoomPreserves, PublishPreserves
<1>4. ASSUME NEW s \in Sockets,
             \/ Accept(s) \/ Register(s) \/ AttachListeners(s) \/ Join(s) \/ FinishJoin(s)
             \/ Leave(s) \/ Close(s) \/ History(s)
      PROVE  IInv'
  BY <1>4, SocketStepPreserves, HistoryPreserves
<1>5. QED
  BY <1>1, <1>2, <1>3, <1>4 DEF Next

LEMMA Invariance == Spec => []IInv
<1>1. QED
  BY InitEstablishes, StepPreserves, PTL DEF Spec

\* Every variable keeps its type: a room's lastSeq and its unread counters never
\* pass the number of messages (chat/mongo.ts:66-74).
THEOREM TypeCorrect == Spec => []TypeOK
<1>1. IInv => TypeOK
  BY DEF IInv
<1>2. QED
  BY <1>1, Invariance, PTL

\* Numbers are unique and follow the acknowledgements (chat/mongo.ts:66-74).
THEOREM NumbersAreOrdered == Spec => []SendOrder
<1>1. IInv => SendOrder
  BY DEF IInv, NumbersOK, SendOrder
<1>2. QED
  BY <1>1, Invariance, PTL

\* Unread counters are never too low, and never pass what others wrote
\* (chat/service.ts:158-190).
THEOREM CountersCover == Spec => []UnreadCoversFresh
<1>1. IInv => UnreadCoversFresh
  <2> SUFFICES ASSUME IInv, NEW u \in Users
               PROVE  /\ Cardinality({m \in fresh[u] : at[m] \in {"publish", "done"}}) <= unread[u]
                      /\ unread[u] <= Cardinality({m \in log : SenderUser(m) # u})
    BY DEF UnreadCoversFresh
  <2>1. {m \in fresh[u] : at[m] \in {"publish", "done"}} = CountedNew(u)
    BY DEF IInv, TypeOK, CountedNew, Counted
  <2>2. CountedFor(u) \subseteq {m \in log : SenderUser(m) # u}
    BY DEF IInv, CountersOK, CountedFor, Counted
  <2>3. {m \in log : SenderUser(m) # u} \subseteq Messages
    BY DEF IInv, TypeOK
  <2>4. /\ Cardinality(CountedFor(u)) <= Cardinality({m \in log : SenderUser(m) # u})
        /\ Cardinality({m \in log : SenderUser(m) # u}) \in Nat
    BY <2>2, <2>3, Smaller, SubsetSize
  <2>5. /\ unread[u] \in Nat /\ Cardinality(CountedFor(u)) \in Nat
    BY MessageBound, SubsetSize DEF IInv, TypeOK, CountedFor, Counted
  <2>6. /\ Cardinality(CountedNew(u)) <= unread[u]
        /\ unread[u] <= Cardinality(CountedFor(u))
    BY DEF IInv, CountersOK
  <2>7. QED
    BY <2>1, <2>4, <2>5, <2>6
<1>2. QED
  BY <1>1, Invariance, PTL

\* A socket is registered exactly while it should be (chat/gateway.ts:85-299).
THEOREM RegistriesFollow == Spec => []RegistriesFollowSockets
<1>1. IInv => RegistriesFollowSockets
  BY DEF IInv, SocketsOK, RegistriesFollowSockets, Live
<1>2. QED
  BY <1>1, Invariance, PTL

\* Joining and then reading the history leaves no gap (chat/gateway.ts:178-256).
THEOREM NoGap == Spec => []JoinThenHistory
<1>1. IInv => JoinThenHistory
  BY DEF IInv
<1>2. QED
  BY <1>1, Invariance, PTL
=============================================================================
