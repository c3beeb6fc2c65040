------------------------------- MODULE Chat --------------------------------
(***************************************************************************)
(* One chat room: creating it, joining it over WebSockets, sending,        *)
(* reading and marking it read, of src/src/modules/chat/service.ts and     *)
(* gateway.ts.  MongoDB statements are atomic one by one; a handler is a   *)
(* sequence of steps between awaits.  The history a client fetches is the  *)
(* newest page, large enough for the messages of the instance.             *)
(*                                                                         *)
(* The rate limit, membership and any await may refuse a message.          *)
(* ensureSubscriber listens to "message" but nothing in src/ issues        *)
(* SUBSCRIBE, so what publish sends to Redis reaches no instance.          *)
(***************************************************************************)
EXTENDS Naturals, FiniteSets

CONSTANTS
  Users,
  Sockets,    \* WebSocket connections
  Owner,      \* Owner[s]: the user of a socket
  Instance,   \* Instance[s]: the API process that holds it
  Messages,   \* bound: the messages that are sent
  Sender,     \* Sender[m]: the socket a message comes from
  Restless,   \* bound: the sockets that join, leave, close or fetch the history
  MaxReads    \* bound: times a member marks the room read

ASSUME ChatAssumption ==
  /\ Owner \in [Sockets -> Users]
  /\ Sender \in [Messages -> Sockets]
  /\ IsFiniteSet(Messages)
  /\ MaxReads \in Nat

VARIABLES
  members,      \* memberIds of the room; {} while there is no room
  lastSeq,      \* lastSeq of the room
  unread,       \* unreadCounts of the room
  log,          \* the messages collection
  creating,     \* users between createRoom's find and insert
  at,           \* where the handler of each message is
  seq,          \* the sequence number a message was given; 0 before
  snapshot,     \* the members its handler read
  phase,        \* where handleWsConnection is for each socket
  closed,       \* sockets that are closed
  connections,  \* the connections map
  roomSockets,  \* sockets registered for the room
  rooms,        \* sockets whose conn.rooms has the room
  joining,      \* sockets with a handleJoin in progress
  inbox,        \* messages each socket was sent
  page,         \* messages its client found in the history
  synced,       \* sockets in roomSockets ever since the client read the history
  earlier,      \* for each message, those acknowledged before it was sent
  fresh,        \* for each user, messages inserted since it last marked the room read
  reads,        \* times a user marked the room read
  lateJoin      \* sockets that left or closed while a join was in progress

room    == <<members, lastSeq, unread, log>>
handler == <<at, seq, snapshot>>
gateway == <<phase, closed, connections, roomSockets, rooms, joining>>
client  == <<inbox, page, synced>>
history == <<earlier, fresh, reads, lateJoin>>
vars    == <<room, creating, handler, gateway, client, history>>

Stages == {"idle", "room", "seq", "insert", "meta", "publish", "done", "failed"}

TypeOK ==
  /\ members \in SUBSET Users
  /\ lastSeq \in 0..Cardinality(Messages)
  /\ unread \in [Users -> 0..Cardinality(Messages)]
  /\ log \in SUBSET Messages
  /\ creating \in SUBSET Users
  /\ at \in [Messages -> Stages]
  /\ seq \in [Messages -> 0..lastSeq]
  /\ snapshot \in [Messages -> SUBSET Users]
  /\ phase \in [Sockets -> {"new", "auth", "presence", "open", "deaf"}]
  /\ closed \in SUBSET Sockets /\ connections \in SUBSET Sockets
  /\ roomSockets \in SUBSET Sockets /\ rooms \in SUBSET Sockets
  /\ joining \in SUBSET Sockets
  /\ inbox \in [Sockets -> SUBSET Messages]
  /\ page \in [Sockets -> SUBSET Messages]
  /\ synced \in SUBSET Sockets
  /\ earlier \in [Messages -> SUBSET Messages]
  /\ fresh \in [Users -> SUBSET Messages]
  /\ reads \in [Users -> 0..MaxReads]
  /\ lateJoin \in SUBSET Sockets

Acknowledged == {m \in Messages : at[m] = "done"}
Live(s)      == phase[s] = "open" /\ s \notin closed
SenderUser(m) == Owner[Sender[m]]

Init ==
  /\ members = {} /\ lastSeq = 0 /\ log = {}
  /\ unread = [u \in Users |-> 0]
  /\ creating = {}
  /\ at = [m \in Messages |-> "idle"]
  /\ seq = [m \in Messages |-> 0]
  /\ snapshot = [m \in Messages |-> {}]
  /\ phase = [s \in Sockets |-> "new"]
  /\ closed = {} /\ connections = {} /\ roomSockets = {} /\ rooms = {} /\ joining = {}
  /\ inbox = [s \in Sockets |-> {}]
  /\ page = [s \in Sockets |-> {}]
  /\ synced = {}
  /\ earlier = [m \in Messages |-> {}]
  /\ fresh = [u \in Users |-> {}]
  /\ reads = [u \in Users |-> 0]
  /\ lateJoin = {}

Goto(m, stage) == at' = [at EXCEPT ![m] = stage]

-----------------------------------------------------------------------------
(* Rooms *)

\* createRoom for a course: find, then insert.
FindRoom(u) ==
  /\ members = {}
  /\ creating' = creating \cup {u}
  /\ UNCHANGED <<room, handler, gateway, client, history>>

\* Variant for mutation: the insert replaces a room made in the meantime.
InsertRoomAgain(u) ==
  /\ u \in creating
  /\ creating' = creating \ {u}
  /\ members' = {u} /\ lastSeq' = 0 /\ unread' = [v \in Users |-> 0]
  /\ UNCHANGED <<log, handler, gateway, client, history>>

\* The unique index on courseId refuses the second insert.
InsertRoom(u) ==
  /\ u \in creating
  /\ creating' = creating \ {u}
  /\ members' = IF members = {} THEN {u} ELSE members
  /\ UNCHANGED <<lastSeq, unread, log, handler, gateway, client, history>>

AddMember(u) ==
  /\ members # {}
  /\ members' = members \cup {u}
  /\ UNCHANGED <<lastSeq, unread, log, creating, handler, gateway, client, history>>

-----------------------------------------------------------------------------
(* handleMessage and persistMessage *)

\* The frame arrives; allowSend, the first getRoom and assertMember follow.
SendMessage(m) ==
  /\ at[m] = "idle" /\ Live(Sender[m])
  /\ earlier' = [earlier EXCEPT ![m] = Acknowledged]
  /\ Goto(m, "room")
  /\ UNCHANGED <<room, creating, seq, snapshot, gateway, client, fresh, reads, lateJoin>>

\* Too many messages, no room, not a member, or a rejected await.
RefuseMessage(m) ==
  /\ at[m] \in {"room", "seq", "insert", "meta"}
  /\ Goto(m, "failed")
  /\ UNCHANGED <<room, creating, seq, snapshot, gateway, client, history>>

\* persistMessage reads the room, and with it the members it will count for.
ReadRoom(m) ==
  /\ at[m] = "room" /\ members # {}
  /\ snapshot' = [snapshot EXCEPT ![m] = members]
  /\ Goto(m, "seq")
  /\ UNCHANGED <<room, creating, seq, gateway, client, history>>

\* Variant for mutation: the unread counters are raised with lastSeq.
NextRoomSeqCounting(m) ==
  /\ at[m] = "seq"
  /\ lastSeq' = lastSeq + 1
  /\ seq' = [seq EXCEPT ![m] = lastSeq + 1]
  /\ unread' = [u \in Users |-> IF u \in snapshot[m] \ {SenderUser(m)}
                                  THEN unread[u] + 1 ELSE unread[u]]
  /\ Goto(m, "insert")
  /\ UNCHANGED <<members, log, creating, snapshot, gateway, client, history>>

\* nextRoomSeq: $inc and read back in one statement.
NextRoomSeq(m) ==
  /\ at[m] = "seq"
  /\ lastSeq' = lastSeq + 1
  /\ seq' = [seq EXCEPT ![m] = lastSeq + 1]
  /\ Goto(m, "insert")
  /\ UNCHANGED <<members, unread, log, creating, snapshot, gateway, client, history>>

InsertMessage(m) ==
  /\ at[m] = "insert"
  /\ log' = log \cup {m}
  /\ fresh' = [u \in Users |-> IF u \in snapshot[m] \ {SenderUser(m)}
                                 THEN fresh[u] \cup {m} ELSE fresh[u]]
  /\ Goto(m, "meta")
  /\ UNCHANGED <<members, lastSeq, unread, creating, seq, snapshot, gateway, client,
                 earlier, reads, lateJoin>>

\* lastMessageAt and the unread counters, in one statement.
UpdateRoom(m) ==
  /\ at[m] = "meta"
  /\ unread' = [u \in Users |-> IF u \in snapshot[m] \ {SenderUser(m)}
                                  THEN unread[u] + 1 ELSE unread[u]]
  /\ Goto(m, "publish")
  /\ UNCHANGED <<members, lastSeq, log, creating, seq, snapshot, gateway, client, history>>

\* Variant for mutation: deliverToRoom leaves out the socket it came from.
PublishOthers(m) ==
  /\ at[m] = "publish"
  /\ inbox' = [s \in Sockets |->
       IF s \in roomSockets \ closed /\ Instance[s] = Instance[Sender[m]] /\ s # Sender[m]
         THEN inbox[s] \cup {m} ELSE inbox[s]]
  /\ Goto(m, "done")
  /\ UNCHANGED <<room, creating, seq, snapshot, gateway, page, synced, history>>

\* The ack, and deliverToRoom on the sender's instance.
Publish(m) ==
  /\ at[m] = "publish"
  /\ inbox' = [s \in Sockets |->
       IF s \in roomSockets \ closed /\ Instance[s] = Instance[Sender[m]]
         THEN inbox[s] \cup {m} ELSE inbox[s]]
  /\ Goto(m, "done")
  /\ UNCHANGED <<room, creating, seq, snapshot, gateway, page, synced, history>>

MarkRead(u) ==
  /\ members # {} /\ reads[u] < MaxReads
  /\ reads' = [reads EXCEPT ![u] = @ + 1]
  /\ unread' = [unread EXCEPT ![u] = 0]
  /\ fresh' = [fresh EXCEPT ![u] = {}]
  /\ UNCHANGED <<members, lastSeq, log, creating, handler, gateway, client, earlier, lateJoin>>

-----------------------------------------------------------------------------
(* handleWsConnection, handleJoin, handleLeave *)

Accept(s) ==
  /\ phase[s] = "new"
  /\ phase' = [phase EXCEPT ![s] = "auth"]
  /\ UNCHANGED <<room, creating, handler, closed, connections, roomSockets, rooms, joining,
                 client, history>>

\* The token is good and the profile read: the connection is registered.
Register(s) ==
  /\ phase[s] = "auth"
  /\ phase' = [phase EXCEPT ![s] = "presence"]
  /\ connections' = connections \cup {s}
  /\ UNCHANGED <<room, creating, handler, closed, roomSockets, rooms, joining, client, history>>

\* setOnline has returned: the message and close listeners are attached, for
\* nothing when the socket has closed meanwhile.
AttachListeners(s) ==
  /\ phase[s] = "presence"
  /\ phase' = [phase EXCEPT ![s] = IF s \in closed THEN "deaf" ELSE "open"]
  /\ UNCHANGED <<room, creating, handler, closed, connections, roomSockets, rooms, joining,
                 client, history>>

Join(s) ==
  /\ s \in Restless /\ Live(s) /\ s \notin joining
  /\ joining' = joining \cup {s}
  /\ UNCHANGED <<room, creating, handler, phase, closed, connections, roomSockets, rooms,
                 client, history>>

\* getRoom and assertMember have passed: no test that the socket is still open.
FinishJoin(s) ==
  /\ s \in joining
  /\ joining' = joining \ {s}
  /\ \/ members # {}
        /\ rooms' = rooms \cup {s} /\ roomSockets' = roomSockets \cup {s}
     \/ UNCHANGED <<rooms, roomSockets>>
  /\ UNCHANGED <<room, creating, handler, phase, closed, connections, client, history>>

\* Variant for mutation: only conn.rooms forgets the room.
LeaveRoomOnly(s) ==
  /\ Live(s) /\ s \in Restless
  /\ rooms' = rooms \ {s}
  /\ synced' = synced \ {s}
  /\ lateJoin' = IF s \in joining THEN lateJoin \cup {s} ELSE lateJoin
  /\ UNCHANGED <<room, creating, handler, phase, closed, connections, roomSockets, joining,
                 inbox, page, earlier, fresh, reads>>

Leave(s) ==
  /\ Live(s) /\ s \in Restless
  /\ rooms' = rooms \ {s} /\ roomSockets' = roomSockets \ {s}
  /\ synced' = synced \ {s}
  /\ lateJoin' = IF s \in joining THEN lateJoin \cup {s} ELSE lateJoin
  /\ UNCHANGED <<room, creating, handler, phase, closed, connections, joining,
                 inbox, page, earlier, fresh, reads>>

\* The close listener; before AttachListeners there is none to run.
Close(s) ==
  /\ s \in Restless /\ phase[s] # "new" /\ s \notin closed
  /\ closed' = closed \cup {s}
  /\ synced' = synced \ {s}
  /\ lateJoin' = IF s \in joining THEN lateJoin \cup {s} ELSE lateJoin
  /\ IF phase[s] = "open"
       THEN /\ connections' = connections \ {s}
            /\ roomSockets' = IF s \in rooms THEN roomSockets \ {s} ELSE roomSockets
       ELSE UNCHANGED <<connections, roomSockets>>
  /\ UNCHANGED <<room, creating, handler, phase, rooms, joining, inbox, page, earlier, fresh, reads>>

\* GET /rooms/:id/messages by the client behind s.
History(s) ==
  /\ s \in Restless /\ Live(s) /\ members # {}
  /\ page' = [page EXCEPT ![s] = log]
  /\ synced' = IF s \in roomSockets THEN synced \cup {s} ELSE synced \ {s}
  /\ UNCHANGED <<room, creating, handler, gateway, inbox, history>>

Next ==
  \/ \E u \in Users : FindRoom(u) \/ InsertRoom(u) \/ AddMember(u) \/ MarkRead(u)
  \/ \E m \in Messages :
       \/ SendMessage(m) \/ RefuseMessage(m) \/ ReadRoom(m) \/ NextRoomSeq(m)
       \/ InsertMessage(m) \/ UpdateRoom(m) \/ Publish(m)
  \/ \E s \in Sockets :
       \/ Accept(s) \/ Register(s) \/ AttachListeners(s) \/ Join(s) \/ FinishJoin(s)
       \/ Leave(s) \/ Close(s) \/ History(s)

Spec == Init /\ [][Next]_vars

-----------------------------------------------------------------------------
(* Properties *)

\* Sequence numbers (mongo.ts:66): however many handlers overlap and however
\* often the room is created at once, no two messages have the same number, and
\* a message sent after another was acknowledged has a greater one.
SendOrder ==
  /\ \A m, n \in Messages : m # n /\ seq[m] > 0 => seq[m] # seq[n]
  /\ \A n \in Messages : \A m \in earlier[n] : seq[n] > 0 => seq[m] < seq[n]

\* Unread counters (service.ts:158-175): markRead may run between the insert and
\* the increment, so a counter may be too high, but it is never less than the
\* messages inserted since the member's last markRead and acknowledged, and
\* never more than the others' messages in the room.
UnreadCoversFresh ==
  \A u \in Users :
    /\ Cardinality({m \in fresh[u] : at[m] \in {"publish", "done"}}) <= unread[u]
    /\ unread[u] <= Cardinality({m \in log : SenderUser(m) # u})

\* Registries (gateway.ts:151, 273): a socket that closed or left is gone from
\* roomSockets unless a join of it was in progress, and from connections unless
\* it closed before its listener was attached; a live socket is in roomSockets
\* exactly when its conn.rooms has the room.
RegistriesFollowSockets ==
  \A s \in Sockets :
    /\ Live(s) => s \in connections /\ (s \in roomSockets <=> s \in rooms)
    /\ s \in closed \cap roomSockets => s \in lateJoin
    /\ phase[s] = "open" /\ s \in closed => s \notin connections

\* A client that joins and then reads the history misses nothing of its own
\* instance: every stored message is in its page, was delivered to it, or is
\* about to be, unless its sender was told that the send failed.
JoinThenHistory ==
  \A s \in synced, m \in log :
    \/ m \in page[s] \cup inbox[s]
    \/ at[m] \in {"meta", "publish", "failed"}
    \/ Instance[s] # Instance[Sender[m]]
=============================================================================
