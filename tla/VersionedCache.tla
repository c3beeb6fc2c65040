--------------------------- MODULE VersionedCache ---------------------------
(***************************************************************************)
(* One catalogue listing behind the version-tagged cache: cacheVersion and *)
(* bumpCacheVersion of src/src/shared/cache/version.ts, CacheAside.get of  *)
(* cache-aside.ts with its single flight, the readers courses.list,        *)
(* listPackages and getLeaderboard, and the writers that change a row and  *)
(* then bump.  A value is the number of writes it reflects; the listing is *)
(* read from a replica that may lag behind the primary.                    *)
(*                                                                         *)
(* The version key does not exist at first: cacheVersion answers "1" for   *)
(* it, and the first INCR makes it 1.                                      *)
(***************************************************************************)
EXTENDS Naturals, FiniteSets

CONSTANTS
  Readers,    \* requests for the listing, each repeated at will
  Writers,    \* mutations, each made once
  Double,     \* the writers whose event bumps a second time
  NoReader,   \* "no loader in flight"
  Miss,       \* "nothing cached"
  MaxFaults   \* bound: Redis commands and queries that are rejected

ASSUME CacheAssumption ==
  /\ IsFiniteSet(Writers) /\ Double \subseteq Writers
  /\ NoReader \notin Readers /\ Miss \notin Nat
  /\ MaxFaults \in Nat

Values   == 0..Cardinality(Writers)
Versions == 1..(2 * Cardinality(Writers) + 1)

VARIABLES
  primary,   \* writes committed
  replica,   \* writes the replica has applied
  version,   \* the version key; 0 while it does not exist
  entry,     \* the cached value under each version, or Miss
  inFlight,  \* the reader whose loader runs for a version
  gateOpen,  \* canUseRedis("cache")
  wpc,       \* where each writer is
  pc,        \* where each reader is
  tag,       \* the version a reader embeds in its key
  value,     \* the value it has loaded or returned
  blind,     \* readers whose version lookup was rejected in this request
  floor,     \* what the replica had applied at the last bump that changed the key's version
  since,     \* for each reader, floor when its request began
  faults     \* Redis commands and queries rejected

db    == <<primary, replica>>
redis == <<version, entry>>
local == <<pc, tag, value, blind, since>>
vars  == <<db, redis, inFlight, gateOpen, wpc, local, floor, faults>>

TypeOK ==
  /\ primary \in Values /\ replica \in 0..primary
  /\ version \in Versions \cup {0}
  /\ entry \in [Versions -> Values \cup {Miss}]
  /\ inFlight \in [Versions -> Readers \cup {NoReader}]
  /\ gateOpen \in BOOLEAN
  /\ wpc \in [Writers -> {"idle", "bump", "emitted", "done"}]
  /\ pc \in [Readers -> {"idle", "failed", "get", "load", "set", "wait", "direct"}]
  /\ tag \in [Readers -> Versions]
  /\ value \in [Readers -> Values]
  /\ blind \in SUBSET Readers
  /\ floor \in 0..replica
  /\ since \in [Readers -> 0..floor]
  /\ faults \in 0..MaxFaults

Init ==
  /\ primary = 0 /\ replica = 0
  /\ version = 0
  /\ entry = [v \in Versions |-> Miss]
  /\ inFlight = [v \in Versions |-> NoReader]
  /\ gateOpen = TRUE
  /\ wpc = [w \in Writers |-> "idle"]
  /\ pc = [r \in Readers |-> "idle"]
  /\ tag = [r \in Readers |-> 1]
  /\ value = [r \in Readers |-> 0]
  /\ blind = {}
  /\ floor = 0
  /\ since = [r \in Readers |-> 0]
  /\ faults = 0

Fault == faults < MaxFaults /\ faults' = faults + 1
Goto(r, label) == pc' = [pc EXCEPT ![r] = label]

-----------------------------------------------------------------------------
(* Writers *)

Commit(w) ==
  /\ wpc[w] = "idle"
  /\ primary' = primary + 1
  /\ wpc' = [wpc EXCEPT ![w] = "bump"]
  /\ UNCHANGED <<replica, redis, inFlight, gateOpen, local, floor, faults>>

\* INCR; only one that changes what cacheVersion answers sets a new floor.
Increment ==
  /\ version' = version + 1
  /\ floor' = IF version = 0 THEN floor ELSE replica

AfterBump(w) == IF wpc[w] = "bump" /\ w \in Double THEN "emitted" ELSE "done"

\* Variant for mutation: the event's handler emits the event again.
BumpAgain(w) ==
  /\ wpc[w] \in {"bump", "emitted"}
  /\ wpc' = [wpc EXCEPT ![w] = "emitted"]
  /\ Increment
  /\ UNCHANGED <<db, entry, inFlight, gateOpen, local, faults>>

\* The bump after the commit, then that of the event's handler: a rejected
\* INCR is logged and forgotten.
Bump(w) ==
  /\ wpc[w] \in {"bump", "emitted"}
  /\ wpc' = [wpc EXCEPT ![w] = AfterBump(w)]
  /\ \/ Increment /\ UNCHANGED faults
     \/ Fault /\ UNCHANGED <<version, floor>>
  /\ UNCHANGED <<db, entry, inFlight, gateOpen, local>>

Replicate ==
  /\ \E n \in (replica + 1)..primary : replica' = n
  /\ UNCHANGED <<primary, redis, inFlight, gateOpen, wpc, local, floor, faults>>

-----------------------------------------------------------------------------
(* Readers *)

\* Its last request has been answered, or has failed.
Free(r) == pc[r] \in {"idle", "failed"}

\* A request begins: cacheVersion, which answers "1" when Redis rejects.
ReadVersion(r) ==
  /\ Free(r)
  /\ since' = [since EXCEPT ![r] = floor]
  /\ \/ /\ tag' = [tag EXCEPT ![r] = IF version = 0 THEN 1 ELSE version]
        /\ blind' = blind \ {r} /\ UNCHANGED faults
     \/ /\ Fault
        /\ tag' = [tag EXCEPT ![r] = 1]
        /\ blind' = blind \cup {r}
  /\ Goto(r, "get")
  /\ UNCHANGED <<db, redis, inFlight, gateOpen, wpc, value, floor>>

\* The request has its answer.
Return(r, v) ==
  /\ Goto(r, "idle")
  /\ value' = [value EXCEPT ![r] = v]

\* CacheAside.get: the gate, the lookup, and the loader of another reader.
Lookup(r) ==
  /\ pc[r] = "get"
  /\ LET e == entry[tag[r]] IN
       \/ ~gateOpen /\ Goto(r, "direct") /\ UNCHANGED <<value, inFlight, faults>>
       \/ gateOpen /\ Fault /\ Goto(r, "direct") /\ UNCHANGED <<value, inFlight>>
       \/ gateOpen /\ e # Miss /\ Return(r, e) /\ UNCHANGED <<inFlight, faults>>
       \/ /\ gateOpen /\ e = Miss
          /\ IF inFlight[tag[r]] = NoReader
               THEN inFlight' = [inFlight EXCEPT ![tag[r]] = r] /\ Goto(r, "load")
               ELSE Goto(r, "wait") /\ UNCHANGED inFlight
          /\ UNCHANGED <<value, faults>>
  /\ UNCHANGED <<db, redis, gateOpen, wpc, tag, blind, since, floor>>

\* Everyone waiting on the promise of version v, its owner included.
Sharers(r) == {r} \cup {q \in Readers : pc[q] = "wait" /\ tag[q] = tag[r]}

\* The promise is settled, and its flight cleared: the owner and those who wait go on.
Settle(r, label) ==
  /\ pc' = [q \in Readers |-> IF q \in Sharers(r) THEN label ELSE pc[q]]
  /\ inFlight' = [inFlight EXCEPT ![tag[r]] = NoReader]

\* The loader's query; when it is rejected, so is the promise, for everyone that
\* waits, and each catches it and asks the database itself.
Load(r) ==
  /\ pc[r] = "load"
  /\ \/ /\ value' = [value EXCEPT ![r] = replica]
        /\ Goto(r, "set")
        /\ UNCHANGED <<inFlight, faults>>
     \/ Fault /\ Settle(r, "direct") /\ UNCHANGED value
  /\ UNCHANGED <<db, redis, gateOpen, wpc, tag, blind, since, floor>>

\* Variant for mutation: the value is stored under the version of the moment.
StoreUnderLatest(r) ==
  /\ pc[r] = "set"
  /\ entry' = [entry EXCEPT ![IF version = 0 THEN 1 ELSE version] = value[r]]
  /\ value' = [q \in Readers |-> IF q \in Sharers(r) THEN value[r] ELSE value[q]]
  /\ Settle(r, "idle")
  /\ UNCHANGED <<db, version, gateOpen, wpc, tag, blind, since, floor, faults>>

\* Variant for mutation: a rejected SET is reported to the owner only.
StoreRejectsOwner(r) ==
  /\ pc[r] = "set"
  /\ Fault
  /\ Goto(r, "direct")
  /\ inFlight' = [inFlight EXCEPT ![tag[r]] = NoReader]
  /\ UNCHANGED <<db, redis, gateOpen, wpc, tag, value, blind, since, floor>>

\* The SET; when it is rejected, so is the promise.
Store(r) ==
  /\ pc[r] = "set"
  /\ \/ /\ entry' = [entry EXCEPT ![tag[r]] = value[r]]
        /\ value' = [q \in Readers |-> IF q \in Sharers(r) THEN value[r] ELSE value[q]]
        /\ Settle(r, "idle") /\ UNCHANGED faults
     \/ Fault /\ Settle(r, "direct") /\ UNCHANGED <<entry, value>>
  /\ UNCHANGED <<db, version, gateOpen, wpc, tag, blind, since, floor>>

\* The query without the cache: the gate is closed, or get was rejected.  A
\* request whose own query is rejected fails.
QueryDirectly(r) ==
  /\ pc[r] = "direct"
  /\ \/ Return(r, replica) /\ UNCHANGED faults
     \/ Fault /\ Goto(r, "failed") /\ UNCHANGED value
  /\ UNCHANGED <<db, redis, inFlight, gateOpen, wpc, tag, blind, since, floor>>

-----------------------------------------------------------------------------

Expire(v) ==
  /\ entry[v] # Miss
  /\ entry' = [entry EXCEPT ![v] = Miss]
  /\ UNCHANGED <<db, version, inFlight, gateOpen, wpc, local, floor, faults>>

\* The health monitor moves the gate at any time.
GateMoves ==
  /\ gateOpen' = ~gateOpen
  /\ UNCHANGED <<db, redis, inFlight, wpc, local, floor, faults>>

Proceed(r) == Lookup(r) \/ Load(r) \/ Store(r) \/ QueryDirectly(r)

Next ==
  \/ \E w \in Writers : Commit(w) \/ Bump(w)
  \/ Replicate
  \/ \E r \in Readers : ReadVersion(r) \/ Proceed(r)
  \/ \E v \in Versions : Expire(v)
  \/ GateMoves

\* Requests in progress go on.
Fairness == \A r \in Readers : WF_vars(Proceed(r))

Spec == Init /\ [][Next]_vars /\ Fairness

-----------------------------------------------------------------------------
(* Properties *)

\* The point of the versions (version.ts:8-12): a request that begins after a
\* bump returns at least what the loaders could read at that bump, however old
\* the loaders and entries still around are.  Except when its own version
\* lookup was rejected, and for the first bump ever, which changes nothing.
BumpIsBarrier ==
  \A r \in Readers :
    pc[r] = "idle" /\ r \notin blind => value[r] >= since[r]

\* Why it holds: what is cached, or will be, under the version in force is not
\* older than the floor.
CurrentEntryIsFresh ==
  LET current == IF version = 0 THEN 1 ELSE version IN
  /\ entry[current] # Miss => entry[current] >= floor
  /\ \A r \in Readers : pc[r] = "set" /\ tag[r] = current => value[r] >= floor

\* The single flight (cache-aside.ts:53-67): a reader waits only for a loader
\* that runs, and a loader runs only under its own version.
WaitersHaveALoader ==
  /\ \A r \in Readers : pc[r] = "wait" =>
       inFlight[tag[r]] # NoReader /\ pc[inFlight[tag[r]]] \in {"load", "set"}
  /\ \A r \in Readers : pc[r] \in {"load", "set"} => inFlight[tag[r]] = r

\* Every request ends, whatever is rejected: the flight is cleared in the finally,
\* and no waiter is left behind by a loader or a SET that fails (cache-aside.ts:56-66).
EveryReaderReturns == \A r \in Readers : ~Free(r) ~> Free(r)
=============================================================================
