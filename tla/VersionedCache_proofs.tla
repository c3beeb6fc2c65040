----------------------- MODULE VersionedCache_proofs -----------------------
(***************************************************************************)
(* Proofs about VersionedCache for any readers, any finite set of writers  *)
(* and any number of rejected commands.                                    *)
(*                                                                         *)
(* The argument.  CountsOK bounds the counter: a writer bumps at most      *)
(* twice.  TagsOK: nothing is stored or asked for under a version that was *)
(* not yet in force, so a bump that changes the version finds it unused.   *)
(* Hence CurrentEntryIsFresh survives the bump, and a request that begins  *)
(* under the version in force is never older than what it finds there:     *)
(* FoundOK and StoredOK carry that to its end, through however many bumps  *)
(* happen meanwhile.                                                       *)
(***************************************************************************)
EXTENDS VersionedCache, FiniteSetTheorems, TLAPS

Current == IF version = 0 THEN 1 ELSE version

Committed == {w \in Writers : wpc[w] # "idle"}
Bumped    == {w \in Writers : wpc[w] \in {"emitted", "done"}}
Finished  == {w \in Writers : wpc[w] = "done"}

CountsOK ==
  /\ primary = Cardinality(Committed)
  /\ version <= Cardinality(Bumped) + Cardinality(Finished)

TagsOK ==
  /\ \A v \in Versions : entry[v] # Miss => v <= Current
  /\ \A r \in Readers : tag[r] <= Current

\* A request in progress whose version lookup was answered.
Tracked(r) == ~Free(r) /\ r \notin blind

FoundOK ==
  \A r \in Readers : Tracked(r) /\ entry[tag[r]] # Miss => entry[tag[r]] >= since[r]

StoredOK ==
  \A q, r \in Readers :
    pc[q] = "set" /\ Tracked(r) /\ tag[r] = tag[q] => value[q] >= since[r]

\* The reader registered for a version runs its loader.
OwnersRun ==
  \A v \in Versions : inFlight[v] # NoReader =>
    tag[inFlight[v]] = v /\ pc[inFlight[v]] \in {"load", "set"}

IInv ==
  /\ TypeOK /\ CountsOK /\ TagsOK
  /\ CurrentEntryIsFresh /\ FoundOK /\ StoredOK /\ BumpIsBarrier
  /\ OwnersRun /\ WaitersHaveALoader

USE DEF Free

Freshness == CurrentEntryIsFresh /\ FoundOK /\ StoredOK /\ BumpIsBarrier
Flight    == OwnersRun /\ WaitersHaveALoader

USE DEF db, redis, local

LEMMA Sizes == Cardinality(Writers) \in Nat /\ Versions \subseteq Nat /\ Values \subseteq Nat
<1>1. Cardinality(Writers) \in Nat
  BY CacheAssumption, FS_CardinalityType
<1>2. QED
  BY <1>1 DEF Versions, Values

-----------------------------------------------------------------------------
(* The counts *)

LEMMA SubsetSize ==
  ASSUME NEW S, S \subseteq Writers
  PROVE  IsFiniteSet(S) /\ Cardinality(S) \in Nat /\ Cardinality(S) <= Cardinality(Writers)
BY CacheAssumption, FS_Subset, FS_CardinalityType

LEMMA OneMore ==
  ASSUME NEW S, S \subseteq Writers, NEW w \in Writers, w \notin S
  PROVE  Cardinality(S \cup {w}) = Cardinality(S) + 1
<1>1. IsFiniteSet(S)
  BY SubsetSize
<1>2. QED
  BY <1>1, FS_AddElement

LEMMA CommitCounts ==
  ASSUME IInv, NEW w \in Writers, Commit(w)
  PROVE  CountsOK' /\ primary' \in Values
<1>1. Committed' = Committed \cup {w} /\ w \notin Committed
  BY DEF IInv, TypeOK, Commit, Committed
<1>2. Cardinality(Committed') = Cardinality(Committed) + 1
  BY <1>1, OneMore DEF Committed
<1>3. Bumped' = Bumped /\ Finished' = Finished
  BY DEF IInv, TypeOK, Commit, Bumped, Finished
<1>4. CountsOK'
  BY <1>2, <1>3 DEF IInv, CountsOK, Commit
<1>5. Committed' \subseteq Writers
  BY DEF Committed
<1>6. QED
  BY <1>4, <1>5, SubsetSize DEF CountsOK, Values

LEMMA BumpCounts ==
  ASSUME IInv, NEW w \in Writers, wpc[w] \in {"bump", "emitted"},
         wpc' = [wpc EXCEPT ![w] = AfterBump(w)],
         primary' = primary, version' \in {version, version + 1}
  PROVE  CountsOK' /\ version' \in Versions \cup {0}
<1>1. Committed' = Committed
  BY DEF IInv, TypeOK, AfterBump, Committed
<1>2. Cardinality(Bumped') + Cardinality(Finished') >= Cardinality(Bumped) + Cardinality(Finished) + 1
  <2>1. /\ Bumped \subseteq Writers /\ Bumped' \subseteq Writers
        /\ Finished \subseteq Writers /\ Finished' \subseteq Writers
    BY DEF Bumped, Finished
  <2>2. /\ Cardinality(Bumped) \in Nat /\ Cardinality(Bumped') \in Nat
        /\ Cardinality(Finished) \in Nat /\ Cardinality(Finished') \in Nat
    BY <2>1, SubsetSize
  <2>3. CASE AfterBump(w) = "emitted"
    <3>1. Bumped' = Bumped \cup {w} /\ w \notin Bumped /\ Finished' = Finished
      BY <2>3 DEF IInv, TypeOK, AfterBump, Bumped, Finished
    <3>2. Cardinality(Bumped') = Cardinality(Bumped) + 1
      BY <2>1, <3>1, OneMore
    <3>3. QED
      BY <2>2, <3>1, <3>2
  <2>4. CASE AfterBump(w) = "done"
    <3>1. Bumped' = Bumped \cup {w} /\ w \notin Finished /\ Finished' = Finished \cup {w}
      BY <2>4 DEF IInv, TypeOK, Bumped, Finished
    <3>2. Cardinality(Finished') = Cardinality(Finished) + 1
      BY <2>1, <3>1, OneMore
    <3>3. Cardinality(Bumped) <= Cardinality(Bumped')
      <4>1. Bumped \subseteq Bumped' /\ IsFiniteSet(Bumped')
        BY <2>1, <3>1, SubsetSize
      <4>2. QED
        BY <4>1, FS_Subset
    <3>4. QED
      BY <2>2, <3>2, <3>3
  <2>5. QED
    BY <2>3, <2>4 DEF AfterBump
<1>3. version \in Nat /\ Cardinality(Bumped) + Cardinality(Finished) \in Nat
      /\ Cardinality(Bumped') + Cardinality(Finished') \in Nat
      /\ Cardinality(Bumped') + Cardinality(Finished') <= 2 * Cardinality(Writers)
  <2>1. /\ Bumped \subseteq Writers /\ Bumped' \subseteq Writers
        /\ Finished \subseteq Writers /\ Finished' \subseteq Writers
    BY DEF Bumped, Finished
  <2>2. /\ Cardinality(Bumped) \in Nat /\ Cardinality(Finished) \in Nat
        /\ Cardinality(Bumped') \in Nat /\ Cardinality(Finished') \in Nat
        /\ Cardinality(Bumped') <= Cardinality(Writers)
        /\ Cardinality(Finished') <= Cardinality(Writers)
    BY <2>1, SubsetSize
  <2>3. QED
    BY <2>2, Sizes DEF IInv, TypeOK
<1>4. version <= Cardinality(Bumped) + Cardinality(Finished)
  BY DEF IInv, CountsOK
<1>5. version' <= Cardinality(Bumped') + Cardinality(Finished') /\ version' \in Nat
  BY <1>2, <1>3, <1>4
<1>6. CountsOK'
  BY <1>1, <1>5 DEF IInv, CountsOK
<1>7. version' \in Versions \cup {0}
  BY <1>3, <1>5, Sizes DEF Versions
<1>8. QED
  BY <1>6, <1>7

\* The readers, the replica and Redis leave the writers alone.
LEMMA CountsStay ==
  ASSUME IInv, UNCHANGED <<primary, version, wpc>>
  PROVE  CountsOK'
BY DEF IInv, CountsOK, Committed, Bumped, Finished

-----------------------------------------------------------------------------
(* One lemma for each step *)

LEMMA CommitPreserves ==
  ASSUME IInv, NEW w \in Writers, Commit(w)
  PROVE  IInv'
<1>1. TypeOK'
  <2>1. primary \in Nat /\ primary' = primary + 1 /\ primary' \in Values
    BY CommitCounts, Sizes DEF IInv, TypeOK, Commit
  <2>2. replica \in 0..primary'
    BY <2>1 DEF IInv, TypeOK
  <2>3. wpc' \in [Writers -> {"idle", "bump", "emitted", "done"}]
    BY DEF IInv, TypeOK, Commit
  <2>4. UNCHANGED <<replica, redis, inFlight, gateOpen, local, floor, faults>>
    BY DEF Commit
  <2>5. QED
    BY <2>1, <2>2, <2>3, <2>4 DEF IInv, TypeOK
<1>2. TagsOK' /\ Freshness' /\ Flight'
  BY DEF IInv, TagsOK, Freshness, Flight, CurrentEntryIsFresh, FoundOK, StoredOK, Tracked,
     BumpIsBarrier, OwnersRun, WaitersHaveALoader, Current, Commit
<1>3. QED
  BY <1>1, <1>2, CommitCounts DEF IInv, Freshness, Flight

LEMMA BumpPreserves ==
  ASSUME IInv, NEW w \in Writers, Bump(w)
  PROVE  IInv'
<1>1. /\ wpc[w] \in {"bump", "emitted"} /\ wpc' = [wpc EXCEPT ![w] = AfterBump(w)]
      /\ UNCHANGED <<primary, replica, entry, inFlight, gateOpen, pc, tag, value, blind, since>>
      /\ faults' \in 0..MaxFaults
      /\ \/ version' = version /\ floor' = floor
         \/ version' = version + 1 /\ floor' = IF version = 0 THEN floor ELSE replica
  BY CacheAssumption DEF IInv, TypeOK, Bump, Increment, Fault
<1>2. CountsOK' /\ version' \in Versions \cup {0}
  BY <1>1, BumpCounts
<1>3. version \in Nat /\ floor \in Nat /\ replica \in Nat /\ floor <= replica
  BY Sizes DEF IInv, TypeOK
<1>4. TypeOK'
  <2>1. floor' \in 0..replica /\ floor <= floor'
    BY <1>1, <1>3
  <2>2. since' \in [Readers -> 0..floor']
    BY <1>1, <1>3, <2>1 DEF IInv, TypeOK
  <2>3. wpc' \in [Writers -> {"idle", "bump", "emitted", "done"}]
    BY <1>1 DEF IInv, TypeOK, AfterBump
  <2>4. QED
    BY <1>1, <1>2, <2>1, <2>2, <2>3 DEF IInv, TypeOK
<1>5. /\ Current \in Nat /\ Current' \in Nat /\ Current <= Current'
      /\ \/ Current' = Current /\ floor' = floor
         \/ Current' > Current /\ Current' = version'
  <2>1. /\ Current = IF version = 0 THEN 1 ELSE version
        /\ Current' = IF version' = 0 THEN 1 ELSE version'
    BY DEF Current
  <2>2. CASE version' = version
    BY <1>1, <1>3, <2>1, <2>2
  <2>3. CASE version' = version + 1 /\ version = 0
    BY <1>1, <1>3, <2>1, <2>3
  <2>4. CASE version' = version + 1 /\ version # 0
    BY <1>1, <1>3, <2>1, <2>4
  <2>5. QED
    BY <1>1, <2>2, <2>3, <2>4
<1>6. TagsOK'
  <2>1. \A n \in Nat : n <= Current => n <= Current'
    BY <1>5
  <2>2. \A r \in Readers : tag[r] \in Nat
    BY Sizes DEF IInv, TypeOK
  <2>3. /\ \A v \in Versions : entry[v] # Miss => v <= Current
        /\ \A r \in Readers : tag[r] <= Current
    BY DEF IInv, TagsOK
  <2>4. QED
    BY <1>1, <2>1, <2>2, <2>3, Sizes DEF TagsOK
<1>7. CurrentEntryIsFresh'
  <2>1. CASE Current' = Current /\ floor' = floor
    BY <1>1, <2>1 DEF IInv, CurrentEntryIsFresh, Current
  <2>2. CASE Current' > Current /\ Current' = version'
    <3>1. Current' \in Versions
      BY <1>2, <1>3, <1>5, <2>2 DEF Current
    <3>2. entry[Current'] = Miss /\ \A r \in Readers : tag[r] # Current'
      <4>1. ~(Current' <= Current)
        BY <1>5, <2>2
      <4>2. QED
        BY <3>1, <4>1 DEF IInv, TagsOK
    <3>3. QED
      BY <1>1, <3>2 DEF CurrentEntryIsFresh, Current
  <2>3. QED
    BY <1>5, <2>1, <2>2
<1>8. FoundOK' /\ StoredOK' /\ BumpIsBarrier' /\ Flight'
  BY <1>1 DEF IInv, FoundOK, StoredOK, Tracked, BumpIsBarrier, Flight, OwnersRun, WaitersHaveALoader
<1>9. QED
  BY <1>2, <1>4, <1>6, <1>7, <1>8 DEF IInv, Flight

LEMMA ReplicatePreserves ==
  ASSUME IInv, Replicate
  PROVE  IInv'
<1>1. replica' \in 0..primary /\ replica <= replica'
  BY Sizes DEF IInv, TypeOK, Replicate
<1>2. TypeOK'
  BY <1>1, Sizes DEF IInv, TypeOK, Replicate
<1>3. TagsOK' /\ Freshness' /\ Flight'
  BY DEF IInv, TagsOK, Freshness, Flight, CurrentEntryIsFresh, FoundOK, StoredOK, Tracked,
     BumpIsBarrier, OwnersRun, WaitersHaveALoader, Current, Replicate
<1>4. CountsOK'
  BY CountsStay DEF Replicate
<1>5. QED
  BY <1>2, <1>3, <1>4 DEF IInv, Freshness, Flight

LEMMA ReadVersionPreserves ==
  ASSUME IInv, NEW r \in Readers, ReadVersion(r)
  PROVE  IInv'
<1>1. /\ pc[r] \in {"idle", "failed"} /\ pc' = [pc EXCEPT ![r] = "get"]
      /\ since' = [since EXCEPT ![r] = floor]
      /\ UNCHANGED <<db, redis, inFlight, gateOpen, wpc, value, floor>>
      /\ \/ tag' = [tag EXCEPT ![r] = Current] /\ blind' = blind \ {r}
         \/ tag' = [tag EXCEPT ![r] = 1] /\ blind' = blind \cup {r}
      /\ faults' \in 0..MaxFaults
  BY CacheAssumption DEF IInv, TypeOK, ReadVersion, Goto, Fault, Current
<1>2. Current \in Versions /\ 1 \in Versions /\ 1 <= Current /\ Current \in Nat
  BY Sizes DEF IInv, TypeOK, Current, Versions
<1>3. floor \in Nat /\ replica \in Nat
  BY Sizes DEF IInv, TypeOK
<1>4. TypeOK'
  BY <1>1, <1>2, <1>3 DEF IInv, TypeOK
<1>5. CountsOK'
  BY <1>1, CountsStay
<1>6. TagsOK'
  BY <1>1, <1>2 DEF IInv, TypeOK, TagsOK, Current
<1>7. CurrentEntryIsFresh'
  BY <1>1 DEF IInv, TypeOK, CurrentEntryIsFresh
<1>8. FoundOK'
  BY <1>1 DEF IInv, TypeOK, CurrentEntryIsFresh, FoundOK, Tracked, Current
<1>9. StoredOK'
  BY <1>1 DEF IInv, TypeOK, CurrentEntryIsFresh, StoredOK, Tracked, Current
<1>10. BumpIsBarrier'
  BY <1>1 DEF IInv, TypeOK, BumpIsBarrier
<1>11. Flight'
  BY <1>1 DEF IInv, TypeOK, Flight, OwnersRun, WaitersHaveALoader
<1>12. QED
  BY <1>4, <1>5, <1>6, <1>7, <1>8, <1>9, <1>10, <1>11 DEF IInv, Flight

LEMMA LookupPreserves ==
  ASSUME IInv, NEW r \in Readers, Lookup(r)
  PROVE  IInv'
<1>1. /\ pc[r] = "get" /\ faults' \in 0..MaxFaults
      /\ UNCHANGED <<db, redis, gateOpen, wpc, tag, blind, since, floor>>
  BY CacheAssumption DEF IInv, TypeOK, Lookup, Fault
<1>2. CountsOK' /\ TagsOK'
  BY <1>1, CountsStay DEF IInv, TagsOK, Current
<1>3. CASE pc' = [pc EXCEPT ![r] = "direct"] /\ UNCHANGED <<value, inFlight>>
  BY <1>1, <1>2, <1>3 DEF IInv, TypeOK, CurrentEntryIsFresh, FoundOK, StoredOK, Tracked,
     BumpIsBarrier, OwnersRun, WaitersHaveALoader
<1>4. CASE /\ entry[tag[r]] # Miss /\ Return(r, entry[tag[r]]) /\ UNCHANGED inFlight
  <2>1. TypeOK' /\ Flight'
    BY <1>1, <1>4 DEF IInv, TypeOK, Return, Goto, Flight, OwnersRun, WaitersHaveALoader
  <2>2. Freshness'
    BY <1>1, <1>4 DEF IInv, TypeOK, Return, Goto, Freshness, CurrentEntryIsFresh, FoundOK,
       StoredOK, Tracked, BumpIsBarrier
  <2>3. QED
    BY <1>2, <2>1, <2>2 DEF IInv, Freshness, Flight
<1>5. CASE /\ entry[tag[r]] = Miss /\ UNCHANGED value /\ inFlight[tag[r]] = NoReader
           /\ inFlight' = [inFlight EXCEPT ![tag[r]] = r] /\ pc' = [pc EXCEPT ![r] = "load"]
  <2>1. TypeOK'
    BY <1>1, <1>5 DEF IInv, TypeOK
  <2>2. Flight'
    BY <1>1, <1>5, CacheAssumption DEF IInv, TypeOK, Flight, OwnersRun, WaitersHaveALoader
  <2>3. Freshness'
    BY <1>1, <1>5 DEF IInv, TypeOK, Freshness, CurrentEntryIsFresh, FoundOK, StoredOK, Tracked,
       BumpIsBarrier
  <2>4. QED
    BY <1>2, <2>1, <2>2, <2>3 DEF IInv, Freshness, Flight
<1>6. CASE /\ inFlight[tag[r]] # NoReader /\ UNCHANGED <<value, inFlight>>
           /\ pc' = [pc EXCEPT ![r] = "wait"]
  <2>1. TypeOK'
    BY <1>1, <1>6 DEF IInv, TypeOK
  <2>2. Flight'
    BY <1>1, <1>6 DEF IInv, TypeOK, Flight, OwnersRun, WaitersHaveALoader
  <2>3. Freshness'
    BY <1>1, <1>6 DEF IInv, TypeOK, Freshness, CurrentEntryIsFresh, FoundOK, StoredOK, Tracked,
       BumpIsBarrier
  <2>4. QED
    BY <1>2, <2>1, <2>2, <2>3 DEF IInv, Freshness, Flight
<1>7. QED
  BY <1>3, <1>4, <1>5, <1>6 DEF Lookup, Goto

\* A promise that is settled leaves no waiter on it, and no flight of it.
LEMMA SettlePreserves ==
  ASSUME IInv, NEW r \in Readers, pc[r] \in {"load", "set"}, NEW label \in {"idle", "direct"},
         Settle(r, label), UNCHANGED tag
  PROVE  /\ Flight'
         /\ pc' \in [Readers -> {"idle", "failed", "get", "load", "set", "wait", "direct"}]
         /\ inFlight' \in [Versions -> Readers \cup {NoReader}]
<1>1. r \in Sharers(r) /\ \A q \in Sharers(r) : pc[q] \in {"load", "set", "wait"} /\ tag[q] = tag[r]
  BY DEF Sharers
<1>2. QED
  BY <1>1, CacheAssumption DEF IInv, TypeOK, Settle, Sharers, Flight, OwnersRun, WaitersHaveALoader

\* A promise that is rejected sends its waiters to the database.
LEMMA RejectPreserves ==
  ASSUME IInv, NEW r \in Readers, pc[r] \in {"load", "set"}, Fault, Settle(r, "direct"),
         UNCHANGED <<db, redis, gateOpen, wpc, tag, value, blind, since, floor>>
  PROVE  IInv'
<1>1. TypeOK' /\ Flight'
  BY SettlePreserves, CacheAssumption DEF IInv, TypeOK, Fault
<1>2. CountsOK' /\ TagsOK'
  BY CountsStay DEF IInv, TagsOK, Current
<1>3. \A q \in Readers : pc'[q] = pc[q] \/ (pc'[q] = "direct" /\ pc[q] \in {"load", "set", "wait"})
  BY DEF Settle, Sharers
<1>4. Freshness'
  BY <1>3 DEF IInv, Freshness, CurrentEntryIsFresh, FoundOK, StoredOK, Tracked, BumpIsBarrier
<1>5. QED
  BY <1>1, <1>2, <1>4 DEF IInv, Freshness, Flight

LEMMA LoadPreserves ==
  ASSUME IInv, NEW r \in Readers, Load(r)
  PROVE  IInv'
<1>1. pc[r] = "load" /\ UNCHANGED <<db, redis, gateOpen, wpc, tag, blind, since, floor>>
  BY DEF Load
<1>2. CASE /\ pc' = [pc EXCEPT ![r] = "set"]
           /\ value' = [value EXCEPT ![r] = replica]
           /\ UNCHANGED <<inFlight, faults>>
  <2>1. /\ replica \in Values /\ replica \in Nat /\ floor \in Nat /\ floor <= replica
        /\ \A q \in Readers : since[q] \in Nat /\ since[q] <= replica
    BY Sizes DEF IInv, TypeOK, Values
  <2>2. TypeOK'
    BY <1>1, <1>2, <2>1 DEF IInv, TypeOK
  <2>3. CountsOK' /\ TagsOK'
    BY <1>1, CountsStay DEF IInv, TagsOK, Current
  <2>4. Freshness'
    BY <1>1, <1>2, <2>1 DEF IInv, TypeOK, Freshness, CurrentEntryIsFresh, FoundOK, StoredOK,
       Tracked, BumpIsBarrier
  <2>5. Flight'
    BY <1>1, <1>2 DEF IInv, TypeOK, Flight, OwnersRun, WaitersHaveALoader
  <2>6. QED
    BY <2>2, <2>3, <2>4, <2>5 DEF IInv, Freshness, Flight
<1>3. CASE Fault /\ Settle(r, "direct") /\ UNCHANGED value
  BY <1>1, <1>3, RejectPreserves
<1>4. QED
  BY <1>2, <1>3 DEF Load, Goto

LEMMA StorePreserves ==
  ASSUME IInv, NEW r \in Readers, Store(r)
  PROVE  IInv'
<1>1. pc[r] = "set" /\ UNCHANGED <<db, version, gateOpen, wpc, tag, blind, since, floor>>
  BY DEF Store
<1>2. CASE /\ entry' = [entry EXCEPT ![tag[r]] = value[r]]
           /\ Settle(r, "idle") /\ UNCHANGED faults
           /\ value' = [q \in Readers |-> IF q \in Sharers(r) THEN value[r] ELSE value[q]]
  <2>1. /\ r \in Sharers(r) /\ \A q \in Sharers(r) : pc[q] \in {"set", "wait"} /\ tag[q] = tag[r]
        /\ pc' = [q \in Readers |-> IF q \in Sharers(r) THEN "idle" ELSE pc[q]]
    BY <1>1, <1>2 DEF Sharers, Settle
  <2>2. Flight' /\ TypeOK'
    BY <1>1, <1>2, SettlePreserves DEF IInv, TypeOK
  <2>3. CountsOK' /\ TagsOK'
    BY <1>1, <1>2, CountsStay DEF IInv, TypeOK, TagsOK, Current
  <2>4. CurrentEntryIsFresh'
    BY <1>1, <1>2, <2>1 DEF IInv, TypeOK, CurrentEntryIsFresh
  <2>5. FoundOK'
    BY <1>1, <1>2, <2>1 DEF IInv, TypeOK, FoundOK, StoredOK, Tracked
  <2>6. StoredOK'
    BY <1>1, <1>2, <2>1 DEF IInv, TypeOK, StoredOK, Tracked
  <2>7. BumpIsBarrier'
    BY <1>1, <1>2, <2>1 DEF IInv, TypeOK, StoredOK, BumpIsBarrier, Tracked
  <2>8. QED
    BY <2>2, <2>3, <2>4, <2>5, <2>6, <2>7 DEF IInv, Flight
<1>3. CASE Fault /\ Settle(r, "direct") /\ UNCHANGED <<entry, value>>
  BY <1>1, <1>3, RejectPreserves
<1>4. QED
  BY <1>2, <1>3 DEF Store

LEMMA QueryDirectlyPreserves ==
  ASSUME IInv, NEW r \in Readers, QueryDirectly(r)
  PROVE  IInv'
<1>1. /\ pc[r] = "direct" /\ faults' \in 0..MaxFaults
      /\ \/ pc' = [pc EXCEPT ![r] = "idle"] /\ value' = [value EXCEPT ![r] = replica]
         \/ pc' = [pc EXCEPT ![r] = "failed"] /\ UNCHANGED value
      /\ UNCHANGED <<db, redis, inFlight, gateOpen, wpc, tag, blind, since, floor>>
  BY CacheAssumption DEF IInv, TypeOK, QueryDirectly, Return, Goto, Fault
<1>2. /\ replica \in Values /\ replica \in Nat
      /\ since[r] \in Nat /\ since[r] <= replica
  BY Sizes DEF IInv, TypeOK, Values
<1>3. TypeOK'
  BY <1>1, <1>2 DEF IInv, TypeOK
<1>4. CountsOK' /\ TagsOK'
  BY <1>1, CountsStay DEF IInv, TagsOK, Current
<1>5. Freshness'
  BY <1>1, <1>2 DEF IInv, TypeOK, Freshness, CurrentEntryIsFresh, FoundOK, StoredOK, Tracked,
     BumpIsBarrier
<1>6. Flight'
  BY <1>1 DEF IInv, TypeOK, Flight, OwnersRun, WaitersHaveALoader
<1>7. QED
  BY <1>3, <1>4, <1>5, <1>6 DEF IInv, Freshness, Flight

LEMMA ExpirePreserves ==
  ASSUME IInv, NEW v \in Versions, Expire(v)
  PROVE  IInv'
<1>1. TypeOK' /\ TagsOK' /\ Flight'
  BY DEF IInv, TypeOK, TagsOK, Current, Expire, Flight, OwnersRun, WaitersHaveALoader
<1>2. Freshness'
  BY DEF IInv, TypeOK, Expire, Freshness, CurrentEntryIsFresh, FoundOK, StoredOK, Tracked,
     BumpIsBarrier
<1>3. CountsOK'
  BY CountsStay DEF Expire
<1>4. QED
  BY <1>1, <1>2, <1>3 DEF IInv, Freshness, Flight

\* The gate moves, or nothing does.
LEMMA GatePreserves ==
  ASSUME IInv, gateOpen' \in BOOLEAN,
         UNCHANGED <<db, redis, inFlight, wpc, local, floor, faults>>
  PROVE  IInv'
BY CountsStay DEF IInv, TypeOK, TagsOK, Current, CurrentEntryIsFresh, FoundOK, StoredOK, Tracked,
   BumpIsBarrier, OwnersRun, WaitersHaveALoader

-----------------------------------------------------------------------------

LEMMA InitEstablishes == Init => IInv
<1> SUFFICES ASSUME Init PROVE IInv
  OBVIOUS
<1>1. TypeOK
  BY Sizes, CacheAssumption DEF Init, TypeOK, Versions, Values
<1>2. CountsOK
  <2>1. Committed = {} /\ Bumped = {} /\ Finished = {}
    BY DEF Init, Committed, Bumped, Finished
  <2>2. QED
    BY <2>1, FS_EmptySet DEF Init, CountsOK
<1>3. TagsOK /\ Freshness /\ Flight
  BY Sizes DEF Init, TagsOK, Current, Freshness, CurrentEntryIsFresh, FoundOK, StoredOK, Tracked,
     BumpIsBarrier, Flight, OwnersRun, WaitersHaveALoader, Versions
<1>4. QED
  BY <1>1, <1>2, <1>3 DEF IInv, Freshness, Flight

LEMMA StepPreserves == IInv /\ [Next]_vars => IInv'
<1> SUFFICES ASSUME IInv, [Next]_vars PROVE IInv'
  OBVIOUS
<1>1. CASE UNCHANGED vars
  BY <1>1, GatePreserves DEF vars, IInv, TypeOK
<1>2. ASSUME NEW w \in Writers, Commit(w) \/ Bump(w) PROVE IInv'
  BY <1>2, CommitPreserves, BumpPreserves
<1>3. CASE Replicate
  BY <1>3, ReplicatePreserves
<1>4. ASSUME NEW r \in Readers, ReadVersion(r) \/ Proceed(r) PROVE IInv'
  BY <1>4, ReadVersionPreserves, LookupPreserves, LoadPreserves, StorePreserves,
     QueryDirectlyPreserves DEF Proceed
<1>5. ASSUME NEW v \in Versions, Expire(v) PROVE IInv'
  BY <1>5, ExpirePreserves
<1>6. CASE GateMoves
  BY <1>6, GatePreserves DEF GateMoves, IInv, TypeOK
<1>7. QED
  BY <1>1, <1>2, <1>3, <1>4, <1>5, <1>6 DEF Next

LEMMA Invariance == Spec => []IInv
<1>1. QED
  BY InitEstablishes, StepPreserves, PTL DEF Spec

\* Every variable keeps its type; in particular the version stays within two
\* bumps for each write (cache/version.ts:22-28).
THEOREM TypeCorrect == Spec => []TypeOK
<1>1. IInv => TypeOK
  BY DEF IInv
<1>2. QED
  BY <1>1, Invariance, PTL

\* A request that begins after a bump never returns less than the loaders could
\* read at that bump (cache/version.ts:7-28, cache-aside.ts:42-69).
THEOREM Barrier == Spec => []BumpIsBarrier
<1>1. IInv => BumpIsBarrier
  BY DEF IInv
<1>2. QED
  BY <1>1, Invariance, PTL

\* A waiting reader always has a loader that runs, and each loader is the one
\* registered under its version (cache-aside.ts:53-67).
THEOREM SingleFlight == Spec => []WaitersHaveALoader
<1>1. IInv => WaitersHaveALoader
  BY DEF IInv
<1>2. QED
  BY <1>1, Invariance, PTL
=============================================================================
