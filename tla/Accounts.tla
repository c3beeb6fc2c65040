------------------------------ MODULE Accounts ------------------------------
(***************************************************************************)
(* One account and the guards on its sign-in: register, verifyEmail, login *)
(* and oauthLogin of src/src/modules/auth/service.ts, setUserStatus of     *)
(* admin/service.ts, the fixed-window rate limit store of                  *)
(* shared/http/rate-limit-store.ts, the lockout counter of                 *)
(* shared/auth/lockout.ts, and the health monitor of                       *)
(* shared/redis/degradation.ts that picks the rate limit's store.          *)
(*                                                                         *)
(* One client address and one e-mail address: all logins hit one bucket    *)
(* and one lockout key.  A request is a call that runs once; each command  *)
(* to Redis or statement to PostgreSQL is a step.                          *)
(***************************************************************************)
EXTENDS Naturals, FiniteSets

CONSTANTS
  Calls,        \* requests
  Starts,       \* the requests that run together, and the account they meet
  Max,          \* the route's rate limit
  LockAt,       \* attempts from which the account is locked
  FailThreshold, RecoverPings,  \* of the monitor
  MaxTroubles,   \* bound: connections lost and times memory fills
  MaxWindows,   \* bound: windows that run out
  MaxDeaths     \* bound: requests that fail between two statements

Kinds == {"good", "bad", "register", "verify", "oauth", "suspend", "activate"}
Logins == {"good", "bad"}

AccountState ==
  [status : {"none", "pending", "active", "suspended"}, verified : BOOLEAN,
   role : BOOLEAN, password : BOOLEAN, token : {"none", "live", "mailed", "used"},
   linked : BOOLEAN]

\* No earlier request was cut short between its statements.
Whole(a) ==
  /\ a.status = "none" => a.token = "none"
  /\ a.status # "none" => a.role
  /\ a.token = "used" => a.verified

ASSUME AccountsAssumption ==
  /\ IsFiniteSet(Calls)
  /\ Starts \subseteq [kind : [Calls -> Kinds], account : AccountState]
  /\ \A s \in Starts : Whole(s.account)
  /\ {Max, LockAt, FailThreshold, RecoverPings} \subseteq Nat \ {0}
  /\ {MaxTroubles, MaxWindows, MaxDeaths} \subseteq Nat

VARIABLES
  up,        \* the Redis server answers
  client,    \* the shared ioredis client
  pressure,  \* memory use is at stressMemoryPercent or above
  troubles,   \* connections lost and times memory filled
  monitor,   \* the rateLimit RedisHealthMonitor
  answered,  \* samples answered in a row, at ease or not, up to RecoverPings
  rate,      \* the route's counter in Redis; count 0 is an absent key
  memory,    \* the route's counter in this instance's memory
  lock,      \* the lockout counter in Redis
  lost,      \* counters whose PEXPIRE was rejected or never sent
  windows,   \* windows that ran out
  account,   \* the users row, its role, its verification token, its identity
  kind,      \* what each call is
  at,        \* where it is
  hit,       \* the rate limit hit of each login
  try,       \* its count in the lockout key
  deaths     \* requests that failed between two statements

link     == <<up, client, troubles>>
health   == <<pressure, monitor, answered>>
counters == <<rate, memory, lock, lost, windows>>
call     == <<kind, hit, try>>
accountsVars     == <<link, health, counters, account, call, at, deaths>>

Counts  == 0..Cardinality(Calls)
Epochs  == 0..(MaxWindows + Cardinality(Calls))
Counter == [count : Counts, ttl : BOOLEAN, window : Epochs]
Hit     == [store : {"none", "redis", "memory"}, count : Counts, window : Epochs]
Try     == [count : Counts, window : Epochs]
NoHit   == [store |-> "none", count |-> 0, window |-> 0]
NoTry   == [count |-> 0, window |-> 0]

Labels == {"idle", "rate", "expire", "ttl", "lock", "lockExpire", "user", "clear",
           "session", "insert", "role", "token", "mail", "read", "mark", "activate",
           "email", "create", "oauthRole", "link", "set", "done", "died"}

AccountsTypeOK ==
  /\ up \in BOOLEAN
  /\ client \in {"connected", "reconnecting", "ended"}
  /\ pressure \in BOOLEAN
  /\ troubles \in 0..MaxTroubles
  /\ monitor \in [state : {"healthy", "stressed", "down"},
                  failures : 0..FailThreshold, recoveries : 0..RecoverPings]
  /\ answered \in 0..RecoverPings
  /\ rate \in Counter /\ memory \in Counter /\ lock \in Counter
  /\ \A k \in {rate, lock} : k.ttl => k.count > 0
  /\ lost \subseteq {"rate", "lock"}
  /\ windows \in 0..MaxWindows
  /\ account \in AccountState
  /\ kind \in [Calls -> Kinds]
  /\ at \in [Calls -> Labels]
  /\ hit \in [Calls -> Hit]
  /\ try \in [Calls -> Try]
  /\ deaths \in 0..MaxDeaths

Absent(w) == [count |-> 0, ttl |-> FALSE, window |-> w]

AccountsInit ==
  /\ up = TRUE /\ client = "connected" /\ pressure = FALSE /\ troubles = 0
  /\ monitor = [state |-> "healthy", failures |-> 0, recoveries |-> 0]
  /\ answered = 0
  /\ rate = Absent(0) /\ memory = Absent(0) /\ lock = Absent(0)
  /\ lost = {} /\ windows = 0
  /\ \E s \in Starts : kind = s.kind /\ account = s.account
  /\ at = [c \in Calls |-> "idle"]
  /\ hit = [c \in Calls |-> NoHit]
  /\ try = [c \in Calls |-> NoTry]
  /\ deaths = 0

-----------------------------------------------------------------------------
(* The connection to Redis and the monitor that samples it *)

LoseConnection ==
  /\ client = "connected" /\ troubles < MaxTroubles
  /\ client' = "reconnecting" /\ troubles' = troubles + 1

Drop ==
  /\ LoseConnection
  /\ up' \in BOOLEAN
  /\ UNCHANGED <<health, counters, account, call, at, deaths>>

Restore ==
  /\ ~up /\ up' = TRUE
  /\ UNCHANGED <<client, troubles, health, counters, account, call, at, deaths>>

Reconnect ==
  /\ up /\ client = "reconnecting" /\ client' = "connected"
  /\ UNCHANGED <<up, troubles, health, counters, account, call, at, deaths>>

\* After 30 attempts the retry strategy answers null and the client ends.
GiveUp ==
  /\ ~up /\ client = "reconnecting" /\ client' = "ended"
  /\ UNCHANGED <<up, troubles, health, counters, account, call, at, deaths>>

MemoryPressure ==
  /\ pressure' = ~pressure
  /\ IF pressure THEN UNCHANGED troubles
     ELSE troubles < MaxTroubles /\ troubles' = troubles + 1
  /\ UNCHANGED <<up, client, monitor, answered, counters, account, call, at, deaths>>

\* The counters stop at the thresholds they are compared with.
UpTo(n, bound) == IF n < bound THEN n + 1 ELSE bound

Failed ==
  LET failures == UpTo(monitor.failures, FailThreshold)
  IN [state |-> CASE failures = FailThreshold -> "down"
                  [] failures # FailThreshold /\ monitor.state = "healthy" -> "stressed"
                  [] OTHER -> monitor.state,
      failures |-> failures, recoveries |-> 0]

Recovered(state) ==
  [state |-> state, failures |-> 0, recoveries |-> UpTo(monitor.recoveries, RecoverPings)]

\* Variant for mutation: a failed sample does not start the count of recoveries again.
EvaluateKeepsCount ==
  IF client # "connected" THEN [Failed EXCEPT !.recoveries = monitor.recoveries]
  ELSE IF pressure THEN Recovered("stressed")
  ELSE IF UpTo(monitor.recoveries, RecoverPings) = RecoverPings
       THEN Recovered("healthy") ELSE Recovered(monitor.state)

\* Variant for mutation: the count of recoveries starts again below its threshold.
EvaluateForgets ==
  IF client # "connected" THEN Failed
  ELSE IF pressure THEN Recovered("stressed")
  ELSE IF UpTo(monitor.recoveries, RecoverPings) = RecoverPings
       THEN Recovered("healthy")
       ELSE [Recovered(monitor.state) EXCEPT !.recoveries = 0]

Evaluate ==
  IF client # "connected" THEN Failed
  ELSE IF pressure THEN Recovered("stressed")
  ELSE IF UpTo(monitor.recoveries, RecoverPings) = RecoverPings
       THEN Recovered("healthy") ELSE Recovered(monitor.state)

Sample ==
  /\ monitor' = Evaluate
  /\ answered' = IF client = "connected" THEN UpTo(answered, RecoverPings) ELSE 0
  /\ UNCHANGED <<link, pressure, counters, account, call, at, deaths>>

-----------------------------------------------------------------------------
(* Steps of a call *)

At(c, label)     == at[c] = label
Goto(c, label)   == at' = [at EXCEPT ![c] = label]
Guarded          == UNCHANGED <<health, account, kind, deaths>>

Begin(c) ==
  /\ At(c, "idle")
  /\ Goto(c, CASE kind[c] \in Logins -> "rate"
               [] kind[c] = "register" ->
                    IF account.status = "none" THEN "insert" ELSE "done"
               [] OTHER -> "read")
  /\ kind[c] = "verify" => account.token \in {"mailed", "used"}
  /\ UNCHANGED <<link, health, counters, account, call, deaths>>

\* What a command to Redis meets: an answer, a connection that breaks after the
\* server has run it, or a client that refuses at once.
Answered == client = "connected" /\ UNCHANGED link
Broken   == LoseConnection /\ UNCHANGED up
Refused  == client # "connected" /\ UNCHANGED link

Incremented(k) == [k EXCEPT !.count = @ + 1]

\* PEXPIRE of a key that clear() has deleted meanwhile does nothing.
WithTtl(k) == [k EXCEPT !.ttl = k.count > 0]

Total(k)       == k.count + 1

Admitted(h) == h.count \in 1..Max

\* MemoryRateLimitStore.incr: synchronous, in the step that falls back to it.
MemoryHit(c) ==
  LET h == [store |-> "memory", count |-> memory.count + 1, window |-> memory.window]
  IN /\ memory' = Incremented(memory)
     /\ hit' = [hit EXCEPT ![c] = h]
     /\ Goto(c, IF Admitted(h) THEN "lock" ELSE "done")

\* The mode of the rate-limit gate.
Gate        == IF monitor.state = "healthy" THEN "redis" ELSE "memory"
CanUseRedis == Gate = "redis"

BypassRedis(c) ==
  /\ At(c, "rate") /\ ~CanUseRedis
  /\ MemoryHit(c)
  /\ UNCHANGED <<link, rate, lock, lost, windows, try>> /\ Guarded

RateIncr(c) ==
  /\ At(c, "rate") /\ CanUseRedis
  /\ \/ /\ Answered
        /\ rate' = Incremented(rate)
        /\ hit' = [hit EXCEPT ![c] =
             [store |-> "redis", count |-> Total(rate), window |-> rate.window]]
        /\ Goto(c, IF Total(rate) = 1 THEN "expire" ELSE "ttl")
        /\ UNCHANGED <<memory, lost>>
     \/ /\ Broken
        /\ rate' = Incremented(rate)
        /\ lost' = IF rate.count = 0 THEN lost \cup {"rate"} ELSE lost
        /\ MemoryHit(c)
     \/ Refused /\ MemoryHit(c) /\ UNCHANGED <<rate, lost>>
  /\ UNCHANGED <<lock, windows, try>> /\ Guarded

RateExpire(c) ==
  /\ At(c, "expire")
  /\ \/ Answered /\ rate' = WithTtl(rate) /\ Goto(c, "ttl") /\ UNCHANGED <<memory, lost, hit>>
     \/ Broken /\ rate' = WithTtl(rate) /\ MemoryHit(c) /\ UNCHANGED lost
     \/ Refused /\ MemoryHit(c) /\ lost' = lost \cup {"rate"} /\ UNCHANGED rate
  /\ UNCHANGED <<lock, windows, try>> /\ Guarded

RateTtl(c) ==
  /\ At(c, "ttl")
  /\ \/ /\ Answered
        /\ Goto(c, IF Admitted(hit[c]) THEN "lock" ELSE "done")
        /\ UNCHANGED <<memory, hit>>
     \/ (Broken \/ Refused) /\ MemoryHit(c)
  /\ UNCHANGED <<rate, lock, lost, windows, try>> /\ Guarded

Locked(n) == n >= LockAt

\* LoginLockout.recordFailed, before the password is looked at.
LockIncr(c) ==
  /\ At(c, "lock")
  /\ \/ /\ Answered
        /\ lock' = Incremented(lock)
        /\ try' = [try EXCEPT ![c] = [count |-> Total(lock), window |-> lock.window]]
        /\ Goto(c, CASE Total(lock) = 1 -> "lockExpire"
                     [] Total(lock) # 1 /\ Locked(Total(lock)) -> "done"
                     [] OTHER -> "user")
        /\ UNCHANGED lost
     \/ /\ Broken
        /\ lock' = Incremented(lock)
        /\ lost' = IF lock.count = 0 THEN lost \cup {"lock"} ELSE lost
        /\ Goto(c, "user") /\ UNCHANGED try
     \/ Refused /\ Goto(c, "user") /\ UNCHANGED <<lock, lost, try>>
  /\ UNCHANGED <<rate, memory, windows, hit>> /\ Guarded

\* Variant for mutation: the first attempt sets the key, with its hour, to one.
LockExpireSets(c) ==
  /\ At(c, "lockExpire") /\ Answered
  /\ lock' = [lock EXCEPT !.count = 1, !.ttl = TRUE]
  /\ Goto(c, IF Locked(1) THEN "done" ELSE "user")
  /\ UNCHANGED <<rate, memory, lost, windows, hit, try>> /\ Guarded

\* The first attempt of a window gives the key its hour; a rejected PEXPIRE
\* lets the attempt through uncounted.
LockExpire(c) ==
  /\ At(c, "lockExpire")
  /\ \/ /\ Answered
        /\ lock' = WithTtl(lock)
        /\ Goto(c, IF Locked(1) THEN "done" ELSE "user")
        /\ UNCHANGED <<lost, try>>
     \/ /\ Broken /\ lock' = WithTtl(lock)
        /\ Goto(c, "user") /\ try' = [try EXCEPT ![c] = NoTry] /\ UNCHANGED lost
     \/ /\ Refused /\ lost' = lost \cup {"lock"}
        /\ Goto(c, "user") /\ try' = [try EXCEPT ![c] = NoTry] /\ UNCHANGED lock
  /\ UNCHANGED <<rate, memory, windows, hit>> /\ Guarded

\* Variant for mutation: the status alone decides.
MayLogInByStatus(c) == kind[c] = "good" /\ account.password /\ account.status = "active"

MayLogIn(c) ==
  /\ kind[c] = "good" /\ account.password
  /\ account.status = "active" /\ account.verified

\* Variant for mutation: a wrong password is counted as well.
CheckPasswordCounts(c) ==
  /\ At(c, "user")
  /\ Goto(c, IF MayLogIn(c) THEN "clear" ELSE "done")
  /\ lock' = IF MayLogIn(c) THEN lock ELSE Incremented(lock)
  /\ UNCHANGED <<link, rate, memory, lost, windows, hit, try>> /\ Guarded

CheckPassword(c) ==
  /\ At(c, "user")
  /\ Goto(c, IF MayLogIn(c) THEN "clear" ELSE "done")
  /\ UNCHANGED <<link, counters, hit, try>> /\ Guarded

\* LoginLockout.clear is best-effort.
ClearLock(c) ==
  /\ At(c, "clear")
  /\ \/ /\ Answered \/ Broken
        /\ lock' = Absent(lock.window + 1)
     \/ Refused /\ UNCHANGED lock
  /\ Goto(c, "session")
  /\ UNCHANGED <<rate, memory, lost, windows, hit, try>> /\ Guarded

WindowEnds ==
  /\ windows < MaxWindows /\ windows' = windows + 1
  /\ \/ rate.ttl /\ rate' = Absent(rate.window + 1) /\ UNCHANGED <<memory, lock>>
     \/ memory.count > 0 /\ memory' = Absent(memory.window + 1) /\ UNCHANGED <<rate, lock>>
     \/ lock.ttl /\ lock' = Absent(lock.window + 1) /\ UNCHANGED <<rate, memory>>
  /\ UNCHANGED <<link, health, lost, account, call, at, deaths>>

-----------------------------------------------------------------------------
(* The account's row *)

Write(c, row, label) ==
  /\ account' = row /\ Goto(c, label)
  /\ UNCHANGED <<link, health, counters, call, deaths>>

Read(c, label) == Write(c, account, label)

\* The unique index refuses a second row with the e-mail address.
InsertUser(c) ==
  /\ At(c, "insert")
  /\ IF account.status = "none"
     THEN Write(c, [account EXCEPT !.status = "pending", !.password = TRUE], "role")
     ELSE Read(c, "done")

InsertRole(c) ==
  \/ At(c, "role") /\ Write(c, [account EXCEPT !.role = TRUE], "token")
  \/ At(c, "oauthRole") /\ Write(c, [account EXCEPT !.role = TRUE], "link")

InsertToken(c) ==
  /\ At(c, "token")
  /\ Write(c, [account EXCEPT !.token = "live"], "mail")

\* The queue may refuse the mail; nobody then knows the token.
QueueMail(c) ==
  /\ At(c, "mail")
  /\ \/ Write(c, [account EXCEPT !.token = "mailed"], "done")
     \/ Read(c, "done")

\* The token may be a day old.
ReadToken(c) ==
  /\ At(c, "read") /\ kind[c] = "verify"
  /\ \/ account.token # "used" /\ Read(c, "mark")
     \/ Read(c, "done")

MarkUsed(c) ==
  /\ At(c, "mark")
  /\ Write(c, [account EXCEPT !.token = "used"], "activate")

Activate(c) ==
  /\ At(c, "activate")
  /\ Write(c, [account EXCEPT !.verified = TRUE, !.status = "active"], "done")

ReadIdentity(c) ==
  /\ At(c, "read") /\ kind[c] = "oauth"
  /\ Read(c, IF account.linked THEN "session" ELSE "email")

FindByEmail(c) ==
  /\ At(c, "email")
  /\ Read(c, IF account.status = "none" THEN "create" ELSE "link")

CreateVerified(c) ==
  /\ At(c, "create")
  /\ IF account.status = "none"
     THEN Write(c, [account EXCEPT !.status = "active", !.verified = TRUE], "oauthRole")
     ELSE Read(c, "done")

\* One identity for a provider's user, by the unique index.
LinkIdentity(c) ==
  /\ At(c, "link")
  /\ IF account.linked THEN Read(c, "done")
     ELSE Write(c, [account EXCEPT !.linked = TRUE], "session")

Target(c) == IF kind[c] = "suspend" THEN "suspended" ELSE "active"

ReadStatus(c) ==
  /\ At(c, "read") /\ kind[c] \in {"suspend", "activate"}
  /\ Read(c, IF account.status \in {"none", Target(c)} THEN "done" ELSE "set")

SetStatus(c) ==
  /\ At(c, "set")
  /\ Write(c, [account EXCEPT !.status = Target(c)], "done")

\* The process dies, or PostgreSQL fails, between two statements.
Die(c) ==
  /\ at[c] \in {"role", "token", "activate", "oauthRole", "link"}
  /\ deaths < MaxDeaths /\ deaths' = deaths + 1
  /\ Goto(c, "died")
  /\ UNCHANGED <<link, health, counters, account, call>>

-----------------------------------------------------------------------------

SignIn(c) ==
  \/ BypassRedis(c) \/ RateIncr(c) \/ RateExpire(c) \/ RateTtl(c)
  \/ LockIncr(c) \/ LockExpire(c) \/ CheckPassword(c) \/ ClearLock(c)

Manage(c) ==
  \/ InsertUser(c) \/ InsertRole(c) \/ InsertToken(c) \/ QueueMail(c)
  \/ ReadToken(c) \/ MarkUsed(c) \/ Activate(c)
  \/ ReadIdentity(c) \/ FindByEmail(c) \/ CreateVerified(c) \/ LinkIdentity(c)
  \/ ReadStatus(c) \/ SetStatus(c)

AccountsNext ==
  \/ \E c \in Calls : Begin(c) \/ SignIn(c) \/ Manage(c) \/ Die(c)
  \/ WindowEnds \/ Drop \/ Restore \/ Reconnect \/ GiveUp \/ MemoryPressure \/ Sample

AccountsSpec == AccountsInit /\ [][AccountsNext]_accountsVars

\* The monitor's timer fires again and again; the client keeps trying to connect.
FairSpec == AccountsSpec /\ WF_accountsVars(Sample) /\ WF_accountsVars(Reconnect)

-----------------------------------------------------------------------------
(* Properties *)

\* In one window a store lets through at most the limit, however requests interleave.
AdmittedPerWindow ==
  \A s \in {"redis", "memory"} : \A w \in Epochs :
    Cardinality({c \in Calls : hit[c].store = s /\ hit[c].window = w /\ Admitted(hit[c])}) <= Max

\* Of the attempts counted in one lockout window the first LockAt - 1 reach the
\* password check, and the others are refused, the right password included.
ChecksPerWindow ==
  /\ \A w \in Epochs :
       Cardinality({c \in Calls : try[c].window = w /\ try[c].count \in 1..(LockAt - 1)}) < LockAt
  /\ \A c \in Calls : Locked(try[c].count) => at[c] \in {"lockExpire", "done"}

\* A counter without a time to live is about to get one, or Redis failed just then:
\* otherwise the client would stay limited, or the account locked, for ever.
CountersEnd ==
  /\ rate.count > 0 /\ ~rate.ttl => "rate" \in lost \/ \E c \in Calls : at[c] = "expire"
  /\ lock.count > 0 /\ ~lock.ttl => "lock" \in lost \/ \E c \in Calls : at[c] = "lockExpire"

\* A password opens a session only on an account whose address was verified.
SessionsAreEarned ==
  \A c \in Calls : at[c] = "session" /\ kind[c] = "good" => account.verified

\* An account without its role, or verified by half, is one a request is still
\* working on, or one whose request died.
AccountsComplete ==
  /\ account.status # "none" /\ ~account.role =>
       \E c \in Calls : at[c] \in {"role", "oauthRole", "died"}
  /\ account.token = "used" /\ ~account.verified =>
       \E c \in Calls : at[c] \in {"activate", "died"}

\* A lock ends with the hour its key was given on the first attempt, or when a
\* login that was let through before opens its session: the code computes 5, 15
\* and 60 minutes (lockout.ts:51-55) and uses none of them.
LockEndsWithItsKey ==
  lock.count >= LockAt /\ lock'.count < LockAt =>
    \/ lock.ttl /\ windows' = windows + 1
    \/ \E c \in Calls : at[c] = "clear" /\ at'[c] = "session" /\ ~Locked(try[c].count)

SignInGuards ==
  AdmittedPerWindow /\ ChecksPerWindow /\ CountersEnd /\ SessionsAreEarned /\ AccountsComplete

\* What sign-in does for sure: the two counters bound what gets through and run
\* out, a lock lasts until its key ends, and a session belongs to a complete,
\* verified account (rate-limit-store.ts 42-75, lockout.ts 21-40,
\* auth/service.ts 91-153).
SignInIsGuarded == []SignInGuards /\ [][LockEndsWithItsKey]_accountsVars

\* The hysteresis as it is (degradation.ts 93-111): a sample opens the gate if and
\* only if it is at ease and ends RecoverPings samples that were answered.  The
\* ones before may have found the memory full: under a load that comes and goes
\* the gate opens on every sample at ease.
GateOpensAfterPings ==
  [][monitor'.state = "healthy" <=>
       /\ client = "connected" /\ ~pressure
       /\ monitor.state = "healthy" \/ answered' = RecoverPings]_<<monitor, answered>>

\* Where the gate settles once Redis stays up and at ease (degradation.ts 93-115,
\* client.ts 21-24): on Redis, for good, or, when the client had given up while
\* Redis was down, on this instance's memory, for good.
GateSettles ==
  <>[](up /\ ~pressure) =>
    <>[](monitor.state = IF client = "ended" THEN "down" ELSE "healthy")
=============================================================================
