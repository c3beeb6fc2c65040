------------------------------- MODULE Results -------------------------------
(* The figures the API derives from stored rows: rank, percentile,            *)
(* leaderboard, score bands, time analysis, streak, cohort, progress, and the  *)
(* admin console's totals.  Each is a function of the set of rows its query    *)
(* reads; nulls that the query filters out are not represented.                *)
(* Bounds: the facts use three sessions, three answers, a week of days, and    *)
(* courses of up to 200 lessons; MaxCounted is the code's.                     *)
EXTENDS Integers, FiniteSets, Functions
LOCAL INSTANCE FiniteSetsExt

\* Math.round and toFixed of a quotient of naturals.
RoundedQuotient(a, b) == (2 * a + b) \div (2 * b)
Percent(part, whole)  == IF whole = 0 THEN 0 ELSE RoundedQuotient(100 * part, whole)
Total(f(_), rows)     == MapThenSumSet(f, rows)

-----------------------------------------------------------------------------
(* Ranking: simulations/service.ts *)

\* Percentile in tenths of a percent, as gradeSession stores it.
Percentile(score, peers) ==
  LET lower == Cardinality({p \in peers : p.score < score})
      equal == Cardinality({p \in peers : p.score = score})
  IN  IF peers = {} THEN 1000
      ELSE RoundedQuotient(500 * (2 * lower + equal), Cardinality(peers))

Above(rows, score) == {r \in rows : r.score > score}

ComputeRank(rows, score, excluded) == Cardinality(Above({r \in rows : r.id # excluded}, score)) + 1

GetResult(rows, session) ==
  [score |-> session.score, rank |-> ComputeRank(rows, session.score, session.id)]

Filtered(rows, cutoff, friends) ==
  {r \in rows : r.at >= cutoff /\ (friends = {} \/ r.user \in friends)}

\* The first rows by score; the order of equal scores is the database's choice.
Leaderboards(rows, cutoff, friends, limit) ==
  LET shown == Filtered(rows, cutoff, friends)
      n     == Min({limit, Cardinality(shown)})
  IN  {page \in [1..n -> shown] :
         /\ IsInjective(page)
         /\ \A i \in 1..n, r \in shown : r.score > page[i].score => \E j \in 1..(i - 1) : page[j] = r}

\* The rank is that of whichever of the user's rows the query returns first.
PersonalRanks(rows, cutoff, friends, user) ==
  LET shown == Filtered(rows, cutoff, friends)
  IN  {Cardinality(Above(shown, r.score)) + 1 : r \in {s \in shown : s.user = user}}

-----------------------------------------------------------------------------
(* results/service.ts *)

Mean(f(_), rows) == RoundedQuotient(Total(f, rows), Cardinality(rows))

Banding(rows) ==
  LET percentiles == {r.percentile : r \in rows}
      average     == Mean(LAMBDA r : r.percentile, rows)
  IN  [averageScore      |-> Mean(LAMBDA r : r.score, rows),
       bestScore         |-> Max({r.score : r \in rows}),
       averagePercentile |-> average,
       percentileRange   |-> <<Min(percentiles), Max(percentiles)>>,
       band              |-> IF average < 40 THEN "rendah" ELSE IF average <= 70 THEN "menengah" ELSE "tinggi"]

\* One group of answers: all of them, or those of one category.
Timing(rows) ==
  LET answered == {r \in rows : r.answered}
  IN  [answers |-> Cardinality(rows),
       answered |-> Cardinality(answered),
       avgTimeMs |-> IF answered = {} THEN 0 ELSE Mean(LAMBDA r : r.timeSpentMs, answered),
       flaggedRate |-> IF rows = {} THEN 0
                       ELSE RoundedQuotient(1000 * Cardinality({r \in rows : r.flagged}), Cardinality(rows))]

TimeAnalysis(rows) ==
  [overall     |-> Timing(rows),
   perCategory |-> [c \in {r.category : r \in rows} |-> Timing({r \in rows : r.category = c})]]

-----------------------------------------------------------------------------
(* challenges/service.ts: days are numbered from the first one recorded *)

Streak(days, today) ==
  LET run[d \in 0..today] == IF d \notin days THEN 0 ELSE IF d = 0 THEN 1 ELSE 1 + run[d - 1]
  IN  IF today \in days THEN run[today] ELSE IF today = 0 THEN 0 ELSE run[today - 1]

\* What one request for today's question may show.
GetToday(pinned, bank) ==
  IF pinned # {} THEN pinned ELSE {q \in bank : q.type = "multiple_choice" /\ ~q.deleted}

-----------------------------------------------------------------------------
(* analytics/service.ts: times in units of Day to a UTC day *)

Day == 4
DayOf(t) == t \div Day

Summary(events) == [e \in {r.event : r \in events} |-> Cardinality({r \in events : r.event = e})]

\* setHours(0, 0, 0, 0) goes back to midnight of a server zone units east of
\* UTC, the keys of the rows are UTC days.
Cohort(users, starts, now, days, zone) ==
  LET since    == now - (days - 1) * Day
      start    == since - ((since + zone) % Day)
      regs     == {u \in users : u.createdAt >= start}
      retained == {u \in regs : \E s \in starts :
                     s.user = u.id /\ s.at >= start /\ s.at - u.createdAt <= 7 * Day}
  IN  [i \in 0..(days - 1) |->
         LET of == {u \in regs : DayOf(u.createdAt) = DayOf(start + i * Day)}
         IN  [registered |-> Cardinality(of), retained |-> Cardinality(of \cap retained)]]

-----------------------------------------------------------------------------
(* Progress of a path or a course; admin/service.ts, notifications, replies *)

PathProgress(lessons, done) ==
  LET completed == Cardinality(lessons \cap done)
  IN  [completed |-> completed, total |-> Cardinality(lessons),
       percentComplete |-> Percent(completed, Cardinality(lessons))]

Stats(orders) == [orders  |-> Cardinality(orders),
                  revenue |-> Total(LAMBDA o : o.amount, {o \in orders : o.status = "paid"})]

UserSummary(orders, sessions) ==
  [orderCount |-> Cardinality(orders), paid |-> Stats(orders).revenue,
   bestScore  |-> IF sessions = {} THEN {} ELSE {Max({s.score : s \in sessions})}]

MaxCounted == 1000
UnreadCount(unread)  == Min({unread, MaxCounted})
CountUpvotes(upvotes) == Min({upvotes, MaxCounted})

-----------------------------------------------------------------------------
(* Facts *)

Users == 1..2
Tables ==
  {{[id |-> i, user |-> u[i], score |-> sc[i], at |-> i, percentile |-> 35 * i] : i \in 1..3} :
     u \in [1..3 -> Users], sc \in [1..3 -> {-1, 0, 4}]}

\* A session's rank is the first place of its score on every leaderboard that
\* shows it (simulations/service.ts:523, "ties share the rank").
ASSUME RankIsFirstPlaceOfScore ==
  \A rows \in Tables, limit \in 1..3 : \A page \in Leaderboards(rows, 0, {}, limit) :
    \A i \in DOMAIN page :
      GetResult(rows, page[i]).rank = Min({j \in 1..i : page[j].score = page[i].score})

\* The personal rank is that rank for a user with one row, and may be the rank
\* of a worse row for a user with several (simulations/service.ts:498 says
\* "best score").
ASSUME PersonalRankOfOneRow ==
  \A rows \in Tables, r \in UNION Tables :
    r \in rows /\ (\A s \in rows : s.user = r.user => s = r)
      => PersonalRanks(rows, 0, {}, r.user) = {ComputeRank(rows, r.score, r.id)}
ASSUME PersonalRankMayBeWorse ==
  \E rows \in Tables : \E k \in PersonalRanks(rows, 0, {}, 1) : k > Min(PersonalRanks(rows, 0, {}, 1))

\* Percentiles stay in range and follow the scores; a session graded a second
\* time is its own peer, so the only one of a package falls from 100 to 50
\* (docs/product/FEATURE-SPECS.md:444, "percentile 100 when no peers yet").
ASSUME PercentileFollowsScore ==
  \A rows \in Tables : \A a, b \in rows :
    /\ Percentile(a.score, rows) \in 0..1000
    /\ a.score <= b.score => Percentile(a.score, rows) <= Percentile(b.score, rows)
ASSUME RegradingCountsItself ==
  \A rows \in Tables : \A r \in rows :
    Percentile(r.score, {}) = 1000 /\ Percentile(r.score, {r}) = 500

\* The band's averages lie within their ranges.
ASSUME BandingIsWithinRange ==
  \A rows \in Tables :
    LET b == Banding(rows)
    IN  /\ b.averageScore <= b.bestScore
        /\ b.averagePercentile \in b.percentileRange[1]..b.percentileRange[2]

\* The categories of a time analysis add up to its totals.
Answers ==
  {{[id |-> i, category |-> c[i], answered |-> a[i], flagged |-> ~a[4 - i], timeSpentMs |-> 10 * i] : i \in 1..3} :
     c \in [1..3 -> {"PU", "PK"}], a \in [1..3 -> BOOLEAN]}
ASSUME CategoriesAddUp ==
  \A rows \in Answers :
    LET t == TimeAnalysis(rows)
        sum(f(_)) == MapThenSumSet(LAMBDA c : f(t.perCategory[c]), DOMAIN t.perCategory)
    IN  /\ t.overall.answers = sum(LAMBDA g : g.answers)
        /\ t.overall.answered = sum(LAMBDA g : g.answered)
        /\ t.overall.avgTimeMs <= 30 /\ t.overall.flaggedRate <= 1000

\* A streak is the longest run of active days that ends today, or yesterday
\* when today has no answer yet (challenges/service.ts:47).
ASSUME StreakIsLongestRun ==
  \A days \in SUBSET (0..6), today \in 0..6 :
    LET end == IF today \in days THEN today ELSE today - 1
    IN  Streak(days, today) = Max({n \in 0..7 : n <= end + 1 /\ (end - n + 1)..end \subseteq days})

\* An unpinned question of the day may differ from request to request.
ASSUME UnpinnedQuestionVaries ==
  \E bank \in {{[id |-> i, type |-> "multiple_choice", deleted |-> FALSE] : i \in Users}} :
    Cardinality(GetToday({}, bank)) > 1

\* On a server in UTC the cohort counts every user of its days once and retains
\* no one it does not count; east of UTC it may miss those of the current UTC day.
NewUsers == {{[id |-> 1, createdAt |-> a], [id |-> 2, createdAt |-> b]} : a, b \in 0..11}
ASSUME CohortCountsOnce ==
  \A users \in NewUsers, now \in 8..11, days \in 1..3 :
    LET c == Cohort(users, {[user |-> 1, at |-> now]}, now, days, 0)
        counted == {u \in users : DayOf(now) - DayOf(u.createdAt) \in 0..(days - 1)}
    IN  /\ MapThenSumSet(LAMBDA i : c[i].registered, DOMAIN c) = Cardinality(counted)
        /\ \A i \in DOMAIN c : c[i].retained <= c[i].registered
ASSUME CohortMissesTodayEastOfUtc ==
  \E users \in NewUsers :
    LET c == Cohort(users, {}, 9, 2, 1)
    IN  (\A u \in users : u.createdAt \in 8..9) /\ (\A i \in DOMAIN c : c[i].registered = 0)

\* 100 percent means complete up to 199 lessons; with 200 one missing lesson is
\* rounded away (paths/service.ts:81, courses/service.ts:195).
ASSUME FullMeansComplete ==
  \A total \in 1..199 : \A done \in {0, total - 1, total} : Percent(done, total) = 100 <=> done = total
ASSUME RoundingHidesOneLesson ==
  PathProgress(1..200, 1..199).percentComplete = 100

\* The console's revenue loses an order when it is fulfilled (admin/service.ts:28).
ASSUME RevenueLosesFulfilled ==
  LET order(status) == {[id |-> 1, amount |-> 5, status |-> status]}
  IN  Stats(order("paid")).revenue = 5 /\ Stats(order("fulfilled")).revenue = 0

\* An upvote over the limit of the counting query is not counted.
ASSUME UpvotesStopCounting == CountUpvotes(MaxCounted + 1) = CountUpvotes(MaxCounted)
=============================================================================
