------------------------ MODULE QuestionBank_proofs ------------------------
(***************************************************************************)
(* Proofs about QuestionBank for any calls, bank, package, page size and   *)
(* resolution of the stamps.                                               *)
(*                                                                         *)
(* The argument.  Pages: the rows after a cursor are ranked by how many    *)
(* are newer; a page holds exactly the ranks below the limit, so it has    *)
(* an oldest row, everything it leaves out is older than that, and one     *)
(* that is not full leaves out nothing.  The cursor rounds the stamp of    *)
(* the oldest row down: a row left out is after it unless that page cut    *)
(* the row off, and the cursors of a walk only go down (Below), so a row   *)
(* that was cut off is on no later page.  Attempts: the attempts and the   *)
(* starts under way together stay below the limit plus the most starts     *)
(* under way at a time, for a start is let in below the limit.             *)
(* Sessions: CallOK says that what a finish or a grading has read of a     *)
(* sheet, or has yet to write, is what the sheet says, but for marks       *)
(* that were written late; GradeOK says so of the counts it wrote.         *)
(***************************************************************************)
EXTENDS QuestionBank, FiniteSetTheorems, WellFoundedInduction, TLAPS

LEMMA Smallest ==
  ASSUME NEW S, S \subseteq Nat, S # {}
  PROVE  \E x \in S : \A y \in S : x <= y
<1>1. PICK x \in S : \A y \in S : <<y, x>> \notin OpToRel(<, Nat)
  BY NatLessThanWellFounded, WFMin, Zenon
<1>2. \A y \in S : ~(y < x)
  BY <1>1 DEF OpToRel
<1>3. QED
  BY <1>2

LEMMA QuestionsFinite ==
  ASSUME NEW S, S \subseteq Questions
  PROVE  IsFiniteSet(S) /\ Cardinality(S) \in Nat
<1>1. IsFiniteSet(Questions)
  BY BankAssumption, FS_Interval DEF Questions
<1>2. IsFiniteSet(S)
  BY <1>1, FS_Subset
<1>3. QED
  BY <1>2, FS_CardinalityType

-----------------------------------------------------------------------------
(* Pages *)

LEMMA MillisBounds ==
  ASSUME NEW a \in Nat, NEW b \in Nat
  PROVE  /\ Millis(a) \in Nat /\ Millis(a) <= a
         /\ Millis(b) <= a /\ a <= b => Millis(a) = Millis(b)
<1> DEFINE x == a \div Micros
           y == b \div Micros
<1>1. Micros \in Nat /\ Micros > 0
  BY BankAssumption
<1>2. /\ x \in Nat /\ y \in Nat
      /\ x * Micros <= a /\ a < x * Micros + Micros
      /\ y * Micros <= b /\ b < y * Micros + Micros
  BY <1>1
<1>3. ASSUME y * Micros <= a, a <= b PROVE x = y
  <2>1. y * Micros < (x + 1) * Micros
    BY <1>1, <1>2, <1>3
  <2>2. x * Micros < (y + 1) * Micros
    BY <1>1, <1>2, <1>3
  <2>3. \A i, j \in Nat : i * Micros < j * Micros => i < j
    BY <1>1
  <2>4. y < x + 1 /\ x < y + 1
    BY <1>2, <2>1, <2>2, <2>3
  <2>5. QED
    BY <1>2, <2>4
<1>4. x * Micros \in Nat /\ y * Micros \in Nat
  BY <1>1, <1>2
<1>5. QED
  BY <1>2, <1>3, <1>4 DEF Millis

LEMMA NewerOrder ==
  ASSUME bank \in [Questions -> Rows]
  PROVE  /\ \A q \in Questions : ~Newer(q, q)
         /\ \A q, r \in Questions : q # r => (Newer(q, r) \/ Newer(r, q))
         /\ \A q, r, s \in Questions : Newer(q, r) /\ Newer(r, s) => Newer(q, s)
<1>1. /\ \A q \in Questions : q \in Nat
      /\ \A q \in Questions : bank[q].at \in Nat
  BY BankAssumption DEF Questions, Rows, Stamps
<1>2. QED
  BY <1>1 DEF Newer

\* How many of a set are newer than q.
NewerIn(S, q) == {r \in S : Newer(r, q)}
Rank(S, q)    == Cardinality(NewerIn(S, q))

LEMMA RankGrows ==
  ASSUME bank \in [Questions -> Rows], NEW S, S \subseteq Questions,
         NEW q \in S, NEW r \in S, Newer(r, q)
  PROVE  Rank(S, r) < Rank(S, q)
<1>1. NewerIn(S, r) \subseteq NewerIn(S, q)
  BY NewerOrder DEF NewerIn
<1>2. r \in NewerIn(S, q) /\ r \notin NewerIn(S, r)
  BY NewerOrder DEF NewerIn
<1>3. NewerIn(S, q) \subseteq Questions /\ NewerIn(S, r) \subseteq Questions
  BY DEF NewerIn
<1>4. Cardinality(NewerIn(S, r)) <= Cardinality(NewerIn(S, q))
      /\ Cardinality(NewerIn(S, r)) # Cardinality(NewerIn(S, q))
  BY <1>1, <1>2, <1>3, QuestionsFinite, FS_Subset
<1>5. QED
  BY <1>3, <1>4, QuestionsFinite DEF Rank

LEMMA RankType ==
  ASSUME NEW S, S \subseteq Questions, NEW q \in S
  PROVE  Rank(S, q) \in Nat
<1>1. NewerIn(S, q) \subseteq Questions
  BY DEF NewerIn
<1>2. QED
  BY <1>1, QuestionsFinite DEF Rank

\* The rows after a cursor, the page cut from them, and its oldest row.
Rest(m)   == {q \in Active : After(m, q)}
Oldest(p) == CHOOSE q \in p : \A r \in p \ {q} : Newer(r, q)

LEMMA PageIsPrefix ==
  ASSUME bank \in [Questions -> Rows], NEW m
  PROVE  /\ Page(m) \subseteq Rest(m) /\ Rest(m) \subseteq Questions
         /\ Page(m) = {q \in Rest(m) : Rank(Rest(m), q) < Limit}
         /\ \A q \in Rest(m) \ Page(m) : Cardinality(Page(m)) >= Limit
                                         /\ \A r \in Page(m) : Newer(r, q)
         /\ Page(m) # {} =>
              /\ Oldest(Page(m)) \in Page(m)
              /\ \A r \in Page(m) \ {Oldest(Page(m))} : Newer(r, Oldest(Page(m)))
              /\ Cardinality(Page(m)) <= Limit
<1> DEFINE A == Rest(m)
           P == Page(m)
<1>1. A \subseteq Questions /\ P \subseteq A /\ P = {q \in A : Rank(A, q) < Limit}
  BY DEF Rest, Page, Active, Rank, NewerIn
<1>2. Limit \in Nat /\ \A q \in A : Rank(A, q) \in Nat
  BY <1>1, BankAssumption, RankType
<1>3. ASSUME NEW q \in A \ P, NEW r \in P PROVE Newer(r, q)
  <2>1. Rank(A, r) < Limit /\ ~(Rank(A, q) < Limit)
    BY <1>1, <1>3
  <2>2. q # r /\ ~Newer(q, r)
    BY <1>1, <1>2, <1>3, <2>1, RankGrows
  <2>3. QED
    BY <1>1, <2>2, NewerOrder
<1>4. ASSUME NEW q \in A \ P PROVE Cardinality(P) >= Limit
  <2> DEFINE S == {Rank(A, r) : r \in A \ P}
  <2>1. PICK n \in S : \A k \in S : n <= k
    <3>1. S \subseteq Nat /\ S # {}
      BY <1>2, <1>4
    <3>2. QED
      BY <3>1, Smallest
  <2>2. PICK r \in A \ P : Rank(A, r) = n
    BY <2>1
  <2>3. \A s \in A : Newer(s, r) => s \in P
    <3> SUFFICES ASSUME NEW s \in A, Newer(s, r), s \notin P PROVE FALSE
      OBVIOUS
    <3>1. Rank(A, s) < n
      BY <1>1, <2>2, RankGrows
    <3>2. Rank(A, s) \in S
      OBVIOUS
    <3>3. QED
      BY <1>2, <2>1, <2>2, <3>1, <3>2
  <2>4. NewerIn(A, r) \subseteq P
    BY <2>3 DEF NewerIn
  <2>5. Rank(A, r) <= Cardinality(P) /\ Cardinality(P) \in Nat
    <3>1. P \subseteq Questions
      BY <1>1
    <3>2. IsFiniteSet(P) /\ Cardinality(P) \in Nat
      BY <3>1, QuestionsFinite
    <3>3. QED
      BY <2>4, <3>2, FS_Subset DEF Rank
  <2>6. Rank(A, r) \in Nat /\ ~(Rank(A, r) < Limit)
    BY <1>1, <1>2, <2>2
  <2>7. QED
    BY <1>2, <2>5, <2>6
<1>5. ASSUME P # {}
      PROVE  /\ Oldest(P) \in P
             /\ \A r \in P \ {Oldest(P)} : Newer(r, Oldest(P))
  <2> DEFINE S == {Limit - Rank(A, r) : r \in P}
  <2>1. PICK n \in S : \A k \in S : n <= k
    <3>1. S \subseteq Nat /\ S # {}
      BY <1>1, <1>2, <1>5
    <3>2. QED
      BY <3>1, Smallest
  <2>2. PICK q \in P : Limit - Rank(A, q) = n
    BY <2>1
  <2>3. \A r \in P \ {q} : Newer(r, q)
    <3> SUFFICES ASSUME NEW r \in P \ {q}, ~Newer(r, q) PROVE FALSE
      OBVIOUS
    <3>1. Newer(q, r)
      BY <1>1, NewerOrder
    <3>2. Rank(A, q) < Rank(A, r)
      BY <1>1, <3>1, RankGrows
    <3>3. n <= Limit - Rank(A, r)
      BY <2>1
    <3>4. QED
      BY <1>1, <1>2, <2>2, <3>2, <3>3
  <2>4. QED
    BY <2>3 DEF Oldest
<1>6. ASSUME P # {} PROVE Cardinality(P) <= Limit
  <2> DEFINE q == Oldest(P)
  <2>1. q \in P /\ \A r \in P \ {q} : Newer(r, q)
    BY <1>5, <1>6
  <2> HIDE DEF q
  <2>2. P \subseteq NewerIn(A, q) \cup {q}
    BY <1>1, <2>1 DEF NewerIn
  <2>3. NewerIn(A, q) \subseteq Questions /\ Rank(A, q) < Limit
    BY <1>1, <2>1 DEF NewerIn
  <2>4. IsFiniteSet(NewerIn(A, q)) /\ Cardinality(NewerIn(A, q)) \in Nat
    BY <2>3, QuestionsFinite
  <2>5. /\ IsFiniteSet(NewerIn(A, q) \cup {q})
        /\ Cardinality(NewerIn(A, q) \cup {q}) <= Cardinality(NewerIn(A, q)) + 1
    <3>1. /\ IsFiniteSet(NewerIn(A, q) \cup {q})
          /\ \/ Cardinality(NewerIn(A, q) \cup {q}) = Cardinality(NewerIn(A, q))
             \/ Cardinality(NewerIn(A, q) \cup {q}) = Cardinality(NewerIn(A, q)) + 1
      BY <2>4, FS_AddElement, Zenon
    <3>2. QED
      BY <2>4, <3>1
  <2>6. Cardinality(P) <= Cardinality(NewerIn(A, q) \cup {q})
    BY <2>2, <2>5, FS_Subset
  <2>7. Cardinality(P) \in Nat /\ Cardinality(NewerIn(A, q) \cup {q}) \in Nat
    <3>1. P \subseteq Questions
      BY <1>1
    <3>2. QED
      BY <2>5, <3>1, QuestionsFinite, FS_CardinalityType
  <2>8. QED
    BY <1>2, <2>3, <2>4, <2>5, <2>6, <2>7 DEF Rank
<1>7. QED
  BY <1>1, <1>3, <1>4, <1>5, <1>6

-----------------------------------------------------------------------------
(* The invariant *)

Memo ==
  [kind: {"none", "simulation", "practice"}, session: Calls \cup {NoCall}, question: Nat,
   mark: Marks, keys: SUBSET DOMAIN Quota, picked: SUBSET Questions, twice: BOOLEAN,
   sheet: Sheets, todo: SUBSET Questions, first: BOOLEAN, at: Nat, id: Nat,
   from: SUBSET Questions, seen: SUBSET Questions, ends: SUBSET Questions, again: BOOLEAN]

MemoOK ==
  /\ memo \in [Calls -> Memo]
  /\ answers = [s \in Calls |-> answers[s]] /\ chosen = [s \in Calls |-> chosen[s]]

\* The cursor of a walk is no later than the one it had at the end r.
Below(m, r) == m.at < Millis(bank[r].at) \/ (m.at = Millis(bank[r].at) /\ m.id <= r)

WalkOK(c) ==
  /\ ~memo[c].again
  /\ pc[c] = "idle" => memo[c].first
  /\ memo[c].first => memo[c].seen = {} /\ memo[c].ends = {}
  /\ \A q \in memo[c].seen : bank[q].state # "absent" /\ ~After(memo[c], q)
  /\ \A q \in memo[c].from : bank[q].state = "active"
  /\ memo[c].ends \subseteq memo[c].seen
  /\ \A r \in memo[c].ends : Below(memo[c], r) /\ \A q \in memo[c].seen : ~Cuts(r, q)
  /\ pc[c] \in {"page", "listed"} =>
       \A q \in memo[c].from : \/ q \in memo[c].seen \/ \E r \in memo[c].ends : Cuts(r, q)
                               \/ pc[c] = "page" /\ After(memo[c], q)

PagesOK == \A c \in Calls : WalkOK(c)

AttemptsOK ==
  /\ IsFiniteSet(Attempted) /\ IsFiniteSet(Starters)
  /\ LET n == Cardinality(Attempted) + Cardinality(Starters) IN
       n = 0 \/ n < MaxAttempts + together

SheetsOK ==
  \A c \in Calls :
    /\ kind[c] # "none" \/ pc[c] = "answers" => status[c] # "none"
    /\ status[c] # "none" =>
         /\ pc[c] \in {"answers", "ok", "error"}
         /\ DOMAIN answers[c] = IF pc[c] = "ok" THEN memo[c].picked ELSE {}
         /\ pc[c] = "ok" => ~memo[c].twice

Working  == {"options", "mark", "marks", "result", "save", "submit", "enqueue", "queued",
             "paper", "grading", "score"}
Counting == {"result", "grading", "score"}

\* The counts of f are those of the marks of s, but for late ones and those of D.
Agrees(s, f, D) ==
  \A q \in DOMAIN answers[s] \ D :
    <<s, q>> \notin late => q \in DOMAIN f /\ f[q] = answers[s][q]

CallOK(c) ==
  LET m == memo[c] s == memo[c].session IN
    /\ pc[c] \in Working => s \in Calls /\ status[s] # "none"
    /\ pc[c] \in {"options", "mark", "save"} => m.question \in Questions
    /\ pc[c] \in {"idle", "marks", "result", "score"} => m.todo = {}
    /\ pc[c] \in Counting =>
         /\ m.todo \subseteq DOMAIN m.sheet /\ DOMAIN m.sheet \subseteq DOMAIN answers[s]
         /\ Agrees(s, m.sheet, m.todo)

GradeOK(s) ==
  status[s] = "graded" =>
    \E f \in Sheets : DOMAIN f \subseteq DOMAIN answers[s] /\ result[s] = Tally(f) /\ Agrees(s, f, {})

MarksOK == (\A c \in Calls : CallOK(c)) /\ (\A s \in Calls : GradeOK(s))

IInv == TypeOK /\ MemoOK /\ PagesOK /\ AttemptsOK /\ SheetsOK /\ MarksOK

USE DEF rows, exams

\* What a step leaves of the walk of a call, and of its session.
SameWalk(m, n) ==
  /\ m.again = n.again /\ m.first = n.first /\ m.at = n.at /\ m.id = n.id
  /\ m.seen = n.seen /\ m.from = n.from /\ m.ends = n.ends

SameSession(m, n) ==
  /\ m.kind = n.kind /\ m.picked = n.picked /\ m.twice = n.twice /\ m.session = n.session
  /\ m.question = n.question /\ m.sheet = n.sheet /\ m.todo = n.todo

Others(c) == \A d \in Calls \ {c} : pc'[d] = pc[d] /\ memo'[d] = memo[d]

\* One call moves, with the memo m.
LEMMA Moves ==
  ASSUME IInv, NEW c \in Calls, NEW m \in Memo, NEW to \in Labels,
         memo' = [memo EXCEPT ![c] = m], pc' = [pc EXCEPT ![c] = to]
  PROVE  /\ memo' \in [Calls -> Memo] /\ pc' \in [Calls -> Labels]
         /\ memo'[c] = m /\ pc'[c] = to /\ Others(c)
BY DEF IInv, TypeOK, MemoOK, Others

LEMMA MemoType ==
  ASSUME IInv, NEW c \in Calls
  PROVE  memo[c] \in Memo
BY DEF IInv, MemoOK

\* A sheet is a function on some of the questions.
LEMMA SheetType ==
  ASSUME NEW f
  PROVE  f \in Sheets <=> f \in [DOMAIN f -> Marks] /\ DOMAIN f \subseteq Questions
BY DEF Sheets

LEMMA TallyType ==
  ASSUME NEW f \in Sheets
  PROVE  Tally(f) \in Counts
<1>1. \A m : Marked(f, m) \subseteq Questions
  BY SheetType DEF Marked
<1>2. QED
  BY <1>1, QuestionsFinite DEF Tally, Counts

\* Nobody but c has counted the marks of s, or is about to.
OthersCounted(c, s) ==
  \/ status[s] = "graded"
  \/ \E d \in Calls \ {c} : pc[d] \in Counting /\ memo[d].session = s

-----------------------------------------------------------------------------
(* Steps that leave a part alone *)

\* The walks of all calls, when rows appear, go or come back.
LEMMA WalksSurvive ==
  ASSUME IInv, NEW c \in Calls,
         \A d \in Calls \ {c} : pc'[d] = pc[d],
         pc'[c] \notin {"idle", "page", "listed"},
         \A q \in Questions : bank[q].state # "absent" =>
           bank'[q].state # "absent" /\ bank'[q].at = bank[q].at,
         \A d \in Calls :
           /\ memo'[d].again = memo[d].again /\ memo'[d].first = memo[d].first
           /\ memo'[d].at = memo[d].at /\ memo'[d].id = memo[d].id
           /\ memo'[d].seen = memo[d].seen /\ memo'[d].ends = memo[d].ends
           /\ memo'[d].from \subseteq memo[d].from
           /\ \A q \in memo'[d].from : bank'[q].state = "active"
  PROVE  PagesOK'
<1> SUFFICES ASSUME NEW d \in Calls PROVE WalkOK(d)'
  BY DEF PagesOK
<1>1. /\ memo[d].seen \subseteq Questions /\ memo[d].from \subseteq Questions
      /\ memo[d].ends \subseteq memo[d].seen
      /\ \A q \in memo[d].seen : bank[q].state # "absent" /\ ~After(memo[d], q)
      /\ \A q \in memo[d].from : bank[q].state = "active"
      /\ WalkOK(d)
  BY DEF IInv, MemoOK, Memo, PagesOK, WalkOK
<1>2. \A q \in Questions : bank[q].state # "absent" => bank'[q].at = bank[q].at
  OBVIOUS
<1>3. \A q \in Questions : bank[q].state # "absent" => (After(memo[d], q)' <=> After(memo[d], q))
  BY <1>2 DEF After
<1>4. /\ \A q \in memo[d].from : q \in Questions /\ bank[q].state # "absent"
      /\ \A r \in memo[d].seen : r \in Questions /\ bank[r].state # "absent"
  BY <1>1
<1>5. pc'[d] \in {"idle", "page", "listed"} => pc'[d] = pc[d]
  OBVIOUS
<1>6. \A q \in memo'[d].seen : bank'[q].state # "absent" /\ ~After(memo[d], q)'
  BY <1>1, <1>3
<1>7. \A q, r \in Questions : bank[q].state # "absent" /\ bank[r].state # "absent" =>
        (Cuts(r, q)' <=> Cuts(r, q)) /\ (Below(memo[d], r)' <=> Below(memo[d], r))
  BY <1>2 DEF Cuts, Newer, Millis, Below
<1>8. /\ memo'[d].ends \subseteq memo'[d].seen
      /\ \A r \in memo'[d].ends :
           Below(memo[d], r)' /\ \A q \in memo'[d].seen : ~Cuts(r, q)'
  <2>1. \A r \in memo[d].ends : Below(memo[d], r) /\ \A q \in memo[d].seen : ~Cuts(r, q)
    BY <1>1 DEF WalkOK
  <2>2. QED
    BY <1>1, <1>4, <1>7, <2>1
<1>9. /\ ~memo'[d].again /\ (pc'[d] = "idle" => memo'[d].first)
      /\ memo'[d].first => memo'[d].seen = {} /\ memo'[d].ends = {}
  BY <1>1, <1>5 DEF WalkOK
<1>10. pc'[d] \in {"page", "listed"} => \A q \in memo'[d].from :
         \/ q \in memo'[d].seen \/ \E r \in memo'[d].ends : Cuts(r, q)'
         \/ pc'[d] = "page" /\ After(memo[d], q)'
  <2> SUFFICES ASSUME pc'[d] \in {"page", "listed"}, NEW q \in memo'[d].from
               PROVE  \/ q \in memo'[d].seen \/ \E r \in memo'[d].ends : Cuts(r, q)'
                      \/ pc'[d] = "page" /\ After(memo[d], q)'
    OBVIOUS
  <2>1. \/ q \in memo[d].seen \/ \E r \in memo[d].ends : Cuts(r, q)
        \/ pc[d] = "page" /\ After(memo[d], q)
    BY <1>1, <1>5 DEF WalkOK
  <2>2. q \in memo[d].from
    OBVIOUS
  <2>3. QED
    BY <1>1, <1>3, <1>4, <1>5, <1>7, <2>1, <2>2
<1>11. \A q \in memo'[d].from : bank'[q].state = "active"
  OBVIOUS
<1>12. QED
  BY <1>6, <1>8, <1>9, <1>10, <1>11 DEF WalkOK, After, Cuts, Newer, Millis, Below

LEMMA WalksStay ==
  ASSUME IInv, NEW c \in Calls, Others(c), UNCHANGED bank,
         pc'[c] \notin {"idle", "page", "listed"}, SameWalk(memo'[c], memo[c])
  PROVE  PagesOK'
<1>1. \A d \in Calls :
        /\ memo'[d].again = memo[d].again /\ memo'[d].first = memo[d].first
        /\ memo'[d].at = memo[d].at /\ memo'[d].id = memo[d].id
        /\ memo'[d].seen = memo[d].seen /\ memo'[d].from = memo[d].from
        /\ memo'[d].ends = memo[d].ends
  BY DEF Others, SameWalk
<1>2. \A d \in Calls : \A q \in memo[d].from : bank[q].state = "active"
  BY DEF IInv, PagesOK, WalkOK
<1>3. QED
  BY <1>1, <1>2, WalksSurvive DEF Others

\* No attempt, and no start that was not under way.
LEMMA AttemptsStay ==
  ASSUME IInv, UNCHANGED together, Attempted' \subseteq Attempted, Starters' \subseteq Starters
  PROVE  AttemptsOK'
<1>1. IsFiniteSet(Attempted) /\ IsFiniteSet(Starters)
  BY DEF IInv, AttemptsOK
<1>2. /\ IsFiniteSet(Attempted') /\ Cardinality(Attempted') <= Cardinality(Attempted)
      /\ IsFiniteSet(Starters') /\ Cardinality(Starters') <= Cardinality(Starters)
  BY <1>1, FS_Subset
<1>3. /\ Cardinality(Attempted) \in Nat /\ Cardinality(Starters) \in Nat
      /\ Cardinality(Attempted') \in Nat /\ Cardinality(Starters') \in Nat
  BY <1>1, <1>2, FS_CardinalityType
<1>4. LET n == Cardinality(Attempted) + Cardinality(Starters) IN
        n = 0 \/ n < MaxAttempts + together
  BY DEF IInv, AttemptsOK
<1>5. MaxAttempts \in Nat /\ together \in Nat
  BY BankAssumption DEF IInv, TypeOK
<1>6. LET n == Cardinality(Attempted') + Cardinality(Starters') IN
        n = 0 \/ n < MaxAttempts + together'
  BY <1>2, <1>3, <1>4, <1>5
<1>7. QED
  BY <1>2, <1>6 DEF AttemptsOK

\* The starts under way, when one call moves.
LEMMA NoNewStart ==
  ASSUME IInv, NEW c \in Calls,
         \A d \in Calls \ {c} : pc'[d] = pc[d] /\ memo'[d].kind = memo[d].kind,
         pc'[c] \in Starting => pc[c] \in Starting /\ memo'[c].kind = memo[c].kind
  PROVE  Starters' \subseteq Starters
BY DEF Starters

\* The sessions, when no row is inserted, and no mark that counts is written.
LEMMA SessionsKept ==
  ASSUME IInv, NEW c \in Calls, UNCHANGED kind,
         \A d \in Calls \ {c} : pc'[d] = pc[d] /\ SameSession(memo'[d], memo[d]),
         \A s \in Calls : status'[s] = "none" <=> status[s] = "none",
         \A s \in Calls : DOMAIN answers'[s] = DOMAIN answers[s],
         \A s \in Calls : \A q \in DOMAIN answers[s] :
           <<s, q>> \notin late' => \/ <<s, q>> \notin late /\ answers'[s][q] = answers[s][q]
                                    \/ ~OthersCounted(c, s),
         pc[c] \notin {"ok", "error"}, pc[c] = "answers" => pc'[c] = "error", pc'[c] # "answers",
         CallOK(c)',
         \A s \in Calls : status'[s] = "graded" =>
           GradeOK(s)' \/ (status[s] = "graded" /\ result'[s] = result[s])
  PROVE  SheetsOK' /\ MarksOK'
<1>1. SheetsOK'
  <2> SUFFICES ASSUME NEW d \in Calls
               PROVE  /\ kind'[d] # "none" \/ pc'[d] = "answers" => status'[d] # "none"
                      /\ status'[d] # "none" =>
                           /\ pc'[d] \in {"answers", "ok", "error"}
                           /\ DOMAIN answers'[d] = IF pc'[d] = "ok" THEN memo'[d].picked ELSE {}
                           /\ pc'[d] = "ok" => ~memo'[d].twice
    BY DEF SheetsOK
  <2>1. /\ kind[d] # "none" \/ pc[d] = "answers" => status[d] # "none"
        /\ status[d] # "none" =>
             /\ pc[d] \in {"answers", "ok", "error"}
             /\ DOMAIN answers[d] = IF pc[d] = "ok" THEN memo[d].picked ELSE {}
             /\ pc[d] = "ok" => ~memo[d].twice
    BY DEF IInv, SheetsOK
  <2>2. CASE d = c
    BY <2>1, <2>2
  <2>3. CASE d # c
    BY <2>1, <2>3 DEF SameSession
  <2>4. QED
    BY <2>2, <2>3
<1>2. ASSUME NEW s \in Calls, OthersCounted(c, s), NEW f, NEW D, Agrees(s, f, D)
      PROVE  Agrees(s, f, D)'
  BY <1>2 DEF Agrees
<1>3. ASSUME NEW d \in Calls \ {c} PROVE CallOK(d)'
  <2>1. CallOK(d) /\ pc'[d] = pc[d] /\ SameSession(memo'[d], memo[d])
    BY DEF IInv, MarksOK
  <2>2. ASSUME pc[d] \in Counting
        PROVE  /\ memo[d].session \in Calls
               /\ Agrees(memo[d].session, memo[d].sheet, memo[d].todo)'
    <3>1. /\ memo[d].session \in Calls
          /\ Agrees(memo[d].session, memo[d].sheet, memo[d].todo)
      BY <2>1, <2>2 DEF CallOK, Counting, Working
    <3>2. OthersCounted(c, memo[d].session)
      BY <2>2 DEF OthersCounted
    <3>3. \A q \in DOMAIN answers[memo[d].session] : <<memo[d].session, q>> \notin late' =>
            /\ <<memo[d].session, q>> \notin late
            /\ answers'[memo[d].session][q] = answers[memo[d].session][q]
      BY <3>1, <3>2
    <3>4. DOMAIN answers'[memo[d].session] = DOMAIN answers[memo[d].session]
      BY <3>1
    <3>5. /\ memo'[d].session = memo[d].session /\ memo'[d].sheet = memo[d].sheet
          /\ memo'[d].todo = memo[d].todo
      BY <2>1 DEF SameSession
    <3>6. QED
      BY <3>1, <3>3, <3>4, <3>5 DEF Agrees
  <2>3. QED
    BY <2>1, <2>2 DEF CallOK, SameSession, Counting, Working, Agrees
<1>4. ASSUME NEW s \in Calls PROVE GradeOK(s)'
  <2> SUFFICES ASSUME status'[s] = "graded", status[s] = "graded", result'[s] = result[s]
               PROVE  GradeOK(s)'
    BY DEF GradeOK
  <2>1. PICK f \in Sheets : /\ DOMAIN f \subseteq DOMAIN answers[s] /\ result[s] = Tally(f)
                            /\ Agrees(s, f, {})
    BY DEF IInv, MarksOK, GradeOK
  <2>2. OthersCounted(c, s)
    BY DEF OthersCounted
  <2>3. Agrees(s, f, {})'
    BY <1>2, <2>1, <2>2
  <2>4. DOMAIN f \subseteq DOMAIN answers'[s] /\ result'[s] = Tally(f)
    BY <2>1
  <2>5. QED
    BY <2>3, <2>4 DEF GradeOK, Agrees
<1>5. \A d \in Calls : CallOK(d)'
  BY <1>3
<1>6. QED
  BY <1>1, <1>4, <1>5 DEF MarksOK

\* The sessions, when no session row or mark is written.
LEMMA SessionsStay ==
  ASSUME IInv, NEW c \in Calls, UNCHANGED <<exams, late>>,
         \A d \in Calls \ {c} : pc'[d] = pc[d] /\ SameSession(memo'[d], memo[d]),
         pc[c] \notin {"ok", "error"}, pc[c] = "answers" => pc'[c] = "error", pc'[c] # "answers",
         CallOK(c)'
  PROVE  SheetsOK' /\ MarksOK'
BY SessionsKept

\* What a call can move to that does not work on a session.
Aside == {"page", "listed", "pick", "fallback", "session", "ok", "refused", "error"}

LEMMA SessionsAside ==
  ASSUME IInv, NEW c \in Calls, UNCHANGED <<exams, late>>,
         \A d \in Calls \ {c} : pc'[d] = pc[d] /\ SameSession(memo'[d], memo[d]),
         pc[c] \notin {"ok", "error"}, pc[c] = "answers" => pc'[c] = "error",
         pc'[c] \in Aside
  PROVE  SheetsOK' /\ MarksOK'
<1>1. CallOK(c)' /\ pc'[c] # "answers"
  BY DEF CallOK, Aside, Working, Counting
<1>2. QED
  BY <1>1, SessionsStay

LEMMA OthersSame ==
  ASSUME NEW c \in Calls, Others(c)
  PROVE  \A d \in Calls \ {c} :
           /\ pc'[d] = pc[d] /\ memo'[d].kind = memo[d].kind /\ SameSession(memo'[d], memo[d])
BY DEF Others, SameSession

-----------------------------------------------------------------------------
(* The bank *)

LEMMA TypeStays ==
  ASSUME IInv, UNCHANGED <<rows, exams, late, together>>,
         pc' \in [Calls -> Labels], faults' \in 0..MaxFaults
  PROVE  TypeOK'
BY DEF IInv, TypeOK, HashUnique

\* The import takes each text once.
LEMMA OneRowPerText ==
  ASSUME NEW ids, ids \subseteq Questions, NEW new, NEW added \in [ids -> new],
         {added[q] : q \in ids} = new, Cardinality(ids) = Cardinality(new)
  PROVE  \A q, r \in ids : q # r => added[q] # added[r]
<1>1. IsFiniteSet(ids)
  BY QuestionsFinite
<1>2. added \in Surjection(ids, new)
  BY DEF Surjection
<1>3. added \in Injection(ids, new)
  BY <1>1, <1>2, FS_Surjection
<1>4. QED
  BY <1>3 DEF Injection, IsInjective

LEMMA InsertStep ==
  ASSUME IInv, NEW c \in Calls, NEW ids, ids \subseteq Absent,
         NEW added \in [ids -> Texts \cup {NoHash}], Insert(c, added),
         \A q \in ids : added[q] # NoHash =>
           /\ \A r \in ids \ {q} : added[r] # added[q]
           /\ \A r \in Active : bank[r].hash # added[q]
  PROVE  IInv'
<1>1. /\ clock' \in Stamps /\ memo' = memo /\ UNCHANGED <<exams, faults, together, late>>
      /\ pc[c] = "idle" /\ pc' = [pc EXCEPT ![c] = "ok"]
      /\ pc' \in [Calls -> Labels] /\ pc'[c] = "ok" /\ \A d \in Calls \ {c} : pc'[d] = pc[d]
  <2>1. MaxStamp \in Nat
    BY BankAssumption
  <2>2. QED
    BY <2>1 DEF Insert, Step, IInv, TypeOK, Stamps, Labels
<1>2. /\ DOMAIN added = ids /\ ids \subseteq Questions
      /\ \A q \in ids : bank[q].state = "absent"
      /\ \A q \in Questions : bank'[q] =
           IF q \in ids
           THEN [state |-> "active", hash |-> added[q], at |-> clock', tagged |-> TRUE]
           ELSE bank[q]
  BY DEF Insert, Absent
<1>3. bank' \in [Questions -> Rows]
  <2>1. bank \in [Questions -> Rows]
    BY DEF IInv, TypeOK
  <2>2. \A q \in Questions : bank'[q] \in Rows
    <3> SUFFICES ASSUME NEW q \in Questions PROVE bank'[q] \in Rows
      OBVIOUS
    <3>1. CASE q \in ids
      <4>1. added[q] \in Texts \cup {NoHash}
        BY <3>1
      <4> DEFINE h == added[q]
      <4>2. bank'[q] = [state |-> "active", hash |-> h, at |-> clock', tagged |-> TRUE]
        BY <1>2, <3>1
      <4> HIDE DEF h
      <4>3. h \in Texts \cup {NoHash}
        BY <4>1 DEF h
      <4>4. QED
        BY <1>1, <4>2, <4>3 DEF Rows
    <3>2. CASE q \notin ids
      BY <1>2, <2>1, <3>2
    <3>3. QED
      BY <3>1, <3>2
  <2>3. bank' = [q \in Questions |-> bank'[q]]
    BY DEF Insert
  <2>4. QED
    BY <2>2, <2>3
<1>4. /\ \A q \in ids : bank'[q].hash = added[q]
      /\ \A q \in Questions \ ids : bank'[q] = bank[q]
  <2>1. \A q \in Questions \ ids : bank'[q] = bank[q]
    BY <1>2
  <2>2. ASSUME NEW q \in ids PROVE bank'[q].hash = added[q]
    <3> DEFINE h == added[q]
    <3>1. bank'[q] = [state |-> "active", hash |-> h, at |-> clock', tagged |-> TRUE]
      BY <1>2, <2>2
    <3> HIDE DEF h
    <3>2. bank'[q].hash = h
      BY <3>1
    <3>3. QED
      BY <3>2 DEF h
  <2>3. QED
    BY <2>1, <2>2
<1>5. HashUnique(bank)'
  <2> SUFFICES ASSUME NEW q \in Questions, NEW r \in Questions, q # r,
                      bank'[q].state = "active", bank'[r].state = "active",
                      bank'[q].hash # NoHash
               PROVE  bank'[q].hash # bank'[r].hash
    BY DEF HashUnique
  <2>1. HashUnique(bank)
    BY DEF IInv, TypeOK
  <2>2. CASE q \in ids /\ r \in ids
    BY <1>4, <2>2
  <2>3. CASE q \in ids /\ r \notin ids
    <3>1. bank'[r] = bank[r] /\ r \in Active /\ bank'[q].hash = added[q]
      BY <1>4, <2>3 DEF Active
    <3>2. QED
      BY <2>3, <3>1
  <2>4. CASE q \notin ids /\ r \in ids
    <3>1. bank'[q] = bank[q] /\ q \in Active /\ bank'[r].hash = added[r]
      BY <1>4, <2>4 DEF Active
    <3>2. CASE added[r] = NoHash
      BY <3>1, <3>2
    <3>3. CASE added[r] # NoHash
      BY <2>4, <3>1, <3>3
    <3>4. QED
      BY <3>2, <3>3
  <2>5. CASE q \notin ids /\ r \notin ids
    <3>1. bank'[q] = bank[q] /\ bank'[r] = bank[r]
      BY <1>4, <2>5
    <3>2. QED
      BY <2>1, <3>1 DEF HashUnique
  <2>6. QED
    BY <2>2, <2>3, <2>4, <2>5
<1>6. TypeOK'
  BY <1>1, <1>3, <1>5 DEF IInv, TypeOK
<1>7. MemoOK'
  BY <1>1 DEF IInv, MemoOK
<1>8. PagesOK'
  <2>1. \A q \in Questions : bank[q].state # "absent" => bank'[q] = bank[q]
    BY <1>2
  <2>2. \A d \in Calls : memo[d].from \subseteq Questions
                         /\ \A q \in memo[d].from : bank[q].state = "active"
    BY DEF IInv, MemoOK, Memo, PagesOK, WalkOK
  <2>3. \A d \in Calls : \A q \in memo[d].from : bank'[q].state = "active"
    BY <2>1, <2>2
  <2>4. QED
    BY <1>1, <2>1, <2>3, WalksSurvive
<1>9. Attempted' \subseteq Attempted /\ Starters' \subseteq Starters
  BY <1>1, NoNewStart DEF Attempted, Starting
<1>10. SheetsOK' /\ MarksOK'
  BY <1>1, SessionsAside DEF Aside, SameSession
<1>11. QED
  BY <1>1, <1>6, <1>7, <1>8, <1>9, <1>10, AttemptsStay DEF IInv

LEMMA CreateQuestionStep ==
  ASSUME IInv, NEW c \in Calls, CreateQuestion(c)
  PROVE  IInv'
<1>1. PICK q \in Absent : Insert(c, [r \in {q} |-> NoHash])
  BY DEF CreateQuestion
<1> DEFINE added == [r \in {q} |-> NoHash]
<1>2. added \in [{q} -> Texts \cup {NoHash}] /\ \A r \in {q} : added[r] = NoHash
  OBVIOUS
<1>3. {q} \subseteq Absent
  OBVIOUS
<1> HIDE DEF added
<1>4. Insert(c, added)
  BY <1>1 DEF added
<1>5. QED
  BY <1>2, <1>3, <1>4, InsertStep

LEMMA ImportQuestionsStep ==
  ASSUME IInv, NEW c \in Calls, ImportQuestions(c)
  PROVE  IInv'
<1>1. PICK asked \in SUBSET Texts :
        LET new == {t \in asked : \A q \in Active : bank[q].hash # t} IN
          \E ids \in SUBSET Absent :
            /\ Cardinality(ids) = Cardinality(new)
            /\ \E added \in [ids -> new] : {added[q] : q \in ids} = new /\ Insert(c, added)
  BY DEF ImportQuestions
<1> DEFINE new == {t \in asked : \A q \in Active : bank[q].hash # t}
<1>2. PICK ids \in SUBSET Absent :
        /\ Cardinality(ids) = Cardinality(new)
        /\ \E added \in [ids -> new] : {added[q] : q \in ids} = new /\ Insert(c, added)
  BY <1>1
<1>3. PICK added \in [ids -> new] : {added[q] : q \in ids} = new /\ Insert(c, added)
  BY <1>2
<1>4. new \subseteq Texts /\ \A t \in new : \A q \in Active : bank[q].hash # t
  OBVIOUS
<1> HIDE DEF new
<1>5. ids \subseteq Absent /\ ids \subseteq Questions
  BY DEF Absent
<1>6. \A q, r \in ids : q # r => added[q] # added[r]
  BY <1>2, <1>3, <1>5, OneRowPerText
<1>7. added \in [ids -> Texts \cup {NoHash}]
  BY <1>4
<1>8. \A q \in ids : /\ \A r \in ids \ {q} : added[r] # added[q]
                     /\ \A r \in Active : bank[r].hash # added[q]
  BY <1>4, <1>6
<1>9. QED
  BY <1>3, <1>5, <1>7, <1>8, InsertStep

LEMMA RemoveQuestionStep ==
  ASSUME IInv, NEW c \in Calls, RemoveQuestion(c)
  PROVE  IInv'
<1>1. PICK q \in Active :
        /\ bank' = [bank EXCEPT ![q].state = "deleted", ![q].tagged = FALSE]
        /\ memo' = [d \in Calls |-> [memo[d] EXCEPT !.from = @ \ {q}]]
  BY DEF RemoveQuestion
<1>2. /\ UNCHANGED <<clock, exams, faults, together, late>>
      /\ pc[c] = "idle" /\ pc' = [pc EXCEPT ![c] = "ok"]
      /\ pc' \in [Calls -> Labels] /\ pc'[c] = "ok" /\ \A d \in Calls \ {c} : pc'[d] = pc[d]
  BY DEF RemoveQuestion, Step, IInv, TypeOK, Labels
<1>3. bank \in [Questions -> Rows] /\ HashUnique(bank) /\ q \in Questions
  BY DEF IInv, TypeOK, Active
<1> DEFINE gone == [bank[q] EXCEPT !.state = "deleted", !.tagged = FALSE]
<1>4. gone \in Rows /\ gone.state = "deleted" /\ gone.at = bank[q].at
  BY <1>3 DEF Rows
<1>5. bank' = [bank EXCEPT ![q] = gone]
  BY <1>1, <1>3
<1> HIDE DEF gone
<1>6. bank' \in [Questions -> Rows] /\ bank'[q] = gone
      /\ \A r \in Questions \ {q} : bank'[r] = bank[r]
  BY <1>3, <1>4, <1>5
<1>7. HashUnique(bank)'
  BY <1>3, <1>4, <1>6 DEF HashUnique
<1>8. TypeOK'
  BY <1>2, <1>6, <1>7 DEF IInv, TypeOK
<1>9. \A d \in Calls :
        /\ memo'[d].again = memo[d].again /\ memo'[d].first = memo[d].first
        /\ memo'[d].at = memo[d].at /\ memo'[d].id = memo[d].id
        /\ memo'[d].seen = memo[d].seen /\ memo'[d].from = memo[d].from \ {q}
        /\ memo'[d].ends = memo[d].ends
        /\ SameSession(memo'[d], memo[d]) /\ memo'[d] \in Memo
  <2> SUFFICES ASSUME NEW d \in Calls
               PROVE  /\ memo'[d].again = memo[d].again /\ memo'[d].first = memo[d].first
                      /\ memo'[d].at = memo[d].at /\ memo'[d].id = memo[d].id
                      /\ memo'[d].seen = memo[d].seen /\ memo'[d].from = memo[d].from \ {q}
                      /\ memo'[d].ends = memo[d].ends
                      /\ SameSession(memo'[d], memo[d]) /\ memo'[d] \in Memo
    OBVIOUS
  <2> DEFINE n == memo[d]
  <2>1. n \in Memo /\ memo'[d] = [n EXCEPT !.from = @ \ {q}]
    BY <1>1, MemoType
  <2> HIDE DEF n
  <2>2. memo'[d] \in Memo /\ memo'[d].from = n.from \ {q}
    BY <2>1 DEF Memo
  <2>3. /\ memo'[d].again = n.again /\ memo'[d].first = n.first
        /\ memo'[d].at = n.at /\ memo'[d].id = n.id /\ memo'[d].seen = n.seen
        /\ memo'[d].ends = n.ends /\ SameSession(memo'[d], n)
    BY <2>1 DEF Memo, SameSession
  <2>4. QED
    BY <2>2, <2>3 DEF n
<1>10. MemoOK'
  <2>1. memo' = [d \in Calls |-> memo'[d]]
    BY <1>1
  <2>2. QED
    BY <1>2, <1>9, <2>1 DEF IInv, MemoOK
<1>11. PagesOK'
  <2>1. \A r \in Questions : bank[r].state # "absent" =>
          bank'[r].state # "absent" /\ bank'[r].at = bank[r].at
    BY <1>4, <1>6
  <2>2. \A d \in Calls : memo[d].from \subseteq Questions
                         /\ \A r \in memo[d].from : bank[r].state = "active"
    BY DEF IInv, MemoOK, Memo, PagesOK, WalkOK
  <2>3. \A d \in Calls : memo'[d].from \subseteq memo[d].from
                         /\ \A r \in memo'[d].from : bank'[r].state = "active"
    BY <1>6, <1>9, <2>2
  <2>4. QED
    BY <1>2, <1>9, <2>1, <2>3, WalksSurvive
<1>12. Attempted' \subseteq Attempted /\ Starters' \subseteq Starters
  <2>1. \A d \in Calls : memo'[d].kind = memo[d].kind
    BY <1>9 DEF SameSession
  <2>2. QED
    BY <1>2, <2>1, NoNewStart DEF Attempted, Starting
<1>13. SheetsOK' /\ MarksOK'
  BY <1>2, <1>9, SessionsAside DEF Aside
<1>14. QED
  BY <1>2, <1>8, <1>10, <1>11, <1>12, <1>13, AttemptsStay DEF IInv

LEMMA RestoreQuestionStep ==
  ASSUME IInv, NEW c \in Calls, RestoreQuestion(c)
  PROVE  IInv'
<1>1. /\ UNCHANGED <<clock, exams, memo, faults, together, late>>
      /\ pc[c] = "idle" /\ pc' \in [Calls -> Labels] /\ pc'[c] \in {"ok", "error"}
      /\ \A d \in Calls \ {c} : pc'[d] = pc[d]
  BY DEF RestoreQuestion, Step, IInv, TypeOK, Labels
<1>2. /\ bank' \in [Questions -> Rows] /\ HashUnique(bank)'
      /\ \A q \in Questions : bank[q].state # "absent" =>
           bank'[q].state # "absent" /\ bank'[q].at = bank[q].at
      /\ \A q \in Questions : bank[q].state = "active" => bank'[q].state = "active"
  <2>1. PICK q \in Questions :
          LET restored == [bank EXCEPT ![q].state = "active"] IN
            \/ HashUnique(restored) /\ bank' = restored
            \/ UNCHANGED bank
    BY DEF RestoreQuestion
  <2>2. bank \in [Questions -> Rows] /\ HashUnique(bank)
    BY DEF IInv, TypeOK
  <2>3. CASE UNCHANGED bank
    BY <2>2, <2>3 DEF HashUnique
  <2>4. CASE HashUnique([bank EXCEPT ![q].state = "active"])
             /\ bank' = [bank EXCEPT ![q].state = "active"]
    <3> DEFINE back == [bank[q] EXCEPT !.state = "active"]
    <3>1. back \in Rows /\ back.state = "active" /\ back.at = bank[q].at
      BY <2>2 DEF Rows
    <3>2. bank' = [bank EXCEPT ![q] = back] /\ HashUnique([bank EXCEPT ![q] = back])
      BY <2>2, <2>4
    <3> HIDE DEF back
    <3>3. HashUnique(bank)'
      BY <3>2 DEF HashUnique
    <3>4. QED
      BY <2>2, <3>1, <3>2, <3>3
  <2>5. QED
    BY <2>1, <2>3, <2>4
<1>3. TypeOK'
  BY <1>1, <1>2 DEF IInv, TypeOK
<1>4. MemoOK'
  BY <1>1 DEF IInv, MemoOK
<1>5. PagesOK'
  <2>1. \A d \in Calls : memo[d].from \subseteq Questions
                         /\ \A r \in memo[d].from : bank[r].state = "active"
    BY DEF IInv, MemoOK, Memo, PagesOK, WalkOK
  <2>2. QED
    BY <1>1, <1>2, <2>1, WalksSurvive
<1>6. Attempted' \subseteq Attempted /\ Starters' \subseteq Starters
  BY <1>1, NoNewStart DEF Attempted, Starting
<1>7. SheetsOK' /\ MarksOK'
  BY <1>1, SessionsAside DEF Aside, SameSession
<1>8. QED
  BY <1>1, <1>3, <1>4, <1>5, <1>6, <1>7, AttemptsStay DEF IInv

-----------------------------------------------------------------------------
(* The listing *)

\* A call moves, with the memo m, and no table is written.
LEMMA QuietStep ==
  ASSUME IInv, NEW c \in Calls, NEW m \in Memo, NEW to \in Labels,
         memo' = [memo EXCEPT ![c] = m], pc' = [pc EXCEPT ![c] = to],
         UNCHANGED <<rows, exams, faults, together, late>>
  PROVE  TypeOK' /\ MemoOK' /\ Others(c) /\ memo'[c] = m /\ pc'[c] = to
<1>1. /\ memo' \in [Calls -> Memo] /\ pc' \in [Calls -> Labels]
      /\ memo'[c] = m /\ pc'[c] = to /\ Others(c)
  BY Moves
<1>2. TypeOK'
  <2>1. faults' \in 0..MaxFaults
    BY DEF IInv, TypeOK
  <2>2. QED
    BY <1>1, <2>1, TypeStays
<1>3. MemoOK'
  BY <1>1 DEF IInv, MemoOK
<1>4. QED
  BY <1>1, <1>2, <1>3

LEMMA StartListingStep ==
  ASSUME IInv, NEW c \in Calls, StartListing(c)
  PROVE  IInv'
<1> DEFINE m == [memo[c] EXCEPT !.from = Active]
<1>1. m \in Memo /\ m.from = Active /\ m.first = memo[c].first /\ m.again = memo[c].again
      /\ m.seen = memo[c].seen /\ m.at = memo[c].at /\ m.id = memo[c].id
      /\ m.ends = memo[c].ends /\ SameSession(m, memo[c])
  BY MemoType DEF Memo, Active, SameSession
<1>2. memo' = [memo EXCEPT ![c] = m] /\ pc[c] = "idle" /\ pc' = [pc EXCEPT ![c] = "page"]
      /\ UNCHANGED <<rows, exams, faults, together, late>> /\ "page" \in Labels
  BY MemoType DEF StartListing, Step, Labels
<1> HIDE DEF m
<1>3. TypeOK' /\ MemoOK' /\ Others(c) /\ memo'[c] = m /\ pc'[c] = "page"
  BY <1>1, <1>2, QuietStep
<1>4. ASSUME NEW d \in Calls PROVE WalkOK(d)'
  <2>1. CASE d # c
    <3>1. memo'[d] = memo[d] /\ pc'[d] = pc[d] /\ WalkOK(d)
      BY <1>3, <2>1 DEF Others, IInv, PagesOK
    <3>2. QED
      BY <1>2, <3>1 DEF WalkOK, After, Cuts, Newer, Millis, Below
  <2>2. CASE d = c
    <3>1. WalkOK(c)
      BY DEF IInv, PagesOK
    <3>2. m.first /\ m.seen = {} /\ m.ends = {} /\ ~m.again
      BY <1>1, <1>2, <3>1 DEF WalkOK
    <3>3. QED
      BY <1>1, <1>2, <1>3, <2>2, <3>2 DEF WalkOK, After, Active
  <2>3. QED
    BY <2>1, <2>2
<1>5. PagesOK'
  BY <1>4 DEF PagesOK
<1>6. Attempted' \subseteq Attempted /\ Starters' \subseteq Starters
  BY <1>1, <1>2, <1>3, OthersSame, NoNewStart DEF Attempted, Starting
<1>7. SheetsOK' /\ MarksOK'
  BY <1>2, <1>3, OthersSame, SessionsAside DEF Aside
<1>8. QED
  BY <1>2, <1>3, <1>5, <1>6, <1>7, AttemptsStay DEF IInv

\* A page moves the cursor behind what it shows, and behind nothing else but
\* the rows that its end cuts off.
LEMMA CursorMoves ==
  ASSUME IInv, NEW c \in Calls, NEW m \in Memo, Page(memo[c]) # {},
         m.first = FALSE, m.at = Millis(bank[Oldest(Page(memo[c]))].at),
         m.id = Oldest(Page(memo[c]))
  PROVE  LET last == Oldest(Page(memo[c])) IN
         /\ \A q \in memo[c].seen \cup Page(memo[c]) : ~After(m, q) /\ ~Cuts(last, q)
         /\ \A q \in Rest(memo[c]) : q \in Page(memo[c]) \/ Cuts(last, q) \/ After(m, q)
         /\ \A r \in memo[c].ends : Below(m, r) /\ \A q \in Page(memo[c]) : ~Cuts(r, q)
         /\ Below(m, last)
<1> DEFINE last == Oldest(Page(memo[c]))
           P == Page(memo[c])
<1>1. /\ bank \in [Questions -> Rows]
      /\ P \subseteq Rest(memo[c]) /\ Rest(memo[c]) \subseteq Questions
      /\ last \in P /\ \A q \in P \ {last} : Newer(q, last)
      /\ \A q \in Rest(memo[c]) \ P : Newer(last, q)
  <2>1. bank \in [Questions -> Rows]
    BY DEF IInv, TypeOK
  <2>2. QED
    BY <2>1, PageIsPrefix
<1>2. /\ \A q \in Questions : q \in Nat /\ bank[q].at \in Nat
      /\ memo[c].at \in Nat /\ memo[c].id \in Nat /\ memo[c].seen \subseteq Questions
      /\ memo[c].ends \subseteq memo[c].seen
  <2>1. \A q \in Questions : q \in Nat /\ bank[q].at \in Nat
    BY <1>1, BankAssumption DEF Questions, Rows, Stamps
  <2>2. memo[c].at \in Nat /\ memo[c].id \in Nat /\ memo[c].seen \subseteq Questions
    BY MemoType DEF Memo
  <2>3. memo[c].ends \subseteq memo[c].seen
    BY DEF IInv, PagesOK, WalkOK
  <2>4. QED
    BY <2>1, <2>2, <2>3
<1>3. last \in Questions /\ After(memo[c], last) /\ bank[last].state = "active"
  BY <1>1 DEF Rest, Active
<1>4. m.first = FALSE /\ m.at = Millis(bank[last].at) /\ m.id = last
  OBVIOUS
<1> HIDE DEF last, P
<1>5. Millis(bank[last].at) \in Nat /\ Millis(bank[last].at) <= bank[last].at
  BY <1>2, <1>3, MillisBounds
<1>6. ASSUME NEW q \in P PROVE ~After(m, q) /\ ~Newer(last, q)
  <2>1. q \in Questions /\ (q = last \/ Newer(q, last))
    BY <1>1, <1>6
  <2>2. QED
    BY <1>2, <1>3, <1>4, <1>5, <2>1 DEF Newer, After
<1>7. ASSUME NEW q \in memo[c].seen PROVE ~After(m, q) /\ ~Newer(last, q)
  <2>1. ~After(memo[c], q) /\ ~memo[c].first /\ q \in Questions
    BY <1>2, <1>7 DEF IInv, PagesOK, WalkOK
  <2>2. QED
    BY <1>2, <1>3, <1>4, <1>5, <2>1 DEF After, Newer
<1>8. ASSUME NEW q \in Rest(memo[c]), q \notin P, ~Cuts(last, q) PROVE After(m, q)
  <2>1. Newer(last, q) /\ q \in Questions /\ q # last
    BY <1>1, <1>8
  <2>2. CASE Millis(bank[last].at) = Millis(bank[q].at)
    BY <1>4, <1>8, <2>1, <2>2 DEF Cuts, After
  <2>3. CASE Millis(bank[last].at) # Millis(bank[q].at)
    <3>1. bank[q].at <= bank[last].at
      BY <1>2, <1>3, <2>1 DEF Newer
    <3>2. Millis(bank[last].at) <= bank[q].at /\ bank[q].at <= bank[last].at
            => Millis(bank[q].at) = Millis(bank[last].at)
      BY <1>2, <1>3, <2>1, MillisBounds
    <3>3. bank[q].at < Millis(bank[last].at)
      BY <1>2, <1>5, <2>1, <2>3, <3>1, <3>2
    <3>4. QED
      BY <1>4, <3>3 DEF After
  <2>4. QED
    BY <2>2, <2>3
<1>9. ASSUME NEW r \in memo[c].ends
      PROVE  Below(m, r) /\ \A q \in P : ~Cuts(r, q)
  <2>1. /\ Below(memo[c], r) /\ ~memo[c].first
        /\ r \in Questions /\ Millis(bank[r].at) \in Nat
    BY <1>2, <1>9, MillisBounds DEF IInv, PagesOK, WalkOK
  <2>2. Below(m, r)
    BY <1>2, <1>3, <1>4, <1>5, <2>1 DEF Below, After
  <2>3. ASSUME NEW q \in P, Cuts(r, q) PROVE FALSE
    <3>1. After(memo[c], q) /\ q \in Questions /\ Newer(r, q)
      BY <1>1, <2>3 DEF Rest, Cuts
    <3>2. Millis(bank[r].at) <= bank[q].at /\ ~(bank[q].at = Millis(bank[r].at) /\ q < r)
      BY <1>2, <2>3, <3>1, MillisBounds DEF Cuts
    <3>3. q # r
      BY <1>2, <3>1 DEF Newer
    <3>4. QED
      BY <1>2, <2>1, <3>1, <3>2, <3>3 DEF Below, After
  <2>4. QED
    BY <2>2, <2>3
<1>10. Below(m, last)
  BY <1>2, <1>3, <1>4, <1>5 DEF Below
<1>11. \A q \in memo[c].seen \cup P : ~After(m, q) /\ ~Cuts(last, q)
  BY <1>6, <1>7 DEF Cuts
<1>12. QED
  BY <1>8, <1>9, <1>10, <1>11 DEF P, last

LEMMA ReadPageStep ==
  ASSUME IInv, NEW c \in Calls, ReadPage(c)
  PROVE  IInv'
<1> DEFINE P == Page(memo[c])
           last == Oldest(P)
           m == IF P = {} THEN memo[c]
                ELSE [memo[c] EXCEPT !.first = FALSE, !.at = Millis(bank[last].at), !.id = last,
                        !.seen = @ \cup P, !.ends = @ \cup {last},
                        !.again = @ \/ P \cap memo[c].seen # {}]
           to == IF Cardinality(P) = Limit THEN "page" ELSE "listed"
<1>1. /\ memo' = [memo EXCEPT ![c] = m] /\ pc[c] = "page" /\ pc' = [pc EXCEPT ![c] = to]
      /\ UNCHANGED <<rows, exams, faults, together, late>> /\ to \in Labels
      /\ to \in {"page", "listed"}
  BY MemoType DEF ReadPage, Step, Oldest, Labels
<1>2. /\ bank \in [Questions -> Rows]
      /\ P \subseteq Rest(memo[c]) /\ Rest(memo[c]) \subseteq Questions
      /\ P # {} => last \in P /\ Cardinality(P) <= Limit
      /\ \A q \in Rest(memo[c]) \ P : Cardinality(P) >= Limit
  <2>1. bank \in [Questions -> Rows]
    BY DEF IInv, TypeOK
  <2>2. QED
    BY <2>1, PageIsPrefix
<1>3. /\ memo[c] \in Memo /\ m \in Memo
      /\ SameSession(m, memo[c]) /\ m.from = memo[c].from
  <2>1. memo[c] \in Memo
    BY MemoType
  <2>2. CASE P = {}
    BY <2>1, <2>2 DEF SameSession
  <2>3. CASE P # {}
    <3>1. last \in Questions /\ last \in Nat /\ bank[last].at \in Nat
      BY <1>2, <2>3, BankAssumption DEF Questions, Rows, Stamps
    <3>2. Millis(bank[last].at) \in Nat
      BY <3>1, MillisBounds
    <3>3. P \subseteq Questions
      BY <1>2
    <3> HIDE DEF last, P
    <3>4. QED
      BY <2>1, <2>3, <3>1, <3>2, <3>3 DEF Memo, SameSession
  <2>4. QED
    BY <2>2, <2>3
<1>4. /\ P # {} => /\ ~m.first /\ m.at = Millis(bank[last].at) /\ m.id = last
                   /\ m.seen = memo[c].seen \cup P /\ m.ends = memo[c].ends \cup {last}
                   /\ m.again = (memo[c].again \/ P \cap memo[c].seen # {})
      /\ P = {} => m = memo[c]
  BY <1>3 DEF Memo
<1>5. P # {} => m.first = FALSE
  BY <1>3 DEF Memo
<1>6. P = Page(memo[c]) /\ last = Oldest(P)
  OBVIOUS
<1>7. to = IF Cardinality(P) = Limit THEN "page" ELSE "listed"
  OBVIOUS
<1> HIDE DEF m, last, P, to
<1>8. TypeOK' /\ MemoOK' /\ Others(c) /\ memo'[c] = m /\ pc'[c] = to
  BY <1>1, <1>3, QuietStep
<1>9. WalkOK(c)
  BY DEF IInv, PagesOK
<1>10. /\ ~m.again /\ (m.first => m.seen = {} /\ m.ends = {})
       /\ \A q \in m.seen : bank[q].state # "absent" /\ ~After(m, q)
       /\ m.ends \subseteq m.seen
       /\ \A r \in m.ends : Below(m, r) /\ \A q \in m.seen : ~Cuts(r, q)
       /\ \A q \in m.from : \/ q \in m.seen \/ \E r \in m.ends : Cuts(r, q)
                            \/ to = "page" /\ After(m, q)
  <2>1. \A q \in Rest(memo[c]) : After(memo[c], q) /\ bank[q].state = "active"
    BY DEF Rest, Active
  <2>2. \A q \in memo[c].from :
          q \in memo[c].seen \/ q \in Rest(memo[c]) \/ \E r \in memo[c].ends : Cuts(r, q)
    <3>1. memo[c].from \subseteq Questions
      BY <1>3 DEF Memo
    <3>2. QED
      BY <1>1, <1>9, <3>1 DEF WalkOK, Rest, Active
  <2>3. CASE P = {}
    <3>1. Rest(memo[c]) = {}
      <4>1. Cardinality(P) = 0 /\ Limit > 0
        BY <2>3, FS_EmptySet, BankAssumption
      <4>2. \A q \in Rest(memo[c]) : 0 >= Limit
        BY <1>2, <2>3, <4>1
      <4>3. QED
        BY <4>1, <4>2, BankAssumption
    <3>2. QED
      BY <1>4, <1>9, <2>2, <2>3, <3>1 DEF WalkOK
  <2>4. CASE P # {}
    <3>1. /\ \A q \in memo[c].seen \cup P : ~After(m, q) /\ ~Cuts(last, q)
          /\ \A q \in Rest(memo[c]) : q \in P \/ Cuts(last, q) \/ After(m, q)
          /\ \A r \in memo[c].ends : Below(m, r) /\ \A q \in P : ~Cuts(r, q)
          /\ Below(m, last)
      BY <1>3, <1>4, <1>5, <1>6, <2>4, CursorMoves
    <3>2. \A q \in Rest(memo[c]) \ P : to = "page"
      <4>1. Cardinality(P) \in Nat /\ Limit \in Nat
        BY <1>2, QuestionsFinite, BankAssumption
      <4>2. QED
        BY <1>2, <1>7, <2>4, <4>1
    <3>3. P \cap memo[c].seen = {}
      BY <1>2, <1>9, <2>1 DEF WalkOK
    <3>4. \A q \in m.seen : bank[q].state # "absent"
      BY <1>2, <1>4, <1>9, <2>1, <2>4 DEF WalkOK
    <3>5. ~m.again /\ ~m.first
      BY <1>4, <1>9, <2>4, <3>3 DEF WalkOK
    <3>6. \A q \in m.from : \/ q \in m.seen \/ \E r \in m.ends : Cuts(r, q)
                            \/ to = "page" /\ After(m, q)
      <4>1. m.from = memo[c].from /\ m.seen = memo[c].seen \cup P
            /\ m.ends = memo[c].ends \cup {last}
        BY <1>3, <1>4, <2>4
      <4>2. QED
        BY <2>2, <3>1, <3>2, <4>1
    <3>7. m.ends \subseteq m.seen
      BY <1>2, <1>4, <1>9, <2>4 DEF WalkOK
    <3>8. \A r \in m.ends : Below(m, r) /\ \A q \in m.seen : ~Cuts(r, q)
      <4>1. \A r \in memo[c].ends : \A q \in memo[c].seen : ~Cuts(r, q)
        BY <1>9 DEF WalkOK
      <4>2. QED
        BY <1>4, <2>4, <3>1, <4>1
    <3>9. QED
      BY <1>4, <2>4, <3>1, <3>4, <3>5, <3>6, <3>7, <3>8
  <2>5. QED
    BY <2>3, <2>4
<1>11. ASSUME NEW d \in Calls PROVE WalkOK(d)'
  <2>1. CASE d # c
    <3>1. memo'[d] = memo[d] /\ pc'[d] = pc[d] /\ WalkOK(d)
      BY <1>8, <2>1 DEF Others, IInv, PagesOK
    <3>2. QED
      BY <1>1, <3>1 DEF WalkOK, After, Cuts, Newer, Millis, Below
  <2>2. CASE d = c
    <3>1. \A q \in m.from : bank[q].state = "active"
      BY <1>3, <1>9 DEF WalkOK
    <3>2. QED
      BY <1>1, <1>8, <1>10, <2>2, <3>1 DEF WalkOK, After, Cuts, Newer, Millis, Below
  <2>3. QED
    BY <2>1, <2>2
<1>12. PagesOK'
  BY <1>11 DEF PagesOK
<1>13. Attempted' \subseteq Attempted /\ Starters' \subseteq Starters
  BY <1>1, <1>8, OthersSame, NoNewStart DEF Attempted, Starting
<1>14. SheetsOK' /\ MarksOK'
  BY <1>1, <1>8, OthersSame, SessionsAside DEF Aside
<1>15. QED
  BY <1>1, <1>8, <1>12, <1>13, <1>14, AttemptsStay DEF IInv

-----------------------------------------------------------------------------
(* Starting a session *)

LEMMA QuietPages ==
  ASSUME IInv, NEW c \in Calls, NEW m \in Memo, NEW to \in Labels \ {"idle", "page", "listed"},
         memo' = [memo EXCEPT ![c] = m], pc' = [pc EXCEPT ![c] = to],
         UNCHANGED <<rows, exams, faults, together, late>>, SameWalk(m, memo[c])
  PROVE  TypeOK' /\ MemoOK' /\ PagesOK' /\ Others(c) /\ memo'[c] = m /\ pc'[c] = to
<1>1. TypeOK' /\ MemoOK' /\ Others(c) /\ memo'[c] = m /\ pc'[c] = to
  BY QuietStep
<1>2. PagesOK'
  BY <1>1, WalksStay
<1>3. QED
  BY <1>1, <1>2

\* A call that moves, and begins no start.
LEMMA QuietCall ==
  ASSUME IInv, NEW c \in Calls, NEW m \in Memo, NEW to \in Labels \ {"idle", "page", "listed"},
         memo' = [memo EXCEPT ![c] = m], pc' = [pc EXCEPT ![c] = to],
         UNCHANGED <<rows, exams, faults, together, late>>, SameWalk(m, memo[c]),
         to \in Starting => pc[c] \in Starting /\ m.kind = memo[c].kind,
         pc[c] \notin {"ok", "error"}, pc[c] = "answers" => to = "error", to # "answers",
         to \in Aside \/ CallOK(c)'
  PROVE  IInv'
<1>1. TypeOK' /\ MemoOK' /\ PagesOK' /\ Others(c) /\ memo'[c] = m /\ pc'[c] = to
  BY QuietPages
<1>2. Attempted' \subseteq Attempted /\ Starters' \subseteq Starters
  BY <1>1, OthersSame, NoNewStart DEF Attempted
<1>3. SheetsOK' /\ MarksOK'
  BY <1>1, OthersSame, SessionsAside, SessionsStay
<1>4. QED
  BY <1>1, <1>2, <1>3, AttemptsStay DEF IInv

\* A call that only moves on.
LEMMA MoveOn ==
  ASSUME IInv, NEW c \in Calls, NEW to \in Labels \ {"idle", "page", "listed"},
         pc' = [pc EXCEPT ![c] = to], UNCHANGED <<rows, exams, memo, faults, together, late>>,
         to \in Starting => pc[c] \in Starting,
         pc[c] \notin {"ok", "error"}, pc[c] = "answers" => to = "error", to # "answers",
         to \in Aside \/ CallOK(c)'
  PROVE  IInv'
<1> DEFINE m == memo[c]
<1>1. /\ m \in Memo /\ memo' = [memo EXCEPT ![c] = m] /\ SameWalk(m, memo[c])
      /\ m.kind = memo[c].kind
  BY MemoType DEF IInv, MemoOK, SameWalk
<1> HIDE DEF m
<1>2. QED
  BY <1>1, QuietCall

LEMMA BeginStep ==
  ASSUME IInv, NEW c \in Calls, NEW k \in {"simulation", "practice"}, Begin(c, k)
  PROVE  /\ MemoOK' /\ PagesOK' /\ SheetsOK' /\ MarksOK' /\ Attempted' = Attempted
         /\ together' \in Nat => TypeOK'
         /\ Starters' = IF k = "simulation" THEN Starters \cup {c} ELSE Starters
<1> DEFINE m == [memo[c] EXCEPT !.kind = k, !.keys = DOMAIN Quota]
<1>1. m \in Memo /\ SameWalk(m, memo[c]) /\ m.kind = k
  BY MemoType DEF Memo, SameWalk
<1>2. /\ memo' = [memo EXCEPT ![c] = m] /\ pc[c] = "idle" /\ pc' = [pc EXCEPT ![c] = "pick"]
      /\ UNCHANGED <<rows, exams, faults, late>>
      /\ "pick" \in Labels \ {"idle", "page", "listed"}
  BY MemoType DEF Begin, Step, Labels
<1> HIDE DEF m
<1>3. /\ memo' \in [Calls -> Memo] /\ pc' \in [Calls -> Labels]
      /\ memo'[c] = m /\ pc'[c] = "pick" /\ Others(c)
  BY <1>1, <1>2, Moves
<1>4. MemoOK' /\ (together' \in Nat => TypeOK')
  BY <1>2, <1>3 DEF IInv, MemoOK, TypeOK, HashUnique
<1>5. PagesOK'
  BY <1>1, <1>2, <1>3, WalksStay
<1>6. SheetsOK' /\ MarksOK'
  BY <1>2, <1>3, OthersSame, SessionsAside DEF Aside
<1>7. Attempted' = Attempted
  BY <1>2 DEF Attempted
<1>8. Starters' = IF k = "simulation" THEN Starters \cup {c} ELSE Starters
  <2>1. c \notin Starters /\ (c \in Starters' <=> k = "simulation")
    BY <1>1, <1>2, <1>3 DEF Starters, Starting
  <2>2. \A d \in Calls \ {c} : d \in Starters' <=> d \in Starters
    BY <1>3 DEF Others, Starters
  <2>3. Starters \subseteq Calls /\ Starters' \subseteq Calls
    BY DEF Starters
  <2>4. QED
    BY <2>1, <2>2, <2>3
<1>9. QED
  BY <1>4, <1>5, <1>6, <1>7, <1>8

LEMMA StartExamStep ==
  ASSUME IInv, NEW c \in Calls, StartExam(c)
  PROVE  IInv'
<1> DEFINE others == Cardinality(Starters)
<1>1. CASE /\ Cardinality(Attempted) < MaxAttempts /\ Begin(c, "simulation")
           /\ together' = IF others < together THEN together ELSE others + 1
  <2>1. /\ IsFiniteSet(Attempted) /\ IsFiniteSet(Starters)
        /\ Cardinality(Attempted) \in Nat /\ others \in Nat /\ MaxAttempts \in Nat
        /\ together \in Nat
    BY BankAssumption, FS_CardinalityType DEF IInv, AttemptsOK, TypeOK
  <2>2. together' \in Nat /\ others + 1 <= together'
    BY <1>1, <2>1
  <2>3. /\ MemoOK' /\ PagesOK' /\ SheetsOK' /\ MarksOK' /\ Attempted' = Attempted
        /\ TypeOK' /\ Starters' = Starters \cup {c}
    BY <1>1, <2>2, BeginStep
  <2>4. /\ IsFiniteSet(Starters \cup {c})
        /\ \/ Cardinality(Starters \cup {c}) = Cardinality(Starters)
           \/ Cardinality(Starters \cup {c}) = Cardinality(Starters) + 1
    BY <2>1, FS_AddElement, Zenon
  <2>5. IsFiniteSet(Starters') /\ Cardinality(Starters') <= others + 1
        /\ Cardinality(Starters') \in Nat
    BY <2>1, <2>3, <2>4
  <2>6. Cardinality(Attempted') + Cardinality(Starters') < MaxAttempts + together'
    BY <1>1, <2>1, <2>2, <2>3, <2>5
  <2>7. AttemptsOK'
    BY <2>1, <2>3, <2>5, <2>6 DEF AttemptsOK
  <2>8. QED
    BY <2>3, <2>7 DEF IInv
<1>2. CASE /\ Step(c, "idle", "refused")
           /\ UNCHANGED <<rows, exams, memo, faults, together, late>>
  BY <1>2, MoveOn DEF Step, Labels, Aside, Starting
<1>3. QED
  BY <1>1, <1>2 DEF StartExam

LEMMA StartPracticeStep ==
  ASSUME IInv, NEW c \in Calls, StartPractice(c)
  PROVE  IInv'
<1>1. together' = together /\ Begin(c, "practice") /\ together \in Nat
  BY DEF StartPractice, IInv, TypeOK
<1>2. /\ MemoOK' /\ PagesOK' /\ SheetsOK' /\ MarksOK' /\ Attempted' = Attempted
      /\ TypeOK' /\ Starters' = Starters
  BY <1>1, BeginStep
<1>3. QED
  BY <1>1, <1>2, AttemptsStay DEF IInv

LEMMA PickForKeyStep ==
  ASSUME IInv, NEW c \in Calls, PickForKey(c)
  PROVE  IInv'
<1>1. PICK k \in memo[c].keys, some \in SUBSET Active :
        /\ memo' = [memo EXCEPT ![c].keys = @ \ {k}, ![c].picked = @ \cup some,
                                ![c].twice = @ \/ memo[c].picked \cap some # {}]
        /\ pc' = [pc EXCEPT ![c] =
             IF memo'[c].keys # {} THEN "pick"
             ELSE IF memo'[c].picked # {} THEN "session"
             ELSE IF memo[c].kind = "practice" THEN "fallback" ELSE "refused"]
  BY DEF PickForKey
<1> DEFINE m == [memo[c] EXCEPT !.keys = @ \ {k}, !.picked = @ \cup some,
                                !.twice = @ \/ memo[c].picked \cap some # {}]
           to == IF memo'[c].keys # {} THEN "pick"
                 ELSE IF memo'[c].picked # {} THEN "session"
                 ELSE IF memo[c].kind = "practice" THEN "fallback" ELSE "refused"
<1>2. some \subseteq Questions
  BY DEF Active
<1>3. m \in Memo /\ SameWalk(m, memo[c]) /\ m.kind = memo[c].kind
  <2>1. memo[c] \in Memo
    BY MemoType
  <2>2. m \in Memo
    BY <1>2, <2>1 DEF Memo
  <2>3. SameWalk(m, memo[c]) /\ m.kind = memo[c].kind
    BY <2>1 DEF Memo, SameWalk
  <2>4. QED
    BY <2>2, <2>3
<1>4. memo' = [memo EXCEPT ![c] = m]
  <2>1. memo \in [Calls -> Memo]
    BY DEF IInv, MemoOK
  <2>2. QED
    BY <1>1, <2>1
<1>5. /\ pc[c] = "pick" /\ pc' = [pc EXCEPT ![c] = to]
      /\ UNCHANGED <<rows, exams, faults, together, late>>
      /\ to \in Labels \ {"idle", "page", "listed"}
      /\ to \in {"pick", "session", "fallback", "refused"}
  BY <1>1 DEF PickForKey, Labels
<1> HIDE DEF m, to
<1>6. QED
  BY <1>3, <1>4, <1>5, QuietCall DEF Starting, Aside

LEMMA PickAnyStep ==
  ASSUME IInv, NEW c \in Calls, PickAny(c)
  PROVE  IInv'
<1>1. CASE \E some \in (SUBSET Active) \ {{}} :
             memo' = [memo EXCEPT ![c].picked = some] /\ Step(c, "fallback", "session")
  <2>1. PICK some \in (SUBSET Active) \ {{}} :
          memo' = [memo EXCEPT ![c].picked = some] /\ Step(c, "fallback", "session")
    BY <1>1
  <2> DEFINE m == [memo[c] EXCEPT !.picked = some]
  <2>2. some \subseteq Questions
    BY DEF Active
  <2>3. m \in Memo /\ SameWalk(m, memo[c]) /\ m.kind = memo[c].kind
    BY <2>2, MemoType DEF Memo, SameWalk
  <2>4. /\ memo' = [memo EXCEPT ![c] = m] /\ pc[c] = "fallback"
        /\ pc' = [pc EXCEPT ![c] = "session"]
        /\ UNCHANGED <<rows, exams, faults, together, late>>
        /\ "session" \in Labels \ {"idle", "page", "listed"}
    BY <2>1, MemoType DEF PickAny, Step, Labels
  <2> HIDE DEF m
  <2>5. QED
    BY <2>3, <2>4, QuietCall DEF Starting, Aside
<1>2. CASE Step(c, "fallback", "refused") /\ UNCHANGED memo
  <2>1. UNCHANGED <<rows, exams, memo, faults, together, late>>
    BY <1>2 DEF PickAny
  <2>2. QED
    BY <1>2, <2>1, MoveOn DEF Step, Labels, Aside, Starting
<1>3. QED
  BY <1>1, <1>2 DEF PickAny

LEMMA InsertSessionStep ==
  ASSUME IInv, NEW c \in Calls, InsertSession(c)
  PROVE  IInv'
<1>1. /\ pc[c] = "session" /\ pc' = [pc EXCEPT ![c] = "answers"]
      /\ pc' \in [Calls -> Labels] /\ pc'[c] = "answers" /\ \A d \in Calls \ {c} : pc'[d] = pc[d]
      /\ UNCHANGED <<rows, chosen, answers, result, memo, faults, together, late>>
  BY DEF InsertSession, Step, IInv, TypeOK, Labels
<1>2. memo[c] \in Memo
  BY MemoType
<1>3. /\ status' \in [Calls -> {"none", "in_progress", "submitted", "graded"}]
      /\ status'[c] = "in_progress" /\ status[c] = "none" /\ DOMAIN answers[c] = {}
      /\ kind' \in [Calls -> {"none", "simulation", "practice"}] /\ kind'[c] = memo[c].kind
      /\ \A s \in Calls \ {c} : status'[s] = status[s] /\ kind'[s] = kind[s]
  BY <1>1, <1>2 DEF InsertSession, IInv, TypeOK, SheetsOK, Memo
<1>4. TypeOK'
  <2>1. HashUnique(bank)'
    BY <1>1 DEF IInv, TypeOK, HashUnique
  <2>2. \A s \in Calls : DOMAIN answers'[s] # {} => status'[s] # "none"
    BY <1>1, <1>3 DEF IInv, TypeOK
  <2>3. QED
    BY <1>1, <1>3, <2>1, <2>2 DEF IInv, TypeOK
<1>5. MemoOK'
  BY <1>1 DEF IInv, MemoOK
<1>6. PagesOK'
  BY <1>1, WalksStay DEF Others, SameWalk
<1>7. AttemptsOK'
  <2>1. Starters' \subseteq Starters /\ c \notin Starters'
    BY <1>1 DEF Starters, Starting
  <2>2. CASE memo[c].kind # "simulation"
    <3>1. Attempted' \subseteq Attempted
      BY <1>3, <2>2 DEF Attempted
    <3>2. QED
      BY <1>1, <2>1, <3>1, AttemptsStay
  <2>3. CASE memo[c].kind = "simulation"
    <3>1. /\ Attempted' = Attempted \cup {c} /\ c \in Starters
          /\ Starters' \subseteq Starters \ {c}
      BY <1>1, <1>3, <2>1, <2>3 DEF Attempted, Starters, Starting
    <3>2. /\ IsFiniteSet(Attempted) /\ IsFiniteSet(Starters)
          /\ Cardinality(Attempted) \in Nat /\ Cardinality(Starters) \in Nat
      BY FS_CardinalityType DEF IInv, AttemptsOK
    <3>3. /\ IsFiniteSet(Attempted \cup {c})
          /\ \/ Cardinality(Attempted \cup {c}) = Cardinality(Attempted)
             \/ Cardinality(Attempted \cup {c}) = Cardinality(Attempted) + 1
      BY <3>2, FS_AddElement, Zenon
    <3>4. /\ IsFiniteSet(Starters \ {c})
          /\ Cardinality(Starters \ {c}) = Cardinality(Starters) - 1
      BY <3>1, <3>2, FS_RemoveElement
    <3>5. /\ IsFiniteSet(Starters') /\ Cardinality(Starters') <= Cardinality(Starters) - 1
          /\ Cardinality(Starters') \in Nat
      BY <3>1, <3>4, FS_Subset, FS_CardinalityType
    <3>6. LET n == Cardinality(Attempted) + Cardinality(Starters) IN
            n = 0 \/ n < MaxAttempts + together
      BY DEF IInv, AttemptsOK
    <3>7. MaxAttempts \in Nat /\ together \in Nat
      BY BankAssumption DEF IInv, TypeOK
    <3>8. /\ IsFiniteSet(Attempted')
          /\ Cardinality(Attempted') + Cardinality(Starters') < MaxAttempts + together'
      BY <1>1, <3>1, <3>2, <3>3, <3>5, <3>6, <3>7
    <3>9. QED
      BY <3>5, <3>8 DEF AttemptsOK
  <2>4. QED
    BY <2>2, <2>3
<1>8. SheetsOK'
  <2> SUFFICES ASSUME NEW d \in Calls
               PROVE  /\ kind'[d] # "none" \/ pc'[d] = "answers" => status'[d] # "none"
                      /\ status'[d] # "none" =>
                           /\ pc'[d] \in {"answers", "ok", "error"}
                           /\ DOMAIN answers'[d] = IF pc'[d] = "ok" THEN memo'[d].picked ELSE {}
                           /\ pc'[d] = "ok" => ~memo'[d].twice
    BY DEF SheetsOK
  <2>1. CASE d = c
    BY <1>1, <1>3, <2>1
  <2>2. CASE d # c
    <3>1. /\ kind[d] # "none" \/ pc[d] = "answers" => status[d] # "none"
          /\ status[d] # "none" =>
               /\ pc[d] \in {"answers", "ok", "error"}
               /\ DOMAIN answers[d] = IF pc[d] = "ok" THEN memo[d].picked ELSE {}
               /\ pc[d] = "ok" => ~memo[d].twice
      BY DEF IInv, SheetsOK
    <3>2. QED
      BY <1>1, <1>3, <2>2, <3>1
  <2>3. QED
    BY <2>1, <2>2
<1>9. MarksOK'
  <2>1. ASSUME NEW d \in Calls PROVE CallOK(d)'
    <3>1. CASE d = c
      BY <1>1, <3>1 DEF CallOK, Working, Counting
    <3>2. CASE d # c
      <4>1. CallOK(d) /\ pc'[d] = pc[d]
        BY <1>1, <3>2 DEF IInv, MarksOK
      <4>2. memo[d].session \in Calls /\ status[memo[d].session] # "none" =>
              status'[memo[d].session] # "none"
        BY <1>3
      <4>3. QED
        BY <1>1, <4>1, <4>2 DEF CallOK, Agrees
    <3>3. QED
      BY <3>1, <3>2
  <2>2. ASSUME NEW s \in Calls PROVE GradeOK(s)'
    <3>1. GradeOK(s)
      BY DEF IInv, MarksOK
    <3>2. status'[s] = "graded" => status[s] = "graded"
      BY <1>3
    <3>3. QED
      BY <1>1, <3>1, <3>2 DEF GradeOK, Agrees
  <2>3. QED
    BY <2>1, <2>2 DEF MarksOK
<1>10. QED
  BY <1>4, <1>5, <1>6, <1>7, <1>8, <1>9 DEF IInv

\* The sheet of a start is new: whoever counted before it is late for all of it.
LEMMA InsertAnswersStep ==
  ASSUME IInv, NEW c \in Calls, InsertAnswers(c)
  PROVE  IInv'
<1> DEFINE sheet == [q \in memo[c].picked |-> "blank"]
<1>1. CASE /\ ~memo[c].twice /\ Step(c, "answers", "ok")
           /\ answers' = [answers EXCEPT ![c] = sheet] /\ chosen' = [chosen EXCEPT ![c] = sheet]
           /\ late' = IF Counted(c) THEN late \cup ({c} \X memo[c].picked) ELSE late
  <2>1. /\ pc[c] = "answers" /\ pc' = [pc EXCEPT ![c] = "ok"]
        /\ pc' \in [Calls -> Labels] /\ pc'[c] = "ok" /\ \A d \in Calls \ {c} : pc'[d] = pc[d]
        /\ UNCHANGED <<rows, status, kind, result, memo, faults, together>>
    BY <1>1 DEF InsertAnswers, Step, IInv, TypeOK, Labels
  <2>2. memo[c].picked \subseteq Questions /\ status[c] # "none" /\ DOMAIN answers[c] = {}
    BY <2>1, MemoType DEF Memo, IInv, SheetsOK
  <2>3. sheet \in [memo[c].picked -> Marks] /\ DOMAIN sheet = memo[c].picked
    BY DEF Marks
  <2>4. sheet \in Sheets
    BY <2>2, <2>3, SheetType
  <2> HIDE DEF sheet
  <2>5. /\ answers'[c] = sheet /\ chosen'[c] = sheet
        /\ \A s \in Calls \ {c} : answers'[s] = answers[s] /\ chosen'[s] = chosen[s]
        /\ answers' = [s \in Calls |-> answers'[s]] /\ chosen' = [s \in Calls |-> chosen'[s]]
    <3>1. answers = [s \in Calls |-> answers[s]] /\ chosen = [s \in Calls |-> chosen[s]]
      BY DEF IInv, MemoOK
    <3>2. QED
      BY <1>1, <3>1
  <2>6. /\ late' \in SUBSET (Calls \X Questions) /\ late \subseteq late'
        /\ Counted(c) => \A q \in memo[c].picked : <<c, q>> \in late'
    BY <1>1, <2>2 DEF IInv, TypeOK
  <2>7. TypeOK'
    <3>1. HashUnique(bank)'
      BY <2>1 DEF IInv, TypeOK, HashUnique
    <3>2. \A s \in Calls : answers'[s] \in Sheets /\ chosen'[s] \in [DOMAIN answers'[s] -> Marks]
      BY <2>3, <2>4, <2>5 DEF IInv, TypeOK
    <3>3. \A s \in Calls : DOMAIN answers'[s] # {} => status'[s] # "none"
      BY <2>1, <2>2, <2>5 DEF IInv, TypeOK
    <3>4. QED
      BY <2>1, <2>6, <3>1, <3>2, <3>3 DEF IInv, TypeOK
  <2>8. MemoOK'
    BY <2>1, <2>5 DEF IInv, MemoOK
  <2>9. PagesOK'
    BY <2>1, WalksStay DEF Others, SameWalk
  <2>10. AttemptsOK'
    <3>1. Attempted' = Attempted /\ Starters' \subseteq Starters
      BY <2>1, NoNewStart DEF Attempted, Starting
    <3>2. QED
      BY <2>1, <3>1, AttemptsStay
  <2>11. SheetsOK'
    BY <1>1, <2>1, <2>2, <2>3, <2>5 DEF IInv, SheetsOK
  <2>12. \A s \in Calls : \A q \in DOMAIN answers'[s] :
           (s = c => Counted(c)) /\ <<s, q>> \notin late' =>
             q \in DOMAIN answers[s] /\ answers'[s][q] = answers[s][q] /\ <<s, q>> \notin late
    BY <2>3, <2>5, <2>6
  <2>13. \A s \in Calls : DOMAIN answers[s] \subseteq DOMAIN answers'[s]
    BY <2>2, <2>5
  <2>14. ASSUME NEW d \in Calls PROVE CallOK(d)'
    <3>1. CASE d = c
      BY <2>1, <3>1 DEF CallOK, Working, Counting
    <3>2. CASE d # c
      <4>1. CallOK(d) /\ pc'[d] = pc[d] /\ memo'[d] = memo[d]
        BY <2>1, <3>2 DEF IInv, MarksOK
      <4>2. ASSUME pc[d] \in Counting
            PROVE  /\ memo[d].session \in Calls
                   /\ Agrees(memo[d].session, memo[d].sheet, memo[d].todo)'
        <5>1. /\ memo[d].session \in Calls
              /\ Agrees(memo[d].session, memo[d].sheet, memo[d].todo)
          BY <4>1, <4>2 DEF CallOK, Counting, Working
        <5>2. memo[d].session = c => Counted(c)
          BY <4>2 DEF Counted, Counting
        <5>3. /\ memo'[d].session = memo[d].session /\ memo'[d].sheet = memo[d].sheet
              /\ memo'[d].todo = memo[d].todo
          BY <4>1
        <5>4. QED
          BY <2>12, <5>1, <5>2, <5>3 DEF Agrees
      <4>3. QED
        BY <2>1, <2>13, <4>1, <4>2 DEF CallOK, Counting, Working, Agrees
    <3>3. QED
      BY <3>1, <3>2
  <2>15. ASSUME NEW s \in Calls PROVE GradeOK(s)'
    <3> SUFFICES ASSUME status'[s] = "graded" PROVE GradeOK(s)'
      BY DEF GradeOK
    <3>1. PICK f \in Sheets : /\ DOMAIN f \subseteq DOMAIN answers[s] /\ result[s] = Tally(f)
                              /\ Agrees(s, f, {})
      BY <2>1 DEF IInv, MarksOK, GradeOK
    <3>2. s = c => Counted(c)
      BY <2>1 DEF Counted
    <3>3. Agrees(s, f, {})'
      BY <2>12, <3>1, <3>2 DEF Agrees
    <3>4. DOMAIN f \subseteq DOMAIN answers'[s] /\ result'[s] = Tally(f)
      BY <2>1, <2>13, <3>1
    <3>5. QED
      BY <3>3, <3>4 DEF GradeOK, Agrees
  <2>16. MarksOK'
    BY <2>14, <2>15 DEF MarksOK
  <2>17. QED
    BY <2>7, <2>8, <2>9, <2>10, <2>11, <2>16 DEF IInv
<1>2. CASE memo[c].twice /\ Step(c, "answers", "error") /\ UNCHANGED <<chosen, answers, late>>
  <2>1. UNCHANGED <<rows, exams, memo, faults, together, late>>
    BY <1>2 DEF InsertAnswers
  <2>2. QED
    BY <1>2, <2>1, MoveOn DEF Step, Labels, Aside, Starting
<1>3. QED
  BY <1>1, <1>2 DEF InsertAnswers

-----------------------------------------------------------------------------
(* The work on a session *)

\* What a call that works on a session knows of it.
LEMMA Works ==
  ASSUME IInv, NEW c \in Calls, pc[c] \in Working
  PROVE  /\ memo[c].session \in Calls /\ status[memo[c].session] # "none"
         /\ pc[c] \in {"options", "mark", "save"} => memo[c].question \in Questions
         /\ pc[c] \in {"marks", "result", "score"} => memo[c].todo = {}
         /\ pc[c] \in Counting =>
              /\ memo[c].todo \subseteq DOMAIN memo[c].sheet
              /\ DOMAIN memo[c].sheet \subseteq DOMAIN answers[memo[c].session]
              /\ Agrees(memo[c].session, memo[c].sheet, memo[c].todo)
BY DEF IInv, MarksOK, CallOK

\* A call that works on a session goes on without a write.
LEMMA GoOn ==
  ASSUME IInv, NEW c \in Calls, NEW to \in Working \ Counting,
         pc' = [pc EXCEPT ![c] = to], UNCHANGED <<rows, exams, memo, faults, together, late>>,
         pc[c] \in Working, to \in {"mark"} => pc[c] = "options", to # "options", to # "save",
         to # "marks"
  PROVE  IInv'
<1>1. to \in Labels \ {"idle", "page", "listed"} /\ pc'[c] = to
  BY DEF Working, Labels, IInv, TypeOK
<1>2. CallOK(c)'
  BY <1>1, Works DEF CallOK, Working, Counting
<1>3. to \notin Starting /\ pc[c] \notin {"ok", "error", "answers"} /\ to # "answers"
  BY DEF Starting, Working
<1>4. QED
  BY <1>1, <1>2, <1>3, MoveOn

\* getOwnedSession: the call takes the session s.
LEMMA TakeSession ==
  ASSUME IInv, NEW c \in Calls, NEW s \in Calls, kind[s] # "none",
         NEW to \in {"marks", "submit", "ok"}, Step(c, "idle", to),
         memo' = [memo EXCEPT ![c].session = s], UNCHANGED <<rows, exams, faults, together, late>>
  PROVE  IInv'
<1> DEFINE m == [memo[c] EXCEPT !.session = s]
<1>1. /\ m \in Memo /\ SameWalk(m, memo[c]) /\ m.session = s /\ m.todo = memo[c].todo
      /\ memo' = [memo EXCEPT ![c] = m]
  BY MemoType DEF Memo, SameWalk
<1>2. /\ pc[c] = "idle" /\ pc' = [pc EXCEPT ![c] = to]
      /\ to \in Labels \ {"idle", "page", "listed"}
      /\ to \notin Starting /\ to # "answers"
  BY DEF Step, Labels, Starting
<1> HIDE DEF m
<1>3. status[s] # "none" /\ m.todo = {}
  <2>1. status[s] # "none"
    BY DEF IInv, SheetsOK
  <2>2. CallOK(c)
    BY DEF IInv, MarksOK
  <2>3. QED
    BY <1>1, <1>2, <2>1, <2>2 DEF CallOK
<1>4. memo'[c] = m /\ pc'[c] = to
  BY <1>1, <1>2, Moves
<1>5. CallOK(c)'
  BY <1>1, <1>3, <1>4 DEF CallOK, Working, Counting
<1>6. QED
  BY <1>1, <1>2, <1>5, QuietCall

LEMMA ReadSessionStep ==
  ASSUME IInv, NEW c \in Calls, NEW open \in {"marks", "submit"}, ReadSession(c, open, "ok")
  PROVE  IInv'
<1>1. PICK s \in Calls :
        /\ kind[s] = "practice" /\ memo' = [memo EXCEPT ![c].session = s]
        /\ Step(c, "idle", open) \/ Step(c, "idle", "ok")
  BY DEF ReadSession
<1>2. UNCHANGED <<rows, exams, faults, together, late>> /\ kind[s] # "none"
  BY <1>1 DEF ReadSession
<1>3. CASE Step(c, "idle", open)
  BY <1>1, <1>2, <1>3, TakeSession
<1>4. CASE Step(c, "idle", "ok")
  BY <1>1, <1>2, <1>4, TakeSession
<1>5. QED
  BY <1>1, <1>3, <1>4

LEMMA ReadSessionToAnswerStep ==
  ASSUME IInv, NEW c \in Calls, ReadSessionToAnswer(c)
  PROVE  IInv'
<1>1. PICK s \in Calls : \E q \in DOMAIN answers[s], k \in {"right", "wrong"} :
        /\ Open(s)
        /\ memo' = [memo EXCEPT ![c].session = s, ![c].question = q, ![c].mark = k]
        /\ Step(c, "idle", "options") \/ Step(c, "idle", "save")
  BY DEF ReadSessionToAnswer
<1>2. PICK q \in DOMAIN answers[s], k \in {"right", "wrong"} :
        /\ Open(s)
        /\ memo' = [memo EXCEPT ![c].session = s, ![c].question = q, ![c].mark = k]
        /\ Step(c, "idle", "options") \/ Step(c, "idle", "save")
  BY <1>1
<1>3. PICK to \in {"options", "save"} : Step(c, "idle", to)
  BY <1>2
<1> DEFINE m == [memo[c] EXCEPT !.session = s, !.question = q, !.mark = k]
<1>4. q \in Questions /\ q \in Nat /\ k \in Marks
  <2>1. answers[s] \in Sheets
    BY DEF IInv, TypeOK
  <2>2. q \in Questions
    BY <2>1, SheetType
  <2>3. QED
    BY <2>2, BankAssumption DEF Questions, Marks
<1>5. /\ m \in Memo /\ SameWalk(m, memo[c]) /\ m.session = s /\ m.question = q
      /\ memo' = [memo EXCEPT ![c] = m]
  BY <1>2, <1>4, MemoType DEF Memo, SameWalk
<1>6. /\ pc[c] = "idle" /\ pc' = [pc EXCEPT ![c] = to]
      /\ to \in Labels \ {"idle", "page", "listed"}
      /\ to \notin Starting /\ to # "answers"
      /\ UNCHANGED <<rows, exams, faults, together, late>>
  BY <1>3 DEF Step, Labels, Starting, ReadSessionToAnswer
<1> HIDE DEF m
<1>7. status[s] # "none"
  BY <1>2 DEF Open
<1>8. memo'[c] = m /\ pc'[c] = to
  BY <1>5, <1>6, Moves
<1>9. CallOK(c)'
  BY <1>4, <1>5, <1>6, <1>7, <1>8 DEF CallOK, Working, Counting
<1>10. QED
  BY <1>5, <1>6, <1>9, QuietCall

LEMMA ReadCorrectOptionsStep ==
  ASSUME IInv, NEW c \in Calls, ReadCorrectOptions(c)
  PROVE  IInv'
BY GoOn DEF ReadCorrectOptions, Step, Working, Counting

\* A call writes, and has done: the tables it does not write are as they were.
LEMMA WriteStep ==
  ASSUME IInv, NEW c \in Calls, NEW to \in Labels \ {"idle", "page", "listed", "answers"},
         pc' = [pc EXCEPT ![c] = to], pc[c] \in Working, to \notin Starting,
         UNCHANGED <<rows, kind, faults, together>>,
         NEW m \in Memo, memo' = [memo EXCEPT ![c] = m], SameWalk(m, memo[c]),
         status' \in [Calls -> {"none", "in_progress", "submitted", "graded"}],
         result' \in [Calls -> Counts],
         late' \in SUBSET (Calls \X Questions),
         answers' = [s \in Calls |-> answers'[s]], chosen' = [s \in Calls |-> chosen'[s]],
         \A s \in Calls : answers'[s] \in [DOMAIN answers[s] -> Marks]
                          /\ chosen'[s] \in [DOMAIN answers[s] -> Marks],
         \A s \in Calls : status'[s] = "none" <=> status[s] = "none",
         \A s \in Calls : \A q \in DOMAIN answers[s] :
           <<s, q>> \notin late' => \/ <<s, q>> \notin late /\ answers'[s][q] = answers[s][q]
                                    \/ ~OthersCounted(c, s),
         CallOK(c)',
         \A s \in Calls : status'[s] = "graded" =>
           GradeOK(s)' \/ (status[s] = "graded" /\ result'[s] = result[s])
  PROVE  IInv'
<1>1. /\ memo' \in [Calls -> Memo] /\ pc' \in [Calls -> Labels]
      /\ memo'[c] = m /\ pc'[c] = to /\ Others(c)
  BY Moves
<1>2. \A s \in Calls : DOMAIN answers'[s] = DOMAIN answers[s]
  OBVIOUS
<1>3. TypeOK'
  <2>1. HashUnique(bank)'
    BY DEF IInv, TypeOK, HashUnique
  <2>2. \A s \in Calls : answers'[s] \in Sheets
    BY <1>2, SheetType DEF IInv, TypeOK
  <2>3. \A s \in Calls : DOMAIN answers'[s] # {} => status'[s] # "none"
    BY <1>2 DEF IInv, TypeOK
  <2>4. \A s \in Calls : chosen'[s] \in [DOMAIN answers'[s] -> Marks]
    BY <1>2
  <2>5. QED
    BY <1>1, <2>1, <2>2, <2>3, <2>4 DEF IInv, TypeOK
<1>4. MemoOK'
  BY <1>1 DEF MemoOK
<1>5. PagesOK'
  BY <1>1, WalksStay
<1>6. AttemptsOK'
  <2>1. Attempted' = Attempted
    BY DEF Attempted
  <2>2. Starters' \subseteq Starters
    BY <1>1, OthersSame, NoNewStart
  <2>3. QED
    BY <2>1, <2>2, AttemptsStay
<1>7. SheetsOK' /\ MarksOK'
  <2>1. pc[c] \notin {"ok", "error", "answers"} /\ pc'[c] # "answers"
    BY <1>1 DEF Working
  <2>2. \A d \in Calls \ {c} : pc'[d] = pc[d] /\ SameSession(memo'[d], memo[d])
    BY <1>1, OthersSame
  <2>3. QED
    BY <1>2, <2>1, <2>2, SessionsKept
<1>8. QED
  BY <1>3, <1>4, <1>5, <1>6, <1>7 DEF IInv

\* One mark of the session of c is written, with the option it stands for.
LEMMA MarkSet ==
  ASSUME IInv, NEW s \in Calls, NEW q, NEW k \in Marks,
         answers' = [answers EXCEPT ![s][q] = k] \/ answers' = answers,
         chosen' = [chosen EXCEPT ![s][q] = k] \/ chosen' = chosen
  PROVE  /\ answers' = [d \in Calls |-> answers'[d]] /\ chosen' = [d \in Calls |-> chosen'[d]]
         /\ \A d \in Calls : answers'[d] \in [DOMAIN answers[d] -> Marks]
                             /\ chosen'[d] \in [DOMAIN answers[d] -> Marks]
         /\ \A d \in Calls : \A r \in DOMAIN answers[d] :
              d # s \/ r # q => answers'[d][r] = answers[d][r]
<1>1. answers = [d \in Calls |-> answers[d]] /\ chosen = [d \in Calls |-> chosen[d]]
  BY DEF IInv, MemoOK
<1>2. \A d \in Calls : answers[d] \in [DOMAIN answers[d] -> Marks]
                       /\ chosen[d] \in [DOMAIN answers[d] -> Marks]
  BY SheetType DEF IInv, TypeOK
<1> DEFINE a == [answers[s] EXCEPT ![q] = k]
           o == [chosen[s] EXCEPT ![q] = k]
<1>3. a \in [DOMAIN answers[s] -> Marks] /\ o \in [DOMAIN answers[s] -> Marks]
  BY <1>2
<1>4. \A r \in DOMAIN answers[s] : r # q => a[r] = answers[s][r]
  BY <1>2
<1>5. /\ answers' = [answers EXCEPT ![s] = a] \/ answers' = answers
      /\ chosen' = [chosen EXCEPT ![s] = o] \/ chosen' = chosen
  BY <1>1
<1> HIDE DEF a, o
<1>6. /\ answers' = [d \in Calls |-> answers'[d]] /\ chosen' = [d \in Calls |-> chosen'[d]]
  BY <1>1, <1>5
<1>7. \A d \in Calls : /\ answers'[d] = answers[d] \/ (d = s /\ answers'[d] = a)
                       /\ chosen'[d] = chosen[d] \/ (d = s /\ chosen'[d] = o)
  BY <1>1, <1>5
<1>8. QED
  BY <1>2, <1>3, <1>4, <1>6, <1>7

LEMMA Same ==
  ASSUME IInv, NEW c \in Calls, UNCHANGED memo
  PROVE  \E m \in Memo : memo' = [memo EXCEPT ![c] = m] /\ SameWalk(m, memo[c])
<1>1. memo[c] \in Memo /\ memo' = [memo EXCEPT ![c] = memo[c]] /\ SameWalk(memo[c], memo[c])
  BY MemoType DEF IInv, MemoOK, SameWalk
<1>2. QED
  BY <1>1

LEMMA WriteMarkStep ==
  ASSUME IInv, NEW c \in Calls, WriteMark(c)
  PROVE  IInv'
<1> DEFINE s == memo[c].session
           q == memo[c].question
           k == memo[c].mark
<1>1. /\ pc[c] = "mark" /\ pc' = [pc EXCEPT ![c] = "ok"]
      /\ UNCHANGED <<rows, status, kind, result, memo, faults, together>>
      /\ late' = IF Counted(s) THEN late \cup {<<s, q>>} ELSE late
      /\ answers' = [answers EXCEPT ![s][q] = k] /\ chosen' = [chosen EXCEPT ![s][q] = k]
  BY DEF WriteMark, Step
<1>2. /\ pc[c] \in Working /\ "ok" \notin Starting
      /\ "ok" \in Labels \ {"idle", "page", "listed", "answers"}
  BY <1>1 DEF Working, Labels, Starting
<1>3. s \in Calls /\ q \in Questions /\ k \in Marks
  BY <1>1, <1>2, Works, MemoType DEF Memo
<1> HIDE DEF s, q, k
<1>4. late' \in SUBSET (Calls \X Questions)
  BY <1>1, <1>3 DEF IInv, TypeOK
<1>5. /\ answers' = [d \in Calls |-> answers'[d]] /\ chosen' = [d \in Calls |-> chosen'[d]]
      /\ \A d \in Calls : answers'[d] \in [DOMAIN answers[d] -> Marks]
                          /\ chosen'[d] \in [DOMAIN answers[d] -> Marks]
      /\ \A d \in Calls : \A r \in DOMAIN answers[d] :
           d # s \/ r # q => answers'[d][r] = answers[d][r]
  BY <1>1, <1>3, MarkSet
<1>6. OthersCounted(c, s) => Counted(s)
  BY DEF OthersCounted, Counted, Counting
<1>7. \A d \in Calls : \A r \in DOMAIN answers[d] :
        <<d, r>> \notin late' => \/ <<d, r>> \notin late /\ answers'[d][r] = answers[d][r]
                                 \/ ~OthersCounted(c, d)
  BY <1>1, <1>5, <1>6
<1>8. CallOK(c)'
  <2>1. pc'[c] = "ok"
    BY <1>1 DEF IInv, TypeOK
  <2>2. QED
    BY <2>1 DEF CallOK, Working, Counting
<1>9. PICK m \in Memo : memo' = [memo EXCEPT ![c] = m] /\ SameWalk(m, memo[c])
  BY <1>1, Same
<1>10. /\ status' \in [Calls -> {"none", "in_progress", "submitted", "graded"}]
       /\ result' \in [Calls -> Counts] /\ status' = status /\ result' = result
  BY <1>1 DEF IInv, TypeOK
<1>11. QED
  BY <1>1, <1>2, <1>4, <1>5, <1>7, <1>8, <1>9, <1>10, WriteStep

LEMMA ReadMarksStep ==
  ASSUME IInv, NEW c \in Calls, ReadMarks(c)
  PROVE  IInv'
<1> DEFINE s == memo[c].session
           m == [memo[c] EXCEPT !.sheet = answers[s]]
<1>1. /\ pc[c] = "marks" /\ pc' = [pc EXCEPT ![c] = "result"]
      /\ UNCHANGED <<rows, exams, faults, together, late>>
      /\ "result" \in Labels \ {"idle", "page", "listed"}
      /\ "result" \notin Starting /\ pc[c] \in Working
  BY DEF ReadMarks, Step, Labels, Starting, Working
<1>2. s \in Calls /\ status[s] # "none" /\ memo[c].todo = {}
  BY <1>1, Works
<1>3. answers[s] \in Sheets
  BY <1>2 DEF IInv, TypeOK
<1>4. /\ m \in Memo /\ SameWalk(m, memo[c]) /\ m.session = s /\ m.todo = {}
      /\ m.sheet = answers[s] /\ memo' = [memo EXCEPT ![c] = m]
  BY <1>2, <1>3, MemoType DEF Memo, SameWalk, ReadMarks
<1> HIDE DEF m
<1>5. memo'[c] = m /\ pc'[c] = "result"
  BY <1>1, <1>4, Moves
<1>6. CallOK(c)'
  <2> HIDE DEF s
  <2>1. /\ s \in Calls /\ status'[s] # "none" /\ memo'[c].session = s /\ memo'[c].todo = {}
        /\ memo'[c].sheet = answers'[s]
    BY <1>1, <1>2, <1>4, <1>5
  <2>2. QED
    BY <1>5, <2>1 DEF CallOK, Working, Counting, Agrees
<1>7. QED
  BY <1>1, <1>4, <1>6, QuietCall

\* The counts that were read are those of the marks that were not late.
LEMMA WriteGradeStep ==
  ASSUME IInv, NEW c \in Calls, NEW from \in {"result", "score"},
         WriteGrade(c, from, Tally(memo[c].sheet))
  PROVE  IInv'
<1> DEFINE s == memo[c].session
           f == memo[c].sheet
<1>1. /\ pc[c] = from /\ pc' = [pc EXCEPT ![c] = "ok"]
      /\ UNCHANGED <<rows, kind, chosen, answers, memo, faults, together, late>>
      /\ result' = [result EXCEPT ![s] = Tally(f)] /\ status' = [status EXCEPT ![s] = "graded"]
      /\ "ok" \in Labels \ {"idle", "page", "listed", "answers"}
      /\ "ok" \notin Starting /\ pc[c] \in Working /\ pc[c] \in Counting
  BY DEF WriteGrade, Step, Labels, Starting, Working, Counting
<1>2. /\ s \in Calls /\ status[s] # "none" /\ DOMAIN f \subseteq DOMAIN answers[s]
      /\ Agrees(s, f, {}) /\ f \in Sheets
  BY <1>1, Works, MemoType DEF Memo
<1> HIDE DEF s, f
<1>3. Tally(f) \in Counts
  BY <1>2, TallyType
<1>4. /\ status' \in [Calls -> {"none", "in_progress", "submitted", "graded"}]
      /\ result' \in [Calls -> Counts] /\ result'[s] = Tally(f)
      /\ \A d \in Calls \ {s} : status'[d] = status[d] /\ result'[d] = result[d]
      /\ \A d \in Calls : status'[d] = "none" <=> status[d] = "none"
  BY <1>1, <1>2, <1>3 DEF IInv, TypeOK
<1>5. GradeOK(s)'
  <2>1. \A q \in DOMAIN answers'[s] : <<s, q>> \notin late' => q \in DOMAIN f /\ f[q] = answers'[s][q]
    BY <1>1, <1>2 DEF Agrees
  <2>2. DOMAIN f \subseteq DOMAIN answers'[s] /\ result'[s] = Tally(f)
    BY <1>1, <1>2, <1>4
  <2>3. \E g \in Sheets : /\ DOMAIN g \subseteq DOMAIN answers'[s] /\ result'[s] = Tally(g)
                          /\ \A q \in DOMAIN answers'[s] \ {} :
                               <<s, q>> \notin late' => q \in DOMAIN g /\ g[q] = answers'[s][q]
    BY <1>2, <2>1, <2>2
  <2>4. s' = s
    BY <1>1 DEF s
  <2>5. QED
    BY <2>3, <2>4 DEF GradeOK, Agrees, Tally, Marked
<1>6. \A d \in Calls : status'[d] = "graded" =>
        GradeOK(d)' \/ (status[d] = "graded" /\ result'[d] = result[d])
  <2>1. s' = s
    BY <1>1 DEF s
  <2>2. ASSUME NEW d \in Calls, d = s PROVE GradeOK(d)'
    BY <1>5, <2>1, <2>2 DEF GradeOK, Agrees
  <2>3. QED
    BY <1>4, <2>2
<1>7. PICK m \in Memo : memo' = [memo EXCEPT ![c] = m] /\ SameWalk(m, memo[c])
  BY <1>1, Same
<1>8. CallOK(c)'
  <2>1. pc'[c] = "ok"
    BY <1>1 DEF IInv, TypeOK
  <2>2. QED
    BY <2>1 DEF CallOK, Working, Counting
<1>9. /\ answers' = [d \in Calls |-> answers'[d]] /\ chosen' = [d \in Calls |-> chosen'[d]]
      /\ \A d \in Calls : answers'[d] \in [DOMAIN answers[d] -> Marks]
                          /\ chosen'[d] \in [DOMAIN answers[d] -> Marks]
      /\ late' \in SUBSET (Calls \X Questions)
      /\ late' = late /\ answers' = answers
  BY <1>1, SheetType DEF IInv, TypeOK, MemoOK
<1>10. QED
  BY <1>1, <1>4, <1>6, <1>7, <1>8, <1>9, WriteStep

LEMMA SaveAnswerStep ==
  ASSUME IInv, NEW c \in Calls, SaveAnswer(c)
  PROVE  IInv'
<1> DEFINE s == memo[c].session
           q == memo[c].question
           k == memo[c].mark
<1>1. /\ pc[c] = "save" /\ pc' = [pc EXCEPT ![c] = "ok"]
      /\ UNCHANGED <<rows, status, kind, answers, result, memo, faults, together, late>>
      /\ chosen' = [chosen EXCEPT ![s][q] = k]
      /\ "ok" \in Labels \ {"idle", "page", "listed", "answers"}
      /\ "ok" \notin Starting /\ pc[c] \in Working
  BY DEF SaveAnswer, Step, Labels, Starting, Working
<1>2. s \in Calls /\ k \in Marks
  BY <1>1, Works, MemoType DEF Memo
<1> HIDE DEF s, q, k
<1>3. /\ answers' = [d \in Calls |-> answers'[d]] /\ chosen' = [d \in Calls |-> chosen'[d]]
      /\ \A d \in Calls : answers'[d] \in [DOMAIN answers[d] -> Marks]
                          /\ chosen'[d] \in [DOMAIN answers[d] -> Marks]
  BY <1>1, <1>2, MarkSet
<1>4. PICK m \in Memo : memo' = [memo EXCEPT ![c] = m] /\ SameWalk(m, memo[c])
  BY <1>1, Same
<1>5. CallOK(c)'
  <2>1. pc'[c] = "ok"
    BY <1>1 DEF IInv, TypeOK
  <2>2. QED
    BY <2>1 DEF CallOK, Working, Counting
<1>6. /\ status' \in [Calls -> {"none", "in_progress", "submitted", "graded"}]
      /\ result' \in [Calls -> Counts] /\ status' = status /\ result' = result
      /\ late' \in SUBSET (Calls \X Questions)
  BY <1>1 DEF IInv, TypeOK
<1>7. QED
  BY <1>1, <1>3, <1>4, <1>5, <1>6, WriteStep

LEMMA SubmitSessionStep ==
  ASSUME IInv, NEW c \in Calls, SubmitSession(c)
  PROVE  IInv'
<1> DEFINE s == memo[c].session
<1>1. PICK to \in {"enqueue", "ok"} :
        /\ pc[c] = "submit" /\ pc' = [pc EXCEPT ![c] = to]
        /\ UNCHANGED <<rows, kind, chosen, answers, result, memo, faults, together, late>>
        /\ \/ status[s] = "in_progress" /\ status' = [status EXCEPT ![s] = "submitted"]
           \/ status' = status
  BY DEF SubmitSession, Step
<1>2. /\ to \in Labels \ {"idle", "page", "listed", "answers"}
      /\ to \notin Starting /\ pc[c] \in Working
  BY <1>1 DEF Labels, Starting, Working
<1>3. s \in Calls /\ status[s] # "none"
  BY <1>2, Works
<1>4. /\ status' \in [Calls -> {"none", "in_progress", "submitted", "graded"}]
      /\ \A d \in Calls : status'[d] = "none" <=> status[d] = "none"
      /\ \A d \in Calls : status'[d] = "graded" => status[d] = "graded"
  BY <1>1, <1>3 DEF IInv, TypeOK
<1>5. CallOK(c)'
  <2>1. pc'[c] = to /\ memo'[c].session = s /\ s \in Calls /\ status'[s] # "none"
    BY <1>1, <1>3, <1>4 DEF IInv, TypeOK
  <2>2. QED
    BY <2>1 DEF CallOK, Working, Counting
<1> HIDE DEF s
<1>6. PICK m \in Memo : memo' = [memo EXCEPT ![c] = m] /\ SameWalk(m, memo[c])
  BY <1>1, Same
<1>7. /\ answers' = [d \in Calls |-> answers'[d]] /\ chosen' = [d \in Calls |-> chosen'[d]]
      /\ \A d \in Calls : answers'[d] \in [DOMAIN answers[d] -> Marks]
                          /\ chosen'[d] \in [DOMAIN answers[d] -> Marks]
      /\ late' \in SUBSET (Calls \X Questions) /\ result' \in [Calls -> Counts]
      /\ late' = late /\ answers' = answers /\ result' = result
  BY <1>1, SheetType DEF IInv, TypeOK, MemoOK
<1>8. QED
  BY <1>1, <1>2, <1>4, <1>5, <1>6, <1>7, WriteStep

\* An await that fails, of the add or of another call.
LEMMA FaultStep ==
  ASSUME IInv, NEW c \in Calls, NEW to \in {"ok", "error", "queued"},
         pc' = [pc EXCEPT ![c] = to], faults < MaxFaults, faults' = faults + 1,
         UNCHANGED <<rows, exams, memo, together, late>>,
         pc[c] \notin {"ok", "error"}, pc[c] = "answers" => to = "error",
         to = "queued" => pc[c] \in Working
  PROVE  IInv'
<1>1. /\ pc' \in [Calls -> Labels] /\ pc'[c] = to /\ \A d \in Calls \ {c} : pc'[d] = pc[d]
      /\ to \notin Starting /\ to # "answers"
  BY DEF IInv, TypeOK, Labels, Starting
<1>2. faults' \in 0..MaxFaults
  BY BankAssumption DEF IInv, TypeOK
<1>3. TypeOK' /\ MemoOK'
  BY <1>1, <1>2, TypeStays DEF IInv, MemoOK
<1>4. PagesOK'
  BY <1>1, WalksStay DEF Others, SameWalk
<1>5. Attempted' \subseteq Attempted /\ Starters' \subseteq Starters
  BY <1>1, NoNewStart DEF Attempted
<1>6. CallOK(c)'
  BY <1>1, Works DEF CallOK, Working, Counting
<1>7. SheetsOK' /\ MarksOK'
  BY <1>1, <1>6, SessionsStay DEF SameSession
<1>8. QED
  BY <1>3, <1>4, <1>5, <1>7, AttemptsStay DEF IInv

LEMMA EnqueueGradeStep ==
  ASSUME IInv, NEW c \in Calls, EnqueueGrade(c)
  PROVE  IInv'
<1>1. CASE Step(c, "enqueue", "queued") /\ UNCHANGED faults
  BY <1>1, GoOn DEF EnqueueGrade, Step, Working, Counting
<1>2. CASE faults < MaxFaults /\ faults' = faults + 1 /\ Step(c, "enqueue", "ok")
  BY <1>2, FaultStep DEF EnqueueGrade, Step
<1>3. QED
  BY <1>1, <1>2 DEF EnqueueGrade

LEMMA ReadSessionToGradeStep ==
  ASSUME IInv, NEW c \in Calls, ReadSessionToGrade(c)
  PROVE  IInv'
<1>1. PICK to \in {"ok", "paper"} : Step(c, "queued", to)
  BY DEF ReadSessionToGrade
<1>2. UNCHANGED <<rows, exams, memo, faults, together, late>>
  BY DEF ReadSessionToGrade
<1>3. CASE to = "ok"
  BY <1>1, <1>2, <1>3, MoveOn DEF Step, Labels, Aside, Starting
<1>4. CASE to = "paper"
  BY <1>1, <1>2, <1>4, GoOn DEF Step, Working, Counting
<1>5. QED
  BY <1>3, <1>4

LEMMA ReadPaperStep ==
  ASSUME IInv, NEW c \in Calls, ReadPaper(c)
  PROVE  IInv'
<1> DEFINE s == memo[c].session
           sheet == chosen[s]
           to == IF DOMAIN sheet = {} THEN "score" ELSE "grading"
           m == [memo[c] EXCEPT !.sheet = sheet, !.todo = DOMAIN sheet]
<1>1. /\ pc[c] = "paper" /\ pc' = [pc EXCEPT ![c] = to]
      /\ UNCHANGED <<rows, exams, faults, together, late>>
      /\ to \in Labels \ {"idle", "page", "listed"} /\ to \in {"score", "grading"}
      /\ to \notin Starting /\ pc[c] \in Working
  BY DEF ReadPaper, Step, Labels, Starting, Working
<1>2. s \in Calls /\ status[s] # "none"
  BY <1>1, Works
<1>3. sheet \in Sheets /\ DOMAIN sheet = DOMAIN answers[s] /\ DOMAIN sheet \subseteq Questions
  BY <1>2, SheetType DEF IInv, TypeOK
<1>4. /\ m \in Memo /\ SameWalk(m, memo[c]) /\ m.session = s /\ m.todo = DOMAIN answers[s]
      /\ DOMAIN m.sheet = DOMAIN answers[s] /\ memo' = [memo EXCEPT ![c] = m]
  BY <1>3, MemoType DEF Memo, SameWalk, ReadPaper
<1>5. to = "score" => DOMAIN answers[s] = {}
  BY <1>3
<1> HIDE DEF m, to, sheet
<1>6. memo'[c] = m /\ pc'[c] = to
  BY <1>1, <1>4, Moves
<1>7. CallOK(c)'
  <2> HIDE DEF s
  <2>1. /\ s \in Calls /\ status'[s] # "none" /\ memo'[c].session = s
        /\ memo'[c].todo = DOMAIN answers'[s] /\ DOMAIN memo'[c].sheet = DOMAIN answers'[s]
        /\ pc'[c] = "score" => memo'[c].todo = {}
    BY <1>1, <1>2, <1>4, <1>5, <1>6
  <2>2. QED
    BY <1>1, <1>6, <2>1 DEF CallOK, Working, Counting, Agrees
<1>8. QED
  BY <1>1, <1>4, <1>7, QuietCall

\* A mark is late if anybody else has counted the session, or is about to.
LEMMA MarkQuestionStep ==
  ASSUME IInv, NEW c \in Calls, MarkQuestion(c)
  PROVE  IInv'
<1> DEFINE s == memo[c].session
           f == memo[c].sheet
<1>1. PICK q \in memo[c].todo : LET todo == memo[c].todo \ {q} IN
        /\ Step(c, "grading", IF todo = {} THEN "score" ELSE "grading")
        /\ memo' = [memo EXCEPT ![c].todo = todo]
        /\ answers' = [answers EXCEPT ![s][q] = f[q]]
        /\ late' = IF status[s] = "graded" \/ \E d \in Calls \ {c} :
                        pc[d] \in {"result", "grading", "score"} /\ memo[d].session = s
                     THEN late \cup {<<s, q>>} ELSE late \ {<<s, q>>}
  BY DEF MarkQuestion
<1> DEFINE todo == memo[c].todo \ {q}
           to == IF todo = {} THEN "score" ELSE "grading"
           m == [memo[c] EXCEPT !.todo = todo]
<1>2. /\ pc[c] = "grading" /\ pc' = [pc EXCEPT ![c] = to] /\ to \in {"score", "grading"}
      /\ UNCHANGED <<rows, status, kind, chosen, result, faults, together>>
      /\ to \in Labels \ {"idle", "page", "listed", "answers"}
      /\ to \notin Starting /\ pc[c] \in Working /\ pc[c] \in Counting
      /\ to = "score" => todo = {}
  BY <1>1 DEF MarkQuestion, Step, Labels, Starting, Working, Counting
<1>3. /\ s \in Calls /\ status[s] # "none" /\ memo[c].todo \subseteq DOMAIN f
      /\ DOMAIN f \subseteq DOMAIN answers[s] /\ Agrees(s, f, memo[c].todo)
      /\ f \in Sheets /\ memo[c].todo \subseteq Questions
  BY <1>2, Works, MemoType DEF Memo
<1>4. /\ m \in Memo /\ SameWalk(m, memo[c]) /\ m.session = s /\ m.sheet = f /\ m.todo = todo
      /\ memo' = [memo EXCEPT ![c] = m]
  BY <1>1, <1>3, MemoType DEF Memo, SameWalk
<1>5. q \in DOMAIN f /\ q \in Questions /\ f[q] \in Marks
  BY <1>3, SheetType
<1> DEFINE k == f[q]
<1>6. answers' = [answers EXCEPT ![s][q] = k] /\ chosen' = chosen /\ k \in Marks
  BY <1>1, <1>2, <1>5
<1>7. late' = IF OthersCounted(c, s) THEN late \cup {<<s, q>>} ELSE late \ {<<s, q>>}
  BY <1>1 DEF OthersCounted, Counting
<1>8. answers'[s][q] = k
  <2>1. answers = [d \in Calls |-> answers[d]] /\ q \in DOMAIN answers[s]
    BY <1>3, <1>5 DEF IInv, MemoOK
  <2>2. QED
    BY <1>3, <1>6, <2>1
<1> HIDE DEF s, f, m, to, todo, k
<1>9. /\ answers' = [d \in Calls |-> answers'[d]] /\ chosen' = [d \in Calls |-> chosen'[d]]
      /\ \A d \in Calls : answers'[d] \in [DOMAIN answers[d] -> Marks]
                          /\ chosen'[d] \in [DOMAIN answers[d] -> Marks]
      /\ \A d \in Calls : \A r \in DOMAIN answers[d] :
           d # s \/ r # q => answers'[d][r] = answers[d][r]
  BY <1>3, <1>6, MarkSet
<1>10. late' \in SUBSET (Calls \X Questions)
  BY <1>3, <1>5, <1>7 DEF IInv, TypeOK
<1>11. \A d \in Calls : \A r \in DOMAIN answers[d] :
         <<d, r>> \notin late' => \/ <<d, r>> \notin late /\ answers'[d][r] = answers[d][r]
                                  \/ ~OthersCounted(c, d)
  BY <1>7, <1>9
<1>12. memo'[c] = m /\ pc'[c] = to
  BY <1>2, <1>4, Moves
<1>13. CallOK(c)'
  <2>1. /\ memo'[c].session = s /\ memo'[c].sheet = f /\ memo'[c].todo = todo
        /\ status'[s] # "none" /\ todo \subseteq DOMAIN f
        /\ DOMAIN answers'[s] = DOMAIN answers[s]
    BY <1>2, <1>3, <1>4, <1>9, <1>12 DEF todo
  <2>2. \A r \in DOMAIN answers'[s] \ todo :
          <<s, r>> \notin late' => r \in DOMAIN f /\ f[r] = answers'[s][r]
    <3>1. \A r \in DOMAIN answers[s] : r # q /\ r \notin todo /\ <<s, r>> \notin late'
            => r \in DOMAIN f /\ f[r] = answers'[s][r]
      BY <1>3, <1>7, <1>9 DEF Agrees, todo
    <3>2. QED
      BY <1>5, <1>8, <2>1, <3>1 DEF k
  <2>3. QED
    BY <1>2, <1>3, <1>12, <2>1, <2>2 DEF CallOK, Working, Counting, Agrees
<1>14. /\ status' \in [Calls -> {"none", "in_progress", "submitted", "graded"}]
       /\ result' \in [Calls -> Counts] /\ status' = status /\ result' = result
  BY <1>2 DEF IInv, TypeOK
<1>15. UNCHANGED <<rows, kind, faults, together>>
  BY <1>2
<1>16. QED
  BY <1>2, <1>4, <1>9, <1>10, <1>11, <1>13, <1>14, <1>15, WriteStep

LEMMA AwaitRejectsStep ==
  ASSUME IInv, NEW c \in Calls, AwaitRejects(c)
  PROVE  IInv'
<1>1. /\ pc[c] \notin Resting /\ faults < MaxFaults /\ faults' = faults + 1
      /\ pc' = [pc EXCEPT ![c] = IF pc[c] \in Job THEN "queued" ELSE "error"]
      /\ UNCHANGED <<rows, exams, memo, together, late>>
  BY DEF AwaitRejects
<1>2. CASE pc[c] \in Job
  <2>1. pc' = [pc EXCEPT ![c] = "queued"] /\ pc[c] \in Working
        /\ pc[c] \notin {"ok", "error", "answers"}
    BY <1>1, <1>2 DEF Job, Working
  <2>2. QED
    BY <1>1, <2>1, FaultStep
<1>3. CASE pc[c] \notin Job
  BY <1>1, <1>3, FaultStep DEF Resting
<1>4. QED
  BY <1>2, <1>3

-----------------------------------------------------------------------------
(* The invariant holds *)

LEMMA InitInvariant == Init => IInv
<1> SUFFICES ASSUME Init PROVE IInv
  OBVIOUS
<1>1. Blank.sheet \in Sheets /\ DOMAIN Blank.sheet = {} /\ Blank.sheet \in [{} -> Marks]
  <2>1. Blank.sheet = [q \in {} |-> "blank"]
    BY DEF Blank
  <2> DEFINE f == Blank.sheet
  <2>2. f \in [{} -> Marks] /\ DOMAIN f = {}
    BY <2>1
  <2> HIDE DEF f
  <2>3. f \in Sheets
    BY <2>2, SheetType
  <2>4. QED
    BY <2>2, <2>3 DEF f
<1>2. TypeOK
  <2>1. bank \in [Questions -> Rows] /\ HashUnique(bank)
    BY BankAssumption DEF Init
  <2>2. clock \in Stamps /\ faults \in 0..MaxFaults /\ together \in Nat
    BY BankAssumption DEF Init, Stamps
  <2>3. \A s \in Calls : answers[s] = Blank.sheet /\ chosen[s] = Blank.sheet
    BY DEF Init
  <2>4. Tally(Blank.sheet) \in Counts
    BY <1>1, TallyType
  <2>5. /\ status \in [Calls -> {"none", "in_progress", "submitted", "graded"}]
        /\ kind \in [Calls -> {"none", "simulation", "practice"}]
        /\ result \in [Calls -> Counts] /\ pc \in [Calls -> Labels] /\ late = {}
    BY <2>4 DEF Init, Labels
  <2>6. QED
    BY <1>1, <2>1, <2>2, <2>3, <2>5 DEF TypeOK
<1>3. MemoOK
  <2>1. Blank \in Memo
    <3>1. 0 \in Nat /\ 1 \in Nat /\ {} \subseteq Questions /\ {} \subseteq DOMAIN Quota
      OBVIOUS
    <3>2. "blank" \in Marks
      BY DEF Marks
    <3>3. [q \in {} |-> "blank"] \in Sheets
      BY <1>1 DEF Blank
    <3>4. QED
      BY <3>1, <3>2, <3>3 DEF Blank, Memo
  <2>2. QED
    BY <2>1 DEF Init, MemoOK
<1>4. PagesOK
  BY DEF Init, PagesOK, WalkOK, Blank
<1>5. AttemptsOK
  <2>1. Attempted = {} /\ Starters = {}
    BY DEF Init, Attempted, Starters, Starting
  <2>2. IsFiniteSet({}) /\ Cardinality({}) = 0
    BY FS_EmptySet
  <2>3. QED
    BY <2>1, <2>2 DEF AttemptsOK
<1>6. SheetsOK
  BY <1>1 DEF Init, SheetsOK
<1>7. MarksOK
  <2>1. \A c \in Calls : memo[c].todo = {}
    BY DEF Init, Blank
  <2>2. QED
    BY <2>1 DEF Init, MarksOK, CallOK, GradeOK, Working, Counting
<1>8. QED
  BY <1>2, <1>3, <1>4, <1>5, <1>6, <1>7 DEF IInv

LEMMA StutterStep ==
  ASSUME IInv, UNCHANGED vars
  PROVE  IInv'
<1>1. TypeOK' /\ MemoOK'
  BY DEF vars, IInv, TypeOK, MemoOK, HashUnique
<1>2. PagesOK'
  BY DEF vars, IInv, PagesOK, WalkOK, After, Cuts, Newer, Millis, Below
<1>3. SheetsOK'
  BY DEF vars, IInv, SheetsOK
<1>4. Attempted' = Attempted /\ Starters' = Starters
  BY DEF vars, Attempted, Starters
<1>5. AttemptsOK'
  BY <1>4, AttemptsStay DEF vars
<1>6. MarksOK'
  BY DEF vars, IInv, MarksOK, CallOK, GradeOK, Agrees
<1>7. QED
  BY <1>1, <1>2, <1>3, <1>5, <1>6 DEF IInv

LEMMA StepPreserves == IInv /\ [Next]_vars => IInv'
<1> SUFFICES ASSUME IInv, [Next]_vars PROVE IInv'
  OBVIOUS
<1>1. CASE UNCHANGED vars
  BY <1>1, StutterStep
<1>2. ASSUME NEW c \in Calls,
             Manage(c) \/ List(c) \/ Start(c) \/ Drill(c) \/ Submit(c) \/ AwaitRejects(c)
      PROVE  IInv'
  <2>1. CASE Manage(c)
    BY <2>1, CreateQuestionStep, ImportQuestionsStep, RemoveQuestionStep, RestoreQuestionStep
    DEF Manage
  <2>2. CASE List(c)
    BY <2>2, StartListingStep, ReadPageStep DEF List
  <2>3. CASE Start(c)
    BY <2>3, StartExamStep, StartPracticeStep, PickForKeyStep, PickAnyStep,
       InsertSessionStep, InsertAnswersStep DEF Start
  <2>4. CASE Drill(c)
    BY <2>4, ReadSessionToAnswerStep, ReadCorrectOptionsStep, WriteMarkStep,
       ReadSessionStep, ReadMarksStep, WriteGradeStep DEF Drill, ReadSessionToFinish, WriteResult
  <2>5. CASE Submit(c)
    BY <2>5, SaveAnswerStep, ReadSessionStep, SubmitSessionStep, EnqueueGradeStep,
       ReadSessionToGradeStep, ReadPaperStep, MarkQuestionStep, WriteGradeStep
    DEF Submit, ReadSessionToSubmit, WriteScore
  <2>6. CASE AwaitRejects(c)
    BY <2>6, AwaitRejectsStep
  <2>7. QED
    BY <1>2, <2>1, <2>2, <2>3, <2>4, <2>5, <2>6
<1>3. QED
  BY <1>1, <1>2 DEF Next

LEMMA Invariance == Spec => []IInv
BY InitInvariant, StepPreserves, PTL DEF Spec

\* Every table, call and counter has its type, and two active questions never
\* have the same text (the partial index of schema.ts on content_hash).
THEOREM TypeCorrect == Spec => []TypeOK
<1>1. IInv => TypeOK
  BY DEF IInv
<1>2. QED
  BY <1>1, Invariance, PTL

\* Whatever is imported, removed or restored between the pages, a walk shows
\* no row twice, and of the rows that stay exactly those that no page cut off
\* (pagination.ts:53-85).
THEOREM PagesCover == Spec => []PagesCoverListing
<1>1. IInv => PagesCoverListing
  BY DEF IInv, PagesOK, WalkOK, PagesCoverListing
<1>2. QED
  BY <1>1, Invariance, PTL

\* Starts that overlap exceed the limit by all of them but one, and by no more
\* (simulations/service.ts:195-199, 252).
THEOREM AttemptsLimited == Spec => []AttemptsBounded
<1>1. IInv => AttemptsBounded
  <2> SUFFICES ASSUME IInv, Attempted # {}
               PROVE  Cardinality(Attempted) < MaxAttempts + together
    BY DEF AttemptsBounded
  <2>1. /\ IsFiniteSet(Attempted) /\ IsFiniteSet(Starters)
        /\ LET n == Cardinality(Attempted) + Cardinality(Starters) IN
             n = 0 \/ n < MaxAttempts + together
    BY DEF IInv, AttemptsOK
  <2>2. Cardinality(Attempted) \in Nat /\ Cardinality(Starters) \in Nat
        /\ Cardinality(Attempted) # 0
    BY <2>1, FS_CardinalityType, FS_EmptySet
  <2>3. MaxAttempts \in Nat /\ together \in Nat
    BY BankAssumption DEF IInv, TypeOK
  <2>4. QED
    BY <2>1, <2>2, <2>3
<1>2. QED
  BY <1>1, Invariance, PTL

\* A start that came to its end has its questions, and a graded practice the
\* counts of its marks, but for those that were written late
\* (simulations/service.ts:252-260, 735, 787).
THEOREM SessionsSound == Spec => []SessionsAreSound
<1>1. IInv => SessionsAreSound
  <2> SUFFICES ASSUME IInv, NEW s \in Calls
               PROVE  /\ status[s] # "none" /\ pc[s] # "answers" =>
                           /\ DOMAIN answers[s] = IF pc[s] = "ok" THEN memo[s].picked ELSE {}
                           /\ memo[s].twice => pc[s] = "error"
                      /\ status[s] = "graded" =>
                           \E D \in SUBSET DOMAIN answers[s] : \E f \in [D -> Marks] :
                             /\ result[s] = Tally(f)
                             /\ \A q \in DOMAIN answers[s] :
                                  <<s, q>> \notin late => q \in D /\ f[q] = answers[s][q]
    BY DEF SessionsAreSound
  <2>1. status[s] # "none" /\ pc[s] # "answers" =>
          /\ DOMAIN answers[s] = IF pc[s] = "ok" THEN memo[s].picked ELSE {}
          /\ memo[s].twice => pc[s] = "error"
    BY DEF IInv, SheetsOK
  <2>2. ASSUME status[s] = "graded"
        PROVE  \E D \in SUBSET DOMAIN answers[s] : \E f \in [D -> Marks] :
                 /\ result[s] = Tally(f)
                 /\ \A q \in DOMAIN answers[s] :
                      <<s, q>> \notin late => q \in D /\ f[q] = answers[s][q]
    <3>1. PICK f \in Sheets : /\ DOMAIN f \subseteq DOMAIN answers[s] /\ result[s] = Tally(f)
                              /\ Agrees(s, f, {})
      BY <2>2 DEF IInv, MarksOK, GradeOK
    <3>2. f \in [DOMAIN f -> Marks]
      BY SheetType
    <3>3. \A q \in DOMAIN answers[s] :
            <<s, q>> \notin late => q \in DOMAIN f /\ f[q] = answers[s][q]
      BY <3>1 DEF Agrees
    <3>4. QED
      BY <3>1, <3>2, <3>3
  <2>3. QED
    BY <2>1, <2>2
<1>2. QED
  BY <1>1, Invariance, PTL

=============================================================================
