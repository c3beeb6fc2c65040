------------------------------ MODULE Listings ------------------------------
(* The cursor-paginated listings of the API (src/shared/pagination.ts and the *)
(* services that call it).  A row has a timestamp in microseconds, an id and   *)
(* the fields its listing filters on; a listing filters, orders newest first,  *)
(* and continues after a cursor, which carries the timestamp in milliseconds.  *)
(* Bounds: MaxLimit is the code's; the facts use three rows and one            *)
(* millisecond of two microseconds.                                            *)
EXTENDS Integers, Sequences, FiniteSets, FiniteSetsExt, SequencesExt

Micros   == 2
MaxLimit == 100
NoCursor == <<>>
Rejected == [ok |-> FALSE, rows |-> <<>>, next |-> NoCursor]

ByCreation == <<"createdAt", "id">>

-----------------------------------------------------------------------------
(* pagination.ts *)

\* The limits a request may get; none if its parameter is refused.
ParseLimit(raw) == IF raw < 1 THEN {} ELSE {IF raw < MaxLimit THEN raw ELSE MaxLimit}

Column(row, i) == IF i = 1 THEN row.at ELSE row.id

\* A Date becomes an ISO string of milliseconds; the aggregate lastWrongAt is
\* the text PostgreSQL sends, with all its digits.
Grain(name) == IF name = "lastWrongAt" THEN 1 ELSE Micros

EncodeCursor(row, names) ==
  [k \in ToSet(names) |-> IF k = names[1] THEN (row.at \div Grain(k)) * Grain(k) ELSE row.id]

\* What the listing finds under the names it reads: a missing one is the text
\* 'undefined', which PostgreSQL refuses as a timestamp.
DecodeCursor(cursor, names) == {k \in ToSet(names) : k \notin DOMAIN cursor}

KeysetCondition(row, cursor, names) ==
  \E i \in 1..2 :
    /\ Column(row, i) < cursor[names[i]]
    /\ \A j \in 1..(i - 1) : Column(row, j) = cursor[names[j]]

OrderByCols(rows) ==
  SetToSortSeq(rows, LAMBDA a, b : a.at > b.at \/ (a.at = b.at /\ a.id > b.id))

\* The page after the cursor; reads and writes are the cursor's field names
\* where the listing decodes and where it builds one.
BuildPage(rows, cursor, limit, reads, writes) ==
  IF cursor # NoCursor /\ DecodeCursor(cursor, reads) # {} THEN Rejected
  ELSE LET rest == {r \in rows : cursor = NoCursor \/ KeysetCondition(r, cursor, reads)}
           page == SubSeq(OrderByCols(rest), 1, Min({limit, Cardinality(rest)}))
       IN  [ok   |-> TRUE,
            rows |-> page,
            next |-> IF Len(page) = limit THEN EncodeCursor(Last(page), writes) ELSE NoCursor]

-----------------------------------------------------------------------------
(* The listings *)

Shown(rows) == {r \in rows : r.status = "published" /\ ~r.deleted}

ListPackages(rows, cursor, limit) ==
  BuildPage(Shown(rows), cursor, limit, ByCreation, ByCreation)

ListTryouts(rows, cursor, limit) ==
  LET names == <<"scheduledAt", "id">>
  IN  BuildPage({r \in Shown(rows) : r.scheduled}, cursor, limit, names, names)

ListPaths(rows, cursor, limit) ==
  BuildPage(Shown(rows), cursor, limit, ByCreation, ByCreation)

ListUsers(rows, cursor, limit) ==
  BuildPage({r \in rows : ~r.deleted}, cursor, limit, ByCreation, ByCreation)

ListMyOrders(rows, cursor, limit) ==
  BuildPage({r \in rows : r.mine}, cursor, limit, ByCreation, ByCreation)

ListNotifications(rows, cursor, limit) ==
  BuildPage({r \in rows : r.mine}, cursor, limit, ByCreation, ByCreation)

ListNotes(rows, cursor, limit) ==
  LET names == <<"updatedAt", "id">>
  IN  BuildPage({r \in rows : r.mine}, cursor, limit, names, names)

ListMyCourses(rows, cursor, limit) ==
  LET names == <<"enrolledAt", "courseId">>
  IN  BuildPage({r \in rows : r.mine /\ ~r.deleted}, cursor, limit, names, names)

\* Wrong answers grouped by question; the page predicate is in HAVING.
ListMistakes(rows, cursor, limit) ==
  LET names     == <<"lastWrongAt", "questionId">>
      wrong(q)  == {r \in rows : r.mine /\ r.wrong /\ r.question = q}
      groups    == {[id |-> q, at |-> Max({r.at : r \in wrong(q)}), wrongCount |-> Cardinality(wrong(q))] :
                      q \in {p \in {r.question : r \in rows} : wrong(p) # {}}}
  IN  BuildPage(groups, cursor, limit, names, names)

\* The select names the column createdAt, the cursor is read as startedAt.
ListMySessions(rows, cursor, limit) ==
  BuildPage({r \in rows : r.mine}, cursor, limit, <<"startedAt", "id">>, ByCreation)

-----------------------------------------------------------------------------
(* Facts *)

\* The pages a client gets that follows the cursors.
Walk(Listing(_, _, _), rows, limit) ==
  LET page[n \in 1..(Cardinality(rows) + 2)] ==
        IF n = 1 THEN Listing(rows, NoCursor, limit)
        ELSE IF page[n - 1].next = NoCursor
             THEN [ok |-> TRUE, rows |-> <<>>, next |-> NoCursor]
             ELSE Listing(rows, page[n - 1].next, limit)
  IN  page

\* Walking shows each row of the one long page, once and in its order.
Covers(Listing(_, _, _), rows, limit) ==
  LET pages == Walk(Listing, rows, limit)
  IN  /\ \A n \in DOMAIN pages : pages[n].ok
      /\ FlattenSeq([n \in DOMAIN pages |-> pages[n].rows])
           = Listing(rows, NoCursor, MaxLimit).rows

Times == {t \in [1..3 -> {0, 2, 3, 5}] :
            \A i, j \in 1..3 : i # j /\ t[i] # t[j] => t[i] \div Micros # t[j] \div Micros}

Tables ==
  {{[id |-> i, at |-> t[i], status |-> IF i = odd THEN "draft" ELSE "published",
     deleted |-> i = gone, mine |-> i # other, scheduled |-> i # odd,
     wrong |-> i # gone, question |-> IF i = 3 THEN 2 ELSE i] : i \in 1..3} :
     t \in Times, odd \in {0, 1}, gone \in {0, 2}, other \in {0, 3}}

Aligned(rows) == \A r \in rows : r.at % Micros = 0

\* Following the cursors of these listings shows every row once when equal
\* timestamps are whole milliseconds (pagination.ts:52, "rows strictly after").
ASSUME PagesCoverTables ==
  \A rows \in {t \in Tables : Aligned(t)}, limit \in 1..2 :
    /\ Covers(ListPackages, rows, limit)
    /\ Covers(ListTryouts, rows, limit)
    /\ Covers(ListPaths, rows, limit)
    /\ Covers(ListUsers, rows, limit)
    /\ Covers(ListMyOrders, rows, limit)
    /\ Covers(ListNotifications, rows, limit)
    /\ Covers(ListNotes, rows, limit)
    /\ Covers(ListMyCourses, rows, limit)

\* The mistakes' cursor is exact: no row is lost whatever the timestamps.
ASSUME MistakesCoverTables ==
  \A rows \in Tables, limit \in 1..2 : Covers(ListMistakes, rows, limit)

\* Rows with one timestamp inside a millisecond: the cursor is below all of
\* them, so the ones not shown yet are lost.
ASSUME TiedRowsAreLost ==
  \E rows \in Tables : ~Covers(ListUsers, rows, 1)

\* The second page of the sessions listing is refused whenever the first one
\* is full (simulations/service.ts:428 and :452 name the column differently).
ASSUME SecondPageOfSessionsFails ==
  \A rows \in Tables, limit \in 1..2 :
    LET first == ListMySessions(rows, NoCursor, limit)
    IN  Len(first.rows) = limit => ListMySessions(rows, first.next, limit) = Rejected

\* A limit is positive and at most MaxLimit, or refused.
ASSUME LimitsAreBounded ==
  \A raw \in -1..(MaxLimit + 2) :
    /\ ParseLimit(raw) \in SUBSET (1..MaxLimit)
    /\ ParseLimit(raw) = {} <=> raw <= 0
=============================================================================
