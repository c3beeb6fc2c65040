---------------------------- MODULE QuestionCsv ----------------------------
(* Bulk import of questions: the CSV parser and the mapping of its rows to     *)
(* questions (src/modules/questions/csv.ts).  A text is a sequence of          *)
(* characters, of which only the quote, the comma and the line ends matter; in *)
(* the mapping a cell is one value, trimmed and in lower case, "" when empty.  *)
(* Bounds: the facts use two rows of two short cells.                          *)
EXTENDS Integers, Sequences, FiniteSets, SequencesExt

Quote == "\""
Comma == ","
LF    == "\n"
CR    == "\r"

-----------------------------------------------------------------------------
(* parseCsv *)

\* CRLF and CR become LF.
Normalised(text) ==
  FlattenSeq([i \in DOMAIN text |->
    IF text[i] # CR THEN <<text[i]>>
    ELSE IF i < Len(text) /\ text[i + 1] = LF THEN <<>> ELSE <<LF>>])

Scanner == [rows |-> <<>>, row |-> <<>>, field |-> <<>>, inQuotes |-> FALSE, skip |-> FALSE]

EndField(s) == [s EXCEPT !.row = Append(s.row, s.field), !.field = <<>>]
EndRow(s)   == [s EXCEPT !.rows = Append(s.rows, Append(s.row, s.field)), !.row = <<>>, !.field = <<>>]

\* One turn of the loop at character i; skip is the i++ of an escaped quote.
Scan(input, s, i) ==
  LET ch      == input[i]
      escaped == i < Len(input) /\ input[i + 1] = Quote
      taken   == [s EXCEPT !.field = Append(s.field, ch)]
  IN  CASE s.skip -> [s EXCEPT !.skip = FALSE]
        [] ~s.skip /\ s.inQuotes /\ ch # Quote -> taken
        [] ~s.skip /\ s.inQuotes /\ ch = Quote /\ escaped -> [taken EXCEPT !.skip = TRUE]
        [] ~s.skip /\ s.inQuotes /\ ch = Quote /\ ~escaped -> [s EXCEPT !.inQuotes = FALSE]
        [] ~s.skip /\ ~s.inQuotes /\ ch = Quote -> [s EXCEPT !.inQuotes = TRUE]
        [] ~s.skip /\ ~s.inQuotes /\ ch = Comma -> EndField(s)
        [] ~s.skip /\ ~s.inQuotes /\ ch = LF -> EndRow(s)
        [] OTHER -> taken

ParseCsv(text) ==
  LET input == Normalised(text)
      end   == FoldLeft(LAMBDA s, i : Scan(input, s, i), Scanner, [i \in DOMAIN input |-> i])
  IN  IF end.field # <<>> \/ end.row # <<>> THEN EndRow(end).rows ELSE end.rows

-----------------------------------------------------------------------------
(* csvToImportRows *)

\* The columns the facts need, in the canonical order.
Columns == <<"text", "option1", "option2", "option3", "option4", "correct">>

IsHeader(row) == \E i \in DOMAIN row : row[i] = "text"

ColIndex(rows, name) ==
  LET names == IF IsHeader(rows[1]) THEN rows[1] ELSE Columns
      found == {i \in DOMAIN names : names[i] = name}
  IN  IF found = {} THEN 0 ELSE CHOOSE i \in found : \A j \in found : i <= j

At(rows, raw, name) ==
  LET i == ColIndex(rows, name) IN IF i \in DOMAIN raw THEN raw[i] ELSE ""

\* correct is the set of numbers its cell lists; the texts that are not empty
\* are numbered anew.
Options(texts, correct) ==
  LET filled == SelectSeq(texts, LAMBDA t : t # "")
  IN  [i \in DOMAIN filled |-> [text |-> filled[i], isCorrect |-> i \in correct]]

\* numbers gives the numbers a cell of the column "correct" lists.
ImportRows(rows, numbers) ==
  LET data == IF rows = <<>> THEN <<>> ELSE IF IsHeader(rows[1]) THEN Tail(rows) ELSE rows
  IN  [i \in DOMAIN data |->
         LET at(name) == At(rows, data[i], name)
         IN  [text |-> at("text"),
              options |-> Options(<<at("option1"), at("option2"), at("option3"), at("option4")>>,
                                  numbers[at("correct")])]]

-----------------------------------------------------------------------------
(* Facts *)

Cells == UNION {[1..n -> {"a", Quote, Comma, LF}] : n \in 0..2}
Tables == UNION {[1..r -> [1..2 -> {c \in Cells : Len(c) # 2 \/ c[1] # "a"}]] : r \in 0..1}
            \cup [1..2 -> [1..1 -> Cells]]

Quoted(cell) == <<Quote>> \o FlattenSeq([i \in DOMAIN cell |->
                  IF cell[i] = Quote THEN <<Quote, Quote>> ELSE <<cell[i]>>]) \o <<Quote>>
Line(row)    == FlattenSeq([i \in DOMAIN row |-> IF i = 1 THEN Quoted(row[i]) ELSE <<Comma>> \o Quoted(row[i])])
Written(table, eol) == FlattenSeq([i \in DOMAIN table |-> Line(table[i]) \o eol])

\* What is written with quotes is read back, whatever ends its lines.
ASSUME QuotedTextIsReadBack ==
  \A table \in Tables : \A eol \in {<<LF>>, <<CR>>, <<CR, LF>>} :
    ParseCsv(Written(table, eol)) = table

\* Without its last line end a table loses its last row only if that is one
\* empty cell (csv.ts:40).
ASSUME LastRowNeedsNoLineEnd ==
  \A table \in Tables :
    LET text  == Written(table, <<LF>>)
        empty == table # <<>> /\ Last(table) = <<<<>>>>
    IN  table # <<>> =>
          ParseCsv(Front(text)) = IF empty THEN Front(table) ELSE table

\* The numbers in "correct" mean the option columns as long as the empty ones
\* come last; an empty one before them shifts the marks (csv.ts:72, "1-based").
OptionTexts == [1..4 -> {"", "x"}]
ASSUME NumbersNameColumns ==
  \A texts \in OptionTexts, correct \in SUBSET (1..4) :
    LET options == Options(texts, correct)
        filled  == Cardinality({i \in 1..4 : texts[i] # ""})
    IN  /\ Len(options) = filled
        /\ (\A i \in 1..filled : texts[i] # "")
             => \A i \in 1..filled : options[i].isCorrect <=> i \in correct
ASSUME EmptyOptionShiftsMarks ==
  Options(<<"two", "", "three", "four">>, {3})[3] = [text |-> "four", isCorrect |-> TRUE]

\* The order of the header's columns does not matter.
ASSUME HeaderOrderIsFree ==
  LET one == [c \in {"1"} |-> {1}]
      canonical == <<Columns, <<"q", "x", "y", "", "", "1">>>>
      reordered == <<<<"correct", "option2", "text", "option1">>, <<"1", "y", "q", "x">>>>
  IN  /\ ImportRows(canonical, one) = ImportRows(reordered, one)
      /\ ImportRows(canonical, one) = ImportRows(Tail(canonical), one)

\* A first question that has a cell "text" is taken for a header (csv.ts:78).
ASSUME CellTextHidesQuestion ==
  ImportRows(<<<<"q", "text", "y", "", "", "1">>>>, [c \in {"1"} |-> {1}]) = <<>>
=============================================================================
