----------------------------- MODULE SheetHeader -----------------------------
(***************************************************************************)
(* Which row of a spreadsheet is its header, and which rows below it are   *)
(* data: the pure part of services/extractXLSX.ts (src/backend/src).       *)
(*                                                                         *)
(* A sheet is a sequence of rows of equal length, a row a sequence of      *)
(* cells; of a cell only its kind matters, "note" being a text of more     *)
(* than 25 characters.  Scores are compared exactly, as fractions.         *)
(***************************************************************************)
EXTENDS Integers, Sequences, FiniteSets, FiniteSetsExt

CONSTANTS
  ScanRows,             \* rows looked at for a header (100)
  MaxConsecutiveEmpty   \* MAX_CONSECUTIVE_EMPTY_ROWS (100)

ASSUME SheetAssumption ==
  /\ ScanRows \in Nat \ {0}
  /\ MaxConsecutiveEmpty \in Nat \ {0}

Cells == {"empty", "text", "note", "number"}

\* The counts scanRows() takes of a row.
Filled(row) == {c \in DOMAIN row : row[c] # "empty"}
NonEmptyCount(row) == Cardinality(Filled(row))
Strings(row) == {c \in DOMAIN row : row[c] \in {"text", "note"}}
StringCount(row) == Cardinality(Strings(row))
NumericCount(row) == Cardinality({c \in DOMAIN row : row[c] = "number"})

NoRow == 0
Scanned(sheet) == {r \in DOMAIN sheet : r <= ScanRows}

\* The rows with at least two cells, which every strategy starts from.
Candidates(sheet) == {r \in Scanned(sheet) : NonEmptyCount(sheet[r]) >= 2}
First(rows) == IF rows = {} THEN NoRow ELSE Min(rows)
NextIn(rows, r) == Min({s \in rows : s > r})

\* The first row whose score, a fraction num / den, no other row exceeds.
FirstBest(scored) ==
  First({s.row : s \in {s \in scored : \A t \in scored : t.num * s.den <= s.num * t.den}})

\* The score of a row as the header of the candidate row after it.
TransitionScore(header, next, r) ==
  LET filled == NonEmptyCount(header)
      points == (IF NumericCount(next) > NumericCount(header) THEN 25 ELSE 0)
                + (IF 10 * NumericCount(next) > 3 * NonEmptyCount(next) THEN 15 ELSE 0)
                + 5 * filled - 2 * (r - 1)
  IN [row |-> r, num |-> 40 * StringCount(header) + points * filled, den |-> filled]

\* Mutant of DetectByHeaderDataTransition: the loop runs to the last candidate, which
\* is scored against itself.
DetectByTransitionToTheEnd(sheet) ==
  LET rows == Candidates(sheet) IN
  IF Cardinality(rows) < 2 THEN NoRow
  ELSE FirstBest({TransitionScore(sheet[r], sheet[Min({s \in rows : s > r} \union {Max(rows)})], r) :
                    r \in rows})

DetectByHeaderDataTransition(sheet) ==
  LET rows == Candidates(sheet) IN
  IF Cardinality(rows) < 2 THEN NoRow
  ELSE FirstBest({TransitionScore(sheet[r], sheet[NextIn(rows, r)], r) : r \in rows \ {Max(rows)}})

\* Mostly strings, and not far fewer of them than the average candidate has.
DetectByStringDominance(sheet) ==
  LET rows == Candidates(sheet)
      strings == Cardinality(UNION {{r} \X Strings(sheet[r]) : r \in rows})
  IN First({r \in rows : /\ 5 * StringCount(sheet[r]) > 3 * NonEmptyCount(sheet[r])
                         /\ 5 * Cardinality(rows) * StringCount(sheet[r]) > 4 * strings})

\* The columns of a row that hold a text above mostly texts.
MatchingColumns(header, below) ==
  {c \in Strings(header) :
     2 * Cardinality({row \in below : c \in Strings(row[2])})
       > Cardinality({row \in below : c \in Filled(row[2])})}

DetectByColumnConsistency(sheet) ==
  LET rows == Candidates(sheet)
      below == {<<r, sheet[r]>> : r \in rows \ {Min(rows)}}
      Matching(r) == Cardinality(MatchingColumns(sheet[r], below))
  IN IF Cardinality(rows) < 2 THEN NoRow
     ELSE FirstBest({[row |-> r, num |-> 10 * Matching(r) - 2 * (r - 1), den |-> 1] :
                       r \in rows \ {Max(rows)}})

DetectByFirstValidRow(sheet) == First(Candidates(sheet))

FallbackDetectHeader(sheet) == First({r \in Scanned(sheet) : NonEmptyCount(sheet[r]) > 0})

\* The first strategy that finds a row decides.
DetectHeaderRow(sheet) ==
  LET results == <<DetectByHeaderDataTransition(sheet), DetectByStringDominance(sheet),
                   DetectByColumnConsistency(sheet), DetectByFirstValidRow(sheet)>>
      found == {n \in DOMAIN results : results[n] # NoRow}
  IN IF found = {} THEN FallbackDetectHeader(sheet) ELSE results[Min(found)]

\* The header ends with its last cell that is not empty; so do the rows below it.
HeaderLength(sheet) ==
  LET header == DetectHeaderRow(sheet) IN
  IF header = NoRow THEN 0 ELSE Max(Filled(sheet[header]))

\* A row is read up to the length of the header.
IsEmptyRow(cells, length) == Filled(SubSeq(cells, 1, length)) = {}

\* A single long text in the first column.
IsTrailingNoteRow(cells, length) ==
  Filled(SubSeq(cells, 1, length)) = {1} /\ cells[1] = "note"

-----------------------------------------------------------------------------
(* What the strategies amount to.                                          *)

\* The rows that are data: below the header, above the first run of too many
\* empty rows, neither empty nor a note.
DataRows(sheet, header) ==
  LET below == {r \in DOMAIN sheet : header.row # NoRow /\ r > header.row}
      empty == {r \in below : IsEmptyRow(sheet[r], header.length)}
      ends == {r \in empty : r - MaxConsecutiveEmpty + 1 .. r \subseteq empty}
  IN {r \in below \ empty : /\ ~ IsTrailingNoteRow(sheet[r], header.length)
                            /\ \A s \in ends : r < s}

\* A header with a row of at least two cells below it is found whenever there are two
\* such rows; with fewer, the header is the only such row, or else the first row that
\* has a cell at all.
HeaderIsReasonable(sheet) ==
  LET header == DetectHeaderRow(sheet)
      rows == Candidates(sheet) IN
  CASE Cardinality(rows) >= 2 -> header \in rows /\ \E r \in rows : r > header
    [] Cardinality(rows) = 1 -> rows = {header}
    [] OTHER -> header = First({r \in Scanned(sheet) : Filled(sheet[r]) # {}})
=============================================================================
