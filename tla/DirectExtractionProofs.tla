------------------------ MODULE DirectExtractionProofs ------------------------
(***************************************************************************)
(* Proofs about XlsxSheets, for any number of files with any sheets, and   *)
(* any bounds on what is scanned for a header and on runs of empty rows;   *)
(* and about PdfText and DirectExtraction, for any pages.                  *)
(***************************************************************************)
EXTENDS DirectExtraction, InOrderProofs, WellFoundedInduction

-----------------------------------------------------------------------------
(* Least and greatest numbers.                                             *)

\* A set of natural numbers has a least element: of the sets 1 .. x one is the smallest.
LEMMA LeastExists ==
  ASSUME NEW S \in SUBSET Nat, S # {}
  PROVE  \E x \in S : \A y \in S : x <= y
<1> DEFINE T == {1 .. x : x \in S}
<1>1. T \subseteq FiniteSubsetsOf(Nat)
  <2>1. \A x \in S : IsFiniteSet(1 .. x) /\ 1 .. x \subseteq Nat
    BY FS_Interval
  <2> QED
    BY <2>1 DEF FiniteSubsetsOf
<1>2. PICK m \in T : \A t \in T : <<t, m>> \notin StrictSubsetOrdering(Nat)
  <2>1. T # {}
    OBVIOUS
  <2> HIDE DEF T
  <2> QED
    BY <1>1, <2>1, FS_StrictSubsetOrderingWellFounded, WFMin
<1>3. PICK x \in S : m = 1 .. x
  OBVIOUS
<1>4. ASSUME NEW y \in S, y < x PROVE FALSE
  <2>1. 1 .. y \in T /\ 1 .. y \subseteq 1 .. x /\ x \in 1 .. x /\ x \notin 1 .. y
    BY <1>4
  <2>2. <<1 .. y, m>> \in StrictSubsetOrdering(Nat)
    BY <1>3, <2>1 DEF StrictSubsetOrdering
  <2> QED
    BY <1>2, <2>1, <2>2
<1> QED
  BY <1>4

\* Min chooses an element of the set.
LEMMA MinIsIn ==
  ASSUME NEW S \in SUBSET Nat, S # {}
  PROVE  Min(S) \in S
BY LeastExists DEF Min

\* Max chooses an element of a bounded set, for what remains to the bound has a least element.
LEMMA MaxIsIn ==
  ASSUME NEW n \in Nat, NEW S \in SUBSET (0 .. n), S # {}
  PROVE  Max(S) \in S
<1> DEFINE T == {n - x : x \in S}
<1>1. PICK t \in T : \A u \in T : t <= u
  <2>1. \A x \in S : n - x \in Nat
    OBVIOUS
  <2>2. T \in SUBSET Nat
    BY <2>1
  <2>3. T # {}
    OBVIOUS
  <2> HIDE DEF T
  <2> QED
    BY <2>2, <2>3, LeastExists
<1>2. PICK x \in S : t = n - x
  OBVIOUS
<1>3. \A y \in S : x >= y
  BY <1>1, <1>2
<1> QED
  BY <1>3 DEF Max

-----------------------------------------------------------------------------
(* Headers.                                                                *)

Sheets == Seq(Seq(Cells))

\* The rows that hold anything.
FilledRows(s) == {r \in DOMAIN s : Filled(s[r]) # {}}

\* First finds one of the rows it is given, or none.
LEMMA FirstIsOne ==
  ASSUME NEW S \in SUBSET Nat
  PROVE  First(S) \in S \union {NoRow}
BY MinIsIn DEF First

\* FirstBest finds one of the rows that were scored, or none.
LEMMA FirstBestIsOne ==
  ASSUME NEW S \in SUBSET Nat, NEW scored, \A s \in scored : s.row \in S
  PROVE  FirstBest(scored) \in S \union {NoRow}
<1> DEFINE best == {s.row : s \in {s \in scored : \A t \in scored : t.num * s.den <= s.num * t.den}}
<1>1. best \in SUBSET S
  OBVIOUS
<1>2. best \in SUBSET Nat /\ FirstBest(scored) = First(best)
  BY <1>1 DEF FirstBest
<1> HIDE DEF best
<1>3. First(best) \in best \union {NoRow}
  BY <1>2, FirstIsOne
<1> QED
  BY <1>1, <1>2, <1>3

\* The header of a sheet is one of its rows and holds something, if there is one.
LEMMA HeaderIsARow ==
  ASSUME NEW s \in Sheets
  PROVE  DetectHeaderRow(s) \in FilledRows(s) \union {NoRow}
<1>1. FilledRows(s) \in SUBSET Nat
  BY DEF FilledRows, Sheets
<1>2. Candidates(s) \subseteq FilledRows(s)
  BY FS_EmptySet DEF Candidates, Scanned, NonEmptyCount, FilledRows
<1>3. DetectByHeaderDataTransition(s) \in FilledRows(s) \union {NoRow}
  <2> DEFINE found == Candidates(s)
             scored == {TransitionScore(s[r], s[NextIn(found, r)], r) : r \in found \ {Max(found)}}
  <2>1. \A t \in scored : t.row \in found
    BY DEF TransitionScore
  <2>2. \A t \in scored : t.row \in FilledRows(s)
    BY <1>2, <2>1
  <2>3. DetectByHeaderDataTransition(s) = NoRow \/ DetectByHeaderDataTransition(s) = FirstBest(scored)
    BY DEF DetectByHeaderDataTransition
  <2> HIDE DEF scored
  <2> QED
    BY <1>1, <2>2, <2>3, FirstBestIsOne
<1>4. DetectByStringDominance(s) \in FilledRows(s) \union {NoRow}
  <2>1. PICK found \in SUBSET Candidates(s) : DetectByStringDominance(s) = First(found)
    BY DEF DetectByStringDominance
  <2>2. found \in SUBSET Nat
    BY <1>1, <1>2
  <2> QED
    BY <1>2, <2>1, <2>2, FirstIsOne
<1>5. DetectByColumnConsistency(s) \in FilledRows(s) \union {NoRow}
  <2> DEFINE found == Candidates(s)
             below == {<<r, s[r]>> : r \in found \ {Min(found)}}
             scored == {[row |-> r, num |-> 10 * Cardinality(MatchingColumns(s[r], below)) - 2 * (r - 1),
                         den |-> 1] : r \in found \ {Max(found)}}
  <2>1. \A t \in scored : t.row \in found
    <3>1. TAKE t \in scored
    <3>2. PICK r \in found \ {Max(found)} :
            t = [row |-> r, num |-> 10 * Cardinality(MatchingColumns(s[r], below)) - 2 * (r - 1), den |-> 1]
      BY <3>1
    <3> HIDE DEF found, below
    <3> QED
      BY <3>2
  <2>2. \A t \in scored : t.row \in FilledRows(s)
    BY <1>2, <2>1
  <2>3. DetectByColumnConsistency(s) = NoRow \/ DetectByColumnConsistency(s) = FirstBest(scored)
    BY DEF DetectByColumnConsistency
  <2> HIDE DEF scored
  <2> QED
    BY <1>1, <2>2, <2>3, FirstBestIsOne
<1>6. DetectByFirstValidRow(s) \in FilledRows(s) \union {NoRow}
  <2>1. Candidates(s) \in SUBSET Nat
    BY <1>1, <1>2
  <2> QED
    BY <1>2, <2>1, FirstIsOne DEF DetectByFirstValidRow
<1>7. FallbackDetectHeader(s) \in FilledRows(s) \union {NoRow}
  <2> DEFINE found == {r \in Scanned(s) : NonEmptyCount(s[r]) > 0}
  <2>1. found \subseteq FilledRows(s)
    BY FS_EmptySet DEF Scanned, NonEmptyCount, FilledRows
  <2>2. found \in SUBSET Nat /\ FallbackDetectHeader(s) = First(found)
    BY <1>1, <2>1 DEF FallbackDetectHeader
  <2> HIDE DEF found
  <2> QED
    BY <2>1, <2>2, FirstIsOne
<1> DEFINE results == <<DetectByHeaderDataTransition(s), DetectByStringDominance(s),
                        DetectByColumnConsistency(s), DetectByFirstValidRow(s)>>
           found == {n \in DOMAIN results : results[n] # NoRow}
<1>8. CASE found = {}
  BY <1>7, <1>8 DEF DetectHeaderRow
<1>9. CASE found # {}
  <2>1. found \in SUBSET Nat /\ found \subseteq 1 .. 4
    OBVIOUS
  <2>2. Min(found) \in found
    BY <1>9, <2>1, MinIsIn
  <2>3. DetectHeaderRow(s) = results[Min(found)]
    BY <1>9 DEF DetectHeaderRow
  <2>4. \A n \in 1 .. 4 : results[n] \in FilledRows(s) \union {NoRow}
    BY <1>3, <1>4, <1>5, <1>6
  <2> QED
    BY <2>1, <2>2, <2>3, <2>4
<1> QED
  BY <1>8, <1>9

\* The header of a sheet is a row of it and a length, or there is none.
LEMMA HeaderOfType ==
  ASSUME NEW s \in Sheets
  PROVE  /\ HeaderOf(s) \in [row : Nat, length : Nat]
         /\ HeaderOf(s).row # NoRow => HeaderOf(s).row \in DOMAIN s
<1> DEFINE r == DetectHeaderRow(s)
<1>1. r \in FilledRows(s) \union {NoRow}
  BY HeaderIsARow
<1>2. FilledRows(s) \subseteq Nat /\ FilledRows(s) \subseteq DOMAIN s
  BY DEF FilledRows, Sheets
<1>3. HeaderLength(s) \in Nat
  <2>1. CASE r = NoRow
    BY <2>1 DEF HeaderLength
  <2>2. CASE r # NoRow
    <3>1. r \in DOMAIN s /\ Filled(s[r]) # {}
      BY <1>1, <2>2 DEF FilledRows
    <3>2. s[r] \in Seq(Cells)
      BY <3>1 DEF Sheets
    <3>3. Len(s[r]) \in Nat /\ Filled(s[r]) \in SUBSET (0 .. Len(s[r]))
      BY <3>2 DEF Filled
    <3>4. Max(Filled(s[r])) \in 0 .. Len(s[r])
      BY <3>1, <3>3, MaxIsIn
    <3>5. HeaderLength(s) = Max(Filled(s[r]))
      BY <2>2 DEF HeaderLength
    <3> QED
      BY <3>3, <3>4, <3>5
  <2> QED
    BY <2>1, <2>2
<1> QED
  BY <1>1, <1>2, <1>3 DEF HeaderOf, NoRow

-----------------------------------------------------------------------------
(* The header that the strategies agree on.                                *)

\* One fraction above a second, and that above a third: the first is above the third.
LEMMA FractionsAreOrdered ==
  ASSUME NEW a \in Int, NEW b \in Int, NEW c \in Int,
         NEW p \in Nat \ {0}, NEW q \in Nat \ {0}, NEW r \in Nat \ {0},
         c * q > b * r, b * p > a * q
  PROVE  c * p > a * r
<1>1. (c * q) * p > (b * r) * p
  <2>1. \A x, y \in Int : x > y => x * p > y * p
    BY Z3
  <2>2. c * q \in Int /\ b * r \in Int
    OBVIOUS
  <2> QED
    BY <2>1, <2>2
<1>2. (b * p) * r > (a * q) * r
  <2>1. \A x, y \in Int : x > y => x * r > y * r
    BY Z3
  <2>2. b * p \in Int /\ a * q \in Int
    OBVIOUS
  <2> QED
    BY <2>1, <2>2
<1>3. /\ (c * q) * p = (c * p) * q
      /\ (b * r) * p = (b * p) * r
      /\ (a * q) * r = (a * r) * q
  BY Z3
<1>4. (c * p) * q > (a * r) * q
  <2>1. (c * p) * q \in Int /\ (a * r) * q \in Int /\ (b * p) * r \in Int
    OBVIOUS
  <2> QED
    BY <1>1, <1>2, <1>3, <2>1
<1>5. \A x, y \in Int : x * q > y * q => x > y
  BY Z3
<1>6. c * p \in Int /\ a * r \in Int
  OBVIOUS
<1> QED
  BY <1>4, <1>5, <1>6

\* Of finitely many fractions one is not exceeded by any other: take one that as few as
\* possible exceed.
LEMMA BestExists ==
  ASSUME NEW scored, IsFiniteSet(scored), scored # {},
         \A s \in scored : s.num \in Int /\ s.den \in Nat \ {0}
  PROVE  \E s \in scored : \A t \in scored : t.num * s.den <= s.num * t.den
<1> DEFINE Above(s) == {t \in scored : t.num * s.den > s.num * t.den}
           T == {Above(s) : s \in scored}
<1>1. T \subseteq FiniteSubsetsOf(scored)
  <2>1. \A s \in scored : Above(s) \subseteq scored
    OBVIOUS
  <2>2. \A s \in scored : IsFiniteSet(Above(s))
    BY <2>1, FS_Subset
  <2> QED
    BY <2>1, <2>2 DEF FiniteSubsetsOf
<1>2. PICK m \in T : \A t \in T : <<t, m>> \notin StrictSubsetOrdering(scored)
  <2>1. T # {}
    OBVIOUS
  <2> HIDE DEF T
  <2> QED
    BY <1>1, <2>1, FS_StrictSubsetOrderingWellFounded, WFMin
<1>3. PICK s \in scored : m = Above(s)
  OBVIOUS
<1>4. ASSUME NEW t \in Above(s) PROVE FALSE
  <2>1. t \in scored
    OBVIOUS
  <2>2. \A u \in Above(t) : u \in Above(s)
    <3>1. TAKE u \in Above(t)
    <3>2. u \in scored /\ u.num * t.den > t.num * u.den /\ t.num * s.den > s.num * t.den
      OBVIOUS
    <3>3. /\ u.num \in Int /\ t.num \in Int /\ s.num \in Int
          /\ u.den \in Nat \ {0} /\ t.den \in Nat \ {0} /\ s.den \in Nat \ {0}
      BY <2>1, <3>2
    <3>4. u.num * s.den > s.num * u.den
      BY <3>2, <3>3, FractionsAreOrdered
    <3> QED
      BY <3>2, <3>4
  <2>3. t \notin Above(t)
    <3>1. t.num * t.den \in Int
      BY <2>1
    <3> QED
      BY <3>1
  <2>4. Above(t) \in T /\ Above(t) \subseteq Above(s) /\ Above(s) \subseteq scored
    BY <2>1, <2>2
  <2>5. Above(t) # Above(s)
    BY <1>4, <2>3
  <2> HIDE DEF Above
  <2>6. <<Above(t), m>> \in StrictSubsetOrdering(scored)
    BY <1>3, <2>4, <2>5 DEF StrictSubsetOrdering
  <2> QED
    BY <1>2, <2>4, <2>6
<1>5. \A t \in scored : t.num * s.den <= s.num * t.den
  <2>1. TAKE t \in scored
  <2>2. t.num * s.den \in Int /\ s.num * t.den \in Int
    OBVIOUS
  <2>3. ~ (t.num * s.den > s.num * t.den)
    BY <1>4
  <2> QED
    BY <2>2, <2>3
<1> QED
  BY <1>5

\* Some row is the first of the best, when any were scored.
LEMMA FirstBestExists ==
  ASSUME NEW S \in SUBSET (Nat \ {0}), NEW scored, IsFiniteSet(scored), scored # {},
         \A s \in scored : s.row \in S /\ s.num \in Int /\ s.den \in Nat \ {0}
  PROVE  FirstBest(scored) \in S
<1> DEFINE best == {s.row : s \in {s \in scored : \A t \in scored : t.num * s.den <= s.num * t.den}}
<1>1. best \in SUBSET Nat
  OBVIOUS
<1>2. best # {}
  <2>1. PICK s \in scored : \A t \in scored : t.num * s.den <= s.num * t.den
    BY BestExists
  <2>2. s.row \in best
    BY <2>1
  <2> QED
    BY <2>2
<1>3. best \subseteq S
  OBVIOUS
<1>4. FirstBest(scored) = First(best)
  BY DEF FirstBest
<1> HIDE DEF best
<1>5. First(best) = Min(best)
  BY <1>2 DEF First
<1>6. Min(best) \in best
  BY <1>1, <1>2, MinIsIn
<1> QED
  BY <1>3, <1>4, <1>5, <1>6

\* No member of a bounded set is above its maximum.
LEMMA MaxIsGreatest ==
  ASSUME NEW n \in Nat, NEW S \in SUBSET (0 .. n), NEW x \in S
  PROVE  x <= Max(S)
<1> DEFINE T == {n - y : y \in S}
<1>1. PICK t \in T : \A u \in T : t <= u
  <2>1. \A y \in S : n - y \in Nat
    OBVIOUS
  <2>2. T \in SUBSET Nat /\ T # {}
    BY <2>1
  <2> HIDE DEF T
  <2> QED
    BY <2>2, LeastExists
<1>2. PICK m \in S : t = n - m
  OBVIOUS
<1>3. \A y \in S : m >= y
  <2>1. TAKE y \in S
  <2>2. t <= n - y
    BY <1>1
  <2>3. y \in 0 .. n /\ m \in 0 .. n
    OBVIOUS
  <2> HIDE DEF T
  <2> QED
    BY <1>2, <2>2, <2>3
<1>4. \A y \in S : Max(S) >= y
  BY <1>3 DEF Max
<1> QED
  BY <1>4, MaxIsIn

\* The candidates of a sheet are finitely many of its rows, with two cells or more.
LEMMA CandidatesAre ==
  ASSUME NEW s \in Sheets
  PROVE  /\ Candidates(s) \subseteq 1 .. Len(s)
         /\ IsFiniteSet(Candidates(s))
         /\ \A r \in Candidates(s) : NonEmptyCount(s[r]) \in Nat \ {0}
<1>1. Len(s) \in Nat /\ Candidates(s) \subseteq 1 .. Len(s)
  BY DEF Candidates, Scanned, Sheets
<1>2. IsFiniteSet(Candidates(s))
  <2>1. IsFiniteSet(1 .. Len(s))
    BY <1>1, FS_Interval
  <2> QED
    BY <1>1, <2>1, FS_Subset
<1>3. ASSUME NEW r \in Candidates(s) PROVE NonEmptyCount(s[r]) \in Nat \ {0}
  <2>1. s[r] \in Seq(Cells)
    BY <1>1 DEF Sheets
  <2>2. IsFiniteSet(1 .. Len(s[r]))
    BY <2>1, FS_Interval
  <2>3. IsFiniteSet(Filled(s[r]))
    BY <2>1, <2>2, FS_Subset DEF Filled
  <2>4. Cardinality(Filled(s[r])) \in Nat
    BY <2>3, FS_CardinalityType
  <2> QED
    BY <2>4 DEF Candidates, NonEmptyCount
<1> QED
  BY <1>1, <1>2, <1>3

\* What is counted in a row is a number.
LEMMA CountsType ==
  ASSUME NEW cells \in Seq(Cells)
  PROVE  /\ NonEmptyCount(cells) \in Nat
         /\ StringCount(cells) \in Nat
         /\ NumericCount(cells) \in Nat
         /\ NonEmptyCount(cells) > 0 <=> Filled(cells) # {}
<1>1. IsFiniteSet(1 .. Len(cells))
  BY FS_Interval
<1>2. \A S : S \subseteq 1 .. Len(cells) => IsFiniteSet(S)
  BY <1>1, FS_Subset
<1>3. \A S : S \subseteq 1 .. Len(cells) => Cardinality(S) \in Nat
  BY <1>2, FS_CardinalityType
<1> DEFINE numbers == {c \in DOMAIN cells : cells[c] = "number"}
<1>4. /\ Filled(cells) \subseteq 1 .. Len(cells)
      /\ Strings(cells) \subseteq 1 .. Len(cells)
      /\ numbers \subseteq 1 .. Len(cells)
  BY DEF Filled, Strings
<1>5. NumericCount(cells) = Cardinality(numbers)
  BY DEF NumericCount
<1>6. IsFiniteSet(Filled(cells))
  BY <1>2, <1>4
<1>7. Cardinality(Filled(cells)) = 0 <=> Filled(cells) = {}
  BY <1>6, FS_EmptySet
<1> HIDE DEF numbers
<1>8. /\ Cardinality(Filled(cells)) \in Nat
      /\ Cardinality(Strings(cells)) \in Nat
      /\ Cardinality(numbers) \in Nat
  BY <1>3, <1>4
<1>9. NonEmptyCount(cells) = Cardinality(Filled(cells)) /\ StringCount(cells) = Cardinality(Strings(cells))
  BY DEF NonEmptyCount, StringCount
<1> QED
  BY <1>5, <1>7, <1>8, <1>9

\* With two candidates, the transition from header to data decides on one of them but the
\* last.
LEMMA TransitionFindsOne ==
  ASSUME NEW s \in Sheets, Cardinality(Candidates(s)) >= 2
  PROVE  DetectByHeaderDataTransition(s) \in Candidates(s) \ {Max(Candidates(s))}
<1> DEFINE found == Candidates(s)
           tried == found \ {Max(found)}
           scored == {TransitionScore(s[r], s[NextIn(found, r)], r) : r \in tried}
<1>1. found \subseteq 1 .. Len(s) /\ IsFiniteSet(found) /\ Len(s) \in Nat
  BY CandidatesAre DEF Sheets
<1>2. tried # {}
  <2>1. ASSUME tried = {} PROVE FALSE
    <3>1. found \subseteq {Max(found)}
      BY <2>1
    <3>2. IsFiniteSet({Max(found)}) /\ Cardinality({Max(found)}) = 1
      BY FS_Singleton
    <3>3. Cardinality(found) <= Cardinality({Max(found)})
      BY <3>1, <3>2, FS_Subset
    <3> HIDE DEF found
    <3>4. Cardinality(found) \in Nat
      BY <1>1, FS_CardinalityType
    <3>5. Cardinality(found) >= 2
      BY DEF found
    <3> QED
      BY <3>2, <3>3, <3>4, <3>5
  <2> QED
    BY <2>1
<1>3. IsFiniteSet(tried)
  BY <1>1, FS_Subset
<1>4. IsFiniteSet(scored)
  <2> DEFINE scores == [r \in tried |-> TransitionScore(s[r], s[NextIn(found, r)], r)]
  <2>1. scores \in Surjection(tried, scored)
    BY DEF Surjection
  <2> HIDE DEF tried, scores, scored
  <2> QED
    BY <1>3, <2>1, FS_Surjection
<1>5. scored # {}
  BY <1>2
<1>6. ASSUME NEW r \in tried
      PROVE  LET t == TransitionScore(s[r], s[NextIn(found, r)], r) IN
             t.row \in tried /\ t.num \in Int /\ t.den \in Nat \ {0}
  <2> DEFINE next == NextIn(found, r)
  <2>1. r \in 1 .. Len(s) /\ r < Max(found)
    <3>1. found \in SUBSET (0 .. Len(s))
      BY <1>1
    <3>2. r <= Max(found) /\ Max(found) \in found
      BY <1>1, <3>1, MaxIsGreatest, MaxIsIn
    <3> QED
      BY <1>1, <3>2
  <2>2. next \in found
    <3> DEFINE above == {u \in found : u > r}
    <3>1. above \in SUBSET Nat
      BY <1>1
    <3>2. Max(found) \in above
      <4>1. found \in SUBSET (0 .. Len(s)) /\ found # {}
        BY <1>1
      <4>2. Max(found) \in found
        BY <1>1, <4>1, MaxIsIn
      <4> QED
        BY <2>1, <4>2
    <3>3. Min(above) \in above
      BY <3>1, <3>2, MinIsIn
    <3> QED
      BY <3>3 DEF NextIn
  <2>3. s[r] \in Seq(Cells) /\ s[next] \in Seq(Cells)
    BY <1>1, <2>1, <2>2 DEF Sheets
  <2>4. NonEmptyCount(s[r]) \in Nat \ {0}
    BY CandidatesAre
  <2>5. /\ StringCount(s[r]) \in Nat /\ NumericCount(s[r]) \in Nat
        /\ NumericCount(s[next]) \in Nat /\ NonEmptyCount(s[next]) \in Nat
    BY <2>3, CountsType
  <2> HIDE DEF found, tried, next
  <2> DEFINE filled == NonEmptyCount(s[r])
             points == (IF NumericCount(s[next]) > NumericCount(s[r]) THEN 25 ELSE 0)
                       + (IF 10 * NumericCount(s[next]) > 3 * NonEmptyCount(s[next]) THEN 15 ELSE 0)
                       + 5 * filled - 2 * (r - 1)
             t == TransitionScore(s[r], s[next], r)
  <2>6. t = [row |-> r, num |-> 40 * StringCount(s[r]) + points * filled, den |-> filled]
    BY DEF TransitionScore
  <2>7. points \in Int
    BY <2>1, <2>4, <2>5
  <2>8. filled \in Nat \ {0}
    BY <2>4
  <2> HIDE DEF points, filled, t
  <2>9. 40 * StringCount(s[r]) + points * filled \in Int
    BY <2>5, <2>7, <2>8
  <2>10. t.row = r /\ t.num \in Int /\ t.den = filled
    BY <2>6, <2>9
  <2> QED
    BY <2>8, <2>10 DEF t, next
<1>7. DetectByHeaderDataTransition(s) = FirstBest(scored)
  <2>1. ~ (Cardinality(found) < 2)
    <3>1. Cardinality(found) \in Nat
      BY <1>1, FS_CardinalityType
    <3> QED
      BY <3>1
  <2> QED
    BY <2>1 DEF DetectByHeaderDataTransition
<1>8. \A t \in scored : t.row \in tried /\ t.num \in Int /\ t.den \in Nat \ {0}
  BY <1>6
<1>9. tried \in SUBSET (Nat \ {0})
  BY <1>1
<1> HIDE DEF scored, tried
<1>10. FirstBest(scored) \in tried
  BY <1>4, <1>5, <1>8, <1>9, FirstBestExists
<1> QED
  BY <1>7, <1>10 DEF tried

\* Two candidates or more: the header is one of them, and another is below it.
LEMMA HeaderAboveData ==
  ASSUME NEW s \in Sheets, Cardinality(Candidates(s)) >= 2
  PROVE  DetectHeaderRow(s) \in Candidates(s) /\ \E r \in Candidates(s) : r > DetectHeaderRow(s)
<1> DEFINE top == DetectByHeaderDataTransition(s)
           last == Max(Candidates(s))
           results == <<DetectByHeaderDataTransition(s), DetectByStringDominance(s),
                        DetectByColumnConsistency(s), DetectByFirstValidRow(s)>>
           found == {n \in DOMAIN results : results[n] # NoRow}
<1>1. top \in Candidates(s) /\ top # last
  BY TransitionFindsOne
<1>2. Len(s) \in Nat /\ Candidates(s) \subseteq 1 .. Len(s)
  BY CandidatesAre DEF Sheets
<1>3. last \in Candidates(s) /\ top <= last
  <2>1. Candidates(s) \in SUBSET (0 .. Len(s)) /\ Candidates(s) # {}
    BY <1>1, <1>2
  <2> QED
    BY <1>1, <1>2, <2>1, MaxIsIn, MaxIsGreatest
<1>4. last > top
  BY <1>1, <1>2, <1>3
<1>5. found \subseteq 1 .. 4 /\ 1 \in found
  <2>1. top # NoRow
    BY <1>1, <1>2 DEF NoRow
  <2> QED
    BY <2>1
<1>6. DetectHeaderRow(s) = results[Min(found)]
  <2>1. DetectHeaderRow(s) = IF found = {} THEN FallbackDetectHeader(s) ELSE results[Min(found)]
    BY DEF DetectHeaderRow
  <2> HIDE DEF found
  <2> QED
    BY <1>5, <2>1
<1>7. Min(found) = 1
  <2> HIDE DEF found
  <2>1. \E x \in found : \A y \in found : x <= y
    BY <1>5
  <2>2. Min(found) \in found /\ \A y \in found : Min(found) <= y
    BY <2>1 DEF Min
  <2>3. Min(found) <= 1 /\ Min(found) \in 1 .. 4
    BY <1>5, <2>2
  <2> QED
    BY <2>3
<1>8. DetectHeaderRow(s) = top
  BY <1>6, <1>7
<1> QED
  BY <1>1, <1>3, <1>4, <1>8

\* One candidate: it is the header.
LEMMA HeaderAlone ==
  ASSUME NEW s \in Sheets, Cardinality(Candidates(s)) = 1
  PROVE  Candidates(s) = {DetectHeaderRow(s)}
<1> DEFINE results == <<DetectByHeaderDataTransition(s), DetectByStringDominance(s),
                        DetectByColumnConsistency(s), DetectByFirstValidRow(s)>>
           found == {n \in DOMAIN results : results[n] # NoRow}
<1>1. PICK r : Candidates(s) = {r}
  <2>1. IsFiniteSet(Candidates(s))
    BY CandidatesAre
  <2> QED
    BY <2>1, FS_Singleton
<1>2. r \in Nat \ {0}
  BY <1>1, CandidatesAre DEF Sheets
<1>3. DetectByHeaderDataTransition(s) = NoRow
  BY DEF DetectByHeaderDataTransition
<1>4. DetectByColumnConsistency(s) = NoRow
  BY DEF DetectByColumnConsistency
<1>5. DetectByStringDominance(s) \in {r, NoRow}
  <2>1. PICK S \in SUBSET Candidates(s) : DetectByStringDominance(s) = First(S)
    BY DEF DetectByStringDominance
  <2>2. S \in SUBSET Nat /\ S \subseteq {r}
    BY <1>1, <1>2, <2>1
  <2> QED
    BY <2>1, <2>2, FirstIsOne
<1>6. DetectByFirstValidRow(s) = r
  <2>1. Candidates(s) \in SUBSET Nat /\ Candidates(s) # {}
    BY <1>1, <1>2
  <2>2. Min(Candidates(s)) \in Candidates(s)
    BY <2>1, MinIsIn
  <2>3. DetectByFirstValidRow(s) = Min(Candidates(s))
    BY <2>1 DEF DetectByFirstValidRow, First
  <2> QED
    BY <1>1, <2>2, <2>3
<1>7. \A n \in 1 .. 4 : results[n] \in {r, NoRow}
  BY <1>3, <1>4, <1>5, <1>6
<1>8. found \in SUBSET Nat /\ found \subseteq 1 .. 4 /\ 4 \in found
  BY <1>2, <1>6 DEF NoRow
<1>9. DetectHeaderRow(s) = results[Min(found)]
  <2>1. DetectHeaderRow(s) = IF found = {} THEN FallbackDetectHeader(s) ELSE results[Min(found)]
    BY DEF DetectHeaderRow
  <2> HIDE DEF found
  <2> QED
    BY <1>8, <2>1
<1>10. Min(found) \in found
  <2> HIDE DEF found
  <2> QED
    BY <1>8, MinIsIn
<1>11. results[Min(found)] = r
  BY <1>7, <1>8, <1>10
<1> QED
  BY <1>1, <1>9, <1>11

\* No candidate: the header is the first row that holds anything.
LEMMA HeaderWithoutCandidate ==
  ASSUME NEW s \in Sheets, Candidates(s) = {}
  PROVE  DetectHeaderRow(s) = First({r \in Scanned(s) : Filled(s[r]) # {}})
<1> DEFINE results == <<DetectByHeaderDataTransition(s), DetectByStringDominance(s),
                        DetectByColumnConsistency(s), DetectByFirstValidRow(s)>>
           found == {n \in DOMAIN results : results[n] # NoRow}
<1>1. Cardinality(Candidates(s)) = 0
  BY FS_EmptySet
<1>2. DetectByHeaderDataTransition(s) = NoRow /\ DetectByColumnConsistency(s) = NoRow
  BY <1>1 DEF DetectByHeaderDataTransition, DetectByColumnConsistency
<1>3. First({}) = NoRow
  BY DEF First
<1>4. DetectByStringDominance(s) = NoRow
  <2>1. PICK S \in SUBSET Candidates(s) : DetectByStringDominance(s) = First(S)
    BY DEF DetectByStringDominance
  <2>2. S = {}
    OBVIOUS
  <2> QED
    BY <1>3, <2>1, <2>2
<1>5. DetectByFirstValidRow(s) = NoRow
  BY <1>3 DEF DetectByFirstValidRow
<1>6. \A n \in 1 .. 4 : results[n] = NoRow
  BY <1>2, <1>4, <1>5
<1>7. found = {}
  <2>1. DOMAIN results = 1 .. 4
    OBVIOUS
  <2> HIDE DEF results
  <2> QED
    BY <1>6, <2>1
<1>8. DetectHeaderRow(s) = FallbackDetectHeader(s)
  <2>1. DetectHeaderRow(s) = IF found = {} THEN FallbackDetectHeader(s) ELSE results[Min(found)]
    BY DEF DetectHeaderRow
  <2> HIDE DEF found
  <2> QED
    BY <1>7, <2>1
<1>9. \A r \in Scanned(s) : NonEmptyCount(s[r]) > 0 <=> Filled(s[r]) # {}
  BY CountsType DEF Scanned, Sheets
<1>10. {r \in Scanned(s) : NonEmptyCount(s[r]) > 0} = {r \in Scanned(s) : Filled(s[r]) # {}}
  BY <1>9
<1> QED
  BY <1>8, <1>10 DEF FallbackDetectHeader

\* What the strategies amount to, for a sheet of any size.
LEMMA StrategiesAreReasonable ==
  ASSUME NEW s \in Sheets
  PROVE  HeaderIsReasonable(s)
<1>1. IsFiniteSet(Candidates(s))
  BY CandidatesAre
<1>2. Cardinality(Candidates(s)) \in Nat /\ (Cardinality(Candidates(s)) = 0 => Candidates(s) = {})
  <2>1. Cardinality(Candidates(s)) \in Nat
    BY <1>1, FS_CardinalityType
  <2>2. Cardinality(Candidates(s)) = 0 => Candidates(s) = {}
    BY <1>1, FS_EmptySet
  <2> QED
    BY <2>1, <2>2
<1>3. CASE Cardinality(Candidates(s)) >= 2
  BY <1>2, <1>3, HeaderAboveData DEF HeaderIsReasonable
<1>4. CASE Cardinality(Candidates(s)) = 1
  BY <1>4, HeaderAlone DEF HeaderIsReasonable
<1>5. CASE Cardinality(Candidates(s)) = 0
  BY <1>2, <1>5, HeaderWithoutCandidate DEF HeaderIsReasonable
<1> QED
  BY <1>2, <1>3, <1>4, <1>5

-----------------------------------------------------------------------------
(* Types.                                                                  *)

\* What was found of the sheets when the files were uploaded stays true of them.
HeadersKept ==
  header = [f \in File |-> [n \in DOMAIN workbook[f] |-> HeaderOf(workbook[f][n])]]

Typed == TypeOK /\ HeadersKept

\* What the types say of a file's sheets.
LEMMA SheetFacts ==
  ASSUME Typed, NEW f \in File
  PROVE  /\ workbook[f] \in Seq(Sheets)
         /\ DOMAIN header[f] = DOMAIN workbook[f]
         /\ \A n \in DOMAIN workbook[f] :
              /\ n \in Nat \ {0} /\ workbook[f][n] \in Sheets
              /\ header[f][n] \in [row : Nat, length : Nat]
              /\ n \in SheetsWithHeader(f) => header[f][n].row \in DOMAIN workbook[f][n]
<1>1. workbook[f] \in Seq(Sheets)
  BY FileAssumption DEF Typed, TypeOK, Sheets
<1>2. \A n \in DOMAIN workbook[f] : n \in Nat \ {0} /\ workbook[f][n] \in Sheets
  BY <1>1
<1>3. \A n \in DOMAIN workbook[f] : header[f][n] = HeaderOf(workbook[f][n])
  BY DEF Typed, HeadersKept
<1> QED
  BY <1>1, <1>2, <1>3, HeaderOfType DEF Typed, TypeOK, SheetsWithHeader

\* The data rows of a file are rows of it.
LEMMA DataOfType ==
  ASSUME Typed, NEW f \in File
  PROVE  /\ DataOf(f) \subseteq RowId
         /\ \A id : id \in DataOf(f) <=>
              /\ id = <<id[1], id[2]>> /\ id[1] \in DOMAIN workbook[f]
              /\ id[2] \in DataRows(workbook[f][id[1]], header[f][id[1]])
<1>1. \A n \in DOMAIN workbook[f] :
        n \in Nat /\ DataRows(workbook[f][n], header[f][n]) \subseteq Nat
  BY SheetFacts DEF DataRows, Sheets
<1> QED
  BY <1>1 DEF DataOf, RowId

\* The header count is a number, whatever sheets a file has.
LEMMA LastHeaderCountType ==
  ASSUME Typed, NEW f \in File
  PROVE  /\ LastHeaderCount(f) \in Nat
         /\ LastHeaderCount(f) = headerCount
              \/ \E n \in SheetsWithHeader(f) : LastHeaderCount(f) = header[f][n].length
<1>1. CASE SheetsWithHeader(f) = {}
  BY <1>1 DEF LastHeaderCount, Typed, TypeOK
<1>2. CASE SheetsWithHeader(f) # {}
  <2>1. Len(workbook[f]) \in Nat /\ SheetsWithHeader(f) \in SUBSET (0 .. Len(workbook[f]))
    BY SheetFacts DEF SheetsWithHeader
  <2>2. Max(SheetsWithHeader(f)) \in SheetsWithHeader(f)
    BY <1>2, <2>1, MaxIsIn
  <2> QED
    BY <1>2, <2>2, SheetFacts DEF LastHeaderCount, SheetsWithHeader
<1> QED
  BY <1>1, <1>2

\* Nothing has been read at first.
LEMMA InitTyped == Init => Typed
<1> SUFFICES ASSUME Init PROVE Typed
  OBVIOUS
<1>1. \A f \in File : workbook[f] \in Seq(Sheets)
  BY FileAssumption DEF Init, Sheets
<1>2. \A f \in File : \A n \in DOMAIN workbook[f] :
        HeaderOf(workbook[f][n]) \in [row : Nat, length : Nat]
  BY <1>1, HeaderOfType
<1>3. \A f \in File : /\ DOMAIN header[f] = DOMAIN workbook[f]
                      /\ \A n \in DOMAIN header[f] : header[f][n] \in [row : Nat, length : Nat]
  BY <1>2 DEF Init
<1>4. HeadersKept
  BY DEF Init, HeadersKept
<1>5. /\ workbook \in Upload
      /\ loop \in File \union {NoFile}
      /\ headerCount \in Nat
      /\ pc \in [File -> Pcs]
      /\ sheet \in [File -> Nat] /\ row \in [File -> Nat]
      /\ width \in [File -> Nat]
      /\ empties \in [File -> 0 .. MaxConsecutiveEmpty]
      /\ batch \in [File -> SUBSET RowId] /\ carried \in [File -> SUBSET RowId]
      /\ stored \in [File -> SUBSET RowId] /\ failed \in [File -> SUBSET RowId]
      /\ rejected \in [File -> SUBSET RowId]
  BY SheetAssumption DEF Init, Pcs
<1>6. TypeOK
  BY <1>3, <1>5 DEF TypeOK
<1> QED
  BY <1>4, <1>6 DEF Typed

\* Every step keeps the types.
LEMMA StepTyped ==
  ASSUME Typed, NEW f \in File, Step(f)
  PROVE  Typed'
<1>1. content' = content
  BY DEF Step, ExtractDirectly, SamplePass, Inferred, StartSheet, SkipSheet, SheetsOver, EmptyRow,
         NoteRow, RejectRow, AcceptRow, FlushBatch, Enqueued, EnqueueThrows, RowsOver, Flush,
         Drained, FlushThrows
<1>2. HeadersKept'
  BY <1>1 DEF Typed, HeadersKept, content
<1> DEFINE FixedTypes == /\ workbook \in Upload
                         /\ \A g \in File :
                              /\ DOMAIN header[g] = DOMAIN workbook[g]
                              /\ \A n \in DOMAIN header[g] : header[g][n] \in [row : Nat, length : Nat]
<1>3. FixedTypes'
  BY <1>1 DEF Typed, TypeOK, content
<1>4. DataOf(f) \in SUBSET RowId /\ LastHeaderCount(f) \in Nat
  BY DataOfType, LastHeaderCountType
<1>5. This(f) \in RowId
  BY DEF This, RowId, Typed, TypeOK
<1>6. sheet[f] \in SheetsWithHeader(f) => header[f][sheet[f]] \in [row : Nat, length : Nat]
  BY SheetFacts DEF SheetsWithHeader
<1>7. ASSUME /\ loop' \in File \union {NoFile}
             /\ headerCount' \in Nat
             /\ pc' \in [File -> Pcs]
             /\ sheet' \in [File -> Nat] /\ row' \in [File -> Nat]
             /\ width' \in [File -> Nat]
             /\ empties' \in [File -> 0 .. MaxConsecutiveEmpty]
             /\ batch' \in [File -> SUBSET RowId] /\ carried' \in [File -> SUBSET RowId]
             /\ stored' \in [File -> SUBSET RowId] /\ failed' \in [File -> SUBSET RowId]
             /\ rejected' \in [File -> SUBSET RowId]
      PROVE  TypeOK'
  BY <1>3, <1>7 DEF TypeOK
<1> HIDE DEF FixedTypes
<1> USE <1>7 DEF Typed, content, place, rows, Goto, Resumes, Runs, Pcs
<1>8. CASE ExtractDirectly(f)
  BY <1>2, <1>4, <1>8 DEF ExtractDirectly, TypeOK
<1>9. CASE SamplePass(f)
  BY <1>2, <1>4, <1>9 DEF SamplePass, TypeOK
<1>10. CASE Inferred(f)
  BY <1>2, <1>10 DEF Inferred, TypeOK
<1>11. CASE StartSheet(f)
  BY <1>2, <1>6, <1>11, SheetAssumption DEF StartSheet, TypeOK
<1>12. CASE SkipSheet(f)
  BY <1>2, <1>12 DEF SkipSheet, TypeOK
<1>13. CASE SheetsOver(f)
  BY <1>2, <1>13 DEF SheetsOver, TypeOK
<1>14. CASE EmptyRow(f)
  BY <1>2, <1>14, SheetAssumption DEF EmptyRow, AtRow, TypeOK
<1>15. CASE NoteRow(f)
  BY <1>2, <1>15, SheetAssumption DEF NoteRow, Advance, TypeOK
<1>16. CASE RejectRow(f)
  BY <1>2, <1>5, <1>16, SheetAssumption DEF RejectRow, Advance, TypeOK
<1>17. CASE AcceptRow(f)
  BY <1>2, <1>5, <1>17, SheetAssumption DEF AcceptRow, Advance, TypeOK
<1>18. CASE FlushBatch(f)
  BY <1>2, <1>18 DEF FlushBatch, TypeOK
<1>19. CASE Enqueued(f)
  BY <1>2, <1>5, <1>19, SheetAssumption DEF Enqueued, Advance, TypeOK
<1>20. CASE EnqueueThrows(f)
  BY <1>2, <1>5, <1>20, SheetAssumption DEF EnqueueThrows, Advance, TypeOK
<1>21. CASE RowsOver(f)
  BY <1>2, <1>21 DEF RowsOver, TypeOK
<1>22. CASE Flush(f)
  BY <1>2, <1>22 DEF Flush, TypeOK
<1>23. CASE Drained(f)
  BY <1>2, <1>23 DEF Drained, TypeOK
<1>24. CASE FlushThrows(f)
  BY <1>2, <1>24 DEF FlushThrows, TypeOK
<1> QED
  BY <1>8, <1>9, <1>10, <1>11, <1>12, <1>13, <1>14, <1>15, <1>16, <1>17, <1>18, <1>19, <1>20,
     <1>21, <1>22, <1>23, <1>24 DEF Step

-----------------------------------------------------------------------------
(* A row rejected for its column count.                                    *)

\* A step of a file leaves the others alone, but for the header count and the event loop,
\* and the file has started.
LEMMA StepFrame ==
  ASSUME Typed, NEW f \in File, Step(f)
  PROVE  /\ content' = content
         /\ Started(f)'
         /\ \A g \in File \ {f} :
              /\ pc'[g] = pc[g] /\ sheet'[g] = sheet[g] /\ row'[g] = row[g]
              /\ width'[g] = width[g] /\ empties'[g] = empties[g]
              /\ batch'[g] = batch[g] /\ carried'[g] = carried[g] /\ stored'[g] = stored[g]
              /\ failed'[g] = failed[g] /\ rejected'[g] = rejected[g]
<1> USE DEF Typed, TypeOK, content, place, rows, Goto, Started
<1>1. CASE ExtractDirectly(f) \/ SamplePass(f) \/ Inferred(f)
  BY <1>1 DEF ExtractDirectly, SamplePass, Inferred
<1>2. CASE StartSheet(f) \/ SkipSheet(f) \/ SheetsOver(f)
  BY <1>2 DEF StartSheet, SkipSheet, SheetsOver, Runs
<1>3. CASE EmptyRow(f) \/ NoteRow(f) \/ RejectRow(f)
  BY <1>3 DEF EmptyRow, NoteRow, RejectRow, AtDataRow, AtRow, Runs, Advance
<1>4. CASE AcceptRow(f) \/ FlushBatch(f)
  BY <1>4 DEF AcceptRow, FlushBatch, AtDataRow, AtRow, Runs, Advance
<1>5. CASE Enqueued(f) \/ EnqueueThrows(f) \/ RowsOver(f)
  BY <1>5 DEF Enqueued, EnqueueThrows, RowsOver, Advance
<1>6. CASE Flush(f) \/ Drained(f) \/ FlushThrows(f)
  BY <1>6 DEF Flush, Drained, FlushThrows
<1> QED
  BY <1>1, <1>2, <1>3, <1>4, <1>5, <1>6 DEF Step

\* Another file with a sheet of a width other than w has started.
Differs(f, w) ==
  \E g \in File \ {f} : Started(g) /\ \E n \in SheetsWithHeader(g) : header[g][n].length # w

\* While a sheet is read, the header count is its own, or that of another file.
CountIsExplained(f) ==
  pc[f] \in {"rows", "enqueue"} =>
    /\ sheet[f] \in SheetsWithHeader(f)
    /\ width[f] = header[f][sheet[f]].length
    /\ headerCount = width[f] \/ Differs(f, width[f])

CountInv == /\ RejectedForAnotherFile
            /\ \A f \in File : CountIsExplained(f)

\* The header count changes only to the length of a header of the file that sets it.
LEMMA CountIsOfAHeader ==
  ASSUME Typed, NEW f \in File, Step(f)
  PROVE  headerCount' = headerCount \/ \E n \in SheetsWithHeader(f) : headerCount' = header[f][n].length
<1>1. CASE ExtractDirectly(f) \/ SamplePass(f)
  BY <1>1, LastHeaderCountType DEF ExtractDirectly, SamplePass
<1>2. CASE StartSheet(f)
  BY <1>2 DEF StartSheet
<1>3. CASE ~ (ExtractDirectly(f) \/ SamplePass(f) \/ StartSheet(f))
  BY <1>3 DEF Step, Inferred, SkipSheet, SheetsOver, EmptyRow, NoteRow, RejectRow, AcceptRow,
              FlushBatch, Enqueued, EnqueueThrows, RowsOver, Flush, Drained, FlushThrows
<1> QED
  BY <1>1, <1>2, <1>3

\* What differs once differs for good: a file that has started is not new again.
LEMMA DiffersStays ==
  ASSUME Typed, NEW f \in File, Step(f)
  PROVE  \A g \in File : \A w : Differs(g, w) => Differs(g, w)'
<1>1. content' = content /\ \A h \in File : Started(h) => Started(h)'
  BY StepFrame DEF Started
<1>2. \A h \in File : SheetsWithHeader(h)' = SheetsWithHeader(h)
  BY <1>1 DEF SheetsWithHeader, content
<1> QED
  BY <1>1, <1>2 DEF Differs, content

\* Every step keeps the header count explained.
LEMMA StepCount ==
  ASSUME Typed, CountInv, NEW f \in File, Step(f)
  PROVE  CountInv'
<1>1. content' = content /\ Started(f)'
  BY StepFrame
<1>2. \A h \in File : SheetsWithHeader(h)' = SheetsWithHeader(h)
  BY <1>1 DEF SheetsWithHeader, content
<1>3. ASSUME NEW g \in File \ {f} PROVE CountIsExplained(g)'
  <2>1. pc'[g] = pc[g] /\ sheet'[g] = sheet[g] /\ width'[g] = width[g]
    BY StepFrame
  <2>2. ASSUME pc[g] \in {"rows", "enqueue"}
        PROVE  headerCount' = width[g] \/ Differs(g, width[g])'
    <3>1. CASE headerCount' = headerCount
      BY <2>1, <2>2, <3>1, DiffersStays DEF CountInv, CountIsExplained
    <3>2. CASE \E n \in SheetsWithHeader(f) : headerCount' = header[f][n].length
      BY <1>1, <1>2, <2>1, <3>2 DEF Differs, content
    <3> QED
      BY <3>1, <3>2, CountIsOfAHeader
  <2> QED
    BY <1>1, <1>2, <2>1, <2>2 DEF CountInv, CountIsExplained, content
<1>4. CountIsExplained(f)'
  <2>1. CASE StartSheet(f)
    BY <1>1, <1>2, <2>1 DEF StartSheet, CountIsExplained, content, Typed, TypeOK
  <2>2. CASE EmptyRow(f) \/ NoteRow(f) \/ RejectRow(f) \/ AcceptRow(f) \/ FlushBatch(f)
    <3>1. /\ pc[f] = "rows" /\ sheet' = sheet /\ width' = width /\ headerCount' = headerCount
      BY <2>2 DEF EmptyRow, NoteRow, RejectRow, AcceptRow, FlushBatch, AtDataRow, AtRow, Runs, place
    <3> QED
      BY <1>1, <1>2, <3>1, DiffersStays DEF CountInv, CountIsExplained, content
  <2>3. CASE Enqueued(f) \/ EnqueueThrows(f)
    <3>1. /\ pc[f] = "enqueue" /\ sheet' = sheet /\ width' = width /\ headerCount' = headerCount
      BY <2>3 DEF Enqueued, EnqueueThrows, Resumes
    <3> QED
      BY <1>1, <1>2, <3>1, DiffersStays DEF CountInv, CountIsExplained, content
  <2>4. CASE \/ ExtractDirectly(f) \/ SamplePass(f) \/ Inferred(f) \/ SkipSheet(f) \/ SheetsOver(f)
             \/ RowsOver(f) \/ Flush(f) \/ Drained(f) \/ FlushThrows(f)
    <3>1. pc'[f] \notin {"rows", "enqueue"}
      BY <2>4 DEF ExtractDirectly, SamplePass, Inferred, SkipSheet, SheetsOver, RowsOver, Flush,
                  Drained, FlushThrows, Goto, Runs, Resumes, Typed, TypeOK
    <3> QED
      BY <3>1 DEF CountIsExplained
  <2> QED
    BY <2>1, <2>2, <2>3, <2>4 DEF Step
<1>5. RejectedForAnotherFile'
  <2>1. SUFFICES ASSUME NEW g \in File, NEW id \in rejected'[g]
                 PROVE  Differs(g, header[g][id[1]].length)'
    BY <1>1 DEF RejectedForAnotherFile, Differs, content
  <2>2. CASE id \in rejected[g]
    <3>1. Differs(g, header[g][id[1]].length)
      BY <2>2 DEF CountInv, RejectedForAnotherFile, Differs
    <3> QED
      BY <1>1, <3>1, DiffersStays DEF content
  <2>3. CASE id \notin rejected[g]
    <3>1. g = f /\ RejectRow(f) /\ id = This(f)
      BY <2>1, <2>3, StepFrame
      DEF Step, ExtractDirectly, SamplePass, Inferred, StartSheet, SkipSheet, SheetsOver, EmptyRow,
          NoteRow, RejectRow, AcceptRow, FlushBatch, Enqueued, EnqueueThrows, RowsOver, Flush,
          Drained, FlushThrows, rows, Typed, TypeOK
    <3>2. Differs(f, header[f][sheet[f]].length)
      BY <3>1 DEF RejectRow, AtDataRow, AtRow, Runs, CountInv, CountIsExplained
    <3> QED
      BY <1>1, <3>1, <3>2, DiffersStays DEF This, content
  <2> QED
    BY <2>2, <2>3
<1> QED
  BY <1>3, <1>4, <1>5 DEF CountInv

\* Types and explanations hold throughout.
LEMMA SheetInvariance ==
  Spec => [](Typed /\ CountInv)
<1>1. Init => CountInv
  BY DEF Init, CountInv, RejectedForAnotherFile, CountIsExplained
<1>2. Typed /\ CountInv /\ [Next]_vars => Typed' /\ CountInv'
  <2> SUFFICES ASSUME Typed, CountInv, [Next]_vars PROVE Typed' /\ CountInv'
    OBVIOUS
  <2>1. CASE Next
    BY <2>1, StepTyped, StepCount DEF Next
  <2>2. CASE UNCHANGED vars
    <3>1. Typed'
      BY <2>2 DEF Typed, TypeOK, HeadersKept, vars, content, place, rows
    <3>2. CountInv'
      BY <2>2 DEF CountInv, RejectedForAnotherFile, CountIsExplained, Differs, Started,
                  SheetsWithHeader, vars, content, place, rows
    <3> QED
      BY <3>1, <3>2
  <2> QED
    BY <2>1, <2>2
<1> QED
  BY <1>1, <1>2, InitTyped, PTL DEF Spec

\* The files are extracted with data of their types: rows are known by sheet and row, no
\* run of empty rows is longer than the bound, and the header count is a number, also of a
\* file without a header.
THEOREM SheetsTypeCorrect == Spec => []TypeOK
BY SheetInvariance, PTL DEF Typed

\* The strategies agree on a reasonable header in every sheet of every file, however many
\* rows it has and however many of them are scanned: what was uploaded is what is read.
THEOREM HeadersReasonable == Spec => []HeadersAreReasonable
<1>1. Typed => HeadersAreReasonable
  BY SheetFacts, StrategiesAreReasonable DEF HeadersAreReasonable
<1> QED
  BY <1>1, SheetInvariance, PTL

\* However many files are extracted together, and wherever their awaits let others run, a
\* row is dropped for its column count only when a file of another width was among them.
THEOREM RejectionNeedsAnother == Spec => []RejectedForAnotherFile
BY SheetInvariance, PTL DEF CountInv

-----------------------------------------------------------------------------
(* The scan of a sheet: a pure argument about rows and runs of empty rows. *)

Below(s, h) == {r \in DOMAIN s : h.row # NoRow /\ r > h.row}
Empty(s, h) == {r \in Below(s, h) : IsEmptyRow(s[r], h.length)}
Ends(s, h) == {r \in Empty(s, h) : r - MaxConsecutiveEmpty + 1 .. r \subseteq Empty(s, h)}

\* The scan is at row r, after e empty rows in a row: they are the last ones, the row
\* before them was not empty or is the header, and the sheet has not ended before unless it
\* has just now.
Scanning(s, h, r, e) ==
  /\ h.row \in DOMAIN s
  /\ e \in 0 .. MaxConsecutiveEmpty
  /\ r \in Nat /\ r - e > h.row
  /\ r - e .. r - 1 \subseteq Empty(s, h)
  /\ r - e - 1 \notin Empty(s, h)
  /\ \A x \in Ends(s, h) : x < r => e = MaxConsecutiveEmpty /\ x = r - 1

\* DataRows in terms of these sets.
LEMMA DataRowsAre ==
  ASSUME NEW s, NEW h
  PROVE  DataRows(s, h) = {r \in Below(s, h) \ Empty(s, h) :
                             /\ ~ IsTrailingNoteRow(s[r], h.length)
                             /\ \A x \in Ends(s, h) : r < x}
BY DEF DataRows, Below, Empty, Ends

\* A scan starts below the header, with no data row behind it.
LEMMA ScanStarts ==
  ASSUME NEW s \in Sheets, NEW h \in [row : Nat, length : Nat], h.row # NoRow, h.row \in DOMAIN s
  PROVE  /\ Scanning(s, h, h.row + 1, 0)
         /\ \A q \in DataRows(s, h) : q > h.row
<1>1. DOMAIN s \subseteq Nat
  BY DEF Sheets
<1>2. \A q \in Below(s, h) : q \in Nat /\ q > h.row
  BY <1>1 DEF Below
<1>3. Ends(s, h) \subseteq Below(s, h) /\ Empty(s, h) \subseteq Below(s, h)
  BY DEF Ends, Empty
<1> QED
  BY <1>2, <1>3, SheetAssumption, DataRowsAre DEF Scanning

\* An empty row is no data row, and the scan goes on.
LEMMA ScanEmptyRow ==
  ASSUME NEW s \in Sheets, NEW h \in [row : Nat, length : Nat], h.row # NoRow,
         NEW r, NEW e, Scanning(s, h, r, e), e < MaxConsecutiveEmpty, r \in DOMAIN s,
         IsEmptyRow(s[r], h.length)
  PROVE  Scanning(s, h, r + 1, e + 1) /\ r \notin DataRows(s, h)
<1>1. r \in Empty(s, h)
  BY DEF Scanning, Empty, Below
<1>2. r \notin DataRows(s, h)
  BY <1>1, DataRowsAre
<1>3. Ends(s, h) \subseteq Nat
  BY DEF Ends, Empty, Below, Sheets
<1>4. \A x \in Ends(s, h) : x < r + 1 => e + 1 = MaxConsecutiveEmpty /\ x = r
  <2>1. SUFFICES ASSUME NEW x \in Ends(s, h), x < r + 1
                 PROVE  e + 1 = MaxConsecutiveEmpty /\ x = r
    OBVIOUS
  <2>2. x = r
    BY <1>3, <2>1, SheetAssumption DEF Scanning
  <2>3. CASE e + 1 < MaxConsecutiveEmpty
    <3>1. r - e - 1 \in r - MaxConsecutiveEmpty + 1 .. r
      BY <2>3, SheetAssumption DEF Scanning
    <3> QED
      BY <2>1, <2>2, <3>1 DEF Scanning, Ends
  <2> QED
    BY <2>2, <2>3, SheetAssumption DEF Scanning
<1>5. (r + 1) - (e + 1) .. (r + 1) - 1 \subseteq Empty(s, h)
  BY <1>1, SheetAssumption DEF Scanning
<1>6. (r + 1) - (e + 1) - 1 = r - e - 1
  BY SheetAssumption DEF Scanning
<1> QED
  BY <1>2, <1>4, <1>5, <1>6, SheetAssumption DEF Scanning

\* A row that is not empty is a data row unless it is a note, and no run of empty rows
\* is open after it.
LEMMA ScanOtherRow ==
  ASSUME NEW s \in Sheets, NEW h \in [row : Nat, length : Nat], h.row # NoRow,
         NEW r, NEW e, Scanning(s, h, r, e), e < MaxConsecutiveEmpty, r \in DOMAIN s,
         ~ IsEmptyRow(s[r], h.length)
  PROVE  /\ Scanning(s, h, r + 1, 0)
         /\ r \in DataRows(s, h) <=> ~ IsTrailingNoteRow(s[r], h.length)
<1>1. r \notin Empty(s, h) /\ r \in Below(s, h)
  BY DEF Scanning, Empty, Below
<1>2. Ends(s, h) \subseteq Nat /\ r \notin Ends(s, h)
  BY <1>1 DEF Ends, Empty, Below, Sheets
<1>3. \A x \in Ends(s, h) : x > r
  BY <1>2, SheetAssumption DEF Scanning
<1>4. Scanning(s, h, r + 1, 0)
  BY <1>1, <1>2, <1>3, SheetAssumption DEF Scanning
<1> QED
  BY <1>1, <1>3, <1>4, DataRowsAre

\* When the sheet is over or too many rows were empty, every data row lies behind.
LEMMA ScanIsOver ==
  ASSUME NEW s \in Sheets, NEW h \in [row : Nat, length : Nat], h.row # NoRow,
         NEW r, NEW e, Scanning(s, h, r, e), r \notin DOMAIN s \/ e >= MaxConsecutiveEmpty
  PROVE  \A q \in DataRows(s, h) : q < r
<1>1. DataRows(s, h) \subseteq DOMAIN s /\ DOMAIN s = 1 .. Len(s) /\ Len(s) \in Nat
  BY DataRowsAre DEF Below, Sheets
<1>2. CASE r \notin DOMAIN s
  BY <1>1, <1>2 DEF Scanning
<1>3. CASE e >= MaxConsecutiveEmpty
  <2>1. e = MaxConsecutiveEmpty /\ e > 0
    BY <1>3, SheetAssumption DEF Scanning
  <2>2. (r - 1) - MaxConsecutiveEmpty + 1 = r - e /\ r - 1 \in r - e .. r - 1
    BY <2>1, SheetAssumption DEF Scanning
  <2>3. r - 1 \in Ends(s, h)
    BY <2>2 DEF Scanning, Ends
  <2> QED
    BY <1>1, <2>3, DataRowsAre DEF Scanning
<1> QED
  BY <1>2, <1>3

-----------------------------------------------------------------------------
(* Where the rows of a file are.                                           *)

\* The data rows of a file before row r of sheet n.
Before(f, n, r) == {id \in DataOf(f) : id[1] < n \/ (id[1] = n /\ id[2] < r)}

Kept(f) == batch[f] \union carried[f] \union stored[f] \union failed[f] \union rejected[f]

Apart(f) ==
  /\ batch[f] \intersect (carried[f] \union stored[f] \union failed[f] \union rejected[f]) = {}
  /\ carried[f] \intersect (stored[f] \union failed[f] \union rejected[f]) = {}
  /\ stored[f] \intersect (failed[f] \union rejected[f]) = {}
  /\ failed[f] \intersect rejected[f] = {}

ThisHeader(f) == header[f][sheet[f]]

\* Where a file stands says which of its data rows have been read, and these are kept.
RowsKept(f) ==
  /\ Apart(f)
  /\ pc[f] \in {"new", "infer"} => sheet[f] = 1 /\ Kept(f) = {}
  /\ pc[f] = "sheets" => sheet[f] > 0 /\ Kept(f) = Before(f, sheet[f], 0)
  /\ pc[f] \in {"rows", "enqueue"} =>
       /\ Scanning(CurrentSheet(f), ThisHeader(f), row[f], empties[f])
       /\ Kept(f) = Before(f, sheet[f], row[f])
  /\ pc[f] = "enqueue" => /\ row[f] \in DataRows(CurrentSheet(f), ThisHeader(f))
                          /\ empties[f] < MaxConsecutiveEmpty
  /\ pc[f] \in {"flush", "drain", "done", "threw"} => Kept(f) = DataOf(f)
  /\ pc[f] \notin {"enqueue", "drain"} => carried[f] = {}
  /\ pc[f] \in {"enqueue", "drain", "done", "threw"} => batch[f] = {}

\* What comes before the first row below a header is what the sheets before held.
LEMMA BeforeSheet ==
  ASSUME Typed, NEW f \in File, NEW n \in SheetsWithHeader(f)
  PROVE  Before(f, n, header[f][n].row + 1) = Before(f, n, 0)
<1>1. /\ workbook[f][n] \in Sheets /\ header[f][n] \in [row : Nat, length : Nat]
      /\ header[f][n].row # NoRow /\ header[f][n].row \in DOMAIN workbook[f][n]
  BY SheetFacts DEF SheetsWithHeader
<1>2. \A q \in DataRows(workbook[f][n], header[f][n]) : q > header[f][n].row
  BY <1>1, ScanStarts
<1>3. \A id \in DataOf(f) : id[1] \in Nat /\ id[2] \in Nat
                            /\ id[2] \in DataRows(workbook[f][id[1]], header[f][id[1]])
  BY DataOfType DEF RowId
<1> QED
  BY <1>1, <1>2, <1>3 DEF Before

\* With every data row passed there is one more behind, and with no other row.
LEMMA BeforeNext ==
  ASSUME Typed, NEW f \in File, NEW n \in DOMAIN workbook[f], NEW r \in Nat
  PROVE  /\ r \in DataRows(workbook[f][n], header[f][n]) =>
              Before(f, n, r + 1) = Before(f, n, r) \union {<<n, r>>} /\ <<n, r>> \notin Before(f, n, r)
         /\ r \notin DataRows(workbook[f][n], header[f][n]) => Before(f, n, r + 1) = Before(f, n, r)
<1>1. n \in Nat
  BY SheetFacts
<1>2. \A id \in DataOf(f) : /\ id = <<id[1], id[2]>> /\ id[1] \in Nat /\ id[2] \in Nat
                            /\ id[2] \in DataRows(workbook[f][id[1]], header[f][id[1]])
  BY DataOfType DEF RowId
<1>3. r \in DataRows(workbook[f][n], header[f][n]) => <<n, r>> \in DataOf(f)
  BY DataOfType
<1>4. \A id \in DataOf(f) : id[1] < n \/ (id[1] = n /\ id[2] < r + 1) <=>
        id \in Before(f, n, r) \/ id = <<n, r>>
  BY <1>1, <1>2 DEF Before
<1>5. <<n, r>> \notin Before(f, n, r)
  BY <1>1 DEF Before
<1>6. <<n, r>> \in DataOf(f) => r \in DataRows(workbook[f][n], header[f][n])
  BY DataOfType
<1> QED
  BY <1>3, <1>4, <1>5, <1>6 DEF Before

\* Behind the last data row of a sheet come those of the next.
LEMMA BeforeNextSheet ==
  ASSUME Typed, NEW f \in File, NEW n \in DOMAIN workbook[f], NEW r \in Nat,
         \A q \in DataRows(workbook[f][n], header[f][n]) : q < r
  PROVE  Before(f, n, r) = Before(f, n + 1, 0)
<1>1. n \in Nat
  BY SheetFacts
<1>2. \A id \in DataOf(f) : /\ id[1] \in Nat /\ id[2] \in Nat
                            /\ id[2] \in DataRows(workbook[f][id[1]], header[f][id[1]])
  BY DataOfType DEF RowId
<1>3. \A id \in DataOf(f) : id[1] < n \/ (id[1] = n /\ id[2] < r)
                              <=> id[1] < n + 1 \/ (id[1] = n + 1 /\ id[2] < 0)
  BY <1>1, <1>2
<1> QED
  BY <1>3 DEF Before

\* A sheet without a header has no data rows.
LEMMA NoHeaderNoRows ==
  ASSUME Typed, NEW f \in File, NEW n \in DOMAIN workbook[f] \ SheetsWithHeader(f)
  PROVE  Before(f, n + 1, 0) = Before(f, n, 0)
<1>1. header[f][n].row = NoRow
  BY DEF SheetsWithHeader
<1>2. DataRows(workbook[f][n], header[f][n]) = {}
  BY <1>1 DEF DataRows
<1> QED
  BY <1>2, BeforeNextSheet

\* Before the first sheet there is nothing, and behind the last one all has been read.
LEMMA BeforeAll ==
  ASSUME Typed, NEW f \in File
  PROVE  /\ Before(f, 1, 0) = {}
         /\ \A n \in Nat \ {0} : n \notin DOMAIN workbook[f] => Before(f, n, 0) = DataOf(f)
<1>1. DOMAIN workbook[f] = 1 .. Len(workbook[f]) /\ Len(workbook[f]) \in Nat
  BY SheetFacts
<1>2. \A id \in DataOf(f) : id[1] \in DOMAIN workbook[f] /\ id[2] \in Nat
  BY DataOfType DEF RowId
<1> QED
  BY <1>1, <1>2 DEF Before

\* A step of one file moves no row of another.
LEMMA OthersKept ==
  ASSUME Typed, NEW f \in File, Step(f), NEW g \in File \ {f}, RowsKept(g)
  PROVE  RowsKept(g)'
<1>1. /\ content' = content
      /\ pc'[g] = pc[g] /\ sheet'[g] = sheet[g] /\ row'[g] = row[g] /\ empties'[g] = empties[g]
      /\ batch'[g] = batch[g] /\ carried'[g] = carried[g] /\ stored'[g] = stored[g]
      /\ failed'[g] = failed[g] /\ rejected'[g] = rejected[g]
  BY StepFrame
<1>2. DataOf(g)' = DataOf(g)
  BY <1>1 DEF DataOf, content
<1>3. Kept(g)' = Kept(g) /\ (Apart(g) => Apart(g)')
  BY <1>1 DEF Kept, Apart
<1>4. CurrentSheet(g)' = CurrentSheet(g) /\ ThisHeader(g)' = ThisHeader(g)
  BY <1>1 DEF CurrentSheet, ThisHeader, content
<1>5. \A n, r : Before(g, n, r)' = Before(g, n, r)
  BY <1>2 DEF Before
<1>6. Before(g, sheet[g], 0)' = Before(g, sheet[g], 0) /\ Before(g, sheet[g], row[g])' = Before(g, sheet[g], row[g])
  BY <1>1, <1>2 DEF Before
<1>7. Scanning(CurrentSheet(g), ThisHeader(g), row[g], empties[g])
        = Scanning(CurrentSheet(g), ThisHeader(g), row[g], empties[g])'
  BY <1>1, <1>4 DEF Scanning
<1> QED
  BY <1>1, <1>2, <1>3, <1>4, <1>6, <1>7 DEF RowsKept

\* What holds while a sheet is read.
LEMMA ReadingFacts ==
  ASSUME Typed, CountInv, NEW f \in File, pc[f] \in {"rows", "enqueue"}
  PROVE  /\ sheet[f] \in SheetsWithHeader(f) /\ sheet[f] \in DOMAIN workbook[f]
         /\ sheet[f] \in Nat \ {0} /\ row[f] \in Nat
         /\ CurrentSheet(f) \in Sheets
         /\ ThisHeader(f) \in [row : Nat, length : Nat]
         /\ ThisHeader(f).row # NoRow
         /\ width[f] = ThisHeader(f).length
<1>1. sheet[f] \in SheetsWithHeader(f) /\ width[f] = header[f][sheet[f]].length
  BY DEF CountInv, CountIsExplained
<1> QED
  BY <1>1, SheetFacts DEF SheetsWithHeader, CurrentSheet, ThisHeader, Typed, TypeOK

\* A step that passes one row of a sheet: what it does to the rows kept, given where the
\* row went.
LEMMA PassRow ==
  ASSUME Typed, CountInv, NEW f \in File, pc[f] \in {"rows", "enqueue"},
         Scanning(CurrentSheet(f), ThisHeader(f), row[f], empties[f]),
         Kept(f) = Before(f, sheet[f], row[f]),
         content' = content, sheet'[f] = sheet[f], row'[f] = row[f] + 1, pc'[f] = "rows",
         Scanning(CurrentSheet(f), ThisHeader(f), row[f] + 1, empties'[f]),
         IF row[f] \in DataRows(CurrentSheet(f), ThisHeader(f))
         THEN Kept(f)' = Kept(f) \union {This(f)} ELSE Kept(f)' = Kept(f),
         Apart(f)', carried'[f] = {}
  PROVE  RowsKept(f)'
<1>1. Before(f, sheet[f], row[f] + 1) = Kept(f)'
  <2>1. sheet[f] \in DOMAIN workbook[f] /\ row[f] \in Nat
    BY ReadingFacts
  <2>2. /\ row[f] \in DataRows(CurrentSheet(f), ThisHeader(f)) =>
             Before(f, sheet[f], row[f] + 1) = Before(f, sheet[f], row[f]) \union {This(f)}
        /\ row[f] \notin DataRows(CurrentSheet(f), ThisHeader(f)) =>
             Before(f, sheet[f], row[f] + 1) = Before(f, sheet[f], row[f])
    <3>1. ASSUME NEW n \in DOMAIN workbook[f], NEW r \in Nat
          PROVE  /\ r \in DataRows(workbook[f][n], header[f][n]) =>
                      Before(f, n, r + 1) = Before(f, n, r) \union {<<n, r>>}
                 /\ r \notin DataRows(workbook[f][n], header[f][n]) =>
                      Before(f, n, r + 1) = Before(f, n, r)
      BY <3>1, BeforeNext
    <3> QED
      BY <2>1, <3>1 DEF This, CurrentSheet, ThisHeader
  <2> QED
    BY <2>2
<1>2. DataOf(f)' = DataOf(f)
  BY DEF DataOf, content
<1>3. Before(f, sheet[f], row[f])' = Kept(f)'
  BY <1>1, <1>2 DEF Before
<1>4. Scanning(CurrentSheet(f), ThisHeader(f), row[f], empties[f])'
  BY DEF Scanning, CurrentSheet, ThisHeader, content
<1> QED
  BY <1>3, <1>4 DEF RowsKept

\* Every step keeps each row of its file where one finds it.
LEMMA StepKept ==
  ASSUME Typed, CountInv, NEW f \in File, RowsKept(f), Step(f)
  PROVE  RowsKept(f)'
<1>1. content' = content /\ DataOf(f)' = DataOf(f)
  BY StepFrame DEF DataOf, content
<1> USE DEF Goto, Runs, Resumes, rows, place, Typed, TypeOK
<1>2. CASE ExtractDirectly(f)
  BY <1>1, <1>2 DEF ExtractDirectly, RowsKept, Kept, Apart
<1>3. CASE SamplePass(f) \/ Inferred(f)
  <2>1. /\ pc[f] \in {"new", "infer"} /\ pc'[f] \in {"infer", "sheets"}
        /\ sheet' = sheet /\ Kept(f)' = Kept(f) /\ Apart(f)' /\ carried' = carried
    BY <1>3 DEF SamplePass, Inferred, RowsKept, Kept, Apart
  <2>2. sheet'[f] = 1 /\ Kept(f)' = {} /\ carried'[f] = {}
    BY <2>1 DEF RowsKept
  <2>3. Before(f, sheet[f], 0)' = {}
    BY <1>1, <2>2, BeforeAll DEF Before
  <2> QED
    BY <2>1, <2>2, <2>3 DEF RowsKept
<1>4. CASE StartSheet(f)
  <2>1. /\ pc[f] = "sheets" /\ pc'[f] = "rows" /\ sheet' = sheet
        /\ row'[f] = header[f][sheet[f]].row + 1 /\ empties'[f] = 0
        /\ Kept(f)' = Kept(f) /\ Apart(f)' /\ carried' = carried
    BY <1>4 DEF StartSheet, RowsKept, Kept, Apart
  <2>2. /\ sheet[f] \in SheetsWithHeader(f)
        /\ CurrentSheet(f) \in Sheets /\ ThisHeader(f) \in [row : Nat, length : Nat]
        /\ ThisHeader(f).row # NoRow /\ ThisHeader(f).row \in DOMAIN CurrentSheet(f)
    BY <1>4, SheetFacts DEF StartSheet, SheetsWithHeader, CurrentSheet, ThisHeader
  <2>3. Scanning(CurrentSheet(f), ThisHeader(f), ThisHeader(f).row + 1, 0)
    BY <2>2, ScanStarts
  <2>4. Scanning(CurrentSheet(f), ThisHeader(f), row[f], empties[f])'
    BY <1>1, <2>1, <2>3 DEF Scanning, CurrentSheet, ThisHeader, content
  <2>5. Kept(f)' = Before(f, sheet[f], header[f][sheet[f]].row + 1)
    BY <2>1, <2>2, BeforeSheet DEF RowsKept
  <2>6. Kept(f)' = Before(f, sheet[f], row[f])'
    BY <1>1, <2>1, <2>5 DEF Before
  <2> QED
    BY <2>1, <2>4, <2>6 DEF RowsKept
<1>5. CASE SkipSheet(f)
  <2>1. /\ pc[f] = "sheets" /\ pc'[f] = "sheets" /\ sheet'[f] = sheet[f] + 1
        /\ Kept(f)' = Kept(f) /\ Apart(f)' /\ carried' = carried
    BY <1>5 DEF SkipSheet, RowsKept, Kept, Apart
  <2>2. Kept(f)' = Before(f, sheet[f] + 1, 0)
    BY <1>5, <2>1, NoHeaderNoRows DEF SkipSheet, RowsKept
  <2>3. Kept(f)' = Before(f, sheet[f], 0)'
    BY <1>1, <2>1, <2>2 DEF Before
  <2> QED
    BY <2>1, <2>3 DEF RowsKept
<1>6. CASE SheetsOver(f)
  <2>1. /\ pc[f] = "sheets" /\ pc'[f] = "flush" /\ sheet[f] \notin DOMAIN workbook[f]
        /\ Kept(f)' = Kept(f) /\ Apart(f)' /\ carried' = carried
    BY <1>6 DEF SheetsOver, RowsKept, Kept, Apart
  <2>2. Kept(f) = DataOf(f)
    BY <2>1, BeforeAll DEF RowsKept
  <2> QED
    BY <1>1, <2>1, <2>2 DEF RowsKept
<1>7. ASSUME AtRow(f)
      PROVE  /\ pc[f] = "rows" /\ carried[f] = {} /\ row[f] \in DOMAIN CurrentSheet(f)
             /\ empties[f] < MaxConsecutiveEmpty /\ width[f] = ThisHeader(f).length
             /\ Scanning(CurrentSheet(f), ThisHeader(f), row[f], empties[f])
             /\ Kept(f) = Before(f, sheet[f], row[f])
  BY <1>7, ReadingFacts DEF AtRow, RowsKept
<1>8. CASE EmptyRow(f)
  <2>1. AtRow(f) /\ IsEmptyRow(CurrentSheet(f)[row[f]], width[f])
    BY <1>8 DEF EmptyRow
  <2>2. /\ Scanning(CurrentSheet(f), ThisHeader(f), row[f] + 1, empties[f] + 1)
        /\ row[f] \notin DataRows(CurrentSheet(f), ThisHeader(f))
    BY <1>7, <2>1, ReadingFacts, ScanEmptyRow
  <2>3. /\ pc'[f] = "rows" /\ sheet'[f] = sheet[f] /\ row'[f] = row[f] + 1
        /\ empties'[f] = empties[f] + 1 /\ Kept(f)' = Kept(f) /\ Apart(f)' /\ carried'[f] = {}
    BY <1>7, <1>8, <2>1 DEF EmptyRow, RowsKept, Kept, Apart
  <2> QED
    BY <1>1, <1>7, <2>1, <2>2, <2>3, PassRow
<1>9. CASE NoteRow(f)
  <2>1. AtRow(f) /\ IsTrailingNoteRow(CurrentSheet(f)[row[f]], width[f])
    BY <1>9 DEF NoteRow
  <2>2. ~ IsEmptyRow(CurrentSheet(f)[row[f]], width[f])
    BY <2>1 DEF IsTrailingNoteRow, IsEmptyRow
  <2>3. /\ Scanning(CurrentSheet(f), ThisHeader(f), row[f] + 1, 0)
        /\ row[f] \notin DataRows(CurrentSheet(f), ThisHeader(f))
    BY <1>7, <2>1, <2>2, ReadingFacts, ScanOtherRow
  <2>4. /\ pc'[f] = "rows" /\ sheet'[f] = sheet[f] /\ row'[f] = row[f] + 1
        /\ empties'[f] = 0 /\ Kept(f)' = Kept(f) /\ Apart(f)' /\ carried'[f] = {}
    BY <1>7, <1>9, <2>1 DEF NoteRow, Advance, RowsKept, Kept, Apart
  <2> QED
    BY <1>1, <1>7, <2>1, <2>3, <2>4, PassRow
<1>10. ASSUME AtDataRow(f)
       PROVE  /\ AtRow(f)
              /\ Scanning(CurrentSheet(f), ThisHeader(f), row[f] + 1, 0)
              /\ row[f] \in DataRows(CurrentSheet(f), ThisHeader(f))
  BY <1>7, <1>10, ReadingFacts, ScanOtherRow DEF AtDataRow
<1>11. ASSUME pc[f] \in {"rows", "enqueue"}, Kept(f) = Before(f, sheet[f], row[f])
       PROVE  This(f) \notin Kept(f)
  BY <1>11, ReadingFacts DEF Before, This
<1>12. CASE RejectRow(f) \/ AcceptRow(f)
  <2>1. AtDataRow(f)
    BY <1>12 DEF RejectRow, AcceptRow
  <2>2. AtRow(f) /\ This(f) \notin Kept(f)
    BY <1>7, <1>10, <1>11, <2>1
  <2>3. /\ pc'[f] = "rows" /\ sheet'[f] = sheet[f] /\ row'[f] = row[f] + 1
        /\ empties'[f] = 0 /\ carried'[f] = {} /\ Kept(f)' = Kept(f) \union {This(f)} /\ Apart(f)'
    BY <1>7, <1>12, <2>2 DEF RejectRow, AcceptRow, Advance, RowsKept, Kept, Apart
  <2> QED
    BY <1>1, <1>7, <1>10, <2>1, <2>2, <2>3, PassRow
<1>13. CASE FlushBatch(f)
  <2>1. AtDataRow(f) /\ AtRow(f)
    BY <1>10, <1>13 DEF FlushBatch
  <2>2. /\ pc'[f] = "enqueue" /\ sheet' = sheet /\ row' = row /\ empties' = empties
        /\ Kept(f)' = Kept(f) /\ Apart(f)' /\ batch'[f] = {}
    BY <1>7, <1>13, <2>1 DEF FlushBatch, RowsKept, Kept, Apart
  <2>3. CurrentSheet(f)' = CurrentSheet(f) /\ ThisHeader(f)' = ThisHeader(f)
    BY <1>1, <2>2 DEF CurrentSheet, ThisHeader, content
  <2>4. /\ Scanning(CurrentSheet(f), ThisHeader(f), row[f], empties[f])'
        /\ Before(f, sheet[f], row[f])' = Kept(f)
    BY <1>1, <1>7, <2>1, <2>2, <2>3 DEF Scanning, Before
  <2> QED
    BY <1>7, <1>10, <2>1, <2>2, <2>3, <2>4 DEF RowsKept
<1>14. CASE Enqueued(f) \/ EnqueueThrows(f)
  <2>1. /\ pc[f] = "enqueue" /\ batch[f] = {} /\ empties[f] < MaxConsecutiveEmpty
        /\ Scanning(CurrentSheet(f), ThisHeader(f), row[f], empties[f])
        /\ Kept(f) = Before(f, sheet[f], row[f])
        /\ row[f] \in DataRows(CurrentSheet(f), ThisHeader(f))
    BY <1>14 DEF Enqueued, EnqueueThrows, RowsKept
  <2>2. This(f) \notin Kept(f)
    BY <1>11, <2>1
  <2>3. /\ row[f] \in DOMAIN CurrentSheet(f)
        /\ ~ IsEmptyRow(CurrentSheet(f)[row[f]], ThisHeader(f).length)
    BY <2>1, DataRowsAre DEF Below, Empty
  <2>4. Scanning(CurrentSheet(f), ThisHeader(f), row[f] + 1, 0)
    BY <2>1, <2>3, ReadingFacts, ScanOtherRow
  <2>5. /\ pc'[f] = "rows" /\ sheet'[f] = sheet[f] /\ row'[f] = row[f] + 1
        /\ empties'[f] = 0 /\ carried'[f] = {} /\ Kept(f)' = Kept(f) \union {This(f)} /\ Apart(f)'
    BY <1>14, <2>1, <2>2 DEF Enqueued, EnqueueThrows, Advance, RowsKept, Kept, Apart
  <2> QED
    BY <1>1, <2>1, <2>4, <2>5, PassRow
<1>15. CASE RowsOver(f)
  <2>1. /\ pc[f] = "rows" /\ pc'[f] = "sheets" /\ sheet'[f] = sheet[f] + 1
        /\ Kept(f)' = Kept(f) /\ Apart(f)' /\ carried' = carried
        /\ Scanning(CurrentSheet(f), ThisHeader(f), row[f], empties[f])
        /\ Kept(f) = Before(f, sheet[f], row[f])
    BY <1>15 DEF RowsOver, RowsKept, Kept, Apart
  <2>2. \A q \in DataRows(workbook[f][sheet[f]], header[f][sheet[f]]) : q < row[f]
    BY <1>15, <2>1, ReadingFacts, ScanIsOver DEF RowsOver, CurrentSheet, ThisHeader
  <2>3. Kept(f) = Before(f, sheet[f] + 1, 0)
    BY <2>1, <2>2, ReadingFacts, BeforeNextSheet
  <2>4. Kept(f)' = Before(f, sheet[f], 0)' /\ sheet'[f] > 0
    BY <1>1, <2>1, <2>3, ReadingFacts DEF Before
  <2> QED
    BY <2>1, <2>4 DEF RowsKept
<1>16. CASE Flush(f)
  BY <1>1, <1>16 DEF Flush, RowsKept, Kept, Apart
<1>17. CASE Drained(f)
  BY <1>1, <1>17 DEF Drained, RowsKept, Kept, Apart
<1>18. CASE FlushThrows(f)
  BY <1>1, <1>18 DEF FlushThrows, RowsKept, Kept, Apart
<1> QED
  BY <1>2, <1>3, <1>4, <1>5, <1>6, <1>8, <1>9, <1>12, <1>13, <1>14, <1>15, <1>16, <1>17, <1>18 DEF Step

\* In every reachable state the rows of a file are where its place in its sheets says.
LEMMA RowsInvariance == Spec => [](\A f \in File : RowsKept(f))
<1> DEFINE I == \A f \in File : RowsKept(f)
<1>1. Init => I
  <2> SUFFICES ASSUME Init, NEW f \in File PROVE RowsKept(f)
    OBVIOUS
  <2> QED
    BY DEF Init, RowsKept, Kept, Apart
<1>2. Typed /\ CountInv /\ I /\ [Next]_vars => I'
  <2> SUFFICES ASSUME Typed, CountInv, I, [Next]_vars PROVE I'
    OBVIOUS
  <2>1. CASE Next
    BY <2>1, OthersKept, StepKept DEF Next
  <2>2. CASE UNCHANGED vars
    BY <2>2 DEF RowsKept, Kept, Apart, Before, DataOf, Scanning, CurrentSheet, ThisHeader, Below,
                Empty, Ends, vars, content, place, rows
  <2> QED
    BY <2>1, <2>2
<1> QED
  BY <1>1, <1>2, SheetInvariance, PTL DEF Spec

\* No row is lost between the reading of a file and its end, and none is in two places:
\* skipped sheets, notes and runs of empty rows take none with them, and neither does a
\* batch that is enqueued, or fails to be, in the middle of a sheet.
THEOREM RowsAccountedFor == Spec => []EveryDataRowAccountedFor
<1> DEFINE I == \A f \in File : RowsKept(f)
<1>1. I => EveryDataRowAccountedFor
  <2> SUFFICES ASSUME I, NEW f \in File
               PROVE  /\ Ended(f) => stored[f] \union failed[f] \union rejected[f] = DataOf(f)
                      /\ LET places == <<batch[f], carried[f], stored[f], failed[f], rejected[f]>> IN
                         \A m, n \in DOMAIN places : m # n => places[m] \intersect places[n] = {}
    BY DEF EveryDataRowAccountedFor
  <2>1. RowsKept(f)
    OBVIOUS
  <2>2. Ended(f) => stored[f] \union failed[f] \union rejected[f] = DataOf(f)
    BY <2>1 DEF RowsKept, Kept, Ended
  <2>3. Apart(f)
    BY <2>1 DEF RowsKept
  <2> DEFINE places == <<batch[f], carried[f], stored[f], failed[f], rejected[f]>>
  <2>4. DOMAIN places = 1 .. 5 /\ places[1] = batch[f] /\ places[2] = carried[f]
        /\ places[3] = stored[f] /\ places[4] = failed[f] /\ places[5] = rejected[f]
    OBVIOUS
  <2>5. ASSUME NEW m \in DOMAIN places, NEW n \in DOMAIN places, m # n
        PROVE  places[m] \intersect places[n] = {}
    <3>1. m \in {1, 2, 3, 4, 5} /\ n \in {1, 2, 3, 4, 5}
      BY <2>4
    <3> HIDE DEF places
    <3> QED
      BY <2>3, <2>4, <2>5, <3>1 DEF Apart
  <2> QED
    BY <2>2, <2>5
<1> QED
  BY <1>1, RowsInvariance, PTL

-----------------------------------------------------------------------------
(* The way to the end.                                                     *)

\* The event loop is held by exactly the file whose code runs: no file waits for a loop
\* nobody gives back, and while it is free each file that has not ended waits only for
\* an answer (the awaits of extractXLSX.ts 292-410 and of the processor's flushes).
LoopIsHeld == \A f \in File : loop = f <=> pc[f] \in {"sheets", "rows", "flush"}

Phase(f) ==
  CASE pc[f] = "new" -> 5
    [] pc[f] = "infer" -> 4
    [] pc[f] \in {"sheets", "rows", "enqueue"} -> 3
    [] pc[f] = "flush" -> 2
    [] pc[f] = "drain" -> 1
    [] OTHER -> 0

\* How many of the numbers from k to n there are.
Ahead(k, n) == IF k <= n THEN n - k + 1 ELSE 0

\* The steps left in a sheet: at most two for every row that was not read.
RowSteps(f) ==
  CASE pc[f] = "sheets" /\ sheet[f] \in DOMAIN workbook[f] -> 2 * Len(CurrentSheet(f)) + 2
    [] pc[f] = "rows" -> 2 * Ahead(row[f], Len(CurrentSheet(f))) + 1
    [] pc[f] = "enqueue" -> 2 * Ahead(row[f], Len(CurrentSheet(f)))
    [] OTHER -> 0

\* Where a file stands: its phase, the sheets before it, and the steps left in this one.
Standing(f) == <<Phase(f), Ahead(sheet[f], Len(workbook[f])), RowSteps(f)>>

LexBelow(s, t) ==
  \/ s[1] < t[1]
  \/ s[1] = t[1] /\ s[2] < t[2]
  \/ s[1] = t[1] /\ s[2] = t[2] /\ s[3] < t[3]

\* A step of the system is one of a file towards its end, and the others stay where they are.
Onward == \E f \in File : /\ LexBelow(Standing(f)', Standing(f))
                          /\ \A g \in File \ {f} : Standing(g)' = Standing(g)
StandingsAreNumbers == \A f \in File : Standing(f) \in Nat \X Nat \X Nat

\* Whoever stops gives the loop back, and only a free loop is taken.
LEMMA LoopStaysHeld ==
  ASSUME Typed, LoopIsHeld, NEW f \in File, Step(f)
  PROVE  LoopIsHeld'
<1>1. \A g \in File \ {f} : pc'[g] = pc[g]
  BY StepFrame
<1>2. \/ loop = NoFile /\ pc[f] \in {"new", "infer", "enqueue", "drain"}
      \/ loop = f
  BY DEF Step, ExtractDirectly, SamplePass, Inferred, StartSheet, SkipSheet, SheetsOver, EmptyRow,
         NoteRow, RejectRow, AcceptRow, FlushBatch, Enqueued, EnqueueThrows, RowsOver, Flush,
         Drained, FlushThrows, AtDataRow, AtRow, Runs, Resumes
<1>3. \A g \in File \ {f} : loop # g
  BY <1>2, FileAssumption
<1>4. \A g \in File \ {f} : pc[g] \notin {"sheets", "rows", "flush"}
  BY <1>3 DEF LoopIsHeld
<1>5. \/ loop' = f /\ pc'[f] \in {"sheets", "rows", "flush"}
      \/ loop' = NoFile /\ pc'[f] \notin {"sheets", "rows", "flush"}
  <2> USE DEF Goto, Runs, Resumes, Typed, TypeOK
  <2>1. CASE ExtractDirectly(f) \/ SamplePass(f) \/ Inferred(f)
    BY <2>1 DEF ExtractDirectly, SamplePass, Inferred
  <2>2. CASE StartSheet(f) \/ SkipSheet(f) \/ SheetsOver(f)
    BY <2>2 DEF StartSheet, SkipSheet, SheetsOver
  <2>3. CASE EmptyRow(f) \/ NoteRow(f) \/ RejectRow(f)
    BY <2>3 DEF EmptyRow, NoteRow, RejectRow, AtDataRow, AtRow
  <2>4. CASE AcceptRow(f) \/ FlushBatch(f)
    BY <2>4 DEF AcceptRow, FlushBatch, AtDataRow, AtRow
  <2>5. CASE Enqueued(f) \/ EnqueueThrows(f) \/ RowsOver(f)
    BY <2>5 DEF Enqueued, EnqueueThrows, RowsOver
  <2>6. CASE Flush(f) \/ Drained(f) \/ FlushThrows(f)
    BY <2>6 DEF Flush, Drained, FlushThrows
  <2> QED
    BY <2>1, <2>2, <2>3, <2>4, <2>5, <2>6 DEF Step
<1> QED
  BY <1>1, <1>3, <1>4, <1>5, FileAssumption DEF LoopIsHeld

\* However many files are extracted, the event loop belongs to the one that runs.
THEOREM LoopIsNeverLost == Spec => []LoopIsHeld
<1>1. Init => LoopIsHeld
  <2> SUFFICES ASSUME Init PROVE LoopIsHeld
    OBVIOUS
  <2> QED
    BY FileAssumption DEF Init, LoopIsHeld
<1>2. Typed /\ LoopIsHeld /\ [Next]_vars => LoopIsHeld'
  <2> SUFFICES ASSUME Typed, LoopIsHeld, [Next]_vars PROVE LoopIsHeld'
    OBVIOUS
  <2>1. CASE Next
    BY <2>1, LoopStaysHeld DEF Next
  <2>2. CASE UNCHANGED vars
    BY <2>2 DEF LoopIsHeld, vars
  <2> QED
    BY <2>1, <2>2
<1> QED
  BY <1>1, <1>2, SheetInvariance, PTL DEF Spec

\* What is left of a sheet, or of the sheets, is a number.
LEMMA StandingType ==
  ASSUME Typed, CountInv, NEW f \in File
  PROVE  Standing(f) \in Nat \X Nat \X Nat
<1>1. Phase(f) \in Nat
  BY DEF Phase
<1>2. ASSUME NEW k \in Nat, NEW n \in Nat PROVE Ahead(k, n) \in Nat
  BY <1>2 DEF Ahead
<1>3. sheet[f] \in Nat /\ row[f] \in Nat /\ Len(workbook[f]) \in Nat
  BY SheetFacts DEF Typed, TypeOK
<1>4. RowSteps(f) \in Nat
  <2>1. CASE pc[f] = "sheets"
    <3>1. sheet[f] \in DOMAIN workbook[f] => Len(CurrentSheet(f)) \in Nat
      BY SheetFacts DEF CurrentSheet, Sheets
    <3> QED
      BY <2>1, <3>1 DEF RowSteps
  <2>2. CASE pc[f] \in {"rows", "enqueue"}
    <3>1. Len(CurrentSheet(f)) \in Nat
      BY <2>2, ReadingFacts DEF Sheets
    <3>2. Ahead(row[f], Len(CurrentSheet(f))) \in Nat
      BY <1>2, <1>3, <3>1
    <3> QED
      BY <2>2, <3>2 DEF RowSteps
  <2>3. CASE pc[f] \notin {"sheets", "rows", "enqueue"}
    BY <2>3 DEF RowSteps
  <2> QED
    BY <2>1, <2>2, <2>3
<1> QED
  BY <1>1, <1>2, <1>3, <1>4 DEF Standing

\* A step of a file leads on: to a later phase, to the next sheet, or on in this one.
LEMMA StepLeadsOn ==
  ASSUME Typed, CountInv, NEW f \in File, RowsKept(f), Step(f)
  PROVE  LexBelow(Standing(f)', Standing(f))
<1> USE DEF Typed, TypeOK, Goto, Runs, Resumes, rows, place
<1>1. workbook' = workbook /\ header' = header
  BY StepFrame DEF content
<1>2. Len(workbook[f]) \in Nat /\ DOMAIN workbook[f] = 1 .. Len(workbook[f]) /\ sheet[f] \in Nat
  BY SheetFacts
<1>3. ASSUME Phase(f)' < Phase(f) PROVE LexBelow(Standing(f)', Standing(f))
  BY <1>3 DEF LexBelow, Standing
<1>4. ASSUME Phase(f)' = Phase(f), sheet[f] \in DOMAIN workbook[f], sheet'[f] = sheet[f] + 1
      PROVE  LexBelow(Standing(f)', Standing(f))
  <2>1. Ahead(sheet[f], Len(workbook[f]))' < Ahead(sheet[f], Len(workbook[f]))
    BY <1>1, <1>2, <1>4 DEF Ahead
  <2> QED
    BY <1>4, <2>1 DEF LexBelow, Standing
<1>5. ASSUME Phase(f)' = Phase(f), sheet'[f] = sheet[f], RowSteps(f)' < RowSteps(f)
      PROVE  LexBelow(Standing(f)', Standing(f))
  <2>1. Ahead(sheet[f], Len(workbook[f]))' = Ahead(sheet[f], Len(workbook[f]))
    BY <1>1, <1>5 DEF Ahead
  <2> QED
    BY <1>5, <2>1 DEF LexBelow, Standing
<1>6. ASSUME pc[f] \in {"rows", "enqueue"}, row[f] \in DOMAIN CurrentSheet(f), sheet'[f] = sheet[f],
             \/ pc'[f] = "rows" /\ row'[f] = row[f] + 1
             \/ pc[f] = "rows" /\ pc'[f] = "enqueue" /\ row'[f] = row[f]
      PROVE  LexBelow(Standing(f)', Standing(f))
  <2>1. /\ Len(CurrentSheet(f)) \in Nat /\ DOMAIN CurrentSheet(f) = 1 .. Len(CurrentSheet(f))
    BY <1>6, ReadingFacts DEF Sheets
  <2>2. CurrentSheet(f)' = CurrentSheet(f)
    BY <1>1, <1>6 DEF CurrentSheet
  <2>3. Phase(f)' = Phase(f)
    BY <1>6 DEF Phase
  <2>4. CASE pc'[f] = "rows" /\ row'[f] = row[f] + 1
    <3>1. Ahead(row[f], Len(CurrentSheet(f)))' = Ahead(row[f], Len(CurrentSheet(f))) - 1
      BY <1>6, <2>1, <2>2, <2>4 DEF Ahead
    <3>2. Ahead(row[f], Len(CurrentSheet(f))) \in Nat
      BY <2>1 DEF Ahead
    <3>3. RowSteps(f)' < RowSteps(f)
      BY <1>6, <2>4, <3>1, <3>2 DEF RowSteps
    <3> QED
      BY <1>5, <1>6, <2>3, <3>3
  <2>5. CASE pc[f] = "rows" /\ pc'[f] = "enqueue" /\ row'[f] = row[f]
    <3>1. Ahead(row[f], Len(CurrentSheet(f)))' = Ahead(row[f], Len(CurrentSheet(f)))
      BY <2>2, <2>5 DEF Ahead
    <3>2. Ahead(row[f], Len(CurrentSheet(f))) \in Nat
      BY <2>1 DEF Ahead
    <3>3. RowSteps(f)' < RowSteps(f)
      BY <2>5, <3>1, <3>2 DEF RowSteps
    <3> QED
      BY <1>5, <1>6, <2>3, <3>3
  <2> QED
    BY <1>6, <2>4, <2>5
<1>7. CASE ExtractDirectly(f) \/ SamplePass(f) \/ Inferred(f) \/ SheetsOver(f) \/ Flush(f)
           \/ Drained(f) \/ FlushThrows(f)
  <2>1. Phase(f)' < Phase(f)
    BY <1>7 DEF ExtractDirectly, SamplePass, Inferred, SheetsOver, Flush, Drained, FlushThrows, Phase
  <2> QED
    BY <1>3, <2>1
<1>8. CASE StartSheet(f)
  <2>1. /\ pc[f] = "sheets" /\ pc'[f] = "rows" /\ sheet' = sheet
        /\ sheet[f] \in SheetsWithHeader(f) /\ row'[f] = header[f][sheet[f]].row + 1
    BY <1>8 DEF StartSheet
  <2>2. /\ sheet[f] \in DOMAIN workbook[f] /\ CurrentSheet(f) \in Sheets
        /\ header[f][sheet[f]].row \in DOMAIN CurrentSheet(f)
    BY <2>1, SheetFacts DEF SheetsWithHeader, CurrentSheet
  <2>3. CurrentSheet(f)' = CurrentSheet(f)
    BY <1>1, <2>1 DEF CurrentSheet
  <2>4. Len(CurrentSheet(f)) \in Nat /\ DOMAIN CurrentSheet(f) = 1 .. Len(CurrentSheet(f))
    BY <2>2 DEF Sheets
  <2>5. Ahead(row[f], Len(CurrentSheet(f)))' \in 0 .. Len(CurrentSheet(f))
    BY <2>1, <2>2, <2>3, <2>4 DEF Ahead
  <2>6. RowSteps(f)' < RowSteps(f)
    BY <2>1, <2>2, <2>4, <2>5 DEF RowSteps
  <2>7. Phase(f)' = Phase(f)
    BY <2>1 DEF Phase
  <2> QED
    BY <1>5, <2>1, <2>6, <2>7
<1>9. CASE SkipSheet(f)
  <2>1. Phase(f)' = Phase(f)
    BY <1>9 DEF SkipSheet, Phase
  <2> QED
    BY <1>4, <1>9, <2>1 DEF SkipSheet
<1>10. CASE RowsOver(f)
  <2>1. Phase(f)' = Phase(f) /\ sheet'[f] = sheet[f] + 1
    BY <1>10 DEF RowsOver, Phase
  <2>2. sheet[f] \in DOMAIN workbook[f]
    BY <1>10, ReadingFacts DEF RowsOver
  <2> QED
    BY <1>4, <2>1, <2>2
<1>11. CASE EmptyRow(f) \/ NoteRow(f) \/ RejectRow(f) \/ AcceptRow(f) \/ FlushBatch(f)
  <2>1. AtRow(f)
    BY <1>11 DEF EmptyRow, NoteRow, RejectRow, AcceptRow, FlushBatch, AtDataRow
  <2>2. /\ sheet'[f] = sheet[f]
        /\ \/ pc'[f] = "rows" /\ row'[f] = row[f] + 1
           \/ pc'[f] = "enqueue" /\ row'[f] = row[f]
    BY <1>11, <2>1 DEF EmptyRow, NoteRow, RejectRow, AcceptRow, FlushBatch, Advance, AtRow
  <2> QED
    BY <1>6, <2>1, <2>2 DEF AtRow
<1>12. CASE Enqueued(f) \/ EnqueueThrows(f)
  <2>1. pc[f] = "enqueue" /\ row[f] \in DataRows(CurrentSheet(f), ThisHeader(f))
    BY <1>12 DEF Enqueued, EnqueueThrows, RowsKept
  <2>2. row[f] \in DOMAIN CurrentSheet(f)
    BY <2>1, DataRowsAre DEF Below
  <2>3. sheet'[f] = sheet[f] /\ pc'[f] = "rows" /\ row'[f] = row[f] + 1
    BY <1>12 DEF Enqueued, EnqueueThrows, Advance
  <2> QED
    BY <1>6, <2>1, <2>2, <2>3
<1> QED
  BY <1>7, <1>8, <1>9, <1>10, <1>11, <1>12 DEF Step

\* The rank of a file under way is lowered by every step of it and by no other, so that no
\* file, whatever its sheets hold, takes more than so many steps: the part of
\* EveryExtractionEnds that is no matter of fairness, for workbooks of any size.
THEOREM EveryStepLeadsOn == Spec => []StandingsAreNumbers /\ [][Onward]_vars
<1> DEFINE I == \A f \in File : RowsKept(f)
<1>1. Typed /\ CountInv => StandingsAreNumbers
  BY StandingType DEF StandingsAreNumbers
<1>2. Typed /\ CountInv /\ I /\ [Next]_vars => [Onward]_vars
  <2> SUFFICES ASSUME Typed, CountInv, I, NEW f \in File, Step(f) PROVE Onward
    BY DEF Next
  <2>1. LexBelow(Standing(f)', Standing(f))
    BY StepLeadsOn
  <2>2. ASSUME NEW g \in File \ {f} PROVE Standing(g)' = Standing(g)
    <3>1. pc'[g] = pc[g] /\ sheet'[g] = sheet[g] /\ row'[g] = row[g] /\ workbook' = workbook
      BY StepFrame DEF content
    <3>2. CurrentSheet(g)' = CurrentSheet(g)
      BY <3>1 DEF CurrentSheet
    <3> QED
      BY <3>1, <3>2 DEF Standing, Phase, RowSteps, Ahead
  <2> QED
    BY <2>1, <2>2 DEF Onward
<1>3. Spec => []I
  BY RowsInvariance
<1> QED
  BY <1>1, <1>2, <1>3, SheetInvariance, PTL DEF Spec

-----------------------------------------------------------------------------
(* What a page of a PDF becomes: functions defined by recursion, bands.    *)

\* What a value of T becomes at each of the numbers 1 to n, and the function that has, at each
\* of them, what has become of the base so far.
StepFunctions(n, T) == [(1 .. n) \X T -> T]
Follows(f, n, base, step) == f[0] = base /\ \A k \in 1 .. n : f[k] = step[<<k, f[k - 1]>>]

\* A function defined by what it is at the number before exists.
LEMMA RecursionExists ==
  ASSUME NEW n \in Nat, NEW T, NEW base \in T, NEW step \in StepFunctions(n, T)
  PROVE  \E f \in [0 .. n -> T] : Follows(f, n, base, step)
<1> DEFINE Bad == {m \in 0 .. n : ~ \E f \in [0 .. m -> T] : Follows(f, m, base, step)}
<1> SUFFICES ASSUME Bad # {} PROVE FALSE
  OBVIOUS
<1>1. PICK m \in Bad : \A l \in Bad : m <= l
  <2>1. IsFiniteSet(0 .. n) /\ Bad \subseteq 0 .. n
    BY FS_Interval
  <2> HIDE DEF Bad
  <2>2. IsFiniteSet(Bad)
    BY <2>1, FS_Subset
  <2>3. Bad \in SUBSET Int
    BY <2>1
  <2> QED
    BY <2>2, <2>3, LeastMember
<1>2. m # 0
  <2> DEFINE f == [k \in 0 .. 0 |-> base]
  <2>1. f \in [0 .. 0 -> T] /\ Follows(f, 0, base, step)
    BY DEF Follows
  <2> QED
    BY <2>1
<1>3. m - 1 \in 0 .. n /\ m - 1 \notin Bad
  BY <1>1, <1>2
<1>4. PICK f \in [0 .. m - 1 -> T] : Follows(f, m - 1, base, step)
  BY <1>3
<1> DEFINE g == [k \in 0 .. m |-> IF k = m THEN step[<<m, f[m - 1]>>] ELSE f[k]]
<1>5. g \in [0 .. m -> T]
  <2>1. step[<<m, f[m - 1]>>] \in T
    BY <1>2 DEF StepFunctions
  <2> QED
    BY <2>1
<1>6. g[0] = base
  BY <1>2, <1>4 DEF Follows
<1>7. ASSUME NEW k \in 1 .. m PROVE g[k] = step[<<k, g[k - 1]>>]
  <2>1. CASE k = m
    <3>1. g[k - 1] = f[m - 1]
      BY <1>2, <2>1
    <3> QED
      BY <1>2, <2>1, <3>1
  <2>2. CASE k # m
    <3>1. k \in 1 .. m - 1 /\ g[k] = f[k] /\ g[k - 1] = f[k - 1]
      BY <2>2
    <3> QED
      BY <1>4, <3>1 DEF Follows
  <2> QED
    BY <2>1, <2>2
<1>8. Follows(g, m, base, step)
  BY <1>6, <1>7 DEF Follows
<1> QED
  BY <1>5, <1>8

\* A set of numbers from 1 to n that is not empty has a least one.
LEMMA LeastPlace ==
  ASSUME NEW n \in Nat, NEW S \in SUBSET (1 .. n), S # {}
  PROVE  \E a \in S : \A i \in S : a <= i
BY PositionsFinite, LeastMember

\* The bands of items whose heights are sorted: they follow each other, span no more than the
\* threshold, and items of one height are in one.
LEMMA BandsAre ==
  ASSUME NEW ys \in Seq(Int), NEW n, n = Len(ys),
         \A k, l \in 1 .. n : k <= l => ys[k] <= ys[l]
  PROVE  \A k, l \in 1 .. n :
           /\ FirstOfBand(ys)[k] \in 1 .. k
           /\ k <= l => FirstOfBand(ys)[k] <= FirstOfBand(ys)[l]
           /\ FirstOfBand(ys)[k] = FirstOfBand(ys)[l] => ys[l] - ys[k] <= yThreshold
           /\ ys[k] = ys[l] => FirstOfBand(ys)[k] = FirstOfBand(ys)[l]
<1>0. n \in Nat /\ \A k \in 1 .. n : ys[k] \in Int
  OBVIOUS
<1> DEFINE Def(f) == [k \in 0 .. n |-> IF k = 0 THEN 1
                        ELSE LET current == f[k - 1] IN
                             IF ys[k] - ys[current] > yThreshold THEN k ELSE current]
           first == CHOOSE f : f = Def(f)
<1>1. first = Def(first)
  <2> DEFINE step == [p \in (1 .. n) \X Int |->
                        IF ys[p[1]] - ys[p[2]] > yThreshold THEN p[1] ELSE p[2]]
  <2>1. step \in StepFunctions(n, Int)
    BY DEF StepFunctions
  <2>2. \A k \in 1 .. n, v \in Int :
          step[<<k, v>>] = IF ys[k] - ys[v] > yThreshold THEN k ELSE v
    OBVIOUS
  <2> HIDE DEF step
  <2>3. PICK f \in [0 .. n -> Int] : Follows(f, n, 1, step)
    <3>1. n \in Nat /\ 1 \in Int
      BY <1>0
    <3> QED
      BY <2>1, <3>1, RecursionExists
  <2>4. \A k \in 1 .. n : f[k - 1] \in Int
    BY <1>0
  <2>5. f = Def(f)
    <3>1. ASSUME NEW k \in 1 .. n
          PROVE  f[k] = IF ys[k] - ys[f[k - 1]] > yThreshold THEN k ELSE f[k - 1]
      <4>1. f[k - 1] \in Int
        BY <2>4
      <4>2. f[k] = step[<<k, f[k - 1]>>]
        BY <2>3 DEF Follows
      <4> QED
        BY <2>2, <4>1, <4>2
    <3>2. \A k \in 0 .. n : f[k] = Def(f)[k]
      BY <1>0, <2>3, <3>1 DEF Follows
    <3>3. f = [k \in 0 .. n |-> f[k]]
      BY <2>3
    <3> HIDE DEF step
    <3> QED
      BY <3>2, <3>3
  <2> HIDE DEF Def
  <2> QED
    BY <2>5
<1>2. FirstOfBand(ys) = first
  BY DEF FirstOfBand
<1>3. /\ first[0] = 1
      /\ \A k \in 1 .. n :
           first[k] = IF ys[k] - ys[first[k - 1]] > yThreshold THEN k ELSE first[k - 1]
  <2> HIDE DEF first
  <2>1. \A k \in 0 .. n : first[k] = Def(first)[k]
    BY <1>1
  <2> QED
    BY <1>0, <2>1
<1> HIDE DEF first, Def
<1>4. \A k \in 1 .. n : first[k] \in 1 .. k
  <2> DEFINE Bad == {k \in 1 .. n : first[k] \notin 1 .. k}
  <2> SUFFICES ASSUME Bad # {} PROVE FALSE
    OBVIOUS
  <2>1. PICK k \in Bad : \A i \in Bad : k <= i
    <3>1. Bad \in SUBSET (1 .. n)
      OBVIOUS
    <3> HIDE DEF Bad
    <3> QED
      BY <1>0, <3>1, LeastPlace
  <2>4. k \in 1 .. n /\ first[k] \in {k, first[k - 1]}
    BY <1>3, <2>1
  <2>2. CASE k = 1
    BY <1>0, <1>3, <2>2
  <2>3. CASE k # 1
    <3>1. k - 1 \in 1 .. n /\ first[k - 1] \in 1 .. k - 1
      BY <1>0, <2>1, <2>3
    <3> QED
      BY <2>1, <2>4, <3>1
  <2> QED
    BY <2>2, <2>3
<1>5. \A k \in 1 .. n : ys[k] - ys[first[k]] <= yThreshold
  <2> SUFFICES ASSUME NEW k \in 1 .. n PROVE ys[k] - ys[first[k]] <= yThreshold
    OBVIOUS
  <2>1. first[k - 1] \in 1 .. n
    BY <1>0, <1>3, <1>4
  <2> QED
    BY <1>0, <1>3, <2>1 DEF yThreshold
<1>6. ASSUME NEW k \in 1 .. n, NEW l \in 1 .. n, k <= l PROVE first[k] <= first[l]
  <2> DEFINE Bad == {i \in 1 .. n : k <= i /\ ~ first[k] <= first[i]}
  <2> SUFFICES ASSUME Bad # {} PROVE FALSE
    BY <1>6
  <2>1. PICK m \in Bad : \A i \in Bad : m <= i
    <3>1. Bad \in SUBSET (1 .. n)
      OBVIOUS
    <3> HIDE DEF Bad
    <3> QED
      BY <1>0, <3>1, LeastPlace
  <2>2. m # k
    BY <1>0, <1>4
  <2>3. m - 1 \in 1 .. n /\ first[k] <= first[m - 1]
    BY <1>0, <2>1, <2>2
  <2>4. first[k] \in 1 .. k /\ first[m] \in {m, first[m - 1]}
    BY <1>0, <1>3, <1>4
  <2> QED
    BY <1>0, <2>1, <2>3, <2>4
<1>7. ASSUME NEW k \in 1 .. n, NEW l \in 1 .. n, first[k] = first[l]
      PROVE  ys[l] - ys[k] <= yThreshold
  <2>1. ys[first[k]] <= ys[k] /\ first[k] \in 1 .. n
    BY <1>0, <1>4
  <2>2. ys[l] - ys[first[l]] <= yThreshold
    BY <1>5
  <2> QED
    BY <1>0, <1>7, <2>1, <2>2 DEF yThreshold
<1>8. ASSUME NEW k \in 1 .. n, NEW l \in 1 .. n, ys[k] = ys[l], k <= l PROVE first[k] = first[l]
  <2> DEFINE Bad == {i \in 1 .. n : k <= i /\ i <= l /\ first[i] # first[k]}
  <2> SUFFICES ASSUME Bad # {} PROVE FALSE
    BY <1>8
  <2>1. PICK m \in Bad : \A i \in Bad : m <= i
    <3>1. Bad \in SUBSET (1 .. n)
      OBVIOUS
    <3> HIDE DEF Bad
    <3> QED
      BY <1>0, <3>1, LeastPlace
  <2>2. m # k /\ m - 1 \in 1 .. n /\ first[m - 1] = first[k]
    BY <1>0, <2>1
  <2>3. ys[m] = ys[k]
    <3>1. ys[k] <= ys[m] /\ ys[m] <= ys[l]
      BY <2>1
    <3> QED
      BY <1>0, <1>8, <3>1
  <2>4. ys[m] - ys[first[m - 1]] <= yThreshold
    BY <1>5, <2>2, <2>3
  <2>5. first[k] \in 1 .. n
    BY <1>0, <1>4
  <2>6. first[m] = first[m - 1]
    <3>1. m \in 1 .. n /\ ys[m] \in Int /\ ys[first[m - 1]] \in Int
      BY <1>0, <2>1, <2>2, <2>5
    <3>2. ~ ys[m] - ys[first[m - 1]] > yThreshold
      BY <2>4, <3>1 DEF yThreshold
    <3> QED
      BY <1>3, <3>1, <3>2
  <2> QED
    BY <2>1, <2>2, <2>6
<1> QED
  BY <1>0, <1>2, <1>4, <1>6, <1>7, <1>8

-----------------------------------------------------------------------------
(* Sorting.                                                                *)

Pairs(n) == [1 .. n -> Int \X Int]

\* The order of the places is total, and stable.
LEMMA NotAfterOrders ==
  ASSUME NEW n \in Nat, NEW keys \in Pairs(n),
         NEW j \in 1 .. n, NEW k \in 1 .. n, NEW l \in 1 .. n
  PROVE  /\ NotAfter(keys, k, k)
         /\ NotAfter(keys, k, l) \/ NotAfter(keys, l, k)
         /\ NotAfter(keys, k, l) /\ NotAfter(keys, l, k) => k = l
         /\ NotAfter(keys, j, k) /\ NotAfter(keys, k, l) => NotAfter(keys, j, l)
<1> DEFINE P(i) == keys[i] = <<keys[i][1], keys[i][2]>> /\ keys[i][1] \in Int /\ keys[i][2] \in Int
<1>1. P(j) /\ P(k) /\ P(l)
  BY DEF Pairs
<1>2. \A i, m \in {j, k, l} : keys[i] = keys[m] <=> keys[i][1] = keys[m][1] /\ keys[i][2] = keys[m][2]
  BY <1>1
<1> QED
  BY <1>1, <1>2 DEF NotAfter

\* The place of a key lies between 1 and their number, and differs from that of another.
LEMMA PlaceType ==
  ASSUME NEW n \in Nat, NEW keys \in Pairs(n), NEW k \in 1 .. n
  PROVE  Place(keys, k) \in 1 .. n
<1> DEFINE Upto == {l \in 1 .. n : NotAfter(keys, l, k)}
<1>1. IsFiniteSet(1 .. n) /\ Cardinality(1 .. n) = n
  BY FS_Interval
<1>2. Upto \in SUBSET (1 .. n) /\ k \in Upto
  BY NotAfterOrders
<1> HIDE DEF Upto
<1>3. IsFiniteSet(Upto) /\ Cardinality(Upto) <= n
  BY <1>1, <1>2, FS_Subset
<1>4. Cardinality(Upto) \in Nat /\ Cardinality(Upto) # 0
  BY <1>2, <1>3, FS_CardinalityType, FS_EmptySet
<1>5. Place(keys, k) = Cardinality(Upto)
  BY DEF Place, Upto, Pairs
<1> QED
  BY <1>3, <1>4, <1>5

\* A later key has a later place.
LEMMA PlaceIncreases ==
  ASSUME NEW n \in Nat, NEW keys \in Pairs(n), NEW k \in 1 .. n, NEW l \in 1 .. n,
         NotAfter(keys, k, l), k # l
  PROVE  Place(keys, k) < Place(keys, l)
<1> DEFINE Upto(i) == {j \in 1 .. n : NotAfter(keys, j, i)}
<1>1. IsFiniteSet(1 .. n)
  BY FS_Interval
<1>2. Upto(k) \in SUBSET Upto(l) /\ l \in Upto(l) /\ l \notin Upto(k) /\ Upto(l) \in SUBSET (1 .. n)
  BY NotAfterOrders
<1>3. Place(keys, k) = Cardinality(Upto(k)) /\ Place(keys, l) = Cardinality(Upto(l))
  BY DEF Place, Pairs
<1> HIDE DEF Upto
<1>4. IsFiniteSet(Upto(l))
  BY <1>1, <1>2, FS_Subset
<1>5. /\ IsFiniteSet(Upto(k))
      /\ Cardinality(Upto(k)) <= Cardinality(Upto(l))
      /\ Cardinality(Upto(l)) = Cardinality(Upto(k)) => Upto(l) = Upto(k)
  BY <1>2, <1>4, FS_Subset
<1>6. Cardinality(Upto(k)) \in Nat /\ Cardinality(Upto(l)) \in Nat
  BY <1>4, <1>5, FS_CardinalityType
<1> QED
  BY <1>2, <1>3, <1>5, <1>6

\* Sorted is a permutation of the places that puts the keys in order.
LEMMA SortedSorts ==
  ASSUME NEW n \in Nat, NEW keys \in Pairs(n)
  PROVE  /\ Sorted(keys) \in [1 .. n -> 1 .. n]
         /\ \A k \in 1 .. n : \E a \in 1 .. n : Sorted(keys)[a] = k
         /\ \A a, b \in 1 .. n : a < b => /\ NotAfter(keys, Sorted(keys)[a], Sorted(keys)[b])
                                        /\ Sorted(keys)[a] # Sorted(keys)[b]
<1> DEFINE T == 1 .. n
           rankOf == [k \in T |-> Place(keys, k)]
<1>1. IsFiniteSet(T)
  BY FS_Interval
<1>2. rankOf \in [T -> T]
  BY PlaceType
<1>3. ASSUME NEW k \in T, NEW l \in T, rankOf[k] = rankOf[l] PROVE k = l
  <2>1. Place(keys, k) = Place(keys, l) /\ Place(keys, k) \in Int
    BY <1>3, PlaceType
  <2> QED
    BY <2>1, PlaceIncreases, NotAfterOrders
<1> HIDE DEF rankOf, T
<1>4. rankOf \in Injection(T, T)
  BY <1>2, <1>3 DEF Injection, IsInjective
<1>5. rankOf \in Surjection(T, T)
  BY <1>1, <1>4, FS_Injection
<1>6. \A a \in T : \E k \in T : rankOf[k] = a
  BY <1>5 DEF Surjection
<1>7. \A a \in 1 .. n : \E k \in 1 .. n : Place(keys, k) = a
  BY <1>6 DEF rankOf, T
<1>8. \A a \in 1 .. n : Sorted(keys)[a] \in 1 .. n /\ Place(keys, Sorted(keys)[a]) = a
  <2>1. Sorted(keys) = [a \in 1 .. n |-> CHOOSE k \in 1 .. n : Place(keys, k) = a]
    BY DEF Sorted, Pairs
  <2> QED
    BY <1>7, <2>1
<1>9. Sorted(keys) \in [1 .. n -> 1 .. n]
  <2>1. Sorted(keys) = [a \in 1 .. n |-> CHOOSE k \in 1 .. n : Place(keys, k) = a]
    BY DEF Sorted, Pairs
  <2> QED
    BY <1>8, <2>1
<1>10. ASSUME NEW k \in 1 .. n PROVE \E a \in 1 .. n : Sorted(keys)[a] = k
  <2>1. PICK a \in 1 .. n : a = Place(keys, k)
    BY PlaceType
  <2>2. PICK l \in 1 .. n : l = Sorted(keys)[a] /\ Place(keys, l) = a
    BY <1>8
  <2>3. k = l
    BY <2>1, <2>2, PlaceIncreases, NotAfterOrders
  <2> QED
    BY <2>2, <2>3
<1>11. ASSUME NEW a \in 1 .. n, NEW b \in 1 .. n, a < b
       PROVE  NotAfter(keys, Sorted(keys)[a], Sorted(keys)[b]) /\ Sorted(keys)[a] # Sorted(keys)[b]
  <2>1. PICK k \in 1 .. n : k = Sorted(keys)[a] /\ Place(keys, k) = a
    BY <1>8
  <2>2. PICK l \in 1 .. n : l = Sorted(keys)[b] /\ Place(keys, l) = b
    BY <1>8
  <2>3. k # l
    BY <1>11, <2>1, <2>2
  <2>4. ~ NotAfter(keys, l, k)
    <3>1. NotAfter(keys, l, k) => Place(keys, l) < Place(keys, k)
      BY <2>3, PlaceIncreases
    <3> QED
      BY <1>11, <2>1, <2>2, <3>1
  <2>5. NotAfter(keys, k, l)
    BY <2>4, NotAfterOrders
  <2> QED
    BY <2>1, <2>2, <2>3, <2>5
<1> QED
  BY <1>9, <1>10, <1>11

\* The order in which a page is read: every item once; band after band and from the left
\* in each, where a band spans no more than the threshold and items of one height share one.
IsReading(page, n, read) ==
  /\ read \in [1 .. n -> [item : 1 .. n, band : Int]]
  /\ \A i \in 1 .. n : \E a \in 1 .. n : read[a].item = i
  /\ \A a, b \in 1 .. n :
       /\ a < b => read[a].item # read[b].item
       /\ a < b => read[a].band <= read[b].band
       /\ a < b /\ read[a].band = read[b].band =>
            page[read[a].item].x <= page[read[b].item].x
       /\ read[a].band = read[b].band =>
            page[read[b].item].y - page[read[a].item].y <= yThreshold
       /\ page[read[a].item].y = page[read[b].item].y => read[a].band = read[b].band
       /\ page[read[a].item].y < page[read[b].item].y => read[a].band <= read[b].band

LEMMA ReadingOrderIs ==
  ASSUME NEW page \in Seq(Item), NEW n, n = Len(page),
         NEW read, read = ReadingOrder(page)
  PROVE  IsReading(page, n, read)
<1>0. /\ n \in Nat /\ DOMAIN page = 1 .. n
      /\ \A i \in 1 .. n : page[i].x \in Int /\ page[i].y \in Int
  <2>1. n \in Nat /\ DOMAIN page = 1 .. n
    OBVIOUS
  <2>2. \A i \in 1 .. n : page[i] \in Item
    BY <2>1, MembersTyped
  <2> QED
    BY <2>1, <2>2 DEF Item
<1> DEFINE heights == [i \in 1 .. n |-> <<page[i].y, 0>>]
           byY == Sorted(heights)
           ys == [k \in 1 .. n |-> page[byY[k]].y]
           band == FirstOfBand(ys)
           keys == [k \in 1 .. n |-> <<band[k], page[byY[k]].x>>]
           byX == Sorted(keys)
<1>1. heights \in Pairs(n) /\ SortedByY(page) = byY
  BY <1>0 DEF Pairs, SortedByY
<1>2. /\ byY \in [1 .. n -> 1 .. n]
      /\ \A k \in 1 .. n : \E a \in 1 .. n : byY[a] = k
      /\ \A a, b \in 1 .. n :
           a < b => NotAfter(heights, byY[a], byY[b]) /\ byY[a] # byY[b]
  <2> HIDE DEF heights, byY
  <2> QED
    BY <1>0, <1>1, SortedSorts DEF byY
<1> HIDE DEF byY
<1>3. ys \in Seq(Int) /\ Len(ys) = n
  BY <1>0, <1>2
<1>4. ASSUME NEW k \in 1 .. n, NEW l \in 1 .. n, k <= l PROVE ys[k] <= ys[l]
  <2>1. CASE k = l
    <3>1. byY[k] \in 1 .. n
      BY <1>2
    <3>2. ys[k] \in Int
      BY <1>0, <3>1
    <3> QED
      BY <2>1, <3>2
  <2>2. CASE k < l
    <3>1. NotAfter(heights, byY[k], byY[l]) /\ byY[k] \in 1 .. n /\ byY[l] \in 1 .. n
      BY <1>2, <2>2
    <3>2. heights[byY[k]] = <<ys[k], 0>> /\ heights[byY[l]] = <<ys[l], 0>>
      BY <3>1
    <3>3. ys[k] \in Int /\ ys[l] \in Int
      BY <1>0, <3>1
    <3> HIDE DEF heights, ys
    <3> QED
      BY <3>1, <3>2, <3>3 DEF NotAfter
  <2> QED
    BY <1>4, <2>1, <2>2
<1>5. \A k, l \in 1 .. n :
        /\ band[k] \in 1 .. k
        /\ k <= l => band[k] <= band[l]
        /\ band[k] = band[l] => ys[l] - ys[k] <= yThreshold
        /\ ys[k] = ys[l] => band[k] = band[l]
  <2> HIDE DEF ys
  <2> QED
    BY <1>3, <1>4, BandsAre
<1>6. ReadingOrder(page) = [a \in 1 .. n |-> [item |-> byY[byX[a]], band |-> band[byX[a]]]]
  <2>1. DOMAIN byY = 1 .. n
    BY <1>2
  <2>2. DOMAIN byX = 1 .. n
    BY DEF Sorted
  <2> QED
    BY <1>1, <2>1, <2>2 DEF ReadingOrder
<1> HIDE DEF band
<1>7. keys \in Pairs(n)
  BY <1>0, <1>2, <1>5 DEF Pairs
<1>8. /\ byX \in [1 .. n -> 1 .. n]
      /\ \A k \in 1 .. n : \E a \in 1 .. n : byX[a] = k
      /\ \A a, b \in 1 .. n : a < b => NotAfter(keys, byX[a], byX[b]) /\ byX[a] # byX[b]
  <2> HIDE DEF keys, byX
  <2> QED
    BY <1>0, <1>7, SortedSorts DEF byX
<1> HIDE DEF byX
<1>9. ASSUME NEW a \in 1 .. n
      PROVE  /\ byX[a] \in 1 .. n
             /\ read[a].item = byY[byX[a]] /\ read[a].item \in 1 .. n
             /\ read[a].band = band[byX[a]] /\ read[a].band \in Int
             /\ page[read[a].item].y = ys[byX[a]]
             /\ page[read[a].item].y \in Int
  <2>1. byX[a] \in 1 .. n
    BY <1>8
  <2>2. read[a] = [item |-> byY[byX[a]], band |-> band[byX[a]]]
    BY <1>6
  <2>3. byY[byX[a]] \in 1 .. n
    BY <1>2, <2>1
  <2>4. band[byX[a]] \in Int
    <3>1. band[byX[a]] \in 1 .. byX[a]
      BY <1>5, <2>1
    <3> QED
      BY <3>1
  <2> QED
    BY <1>0, <2>1, <2>2, <2>3, <2>4
<1>10. read \in [1 .. n -> [item : 1 .. n, band : Int]]
  <2>1. \A a \in 1 .. n : [item |-> byY[byX[a]], band |-> band[byX[a]]] \in [item : 1 .. n, band : Int]
    BY <1>9
  <2> QED
    BY <1>6, <2>1
<1>11. ASSUME NEW i \in 1 .. n PROVE \E a \in 1 .. n : read[a].item = i
  <2>1. PICK k \in 1 .. n : byY[k] = i
    BY <1>2
  <2>2. PICK a \in 1 .. n : byX[a] = k
    BY <1>8
  <2> QED
    BY <1>9, <2>1, <2>2
<1>12. ASSUME NEW a \in 1 .. n, NEW b \in 1 .. n, a < b
       PROVE  /\ read[a].item # read[b].item
              /\ read[a].band <= read[b].band
              /\ read[a].band = read[b].band => page[read[a].item].x <= page[read[b].item].x
  <2>1. byX[a] # byX[b] /\ NotAfter(keys, byX[a], byX[b])
    BY <1>8, <1>12
  <2>2. read[a].item # read[b].item
    <3> DEFINE k == byX[a]  l == byX[b]
    <3>1. /\ k \in 1 .. n /\ l \in 1 .. n /\ k # l
          /\ read[a].item = byY[k] /\ read[b].item = byY[l]
      BY <1>9, <2>1
    <3> HIDE DEF k, l, heights, keys, ys
    <3>2. k < l \/ l < k
      BY <1>0, <3>1
    <3>3. byY[k] # byY[l]
      BY <1>2, <3>1, <3>2
    <3> QED
      BY <3>1, <3>3
  <2>3. /\ keys[byX[a]] = <<read[a].band, page[read[a].item].x>>
        /\ keys[byX[b]] = <<read[b].band, page[read[b].item].x>>
    BY <1>9
  <2>4. /\ read[a].band \in Int /\ read[b].band \in Int
        /\ page[read[a].item].x \in Int /\ page[read[b].item].x \in Int
    BY <1>0, <1>9
  <2> HIDE DEF keys
  <2>5. \/ read[a].band < read[b].band
        \/ read[a].band = read[b].band /\ page[read[a].item].x < page[read[b].item].x
        \/ keys[byX[a]] = keys[byX[b]]
    BY <2>1, <2>3 DEF NotAfter
  <2> QED
    BY <2>2, <2>3, <2>4, <2>5
<1>13. ASSUME NEW a \in 1 .. n, NEW b \in 1 .. n
       PROVE  /\ read[a].band = read[b].band =>
                   page[read[b].item].y - page[read[a].item].y <= yThreshold
              /\ page[read[a].item].y = page[read[b].item].y => read[a].band = read[b].band
              /\ page[read[a].item].y < page[read[b].item].y => read[a].band <= read[b].band
  <2> HIDE DEF ys
  <2>1. byX[a] \in 1 .. n /\ byX[b] \in 1 .. n
    BY <1>9
  <2> DEFINE k == byX[a]  l == byX[b]
  <2>2. /\ read[a].band = band[k] /\ read[b].band = band[l]
        /\ page[read[a].item].y = ys[k] /\ page[read[b].item].y = ys[l]
        /\ ys[k] \in Int /\ ys[l] \in Int
    BY <1>9
  <2>3. k \in 1 .. n /\ l \in 1 .. n /\ k \in Int /\ l \in Int
    BY <1>0, <2>1
  <2> HIDE DEF k, l
  <2>4. ys[k] < ys[l] => k <= l
    BY <1>4, <2>2, <2>3
  <2> QED
    BY <1>5, <2>2, <2>3, <2>4
<1>14. \A a, b \in 1 .. n :
         /\ a < b => read[a].item # read[b].item
         /\ a < b => read[a].band <= read[b].band
         /\ a < b /\ read[a].band = read[b].band =>
              page[read[a].item].x <= page[read[b].item].x
  BY <1>12
<1>15. \A a, b \in 1 .. n :
         /\ read[a].band = read[b].band =>
              page[read[b].item].y - page[read[a].item].y <= yThreshold
         /\ page[read[a].item].y = page[read[b].item].y => read[a].band = read[b].band
         /\ page[read[a].item].y < page[read[b].item].y => read[a].band <= read[b].band
  BY <1>13
<1> HIDE DEF heights, ys, keys
<1> QED
  BY ONLY <1>10, <1>11, <1>14, <1>15 DEF IsReading

-----------------------------------------------------------------------------
(* Clusters.                                                               *)

\* How many starts there are up to a place grows with the places, by the starts between.
RankGrown(S, a, b) ==
  /\ Rank(S, a) \in 0 .. Cardinality(S)
  /\ Rank(S, a) <= Rank(S, b)
  /\ (Rank(S, a) = Rank(S, b)) <=> (\A s \in S : ~ (a < s /\ s <= b))
  /\ 1 \in S => Rank(S, a) >= 1

LEMMA RankGrows ==
  ASSUME NEW n \in Nat, NEW S \in SUBSET (1 .. n), NEW a \in 1 .. n, NEW b \in 1 .. n, a <= b
  PROVE  RankGrown(S, a, b)
<1> DEFINE Upto(i) == {s \in S : s <= i}
<1>1. IsFiniteSet(S)
  BY PositionsFinite
<1>2. Upto(a) \in SUBSET Upto(b) /\ Upto(b) \in SUBSET S
  <2>1. \A s \in S : s <= a => s <= b
    OBVIOUS
  <2> QED
    BY <2>1
<1>3. Upto(a) = Upto(b) <=> \A s \in S : ~ (a < s /\ s <= b)
  <2>1. \A s \in S : s \in Int
    OBVIOUS
  <2>2. \A s \in Upto(b) : s \in Upto(a) <=> ~ (a < s /\ s <= b)
    BY <2>1
  <2> QED
    BY <1>2, <2>2
<1>4. 1 \in S => 1 \in Upto(a)
  OBVIOUS
<1>5. Rank(S, a) = Cardinality(Upto(a)) /\ Rank(S, b) = Cardinality(Upto(b))
  BY DEF Rank
<1> HIDE DEF Upto
<1>6. IsFiniteSet(Upto(b)) /\ Cardinality(Upto(b)) <= Cardinality(S)
  BY <1>1, <1>2, FS_Subset
<1>7. /\ IsFiniteSet(Upto(a)) /\ Cardinality(Upto(a)) <= Cardinality(Upto(b))
      /\ Cardinality(Upto(b)) = Cardinality(Upto(a)) => Upto(b) = Upto(a)
  BY <1>2, <1>6, FS_Subset
<1>8. Cardinality(Upto(a)) \in Nat /\ Cardinality(Upto(b)) \in Nat /\ Cardinality(S) \in Nat
  BY <1>1, <1>6, <1>7, FS_CardinalityType
<1>9. 1 \in S => Cardinality(Upto(a)) # 0
  BY <1>4, <1>7, FS_EmptySet
<1> QED
  BY <1>3, <1>5, <1>6, <1>7, <1>8, <1>9 DEF RankGrown

Readings(n) == [1 .. n -> [item : 1 .. n, band : Int]]

\* The places of the b-th cluster.
OfCluster(n, starts, b) == {m \in 1 .. n : Rank(starts, m) = b}

\* A cluster has the items between two starts, each once, and neighbours in it are neighbours
\* in the reading order.
IsCluster(n, read, starts, b, cluster) ==
  /\ cluster \in Seq(1 .. n)
  /\ IsInjective(cluster)
  /\ Range(cluster) = {read[m].item : m \in OfCluster(n, starts, b)}
  /\ \A k \in 1 .. Len(cluster) - 1 : \E m \in 1 .. n :
       /\ m + 1 \in 1 .. n /\ m + 1 \notin starts
       /\ cluster[k] = read[m].item /\ cluster[k + 1] = read[m + 1].item

LEMMA ClusterIs ==
  ASSUME NEW n \in Nat, NEW read \in Readings(n), NEW starts \in SUBSET (1 .. n), NEW b,
         \A a, c \in 1 .. n : a < c => read[a].item # read[c].item
  PROVE  IsCluster(n, read, starts, b, Cluster(read, starts, b))
<1> DEFINE own == OfCluster(n, starts, b)
           c == Cardinality(own)
           order == InOrder(own)
           cluster == Cluster(read, starts, b)
<1>1. own \in SUBSET (1 .. n)
  BY DEF OfCluster
<1>2. own \in SUBSET Int /\ IsFiniteSet(own)
  BY <1>1, PositionsFinite
<1>3. c \in Nat
  BY <1>2, FS_CardinalityType
<1>4. cluster = [k \in 1 .. c |-> read[order[k]].item]
  BY DEF Cluster, OfCluster, Readings
<1> HIDE DEF cluster, own
<1>5. /\ order \in Seq(own) /\ Len(order) = c
      /\ \A m \in own : \E k \in 1 .. c : order[k] = m
      /\ \A k, l \in 1 .. c : k < l => order[k] < order[l]
  BY <1>2, InOrderSorts
<1> HIDE DEF order
<1>6. \A k \in 1 .. c : order[k] \in own /\ order[k] \in 1 .. n
  <2>1. DOMAIN order = 1 .. c
    BY <1>5
  <2>2. \A k \in 1 .. c : order[k] \in own
    BY <1>5, <2>1, MembersTyped
  <2> QED
    BY <1>1, <2>2
<1> HIDE DEF c
<1>7. \A m \in 1 .. n : read[m].item \in 1 .. n
  BY DEF Readings
<1>8. cluster \in Seq(1 .. n) /\ Len(cluster) = c
  BY <1>3, <1>4, <1>6, <1>7
<1>9. IsInjective(cluster)
  <2> SUFFICES ASSUME NEW k \in 1 .. c, NEW l \in 1 .. c, k # l, cluster[k] = cluster[l]
               PROVE  FALSE
    BY <1>4 DEF IsInjective
  <2>1. order[k] # order[l]
    <3>1. k < l \/ l < k
      BY <1>3
    <3>2. order[k] \in Int /\ order[l] \in Int
      BY <1>6
    <3> QED
      BY <1>5, <3>1, <3>2
  <2>2. order[k] < order[l] \/ order[l] < order[k]
    BY <1>6, <2>1
  <2> QED
    BY <1>4, <1>6, <2>2
<1>10. Range(cluster) = {read[m].item : m \in own}
  <2>1. Range(cluster) = {cluster[k] : k \in 1 .. c}
    BY <1>4 DEF Range
  <2>2. ASSUME NEW m \in own PROVE read[m].item \in Range(cluster)
    BY <1>4, <1>5, <2>1
  <2>3. ASSUME NEW k \in 1 .. c PROVE \E m \in own : cluster[k] = read[m].item
    BY <1>4, <1>6
  <2> QED
    BY <2>1, <2>2, <2>3
<1>11. ASSUME NEW k \in 1 .. c - 1
       PROVE  \E m \in 1 .. n : /\ m + 1 \in 1 .. n /\ m + 1 \notin starts
                               /\ cluster[k] = read[m].item /\ cluster[k + 1] = read[m + 1].item
  <2>1. k \in 1 .. c /\ k + 1 \in 1 .. c /\ k < k + 1
    BY <1>3
  <2> DEFINE m == order[k]  q == order[k + 1]
  <2>2. /\ m \in own /\ m \in 1 .. n /\ q \in own /\ q \in 1 .. n /\ m < q
    BY <1>5, <1>6, <2>1
  <2>3. Rank(starts, m) = b /\ Rank(starts, q) = b
    BY <2>2 DEF own, OfCluster
  <2> HIDE DEF m, q
  <2>4. PICK p \in 1 .. n : p = m + 1
    BY <2>2
  <2>5. m < p /\ m <= p /\ p <= q
    BY <2>2, <2>4
  <2>6. Rank(starts, p) = b
    <3>1. Rank(starts, m) <= Rank(starts, p) /\ Rank(starts, m) \in 0 .. Cardinality(starts)
      BY <2>2, <2>5, RankGrows DEF RankGrown
    <3>2. Rank(starts, p) <= Rank(starts, q) /\ Rank(starts, p) \in 0 .. Cardinality(starts)
      BY <2>2, <2>5, RankGrows DEF RankGrown
    <3>3. Rank(starts, m) \in Int /\ Rank(starts, p) \in Int
      <4>1. IsFiniteSet(starts)
        BY PositionsFinite
      <4>2. Cardinality(starts) \in Nat
        BY <4>1, FS_CardinalityType
      <4> QED
        BY <3>1, <3>2, <4>2
    <3> QED
      BY <2>3, <3>1, <3>2, <3>3
  <2>7. p \notin starts
    <3>1. Rank(starts, m) = Rank(starts, p) => \A s \in starts : ~ (m < s /\ s <= p)
      BY <2>2, <2>5, RankGrows DEF RankGrown
    <3>2. p <= p
      OBVIOUS
    <3> QED
      BY <2>3, <2>5, <2>6, <3>1, <3>2
  <2>8. p = q
    <3>1. p \in own
      BY <2>6 DEF own, OfCluster
    <3>2. PICK l \in 1 .. c : order[l] = p
      BY <1>5, <3>1
    <3>3. ~ l <= k
      <4>1. l = k => p = m
        BY <3>2 DEF m
      <4>2. l < k => p < m
        BY <1>5, <2>1, <3>2 DEF m
      <4>3. ~ p = m /\ ~ p < m
        BY <2>2, <2>4
      <4> QED
        BY <1>3, <4>1, <4>2, <4>3
    <3>4. ~ k + 1 < l
      <4>1. k + 1 < l => q < p
        BY <1>5, <2>1, <3>2 DEF q
      <4> QED
        BY <2>2, <2>5, <4>1
    <3>5. l = k + 1
      BY <1>3, <3>3, <3>4
    <3> QED
      BY <3>2, <3>5 DEF q
  <2>9. cluster[k] = read[m].item /\ cluster[k + 1] = read[q].item
    BY <1>4, <2>1 DEF m, q
  <2> QED
    BY <2>2, <2>4, <2>7, <2>8, <2>9
<1>12. IsCluster(n, read, starts, b, cluster)
  BY <1>8, <1>9, <1>10, <1>11 DEF own, IsCluster
<1> QED
  BY <1>12 DEF cluster

-----------------------------------------------------------------------------
(* Variances.                                                              *)

\* The sums of the first k numbers, for every k.
SumsOf(sum, numbers, n) ==
  /\ sum \in [0 .. n -> Int]
  /\ sum[0] = 0
  /\ \A k \in 1 .. n : sum[k] = sum[k - 1] + numbers[k]

\* Total is the last of the sums.
LEMMA TotalIs ==
  ASSUME NEW numbers \in Seq(Int), NEW n, n = Len(numbers)
  PROVE  \E sum : SumsOf(sum, numbers, n) /\ Total(numbers) = sum[n]
<1>0. n \in Nat /\ \A k \in 1 .. n : numbers[k] \in Int
  OBVIOUS
<1> DEFINE Def(f) == [k \in 0 .. n |-> IF k = 0 THEN 0 ELSE f[k - 1] + numbers[k]]
           sum == CHOOSE f : f = Def(f)
           step == [p \in (1 .. n) \X Int |-> p[2] + numbers[p[1]]]
<1>1. step \in StepFunctions(n, Int)
  BY <1>0 DEF StepFunctions
<1>2. \A k \in 1 .. n, v \in Int : step[<<k, v>>] = v + numbers[k]
  OBVIOUS
<1> HIDE DEF step
<1>3. PICK f \in [0 .. n -> Int] : Follows(f, n, 0, step)
  <2>1. n \in Nat /\ 0 \in Int
    BY <1>0
  <2> QED
    BY <1>1, <2>1, RecursionExists
<1>4. ASSUME NEW k \in 1 .. n PROVE f[k] = f[k - 1] + numbers[k]
  <2>1. f[k - 1] \in Int
    BY <1>0
  <2>2. f[k] = step[<<k, f[k - 1]>>]
    BY <1>3 DEF Follows
  <2> QED
    BY <1>2, <2>1, <2>2
<1>5. f = Def(f)
  <2>1. \A k \in 0 .. n : f[k] = Def(f)[k]
    BY <1>0, <1>3, <1>4 DEF Follows
  <2>2. f = [k \in 0 .. n |-> f[k]]
    BY <1>3
  <2> QED
    BY <2>1, <2>2
<1>6. sum = Def(sum)
  <2> HIDE DEF Def
  <2> QED
    BY <1>5
<1>7. Total(numbers) = sum[n]
  BY DEF Total
<1> HIDE DEF sum
<1>8. sum[0] = 0 /\ \A k \in 1 .. n : sum[k] = sum[k - 1] + numbers[k]
  <2>1. \A k \in 0 .. n : sum[k] = Def(sum)[k]
    BY <1>6
  <2> QED
    BY <1>0, <2>1
<1>9. sum \in [0 .. n -> Int]
  <2> DEFINE Bad == {k \in 0 .. n : sum[k] \notin Int}
  <2>1. Bad = {}
    <3> SUFFICES ASSUME Bad # {} PROVE FALSE
      OBVIOUS
    <3>1. PICK k \in Bad : \A i \in Bad : k <= i
      <4>1. IsFiniteSet(0 .. n) /\ Bad \subseteq 0 .. n
        BY <1>0, FS_Interval
      <4> HIDE DEF Bad
      <4>2. IsFiniteSet(Bad)
        BY <4>1, FS_Subset
      <4>3. Bad \in SUBSET Int
        BY <4>1
      <4> QED
        BY <4>2, <4>3, LeastMember
    <3>2. k # 0 /\ k \in 1 .. n /\ k - 1 \in 0 .. n /\ k - 1 \notin Bad
      BY <1>0, <1>8, <3>1
    <3>3. sum[k - 1] \in Int
      BY <3>2
    <3> QED
      BY <1>0, <1>8, <3>1, <3>2, <3>3
  <2>2. sum = [k \in 0 .. n |-> sum[k]]
    BY <1>6
  <2> QED
    BY <2>1, <2>2
<1> QED
  BY <1>7, <1>8, <1>9 DEF SumsOf

\* How far the last of k numbers, x, is ahead of the k of them, how far in squares, and k * k
\* times their variance; S is their sum and Q that of their squares.
Lead(k, x, S) == k * x - S
SquareLead(k, x, S, Q) == k * (x * x) - 2 * (x * S) + Q
Scatter(k, S, Q) == k * Q - S * S

\* What the number y, ahead of x by d, adds.
Adds(k, l, x, y, d, S, Q) ==
  /\ Lead(l, y, S + y) = Lead(k, x, S) + k * d
  /\ SquareLead(l, y, S + y, Q + y * y) =
       SquareLead(k, x, S, Q) + 2 * (d * Lead(k, x, S)) + d * (k * d)
  /\ Scatter(l, S + y, Q + y * y) = Scatter(k, S, Q) + SquareLead(l, y, S + y, Q + y * y)

LEMMA ScatterGrows ==
  ASSUME NEW k \in Nat, NEW x \in Int, NEW d \in Int, NEW S \in Int, NEW Q \in Int,
         NEW y, y = x + d, NEW l, l = k + 1
  PROVE  Adds(k, l, x, y, d, S, Q)
<1>1. Lead(l, y, S + y) = Lead(k, x, S) + k * d
  BY DEF Lead
<1>2. SquareLead(l, y, S + y, Q + y * y) =
        SquareLead(k, x, S, Q) + 2 * (d * Lead(k, x, S)) + d * (k * d)
  BY DEF Lead, SquareLead
<1>3. Scatter(l, S + y, Q + y * y) =
        Scatter(k, S, Q) + SquareLead(l, y, S + y, Q + y * y)
  BY DEF Scatter, SquareLead
<1> QED
  BY <1>1, <1>2, <1>3 DEF Adds

\* A product of numbers that are not negative is no more than that of their bounds.
LEMMA ProductBounded ==
  ASSUME NEW a \in Nat, NEW b \in Nat, NEW x \in 0 .. a, NEW y \in 0 .. b
  PROVE  x * y \in 0 .. a * b
<1>1. x * y >= 0 /\ (a - x) * y >= 0 /\ a * (b - y) >= 0
  OBVIOUS
<1>2. x * y + (a - x) * y + a * (b - y) = a * b
  OBVIOUS
<1>3. x * y \in Int /\ (a - x) * y \in Int /\ a * (b - y) \in Int /\ a * b \in Int
  OBVIOUS
<1> QED
  BY <1>1, <1>2, <1>3

\* Numbers that lie no more than the gap apart, with the sums of them and of their squares.
Close(xs, sum, squares, n) ==
  /\ n \in Nat
  /\ \A k \in 1 .. n : xs[k] \in Int
  /\ \A k \in 1 .. n - 1 : xs[k + 1] - xs[k] \in 0 .. xGapThreshold
  /\ SumsOf(sum, xs, n)
  /\ SumsOf(squares, [k \in 1 .. n |-> xs[k] * xs[k]], n)

\* The first k of them are no further from each other than this.
Within(xs, sum, squares, k, a, b, v) ==
  /\ Lead(k, xs[k], sum[k]) \in 0 .. a
  /\ SquareLead(k, xs[k], sum[k], squares[k]) <= b
  /\ Scatter(k, sum[k], squares[k]) <= v

\* How the bounds grow with another number.
LEMMA BoundsGrow ==
  ASSUME NEW n, NEW xs, NEW sum, NEW squares, Close(xs, sum, squares, n),
         NEW k \in Nat, NEW l \in 1 .. n, k >= 1, l = k + 1,
         NEW a \in Nat, NEW b \in Nat, NEW v \in Nat,
         Within(xs, sum, squares, k, a, b, v)
  PROVE  Within(xs, sum, squares, l, a + 25 * k, b + 50 * a + 625 * k, v + (b + 50 * a + 625 * k))
<1>1. k \in 1 .. n /\ k \in 1 .. n - 1 /\ l - 1 = k
  BY DEF Close
<1> DEFINE x == xs[k]  y == xs[l]  d == y - x  S == sum[k]  Q == squares[k]
<1>2. x \in Int /\ y \in Int /\ S \in Int /\ Q \in Int
  BY <1>1 DEF Close, SumsOf
<1>3. d \in 0 .. 25 /\ y = x + d
  BY <1>1, <1>2 DEF Close, xGapThreshold
<1>4. sum[l] = S + y
  BY <1>1 DEF Close, SumsOf
<1>5. squares[l] = Q + y * y
  BY <1>1 DEF Close, SumsOf
<1>6. /\ Lead(k, x, S) \in 0 .. a
      /\ SquareLead(k, x, S, Q) <= b
      /\ Scatter(k, S, Q) <= v
  BY DEF Within
<1>7. SquareLead(k, x, S, Q) \in Int /\ Scatter(k, S, Q) \in Int
  BY <1>2 DEF SquareLead, Scatter
<1> DEFINE L == Lead(k, x, S)  B == SquareLead(k, x, S, Q)  V == Scatter(k, S, Q)
           L2 == Lead(l, y, S + y)  B2 == SquareLead(l, y, S + y, Q + y * y)
           V2 == Scatter(l, S + y, Q + y * y)
<1>8. L2 = L + k * d /\ B2 = B + 2 * (d * L) + d * (k * d) /\ V2 = V + B2
  <2>1. d \in Int /\ l = k + 1 /\ k \in Nat
    BY <1>3
  <2> HIDE DEF x, y, d, S, Q
  <2>2. Adds(k, l, x, y, d, S, Q)
    BY <1>2, <1>3, <2>1, ScatterGrows
  <2> QED
    BY <2>2 DEF Adds
<1>9. k * d \in 0 .. k * 25
  BY <1>3, ProductBounded
<1>10. d * L \in 0 .. 25 * a
  BY <1>3, <1>6, ProductBounded
<1>11. d * (k * d) \in 0 .. 25 * (k * 25)
  <2>1. k * 25 \in Nat
    OBVIOUS
  <2> HIDE DEF d
  <2> QED
    BY <1>3, <1>9, <2>1, ProductBounded
<1> DEFINE kd == k * d  dL == d * L  dkd == d * (k * d)
<1>12. /\ L \in 0 .. a /\ B \in Int /\ B <= b /\ V \in Int /\ V <= v
       /\ kd \in 0 .. 25 * k /\ dL \in 0 .. 25 * a /\ dkd \in 0 .. 625 * k
  BY <1>6, <1>7, <1>9, <1>10, <1>11
<1>13. L2 = L + kd /\ B2 = B + 2 * dL + dkd /\ V2 = V + B2
  BY <1>8
<1> HIDE DEF kd, dL, dkd, L, B, V, L2, B2, V2
<1>14. /\ L2 \in 0 .. a + 25 * k
       /\ B2 <= b + 50 * a + 625 * k
       /\ V2 <= v + (b + 50 * a + 625 * k)
  BY <1>12, <1>13
<1> QED
  BY <1>4, <1>5, <1>14 DEF Within, L2, B2, V2

\* The numbers up to nine.
LEMMA NineNumbers ==
  ASSUME NEW n \in 1 .. 9
  PROVE  n = 1 \/ n = 2 \/ n = 3 \/ n = 4 \/ n = 5 \/ n = 6 \/ n = 7 \/ n = 8 \/ n = 9
OBVIOUS

\* Up to nine numbers no more than 25 apart vary by no more than a table's columns must.
LEMMA NarrowVariance ==
  ASSUME NEW xs \in Seq(Int), NEW n \in 1 .. 9, n = Len(xs),
         \A k \in 1 .. n - 1 : xs[k + 1] - xs[k] \in 0 .. xGapThreshold
  PROVE  ScaledVariance(xs) <= xVarianceOfTable * n * n
<1> DEFINE square == [k \in 1 .. n |-> xs[k] * xs[k]]
<1>0. \A k \in 1 .. n : xs[k] \in Int
  OBVIOUS
<1>1. square \in Seq(Int) /\ Len(square) = n /\ DOMAIN xs = 1 .. n
  BY <1>0
<1>2. PICK sum : SumsOf(sum, xs, n) /\ Total(xs) = sum[n]
  BY TotalIs
<1>3. PICK squares : SumsOf(squares, square, n) /\ Total(square) = squares[n]
  <2> HIDE DEF square
  <2> QED
    BY <1>1, TotalIs
<1>4. Close(xs, sum, squares, n)
  BY <1>0, <1>2, <1>3 DEF Close
<1>5. ScaledVariance(xs) = Scatter(n, sum[n], squares[n])
  BY <1>1, <1>2, <1>3 DEF ScaledVariance, Scatter
<1> DEFINE W(k, a, b, v) == Within(xs, sum, squares, k, a, b, v)
<1>6. W(1, 0, 0, 0)
  <2>1. 1 \in 1 .. n /\ xs[1] \in Int
    BY <1>0
  <2>2. sum[1] = xs[1] /\ squares[1] = xs[1] * xs[1]
    <3>1. sum[1] = sum[1 - 1] + xs[1] /\ sum[0] = 0
      BY <1>2, <2>1 DEF SumsOf
    <3>2. squares[1] = squares[1 - 1] + xs[1] * xs[1] /\ squares[0] = 0
      BY <1>3, <2>1 DEF SumsOf
    <3> QED
      BY <2>1, <3>1, <3>2
  <2> QED
    BY <2>1, <2>2 DEF Within, Lead, SquareLead, Scatter
<1> HIDE DEF square, W
<1>7. ASSUME NEW k \in 1 .. 8, k + 1 <= n, NEW a \in Nat, NEW b \in Nat, NEW v \in Nat, W(k, a, b, v)
      PROVE  W(k + 1, a + 25 * k, b + 50 * a + 625 * k, v + (b + 50 * a + 625 * k))
  <2>1. PICK l \in 1 .. n : l = k + 1
    BY <1>7
  <2>2. k \in Nat /\ k >= 1
    OBVIOUS
  <2> QED
    BY <1>4, <1>7, <2>1, <2>2, BoundsGrow DEF W
<1>8. n >= 2 => W(2, 25, 625, 625)
  BY <1>6, <1>7
<1>9. n >= 3 => W(3, 75, 3125, 3750)
  BY <1>7, <1>8
<1>10. n >= 4 => W(4, 150, 8750, 12500)
  BY <1>7, <1>9
<1>11. n >= 5 => W(5, 250, 18750, 31250)
  BY <1>7, <1>10
<1>12. n >= 6 => W(6, 375, 34375, 65625)
  BY <1>7, <1>11
<1>13. n >= 7 => W(7, 525, 56875, 122500)
  BY <1>7, <1>12
<1>14. n >= 8 => W(8, 700, 87500, 210000)
  BY <1>7, <1>13
<1>15. n >= 9 => W(9, 900, 127500, 337500)
  BY <1>7, <1>14
<1>16. ASSUME NEW k \in 1 .. 9, NEW a, NEW b, NEW v \in Nat, n = k, W(k, a, b, v)
       PROVE  Scatter(n, sum[n], squares[n]) <= v
  BY <1>16 DEF W, Within
<1>17. Scatter(n, sum[n], squares[n]) \in Int
  <2>1. n \in Int /\ n \in 0 .. n
    OBVIOUS
  <2>2. sum[n] \in Int /\ squares[n] \in Int
    BY <1>2, <1>3, <2>1 DEF SumsOf
  <2> QED
    BY <2>1, <2>2 DEF Scatter
<1>18. Scatter(n, sum[n], squares[n]) <= 5000 * n * n
  <2>1. CASE n = 1
    <3>1. Scatter(n, sum[n], squares[n]) <= 0
      BY <1>6, <1>16, <2>1
    <3>2. 5000 * n * n = 5000
      BY <2>1
    <3> QED
      BY <1>17, <3>1, <3>2
  <2>2. CASE n = 2
    <3>1. Scatter(n, sum[n], squares[n]) <= 625
      BY <1>8, <1>16, <2>2
    <3>2. 5000 * n * n = 20000
      BY <2>2
    <3> QED
      BY <1>17, <3>1, <3>2
  <2>3. CASE n = 3
    <3>1. Scatter(n, sum[n], squares[n]) <= 3750
      BY <1>9, <1>16, <2>3
    <3>2. 5000 * n * n = 45000
      BY <2>3
    <3> QED
      BY <1>17, <3>1, <3>2
  <2>4. CASE n = 4
    <3>1. Scatter(n, sum[n], squares[n]) <= 12500
      BY <1>10, <1>16, <2>4
    <3>2. 5000 * n * n = 80000
      BY <2>4
    <3> QED
      BY <1>17, <3>1, <3>2
  <2>5. CASE n = 5
    <3>1. Scatter(n, sum[n], squares[n]) <= 31250
      BY <1>11, <1>16, <2>5
    <3>2. 5000 * n * n = 125000
      BY <2>5
    <3> QED
      BY <1>17, <3>1, <3>2
  <2>6. CASE n = 6
    <3>1. Scatter(n, sum[n], squares[n]) <= 65625
      BY <1>12, <1>16, <2>6
    <3>2. 5000 * n * n = 180000
      BY <2>6
    <3> QED
      BY <1>17, <3>1, <3>2
  <2>7. CASE n = 7
    <3>1. Scatter(n, sum[n], squares[n]) <= 122500
      BY <1>13, <1>16, <2>7
    <3>2. 5000 * n * n = 245000
      BY <2>7
    <3> QED
      BY <1>17, <3>1, <3>2
  <2>8. CASE n = 8
    <3>1. Scatter(n, sum[n], squares[n]) <= 210000
      BY <1>14, <1>16, <2>8
    <3>2. 5000 * n * n = 320000
      BY <2>8
    <3> QED
      BY <1>17, <3>1, <3>2
  <2>9. CASE n = 9
    <3>1. Scatter(n, sum[n], squares[n]) <= 337500
      BY <1>15, <1>16, <2>9
    <3>2. 5000 * n * n = 405000
      BY <2>9
    <3> QED
      BY <1>17, <3>1, <3>2
  <2>10. n \in 1 .. 9
    OBVIOUS
  <2>11. n = 1 \/ n = 2 \/ n = 3 \/ n = 4 \/ n = 5 \/ n = 6 \/ n = 7 \/ n = 8 \/ n = 9
    BY ONLY NineNumbers, <2>10, Zenon
  <2> QED
    BY ONLY <2>11, <2>1, <2>2, <2>3, <2>4, <2>5, <2>6, <2>7, <2>8, <2>9
<1> QED
  BY <1>5, <1>18 DEF xVarianceOfTable

\* A table is a run of ten items or more.
LEMMA TablesAreLong ==
  ASSUME NEW page \in Seq(Item), NEW cluster \in Seq(1 .. Len(page)),
         \A k \in 1 .. Len(cluster) - 1 :
           page[cluster[k + 1]].x - page[cluster[k]].x \in 0 .. xGapThreshold,
         BlockType(page, cluster) = "table"
  PROVE  Len(cluster) >= 10
<1> DEFINE n == Len(cluster)
           xs == [k \in 1 .. n |-> page[cluster[k]].x]
<1>1. n \in Nat
  OBVIOUS
<1>2. n >= 3 /\ ScaledVariance(xs) > xVarianceOfTable * n * n
  <2>1. "table" # "paragraph"
    OBVIOUS
  <2> QED
    BY <2>1 DEF BlockType
<1>3. xs \in Seq(Int) /\ Len(xs) = n
  <2>1. \A k \in 1 .. n : cluster[k] \in 1 .. Len(page)
    BY <1>1
  <2>2. \A k \in 1 .. n : page[cluster[k]] \in Item
    BY <2>1
  <2>3. \A k \in 1 .. n : page[cluster[k]].x \in Int
    BY <2>2 DEF Item
  <2> QED
    BY <1>1, <2>3
<1>4. \A k \in 1 .. n - 1 : xs[k + 1] - xs[k] \in 0 .. xGapThreshold
  BY <1>1
<1>5. ScaledVariance(xs) \in Int
  <2>1. \A k \in 1 .. n : xs[k] \in Int
    BY <1>3
  <2> HIDE DEF xs
  <2> DEFINE square == [k \in 1 .. n |-> xs[k] * xs[k]]
  <2>2. square \in Seq(Int) /\ Len(square) = n /\ DOMAIN xs = 1 .. n
    BY <1>1, <1>3, <2>1
  <2>3. n \in 0 .. n
    BY <1>1
  <2>4. PICK sum : SumsOf(sum, xs, n) /\ Total(xs) = sum[n]
    BY <1>3, TotalIs
  <2>5. PICK squares : SumsOf(squares, square, n) /\ Total(square) = squares[n]
    <3> HIDE DEF square
    <3> QED
      BY <2>2, TotalIs
  <2>6. Total(xs) \in Int /\ Total(square) \in Int
    BY <2>3, <2>4, <2>5 DEF SumsOf
  <2> HIDE DEF n
  <2>7. ScaledVariance(xs) = n * Total(square) - Total(xs) * Total(xs)
    BY <1>3, <2>2 DEF ScaledVariance
  <2> QED
    BY <1>1, <2>6, <2>7
<1> HIDE DEF xs, n
<1>6. ~ n \in 1 .. 9
  <2> SUFFICES ASSUME n \in 1 .. 9 PROVE FALSE
    OBVIOUS
  <2>1. ScaledVariance(xs) <= xVarianceOfTable * n * n
    BY <1>3, <1>4, NarrowVariance
  <2> QED
    BY <1>1, <1>2, <1>5, <2>1 DEF xVarianceOfTable
<1>7. n >= 10
  BY <1>1, <1>2, <1>6
<1> QED
  BY <1>7 DEF n

\* A cluster starts at the first item, where a band begins, and behind a gap.  Between two
\* items of one rank there is none; so they are of one band.
AreRanks(page, n, read, starts) ==
  /\ starts \in SUBSET (1 .. n)
  /\ \A a \in 1 .. n : Rank(starts, a) \in 1 .. Cardinality(starts)
  /\ \A a, b \in 1 .. n :
       /\ a <= b => Rank(starts, a) <= Rank(starts, b)
       /\ Rank(starts, a) = Rank(starts, b) => read[a].band = read[b].band
       /\ /\ a <= b /\ read[a].band = read[b].band
          /\ page[read[b].item].x - page[read[a].item].x <= xGapThreshold
          => Rank(starts, a) = Rank(starts, b)

LEMMA RanksAre ==
  ASSUME NEW page \in Seq(Item), NEW n, n = Len(page),
         NEW read, read = ReadingOrder(page),
         NEW starts, starts = ClusterStarts(page, read)
  PROVE  AreRanks(page, n, read, starts)
<1> DEFINE X(a) == page[read[a].item].x
<1>0. n \in Nat
  OBVIOUS
<1>1. /\ read \in [1 .. n -> [item : 1 .. n, band : Int]]
      /\ \A a, b \in 1 .. n :
           /\ a < b => read[a].band <= read[b].band
           /\ a < b /\ read[a].band = read[b].band => X(a) <= X(b)
  <2>1. IsReading(page, n, read)
    BY ReadingOrderIs
  <2>2. read \in [1 .. n -> [item : 1 .. n, band : Int]]
    BY <2>1 DEF IsReading
  <2>3. \A a, b \in 1 .. n :
          /\ a < b => read[a].band <= read[b].band
          /\ a < b /\ read[a].band = read[b].band => X(a) <= X(b)
    <3> SUFFICES ASSUME NEW a \in 1 .. n, NEW b \in 1 .. n, a < b
                 PROVE  /\ read[a].band <= read[b].band
                        /\ read[a].band = read[b].band => X(a) <= X(b)
      OBVIOUS
    <3> QED
      BY <2>1 DEF IsReading
  <2> QED
    BY <2>2, <2>3
<1>2. \A a \in 1 .. n : read[a].band \in Int /\ X(a) \in Int
  <2>1. \A i \in 1 .. n : page[i] \in Item
    OBVIOUS
  <2> QED
    BY <1>0, <1>1, <2>1 DEF Item
<1>3. starts = {s \in 1 .. n : s = 1 \/ read[s].band # read[s - 1].band
                                 \/ X(s) - X(s - 1) > xGapThreshold}
  BY <1>1 DEF ClusterStarts
<1> HIDE DEF X
<1>4. starts \in SUBSET (1 .. n)
  BY <1>3
<1>12. n >= 1 => 1 \in starts
  BY <1>0, <1>3
<1>5. IsFiniteSet(starts)
  BY <1>0, <1>4, PositionsFinite
<1>6. Cardinality(starts) \in Nat
  BY <1>5, FS_CardinalityType
<1>7. ASSUME NEW a \in 1 .. n PROVE Rank(starts, a) \in 1 .. Cardinality(starts)
  <2>1. a <= a /\ n >= 1
    BY <1>0
  <2>2. 1 \in starts
    BY <1>12, <2>1
  <2>3. Rank(starts, a) \in 0 .. Cardinality(starts)
    BY <1>0, <1>4, <2>1, RankGrows DEF RankGrown
  <2>4. 1 \in starts => Rank(starts, a) >= 1
    BY <1>0, <1>4, <2>1, RankGrows DEF RankGrown
  <2> QED
    BY <1>6, <2>2, <2>3, <2>4
<1>8. ASSUME NEW a \in 1 .. n, NEW b \in 1 .. n, a <= b
      PROVE  /\ Rank(starts, a) <= Rank(starts, b)
             /\ (Rank(starts, a) = Rank(starts, b)) <=> (\A s \in starts : ~ (a < s /\ s <= b))
  <2>1. RankGrown(starts, a, b)
    BY <1>0, <1>4, <1>8, RankGrows
  <2> QED
    BY <2>1 DEF RankGrown
<1>9. ASSUME NEW a \in 1 .. n, NEW b \in 1 .. n, a <= b, Rank(starts, a) = Rank(starts, b)
      PROVE  read[a].band = read[b].band
  <2> DEFINE Bad == {i \in 1 .. n : a <= i /\ i <= b /\ read[i].band # read[a].band}
  <2> SUFFICES ASSUME Bad # {} PROVE FALSE
    BY <1>9
  <2>1. PICK i \in Bad : \A j \in Bad : i <= j
    <3>1. Bad \in SUBSET (1 .. n)
      OBVIOUS
    <3> HIDE DEF Bad
    <3> QED
      BY <1>0, <1>1, <3>1, LeastPlace
  <2>2. i # a /\ a < i /\ i <= b /\ i - 1 \in 1 .. n /\ i - 1 \notin Bad
    BY <1>0, <1>1, <2>1
  <2>3. read[i - 1].band = read[a].band
    BY <1>0, <1>1, <2>2
  <2>4. i \in starts
    BY <1>3, <2>1, <2>3
  <2> QED
    BY <1>8, <1>9, <2>2, <2>4
<1>10. ASSUME NEW a \in 1 .. n, NEW b \in 1 .. n, a <= b, read[a].band = read[b].band,
              X(b) - X(a) <= xGapThreshold
       PROVE  Rank(starts, a) = Rank(starts, b)
  <2> SUFFICES ASSUME NEW s \in starts, a < s, s <= b PROVE FALSE
    BY <1>8, <1>10
  <2>1. PICK r \in 1 .. n : r = s - 1
    BY <1>4
  <2>2. s \in 1 .. n /\ a <= r /\ r < s /\ s # 1
    BY <1>4, <2>1
  <2>3. /\ read[a].band <= read[r].band /\ read[r].band <= read[s].band
        /\ read[s].band <= read[b].band
    <3>1. a < r \/ a = r
      BY <2>2
    <3>2. s < b \/ s = b
      BY <2>2
    <3> QED
      BY <1>0, <1>1, <1>2, <2>2, <3>1, <3>2
  <2>4. read[r].band = read[a].band /\ read[s].band = read[a].band
    BY <1>2, <1>10, <2>2, <2>3
  <2>5. X(a) <= X(r) /\ X(s) <= X(b)
    <3>1. a < r \/ a = r
      BY <2>2
    <3>2. s < b \/ s = b
      BY <2>2
    <3> QED
      BY <1>0, <1>1, <1>2, <1>10, <2>2, <2>4, <3>1, <3>2
  <2>6. X(s) - X(r) > xGapThreshold
    BY <1>3, <2>1, <2>2, <2>4
  <2> QED
    BY <1>2, <1>10, <2>2, <2>5, <2>6 DEF xGapThreshold
<1>11. ASSUME NEW a \in 1 .. n, NEW b \in 1 .. n, Rank(starts, a) = Rank(starts, b)
       PROVE  read[a].band = read[b].band
  <2>1. a <= b \/ b <= a
    OBVIOUS
  <2> QED
    BY <1>9, <1>11, <2>1
<1> QED
  BY <1>4, <1>7, <1>8, <1>10, <1>11 DEF X, AreRanks

-----------------------------------------------------------------------------
(* Pages.                                                                  *)

\* A number is no less than another, and ahead by no more than g, if their difference says so.
LEMMA Difference ==
  ASSUME NEW x \in Int, NEW y \in Int, NEW g \in Nat
  PROVE  x - y \in 0 .. g <=> y <= x /\ ~ x - y > g
OBVIOUS

\* The only member of a set of one is its greatest.
LEMMA MaxOfOne ==
  ASSUME NEW r \in Int
  PROVE  Max({r}) = r /\ Cardinality({r}) = 1
<1>1. Cardinality({r}) = 1
  BY FS_Singleton
<1>2. Max({r}) = r
  BY DEF Max
<1> QED
  BY <1>1, <1>2

\* The blocks of any page say what PageIsRead states.
LEMMA BlocksAreRead ==
  ASSUME NEW page \in Seq(Item)
  PROVE  PageIsRead(page, Blocks(page))
<1> DEFINE blocks == Blocks(page)
           Holding(i) == {b \in DOMAIN blocks : i \in Range(blocks[b].items)}
<1>0. PICK n \in Nat : n = Len(page) /\ DOMAIN page = 1 .. n
  OBVIOUS
<1>1. PICK read : read = ReadingOrder(page)
  OBVIOUS
<1>2. PICK starts : starts = ClusterStarts(page, read)
  OBVIOUS
<1>3. /\ read \in Readings(n)
      /\ \A i \in 1 .. n : \E a \in 1 .. n : read[a].item = i
      /\ \A a, b \in 1 .. n :
           /\ a < b => read[a].item # read[b].item
           /\ a < b => read[a].band <= read[b].band
           /\ a < b /\ read[a].band = read[b].band =>
                page[read[a].item].x <= page[read[b].item].x
           /\ read[a].band = read[b].band =>
                page[read[b].item].y - page[read[a].item].y <= yThreshold
           /\ page[read[a].item].y = page[read[b].item].y => read[a].band = read[b].band
           /\ page[read[a].item].y < page[read[b].item].y => read[a].band <= read[b].band
  <2>1. IsReading(page, n, read)
    BY <1>0, <1>1, ReadingOrderIs
  <2> QED
    BY <2>1, Zenon DEF IsReading, Readings
<1>4. /\ starts \in SUBSET (1 .. n)
      /\ \A a \in 1 .. n : Rank(starts, a) \in 1 .. Cardinality(starts)
      /\ \A a, b \in 1 .. n :
           /\ a <= b => Rank(starts, a) <= Rank(starts, b)
           /\ Rank(starts, a) = Rank(starts, b) => read[a].band = read[b].band
           /\ /\ a <= b /\ read[a].band = read[b].band
              /\ page[read[b].item].x - page[read[a].item].x <= xGapThreshold
              => Rank(starts, a) = Rank(starts, b)
  <2>1. AreRanks(page, n, read, starts)
    BY <1>0, <1>1, <1>2, RanksAre
  <2> QED
    BY <2>1 DEF AreRanks
<1> DEFINE c == Cardinality(starts)
<1>5. blocks = [b \in 1 .. c |-> [type |-> BlockType(page, Cluster(read, starts, b)),
                                 items |-> Cluster(read, starts, b)]]
  BY <1>1, <1>2 DEF Blocks
<1>6. c \in Nat
  BY <1>0, <1>4, PositionsFinite, FS_CardinalityType
<1> HIDE DEF blocks, c
<1>7. DOMAIN blocks = 1 .. c
  BY <1>5
<1>8. \A b \in 1 .. c : /\ blocks[b].items = Cluster(read, starts, b)
                        /\ blocks[b].type = BlockType(page, Cluster(read, starts, b))
  BY <1>5
<1>9. \A b : IsCluster(n, read, starts, b, Cluster(read, starts, b))
  <2> TAKE b
  <2>1. \A a, d \in 1 .. n : a < d => read[a].item # read[d].item
    BY <1>3
  <2>2. starts \in SUBSET (1 .. n) /\ read \in Readings(n)
    BY <1>3, <1>4
  <2> QED
    BY <1>0, <2>1, <2>2, ClusterIs
<1>10. \A a \in 1 .. n : /\ read[a].item \in 1 .. n /\ read[a].band \in Int
                        /\ Rank(starts, a) \in Int
  BY <1>3, <1>4, <1>6 DEF Readings, c
<1>11. \A a \in 1 .. n : Holding(read[a].item) = {Rank(starts, a)}
  <2> SUFFICES ASSUME NEW a \in 1 .. n PROVE Holding(read[a].item) = {Rank(starts, a)}
    OBVIOUS
  <2>1. ASSUME NEW b \in 1 .. c
        PROVE  read[a].item \in Range(blocks[b].items) <=> b = Rank(starts, a)
    <3>1. Range(blocks[b].items) = {read[m].item : m \in OfCluster(n, starts, b)}
      BY <1>8, <1>9 DEF IsCluster
    <3>2. \A m \in 1 .. n : read[m].item = read[a].item => m = a
      BY <1>3
    <3> QED
      BY <3>1, <3>2 DEF OfCluster
  <2>2. Rank(starts, a) \in 1 .. c
    BY <1>4 DEF c
  <2> QED
    BY <1>7, <2>1, <2>2
<1> HIDE DEF Holding
<1>12. ASSUME NEW i \in 1 .. n
       PROVE  \E a \in 1 .. n : /\ read[a].item = i
                                /\ Max(Holding(i)) = Rank(starts, a)
                                /\ Cardinality(Holding(i)) = 1
  <2>1. PICK a \in 1 .. n : read[a].item = i
    BY <1>3
  <2> QED
    BY <1>10, <1>11, <2>1, MaxOfOne
<1>13. ASSUME NEW b \in DOMAIN blocks
       PROVE  /\ IsInjective(blocks[b].items)
              /\ blocks[b].type = "table" => Len(blocks[b].items) >= 10
  <2> DEFINE cluster == Cluster(read, starts, b)
  <2>1. /\ blocks[b].items = cluster
        /\ blocks[b].type = BlockType(page, cluster)
    BY <1>7, <1>8
  <2>2. /\ cluster \in Seq(1 .. n)
        /\ IsInjective(cluster)
        /\ \A k \in 1 .. Len(cluster) - 1 : \E m \in 1 .. n :
             /\ m + 1 \in 1 .. n /\ m + 1 \notin starts
             /\ cluster[k] = read[m].item /\ cluster[k + 1] = read[m + 1].item
    BY <1>9 DEF IsCluster
  <2> HIDE DEF cluster
  <2>3. ASSUME NEW k \in 1 .. Len(cluster) - 1
        PROVE  page[cluster[k + 1]].x - page[cluster[k]].x \in 0 .. xGapThreshold
    <3>1. PICK m \in 1 .. n : /\ m + 1 \in 1 .. n /\ m + 1 \notin starts
                              /\ cluster[k] = read[m].item /\ cluster[k + 1] = read[m + 1].item
      BY <2>2
    <3>2. PICK q \in 1 .. n : q = m + 1
      BY <3>1
    <3>3. DOMAIN read = 1 .. n /\ q # 1 /\ q - 1 = m
      BY <1>3, <3>2 DEF Readings
    <3>4. /\ read[q].band = read[m].band
          /\ ~ page[read[q].item].x - page[read[m].item].x > xGapThreshold
      BY <1>2, <3>1, <3>2, <3>3 DEF ClusterStarts
    <3>5. page[read[m].item].x <= page[read[q].item].x
      BY <1>3, <3>2, <3>4
    <3>6. page[read[m].item] \in Item /\ page[read[q].item] \in Item
      BY <1>0, <1>10
    <3>7. page[read[m].item].x \in Int /\ page[read[q].item].x \in Int
      BY <3>6 DEF Item
    <3> QED
      BY <3>1, <3>2, <3>4, <3>5, <3>7, Difference DEF xGapThreshold
  <2>4. BlockType(page, cluster) = "table" => Len(cluster) >= 10
    BY <1>0, <2>2, <2>3, TablesAreLong
  <2> QED
    BY <2>1, <2>2, <2>4
<1>14. ASSUME NEW i \in 1 .. n, NEW j \in 1 .. n
       PROVE  /\ Max(Holding(i)) = Max(Holding(j)) => page[i].y - page[j].y <= yThreshold
              /\ page[i].y = page[j].y /\ page[i].x - page[j].x \in 0 .. xGapThreshold
                   => Max(Holding(i)) = Max(Holding(j))
              /\ page[j].y - page[i].y > yThreshold => Max(Holding(i)) < Max(Holding(j))
  <2>1. PICK a \in 1 .. n : read[a].item = i /\ Max(Holding(i)) = Rank(starts, a)
    BY <1>12
  <2>2. PICK d \in 1 .. n : read[d].item = j /\ Max(Holding(j)) = Rank(starts, d)
    BY <1>12
  <2>3. page[i] \in Item /\ page[j] \in Item
    BY <1>0
  <2>4. page[i].x \in Int /\ page[i].y \in Int /\ page[j].x \in Int /\ page[j].y \in Int
    BY <2>3 DEF Item
  <2>5. Rank(starts, a) = Rank(starts, d) => page[i].y - page[j].y <= yThreshold
    BY <1>3, <1>4, <2>1, <2>2
  <2>6. ASSUME page[i].y = page[j].y, page[i].x - page[j].x \in 0 .. xGapThreshold
        PROVE  Rank(starts, a) = Rank(starts, d)
    <3>1. read[a].band = read[d].band
      BY <1>3, <2>1, <2>2, <2>6
    <3>2. /\ page[i].x - page[j].x <= xGapThreshold
          /\ page[j].x - page[i].x <= xGapThreshold
      <4> DEFINE xi == page[i].x  xj == page[j].x
      <4>1. xi \in Int /\ xj \in Int /\ xi - xj \in 0 .. 25
        BY <2>4, <2>6 DEF xGapThreshold
      <4> HIDE DEF xi, xj
      <4>2. xi - xj <= 25 /\ xj - xi <= 25
        BY <4>1
      <4> QED
        BY <4>2 DEF xi, xj, xGapThreshold
    <3>3. a <= d \/ d <= a
      OBVIOUS
    <3> QED
      BY <1>4, <2>1, <2>2, <3>1, <3>2, <3>3
  <2>7. ASSUME page[j].y - page[i].y > yThreshold
        PROVE  Rank(starts, a) < Rank(starts, d)
    <3>1. read[a].band # read[d].band
      <4>1. read[a].band = read[d].band => page[j].y - page[i].y <= yThreshold
        BY <1>3, <2>1, <2>2
      <4> QED
        BY <2>4, <2>7, <4>1 DEF yThreshold
    <3>2. page[i].y < page[j].y
      BY <2>4, <2>7 DEF yThreshold
    <3>3. read[a].band < read[d].band
      <4>1. read[a].band <= read[d].band
        BY <1>3, <2>1, <2>2, <3>2
      <4> QED
        BY <1>10, <3>1, <4>1
    <3>4. a < d
      <4>1. d < a => read[d].band <= read[a].band
        BY <1>3
      <4> QED
        BY <1>10, <3>3, <4>1
    <3>5. Rank(starts, a) <= Rank(starts, d)
      BY <1>4, <3>4
    <3>6. Rank(starts, a) # Rank(starts, d)
      BY <1>4, <3>1
    <3> QED
      BY <1>10, <3>5, <3>6
  <2> QED
    BY <2>1, <2>2, <2>5, <2>6, <2>7
<1>15. \A i \in DOMAIN page : Cardinality(Holding(i)) = 1
  BY <1>0, <1>12
<1>16. \A b \in DOMAIN blocks : /\ IsInjective(blocks[b].items)
                                /\ blocks[b].type = "table" => Len(blocks[b].items) >= 10
  BY <1>13
<1>17. \A i, j \in DOMAIN page :
         /\ Max(Holding(i)) = Max(Holding(j)) => page[i].y - page[j].y <= yThreshold
         /\ page[i].y = page[j].y /\ page[i].x - page[j].x \in 0 .. xGapThreshold
              => Max(Holding(i)) = Max(Holding(j))
         /\ page[j].y - page[i].y > yThreshold => Max(Holding(i)) < Max(Holding(j))
  BY <1>0, <1>14
<1>18. PageIsRead(page, blocks)
  <2> USE DEF Holding
  <2> QED
    BY <1>15, <1>16, <1>17 DEF PageIsRead
<1> QED
  BY <1>18 DEF blocks

-----------------------------------------------------------------------------
(* The endpoints.                                                          *)

\* The files posted stay what they are, and a digital result has the blocks of its pages.
ResultsAre ==
  /\ posted \in Seq(Files)
  /\ DOMAIN repository = DOMAIN posted
  /\ \A n \in DOMAIN posted : repository[n].strategy = "digital" =>
       repository[n].records = DigitalRecords(posted[n])

LEMMA ResultsInvariance == DirectSpec => []ResultsAre
<1>1. DirectInit => ResultsAre
  <2> SUFFICES ASSUME DirectInit PROVE ResultsAre
    OBVIOUS
  <2>1. posted \in Seq(Files)
    BY PostsAssumption DEF DirectInit
  <2>2. repository = [n \in DOMAIN posted |-> Unsaved("none")]
    BY DEF DirectInit
  <2>3. Unsaved("none").strategy # "digital"
    BY DEF Unsaved
  <2> QED
    BY <2>1, <2>2, <2>3 DEF ResultsAre
<1>2. ResultsAre /\ [DirectNext]_<<vars, directVars>> => ResultsAre'
  <2> SUFFICES ASSUME ResultsAre, [DirectNext]_<<vars, directVars>> PROVE ResultsAre'
    OBVIOUS
  <2>1. CASE UNCHANGED directVars
    BY <2>1 DEF ResultsAre, directVars
  <2>2. ASSUME NEW n \in DOMAIN posted, ExtractPdf(n) PROVE ResultsAre'
    <3>1. /\ posted' = posted /\ DOMAIN repository' = DOMAIN repository
          /\ \A m \in DOMAIN posted : m # n => repository'[m] = repository[m]
          /\ repository'[n] = [strategy |-> Strategy(posted[n]), records |-> Records(posted[n])]
      BY <2>2 DEF ExtractPdf, ResultsAre
    <3>2. Strategy(posted[n]) = "digital" => Records(posted[n]) = DigitalRecords(posted[n])
      BY DEF Strategy, Records
    <3> QED
      BY <3>1, <3>2 DEF ResultsAre
  <2>3. ASSUME NEW n \in DOMAIN posted, ExtractPdfFails(n) PROVE ResultsAre'
    <3>1. /\ posted' = posted /\ DOMAIN repository' = DOMAIN repository
          /\ \A m \in DOMAIN posted : m # n => repository'[m] = repository[m]
          /\ repository'[n] = Unsaved("failed")
      BY <2>3 DEF ExtractPdfFails, ResultsAre
    <3>2. Unsaved("failed").strategy # "digital"
      BY DEF Unsaved
    <3> QED
      BY <3>1, <3>2 DEF ResultsAre
  <2> QED
    BY <2>1, <2>2, <2>3 DEF DirectNext
<1> QED
  BY <1>1, <1>2, PTL DEF DirectSpec

\* The result that is saved of a digital PDF says of every page, whatever lies on it, what
\* PageIsRead states: each item in one block, no block higher than a band, neighbours
\* together, from top to bottom; and no table of fewer than ten items.
THEOREM PagesAreRead == DirectSpec => []PdfPagesAreRead
<1>1. ResultsAre => PdfPagesAreRead
  <2> SUFFICES ASSUME ResultsAre, NEW n \in DOMAIN posted, repository[n].strategy = "digital",
                      NEW p \in DOMAIN posted[n].pages
               PROVE  PageIsRead(posted[n].pages[p], repository[n].records[p])
    BY DEF PdfPagesAreRead
  <2>1. posted \in Seq(Files)
    BY DEF ResultsAre
  <2>2. posted[n] \in Files
    BY <2>1, MembersTyped
  <2>3. posted[n].pages \in Seq(Seq(Item))
    BY <2>2 DEF Files
  <2>4. posted[n].pages[p] \in Seq(Item)
    BY <2>3, MembersTyped
  <2>5. repository[n].records[p] = Blocks(posted[n].pages[p])
    BY DEF ResultsAre, DigitalRecords
  <2> QED
    BY <2>4, <2>5, BlocksAreRead
<1> QED
  BY <1>1, ResultsInvariance, PTL

\* The endpoints leave the spreadsheets as XlsxSheets has them: what is proved of the jobs and
\* of the direct uploads holds beside the extraction of PDFs.
THEOREM DirectImplementsSheets == DirectSpec => FairSpec
<1>1. DirectInit => Init
  BY DEF DirectInit
<1>2. [DirectNext]_<<vars, directVars>> => [Next]_vars
  BY DEF DirectNext, ExtractPdf, ExtractPdfFails
<1> QED
  BY <1>1, <1>2, PTL DEF DirectSpec, FairSpec, Spec
=============================================================================
