------------------------------- MODULE PdfText -------------------------------
(***************************************************************************)
(* What becomes of a PDF: the choice between text and OCR                  *)
(* (services/extractPDF.ts), and the grouping of a page's text into blocks *)
(* (services/extractDigitalPDF.ts, both under src/backend/src).            *)
(*                                                                         *)
(* A page is the sequence of its text items, an item the place of its      *)
(* upper left corner in points, y growing downwards; of the coordinates    *)
(* only whole points are looked at.  Bands, clusters and blocks hold the   *)
(* positions of their items in the page.                                   *)
(***************************************************************************)
EXTENDS InOrder, FiniteSetsExt

yThreshold == 12
xGapThreshold == 25
xVarianceOfTable == 5000
yVarianceOfTable == 100
PrintableMinimum == 25

Item == [x : Int, y : Int]

\* A file: the marker SCANNED_PDF or OCR_TEXT:, %PDF with three letters, its printable
\* characters, the lines behind OCR_TEXT:, and the pages pdfjs reads in it.
Files == [marker : BOOLEAN, header : BOOLEAN, printable : Nat,
          ocrLines : Seq({"text", "blank"}), pages : Seq(Seq(Item))]

IsLikelyScannedPdf(file) ==
  \/ file.marker
  \/ ~ file.header /\ file.printable < PrintableMinimum

\* The places of a sequence of pairs of numbers in the order of the pairs; equals stay in
\* their order, as in every sort here.
NotAfter(keys, k, l) ==
  \/ keys[k][1] < keys[l][1]
  \/ keys[k][1] = keys[l][1] /\ keys[k][2] < keys[l][2]
  \/ keys[k] = keys[l] /\ k <= l
Place(keys, k) == Cardinality({l \in DOMAIN keys : NotAfter(keys, l, k)})
Sorted(keys) == [n \in DOMAIN keys |-> CHOOSE k \in DOMAIN keys : Place(keys, k) = n]

SortedByY(page) == Sorted([i \in DOMAIN page |-> <<page[i].y, 0>>])

\* Mutant of FirstOfBand: an item is compared with the one before it.
FirstOfBandDrifting(ys) ==
  LET first[k \in 0 .. Len(ys)] ==
        IF k <= 1 THEN 1 ELSE IF ys[k] - ys[k - 1] > yThreshold THEN k ELSE first[k - 1]
  IN first

\* groupIntoYBands: where the band of each item begins.  An item too far below the first one
\* of the current band begins another.
FirstOfBand(ys) ==
  LET first[k \in 0 .. Len(ys)] ==
        IF k = 0 THEN 1
        ELSE LET current == first[k - 1] IN
             IF ys[k] - ys[current] > yThreshold THEN k ELSE current
  IN first

\* The items in the order they are read: band by band, and from the left in each.
ReadingOrder(page) ==
  LET byY == SortedByY(page)
      band == FirstOfBand([k \in DOMAIN byY |-> page[byY[k]].y])
      byX == Sorted([k \in DOMAIN byY |-> <<band[k], page[byY[k]].x>>])
  IN [n \in DOMAIN byX |-> [item |-> byY[byX[n]], band |-> band[byX[n]]]]

\* groupByXGaps: where a cluster begins.  An item is compared with the one before it, left
\* edge with left edge.
ClusterStarts(page, read) ==
  {n \in DOMAIN read :
     \/ n = 1
     \/ read[n].band # read[n - 1].band
     \/ page[read[n].item].x - page[read[n - 1].item].x > xGapThreshold}

Total(numbers) ==
  LET sum[k \in 0 .. Len(numbers)] == IF k = 0 THEN 0 ELSE sum[k - 1] + numbers[k]
  IN sum[Len(numbers)]

\* n * n times the variance of n numbers.
ScaledVariance(numbers) ==
  Len(numbers) * Total([k \in DOMAIN numbers |-> numbers[k] * numbers[k]])
    - Total(numbers) * Total(numbers)

\* detectBlockType; a 'header' would need at most two items, which are a 'paragraph'
\* before that is looked at.
BlockType(page, cluster) ==
  LET n == Len(cluster) IN
  IF /\ n >= 3
     /\ ScaledVariance([k \in 1 .. n |-> page[cluster[k]].x]) > xVarianceOfTable * n * n
     /\ ScaledVariance([k \in 1 .. n |-> page[cluster[k]].y]) < yVarianceOfTable * n * n
  THEN "table" ELSE "paragraph"

\* The items of the b-th cluster.
Cluster(read, starts, b) ==
  LET own == {n \in DOMAIN read : Rank(starts, n) = b}
  IN [k \in 1 .. Cardinality(own) |-> read[InOrder(own)[k]].item]

\* groupSpatially.
Blocks(page) ==
  LET read == ReadingOrder(page)
      starts == ClusterStarts(page, read)
  IN [b \in 1 .. Cardinality(starts) |->
       [type |-> BlockType(page, Cluster(read, starts, b)), items |-> Cluster(read, starts, b)]]

\* convertToRecords: the blocks of the pages, here kept by page.
DigitalRecords(file) == [p \in DOMAIN file.pages |-> Blocks(file.pages[p])]

\* mapOcrTextToRecords; without OCR_TEXT: what is printable becomes one line.
ScannedRecords(file) ==
  LET lines == IF file.ocrLines # <<>> THEN file.ocrLines
               ELSE IF file.printable > 0 THEN <<"text">> ELSE <<>>
      kept == SelectSeq(lines, LAMBDA l : l = "text")
  IN [n \in DOMAIN kept |-> [line |-> n]]
=============================================================================
