--------------------------- MODULE DirectExtraction ---------------------------
(***************************************************************************)
(* The endpoints that extract a file at once, POST /extractions/csv, xlsx  *)
(* and pdf (controllers/extraction.controller.ts), beside the jobs of the  *)
(* worker in the same process, and ExtractionRepository, the map in memory *)
(* they save their results in (all under src/backend/src).  A spreadsheet  *)
(* is XlsxSheets!ExtractDirectly; here are the PDFs, whose records a job   *)
(* would count and drop.                                                   *)
(***************************************************************************)
EXTENDS XlsxSheets, PdfText

CONSTANT
  Posts  \* what is posted together: the PDFs, and the workbooks as in XlsxSheets

ASSUME PostsAssumption ==
  \A post \in Posts : post[1] \in Seq(Files) /\ post[2] \in Upload

VARIABLES
  posted,      \* the PDFs to extract
  repository   \* per PDF: the result that was saved; strategy "none" is none yet

directVars == <<posted, repository>>

Strategy(file) == IF IsLikelyScannedPdf(file) THEN "scanned" ELSE "digital"

Unsaved(why) == [strategy |-> why, records |-> <<>>]

Records(file) ==
  IF IsLikelyScannedPdf(file) THEN ScannedRecords(file) ELSE DigitalRecords(file)

DirectInit ==
  /\ \E post \in Posts : posted = post[1] /\ workbook = post[2]
  /\ Init
  /\ repository = [n \in DOMAIN posted |-> Unsaved("none")]

\* extractPdf: nothing a PDF's extraction awaits is shared with another file.
ExtractPdf(n) ==
  /\ loop = NoFile
  /\ repository[n] = Unsaved("none")
  /\ repository' = [repository EXCEPT
       ![n] = [strategy |-> Strategy(posted[n]), records |-> Records(posted[n])]]
  /\ UNCHANGED <<posted, vars>>

\* pdfjs cannot read the file: the error answers the request, and nothing is saved.
ExtractPdfFails(n) ==
  /\ loop = NoFile
  /\ repository[n] = Unsaved("none")
  /\ Strategy(posted[n]) = "digital"
  /\ repository' = [repository EXCEPT ![n] = Unsaved("failed")]
  /\ UNCHANGED <<posted, vars>>

DirectNext ==
  \/ Next /\ UNCHANGED directVars
  \/ \E n \in DOMAIN posted : ExtractPdf(n) \/ ExtractPdfFails(n)

\* No property asks of a PDF that it is read in the end.
DirectSpec == DirectInit /\ [][DirectNext]_<<vars, directVars>> /\ Fairness

-----------------------------------------------------------------------------
(* Safety.                                                                 *)

\* What a saved digital result says of a page: every text item is in exactly one block; a
\* block spans no more than a band; items of one height whose edges are near are together;
\* and an item that is more than a band above another is read before it.  Hence, too,
\* a block is a 'table' only if it is one run of ten items or more: the gaps between the
\* columns of a table would have to be under 26 points (extractDigitalPDF.ts 115-225).
PageIsRead(page, blocks) ==
  LET Holding(i) == {n \in DOMAIN blocks : i \in Range(blocks[n].items)} IN
  /\ \A i \in DOMAIN page : Cardinality(Holding(i)) = 1
  /\ \A n \in DOMAIN blocks : /\ IsInjective(blocks[n].items)
                              /\ blocks[n].type = "table" => Len(blocks[n].items) >= 10
  /\ \A i, j \in DOMAIN page : LET m == Max(Holding(i))  n == Max(Holding(j)) IN
       /\ m = n => page[i].y - page[j].y <= yThreshold
       /\ page[i].y = page[j].y /\ page[i].x - page[j].x \in 0 .. xGapThreshold => m = n
       /\ page[j].y - page[i].y > yThreshold => m < n

PdfPagesAreRead ==
  \A n \in DOMAIN posted : repository[n].strategy = "digital" =>
     \A p \in DOMAIN posted[n].pages :
       PageIsRead(posted[n].pages[p], repository[n].records[p])
=============================================================================
