------------------------------ MODULE XlsxSheets ------------------------------
(***************************************************************************)
(* Spreadsheets extracted at the same time (services/extractXLSX.ts,       *)
(* helpers/row-validation.helper.ts, under src/backend/src).               *)
(*                                                                         *)
(* The worker runs several jobs in one Node process and all of them, and   *)
(* the endpoint that extracts a file at once, use                          *)
(* the one XlsxExtractionService, with its one RowValidationHelper: the    *)
(* header count a sheet is validated against is a field of that helper.    *)
(* Each file is read twice, first for sample rows, then row by row with    *)
(* an await for every row.  Only some of these awaits wait for a service;  *)
(* until then the file keeps the event loop, which is `loop' here.         *)
(***************************************************************************)
EXTENDS SheetHeader

CONSTANTS
  File,                     \* the files in extraction
  Direct,                   \* those posted to /extractions/xlsx, the others are jobs
  NoFile,                   \* "the event loop is idle"
  Upload,                   \* what is uploaded together: per file, its sheets
  DETERMINISTIC_BATCH_SIZE

ASSUME FileAssumption ==
  /\ NoFile \notin File
  /\ Direct \subseteq File
  /\ Upload \subseteq [File -> Seq(Seq(Seq(Cells)))]
  /\ DETERMINISTIC_BATCH_SIZE \in Nat \ {0}

VARIABLES
  workbook,     \* per file: its sheets
  header,       \* per file and sheet: its header row and that row's length
  loop,         \* the file whose code runs
  headerCount,  \* RowValidationHelper.headerCount
  pc,           \* per file: where extractWithProcessor stands
  sheet, row,   \* per file: the sheet and the row it is at
  width,        \* per file: headers.length of that sheet
  empties,      \* per file: consecutiveEmptyRows
  batch,        \* per file: the rows in the deterministic batch
  carried,      \* per file: the rows of the enqueue it waits for
  stored,       \* per file: the rows the persistence queue has accepted, or the answer holds
  failed,       \* per file: the rows lost with an enqueue that threw
  rejected      \* per file: the rows rejected for their column count

content == <<workbook, header>>
place == <<sheet, row, width, empties>>
rows == <<batch, carried, stored, failed, rejected>>
vars == <<content, loop, headerCount, pc, place, rows>>

Pcs == {"new", "infer", "sheets", "rows", "enqueue", "flush", "drain", "done", "threw"}
RowId == Nat \X Nat

TypeOK ==
  /\ workbook \in Upload
  /\ \A f \in File : /\ DOMAIN header[f] = DOMAIN workbook[f]
                     /\ \A n \in DOMAIN header[f] : header[f][n] \in [row : Nat, length : Nat]
  /\ loop \in File \union {NoFile}
  /\ headerCount \in Nat
  /\ pc \in [File -> Pcs]
  /\ sheet \in [File -> Nat] /\ row \in [File -> Nat]
  /\ width \in [File -> Nat]
  /\ empties \in [File -> 0 .. MaxConsecutiveEmpty]
  /\ batch \in [File -> SUBSET RowId] /\ carried \in [File -> SUBSET RowId]
  /\ stored \in [File -> SUBSET RowId] /\ failed \in [File -> SUBSET RowId]
  /\ rejected \in [File -> SUBSET RowId]

\* Both passes look for the header of a sheet, and find the same one; it is kept in
\* `header' only to be computed once.
HeaderOf(s) == [row |-> DetectHeaderRow(s), length |-> HeaderLength(s)]

Init ==
  /\ workbook \in Upload
  /\ header = [f \in File |-> [n \in DOMAIN workbook[f] |-> HeaderOf(workbook[f][n])]]
  /\ loop = NoFile
  /\ headerCount = 0
  /\ pc = [f \in File |-> "new"]
  /\ sheet = [f \in File |-> 1] /\ row = [f \in File |-> 0]
  /\ width = [f \in File |-> 0] /\ empties = [f \in File |-> 0]
  /\ batch = [f \in File |-> {}] /\ carried = [f \in File |-> {}]
  /\ stored = [f \in File |-> {}] /\ failed = [f \in File |-> {}]
  /\ rejected = [f \in File |-> {}]

-----------------------------------------------------------------------------
Goto(f, step) == pc' = [pc EXCEPT ![f] = step]

\* An answer of a service arrives while no other code runs.
Resumes(f, step) == loop = NoFile /\ pc[f] = step
Runs(f, step) == loop = f /\ pc[f] = step

CurrentSheet(f) == workbook[f][sheet[f]]
SheetsWithHeader(f) == {n \in DOMAIN workbook[f] : header[f][n].row # NoRow}

DataOf(f) == UNION {{n} \X DataRows(workbook[f][n], header[f][n]) : n \in DOMAIN workbook[f]}

LastHeaderCount(f) == IF SheetsWithHeader(f) = {} THEN headerCount
                      ELSE header[f][Max(SheetsWithHeader(f))].length

\* extractDataFromXlsx: the workbook is read without a wait, every sheet against the count
\* it has just set, and its rows are the answer's.
ExtractDirectly(f) ==
  /\ f \in Direct
  /\ Resumes(f, "new")
  /\ headerCount' = LastHeaderCount(f)
  /\ stored' = [stored EXCEPT ![f] = DataOf(f)]
  /\ Goto(f, "done")
  /\ UNCHANGED <<content, loop, place, batch, carried, failed, rejected>>

\* A job starts: the sample pass.  It waits for no service, so that nothing interleaves
\* with it; every sheet with a header sets the header count.  With no sample row the
\* schema is empty at once, else the file waits for the inference.
SamplePass(f) ==
  /\ f \notin Direct
  /\ Resumes(f, "new")
  /\ headerCount' = LastHeaderCount(f)
  /\ IF DataOf(f) # {}
     THEN Goto(f, "infer") /\ loop' = NoFile
     ELSE Goto(f, "sheets") /\ loop' = f
  /\ UNCHANGED <<content, place, rows>>

Inferred(f) ==
  /\ Resumes(f, "infer")
  /\ Goto(f, "sheets")
  /\ loop' = f
  /\ UNCHANGED <<content, headerCount, place, rows>>

\* Mutant of StartSheet: the header count is left as the sample pass set it.
StartSheetUncounted(f) ==
  /\ Runs(f, "sheets")
  /\ sheet[f] \in SheetsWithHeader(f)
  /\ width' = [width EXCEPT ![f] = header[f][sheet[f]].length]
  /\ row' = [row EXCEPT ![f] = header[f][sheet[f]].row + 1]
  /\ empties' = [empties EXCEPT ![f] = 0]
  /\ Goto(f, "rows")
  /\ UNCHANGED <<content, loop, headerCount, sheet, rows>>

\* The process pass takes a sheet: its header, and the count for the validator.
StartSheet(f) ==
  /\ Runs(f, "sheets")
  /\ sheet[f] \in SheetsWithHeader(f)
  /\ headerCount' = header[f][sheet[f]].length
  /\ width' = [width EXCEPT ![f] = header[f][sheet[f]].length]
  /\ row' = [row EXCEPT ![f] = header[f][sheet[f]].row + 1]
  /\ empties' = [empties EXCEPT ![f] = 0]
  /\ Goto(f, "rows")
  /\ UNCHANGED <<content, loop, sheet, rows>>

\* A sheet without '!ref' or without a header.
SkipSheet(f) ==
  /\ Runs(f, "sheets")
  /\ sheet[f] \in DOMAIN workbook[f] \ SheetsWithHeader(f)
  /\ sheet' = [sheet EXCEPT ![f] = @ + 1]
  /\ UNCHANGED <<content, loop, headerCount, pc, row, width, empties, rows>>

SheetsOver(f) ==
  /\ Runs(f, "sheets")
  /\ sheet[f] \notin DOMAIN workbook[f]
  /\ Goto(f, "flush")
  /\ UNCHANGED <<content, loop, headerCount, place, rows>>

AtRow(f) == Runs(f, "rows") /\ row[f] \in DOMAIN CurrentSheet(f)
                            /\ empties[f] < MaxConsecutiveEmpty

\* Mutant of EmptyRow and the others: the run of empty rows is not interrupted.
AdvanceKeeping(f) ==
  /\ row' = [row EXCEPT ![f] = @ + 1]
  /\ UNCHANGED empties

\* The loop goes on with the next row; the row was not empty.
Advance(f) ==
  /\ row' = [row EXCEPT ![f] = @ + 1]
  /\ empties' = [empties EXCEPT ![f] = 0]

EmptyRow(f) ==
  /\ AtRow(f)
  /\ IsEmptyRow(CurrentSheet(f)[row[f]], width[f])
  /\ row' = [row EXCEPT ![f] = @ + 1]
  /\ empties' = [empties EXCEPT ![f] = @ + 1]
  /\ UNCHANGED <<content, loop, headerCount, pc, sheet, width, rows>>

NoteRow(f) ==
  /\ AtRow(f)
  /\ IsTrailingNoteRow(CurrentSheet(f)[row[f]], width[f])
  /\ Advance(f)
  /\ UNCHANGED <<content, loop, headerCount, pc, sheet, width, rows>>

AtDataRow(f) == AtRow(f) /\ ~ IsEmptyRow(CurrentSheet(f)[row[f]], width[f])
                         /\ ~ IsTrailingNoteRow(CurrentSheet(f)[row[f]], width[f])
This(f) == <<sheet[f], row[f]>>

\* validateRow(): the row, cut to its own header's length, is held against the shared
\* count, and a row that differs is dropped with a warning nobody reads.
RejectRow(f) ==
  /\ AtDataRow(f)
  /\ headerCount > 0 /\ width[f] # headerCount
  /\ Advance(f)
  /\ rejected' = [rejected EXCEPT ![f] = @ \union {This(f)}]
  /\ UNCHANGED <<content, loop, headerCount, pc, sheet, width, batch, carried, stored, failed>>

Accepts(f) == headerCount = 0 \/ width[f] = headerCount

\* processRow() with room in the batch: no service is waited for.
AcceptRow(f) ==
  /\ AtDataRow(f)
  /\ Accepts(f)
  /\ Cardinality(batch[f]) < DETERMINISTIC_BATCH_SIZE
  /\ Advance(f)
  /\ batch' = [batch EXCEPT ![f] = @ \union {This(f)}]
  /\ UNCHANGED <<content, loop, headerCount, pc, sheet, width, carried, stored, failed, rejected>>

\* processRow() with a full batch: it is taken, and the file waits for its enqueue.
\* The loop is free for another file.
FlushBatch(f) ==
  /\ AtDataRow(f)
  /\ Accepts(f)
  /\ Cardinality(batch[f]) >= DETERMINISTIC_BATCH_SIZE
  /\ carried' = [carried EXCEPT ![f] = batch[f]]
  /\ batch' = [batch EXCEPT ![f] = {}]
  /\ loop' = NoFile
  /\ Goto(f, "enqueue")
  /\ UNCHANGED <<content, headerCount, place, stored, failed, rejected>>

\* enqueue() returns: the row that waited joins the batch, and the loop goes on.
Enqueued(f) ==
  /\ Resumes(f, "enqueue")
  /\ loop' = f
  /\ Goto(f, "rows")
  /\ stored' = [stored EXCEPT ![f] = @ \union carried[f]]
  /\ carried' = [carried EXCEPT ![f] = {}]
  /\ batch' = [batch EXCEPT ![f] = @ \union {This(f)}]
  /\ Advance(f)
  /\ UNCHANGED <<content, headerCount, sheet, width, failed, rejected>>

\* enqueue() throws: a warning for the row, and the loop goes on.
EnqueueThrows(f) ==
  /\ Resumes(f, "enqueue")
  /\ loop' = f
  /\ Goto(f, "rows")
  /\ failed' = [failed EXCEPT ![f] = @ \union carried[f] \union {This(f)}]
  /\ carried' = [carried EXCEPT ![f] = {}]
  /\ Advance(f)
  /\ UNCHANGED <<content, headerCount, sheet, width, batch, stored, rejected>>

\* Mutant of RowsOver: the sheet is not left after too many empty rows.
RowsOverAtEndOnly(f) ==
  /\ Runs(f, "rows")
  /\ row[f] \notin DOMAIN CurrentSheet(f)
  /\ sheet' = [sheet EXCEPT ![f] = @ + 1]
  /\ Goto(f, "sheets")
  /\ UNCHANGED <<content, loop, headerCount, row, width, empties, rows>>

\* The sheet is over, or too many empty rows were read.
RowsOver(f) ==
  /\ Runs(f, "rows")
  /\ row[f] \notin DOMAIN CurrentSheet(f) \/ empties[f] >= MaxConsecutiveEmpty
  /\ sheet' = [sheet EXCEPT ![f] = @ + 1]
  /\ Goto(f, "sheets")
  /\ UNCHANGED <<content, loop, headerCount, row, width, empties, rows>>

\* flush(): the rest is enqueued and the queue drained.  A file without an accepted row
\* has nothing to flush.
Flush(f) ==
  /\ Runs(f, "flush")
  /\ carried' = [carried EXCEPT ![f] = batch[f]]
  /\ batch' = [batch EXCEPT ![f] = {}]
  /\ loop' = NoFile
  /\ Goto(f, IF batch[f] \union stored[f] \union failed[f] = {} THEN "done" ELSE "drain")
  /\ UNCHANGED <<content, headerCount, place, stored, failed, rejected>>

Drained(f) ==
  /\ Resumes(f, "drain")
  /\ stored' = [stored EXCEPT ![f] = @ \union carried[f]]
  /\ carried' = [carried EXCEPT ![f] = {}]
  /\ Goto(f, "done")
  /\ UNCHANGED <<content, loop, headerCount, place, batch, failed, rejected>>

\* The last enqueue throws, and the extraction with it.
FlushThrows(f) ==
  /\ Resumes(f, "drain")
  /\ carried[f] # {}
  /\ failed' = [failed EXCEPT ![f] = @ \union carried[f]]
  /\ carried' = [carried EXCEPT ![f] = {}]
  /\ Goto(f, "threw")
  /\ UNCHANGED <<content, loop, headerCount, place, batch, stored, rejected>>

Step(f) ==
  \/ ExtractDirectly(f)
  \/ SamplePass(f) \/ Inferred(f)
  \/ StartSheet(f) \/ SkipSheet(f) \/ SheetsOver(f)
  \/ EmptyRow(f) \/ NoteRow(f) \/ RejectRow(f) \/ AcceptRow(f) \/ FlushBatch(f)
  \/ Enqueued(f) \/ EnqueueThrows(f) \/ RowsOver(f)
  \/ Flush(f) \/ Drained(f) \/ FlushThrows(f)

Next == \E f \in File : Step(f)

Spec == Init /\ [][Next]_vars

\* The event loop runs what is ready, and services answer: no fairness between the files
\* is needed, for each of them can take only so many steps.
Fairness == WF_vars(Next)
FairSpec == Spec /\ Fairness

-----------------------------------------------------------------------------
(* Safety.                                                                 *)

Started(f) == pc[f] # "new"
Ended(f) == pc[f] \in {"done", "threw"}

\* A row is rejected for its column count only when another file, with a sheet of another
\* width, was extracted meanwhile: every row is cut to its own header's length first, so
\* that a file on its own, or among files of its width, loses none
\* (extractXLSX.ts 364-410, row-validation.helper.ts 17-25).
RejectedForAnotherFile ==
  \A f \in File : \A id \in rejected[f] : \E g \in File \ {f} :
    /\ Started(g)
    /\ \E n \in SheetsWithHeader(g) :
         header[g][n].length # header[f][id[1]].length

\* When a file has been read, exactly its data rows are accounted for, each in one place:
\* the loop's counting of empty rows, its skipped sheets and notes, and the batches
\* taken in the middle of a sheet lose none and take none twice.
EveryDataRowAccountedFor ==
  \A f \in File :
    /\ Ended(f) => stored[f] \union failed[f] \union rejected[f] = DataOf(f)
    /\ LET places == <<batch[f], carried[f], stored[f], failed[f], rejected[f]>> IN
       \A m, n \in DOMAIN places : m # n => places[m] \intersect places[n] = {}

\* What the header strategies amount to, for every sheet of every file.
HeadersAreReasonable ==
  \A f \in File : \A n \in DOMAIN workbook[f] : HeaderIsReasonable(workbook[f][n])

(* Liveness, under FairSpec.                                               *)

\* Every extraction ends, whatever its sheets hold and however the files interleave.
EveryExtractionEnds == \A f \in File : <>Ended(f)
=============================================================================
