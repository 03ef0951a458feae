------------------------------ MODULE RowPipeline ------------------------------
(***************************************************************************)
(* One extraction of a file, from its parsed rows to the hand-over of the  *)
(* rows: the row loops of services/extractCSV.ts and extractXLSX.ts,       *)
(* helpers/extraction-processor.helper.ts and helpers/batch.helper.ts (all *)
(* under src/backend/src).  A deterministic row is handed to the           *)
(* persistence queue, an ambiguous one to the LLM enrichment.              *)
(*                                                                         *)
(* The spreadsheet loop awaits processRow() for every row.  The CSV stream *)
(* does not: its 'data' listener is an async function nobody awaits, and a *)
(* CSV file, one Buffer, is parsed in one tick, so that every row's        *)
(* listener starts before any of them resumes and 'end' waits for none.    *)
(*                                                                         *)
(* One step is what runs between two awaits.                               *)
(***************************************************************************)
EXTENDS Integers, FiniteSets

CONSTANTS
  RowCount,  \* bound: rows of the file
  DETERMINISTIC_BATCH_SIZE,
  AMBIGUOUS_BATCH_SIZE

ASSUME ConstantsAssumption ==
  /\ RowCount \in Nat
  /\ DETERMINISTIC_BATCH_SIZE \in Nat \ {0}
  /\ AMBIGUOUS_BATCH_SIZE \in Nat \ {0}

Row == 1 .. RowCount
Source == Row \union {0}  \* who hands a batch over: a row's handler, or flush()

VARIABLES
  streaming,          \* is the file a CSV file?  Otherwise it is a spreadsheet.
  kind,               \* what validation and detectAmbiguity say of each row
  read,               \* rows the parser has delivered
  hasBatchHelper,     \* has initialize() created the BatchHelper?
  pc,                 \* per row: where its handler stands
  deterministicBatch, \* the two arrays of the BatchHelper
  ambiguousBatch,
  carried,            \* per source: the batch of its pending enqueue/enrichBatch
  rest,               \* ambiguous rows flush() will enrich after its enqueue
  handed,             \* per row: times it was handed over
  failed,             \* rows of batches whose enqueue() threw
  main,               \* where extractWithProcessor stands
  processedCount, totalDeterministic, totalAmbiguous  \* the processor's counters

file == <<streaming, kind>>
batches == <<deterministicBatch, ambiguousBatch>>
stats == <<processedCount, totalDeterministic, totalAmbiguous>>
vars == <<file, read, hasBatchHelper, pc, batches, carried, rest, handed, failed,
          main, stats>>

Kinds == {"invalid", "deterministic", "ambiguous"}
HandlerSteps == {"unread", "init", "enqueue", "enrich", "done", "skipped"}
MainSteps == {"rows", "enqueue", "enrich", "drain", "ended", "threw", "crashed"}

TypeOK ==
  /\ streaming \in BOOLEAN
  /\ kind \in [Row -> Kinds]
  /\ read \in 0 .. RowCount
  /\ hasBatchHelper \in BOOLEAN
  /\ pc \in [Row -> HandlerSteps]
  /\ deterministicBatch \subseteq Row
  /\ ambiguousBatch \subseteq Row
  /\ carried \in [Source -> SUBSET Row]
  /\ rest \subseteq Row
  /\ handed \in [Row -> Nat]
  /\ failed \subseteq Row
  /\ main \in MainSteps
  /\ processedCount \in Nat /\ totalDeterministic \in Nat /\ totalAmbiguous \in Nat

Init ==
  /\ streaming \in BOOLEAN
  /\ kind \in [Row -> Kinds]
  /\ read = 0
  /\ hasBatchHelper = FALSE
  /\ pc = [r \in Row |-> "unread"]
  /\ deterministicBatch = {} /\ ambiguousBatch = {}
  /\ carried = [s \in Source |-> {}]
  /\ rest = {}
  /\ handed = [r \in Row |-> 0]
  /\ failed = {}
  /\ main = "rows"
  /\ processedCount = 0 /\ totalDeterministic = 0 /\ totalAmbiguous = 0

-----------------------------------------------------------------------------
(* processRow(), from each of its awaits to the next.                      *)

Alive == main # "crashed"
Suspended == {r \in Row : pc[r] \in {"init", "enqueue", "enrich"}}

\* A listener of the CSV stream resumes only when the tick that delivered all the
\* rows is over, the one that awaits initialize() first.
MayResume(r) ==
  /\ Alive
  /\ streaming => /\ read = RowCount
                  /\ pc[r] # "init" => \A s \in Row : pc[s] # "init"

Goto(r, step) == pc' = [pc EXCEPT ![r] = step]

\* mapToCandidate and BatchHelper.processRow: the row joins its array.
Place(r) ==
  /\ Goto(r, "done")
  /\ deterministicBatch' = deterministicBatch \union {s \in {r} : kind[s] = "deterministic"}
  /\ ambiguousBatch' = ambiguousBatch \union {s \in {r} : kind[s] = "ambiguous"}
  /\ processedCount' = processedCount + 1
  /\ UNCHANGED <<totalDeterministic, totalAmbiguous>>

\* if (hasAmbiguousBatch()) await flushAmbiguousBatch().
CheckAmbiguous(r) ==
  \/ /\ Cardinality(ambiguousBatch) >= AMBIGUOUS_BATCH_SIZE
     /\ Goto(r, "enrich")
     /\ carried' = [carried EXCEPT ![r] = ambiguousBatch]
     /\ ambiguousBatch' = {}
     /\ totalAmbiguous' = totalAmbiguous + Cardinality(ambiguousBatch)
     /\ UNCHANGED <<deterministicBatch, processedCount, totalDeterministic>>
  \/ /\ Cardinality(ambiguousBatch) < AMBIGUOUS_BATCH_SIZE
     /\ Place(r)
     /\ carried' = [carried EXCEPT ![r] = {}]

\* Mutant of CheckDeterministic: the array is reset after the await, by Place.
CheckDeterministicLate(r) ==
  \/ /\ Cardinality(deterministicBatch) >= DETERMINISTIC_BATCH_SIZE
     /\ Goto(r, "enqueue")
     /\ carried' = [carried EXCEPT ![r] = deterministicBatch]
     /\ totalDeterministic' = totalDeterministic + Cardinality(deterministicBatch)
     /\ UNCHANGED <<batches, processedCount, totalAmbiguous>>
  \/ /\ Cardinality(deterministicBatch) < DETERMINISTIC_BATCH_SIZE
     /\ CheckAmbiguous(r)

\* if (hasDeterministicBatch()) await flushDeterministicBatch(): the array is taken
\* and reset before the await.
CheckDeterministic(r) ==
  \/ /\ Cardinality(deterministicBatch) >= DETERMINISTIC_BATCH_SIZE
     /\ Goto(r, "enqueue")
     /\ carried' = [carried EXCEPT ![r] = deterministicBatch]
     /\ deterministicBatch' = {}
     /\ totalDeterministic' = totalDeterministic + Cardinality(deterministicBatch)
     /\ UNCHANGED <<ambiguousBatch, processedCount, totalAmbiguous>>
  \/ /\ Cardinality(deterministicBatch) < DETERMINISTIC_BATCH_SIZE
     /\ CheckAmbiguous(r)

\* The parser delivers the next row.  A row that is not valid is skipped; the first
\* valid one creates the BatchHelper and awaits the queue's initialize().
ReadRow(r) ==
  /\ main = "rows"
  /\ r = read + 1
  /\ ~ streaming => Suspended = {}
  /\ read' = r
  /\ \/ /\ kind[r] = "invalid"
        /\ Goto(r, "skipped")
        /\ UNCHANGED <<hasBatchHelper, carried, batches, stats>>
     \/ /\ kind[r] # "invalid"
        /\ ~ hasBatchHelper
        /\ hasBatchHelper' = TRUE
        /\ Goto(r, "init")
        /\ UNCHANGED <<carried, batches, stats>>
     \/ /\ kind[r] # "invalid"
        /\ hasBatchHelper
        /\ CheckDeterministic(r)
        /\ UNCHANGED hasBatchHelper
  /\ UNCHANGED <<file, rest, handed, failed, main>>

Initialized(r) ==
  /\ MayResume(r)
  /\ pc[r] = "init"
  /\ CheckDeterministic(r)
  /\ UNCHANGED <<file, read, hasBatchHelper, rest, handed, failed, main>>

HandOver(rows) == handed' = [r \in Row |-> IF r \in rows THEN handed[r] + 1 ELSE handed[r]]

\* enqueue() returns.
Enqueued(r) ==
  /\ MayResume(r)
  /\ pc[r] = "enqueue"
  /\ HandOver(carried[r])
  /\ CheckAmbiguous(r)
  /\ UNCHANGED <<file, read, hasBatchHelper, rest, failed, main>>

\* enqueue() throws.  The spreadsheet loop records a warning for the row and goes
\* on; in the CSV listener it is an unhandled rejection, which ends the process.
EnqueueThrows(r) ==
  /\ MayResume(r)
  /\ pc[r] = "enqueue"
  /\ failed' = failed \union carried[r]
  /\ carried' = [carried EXCEPT ![r] = {}]
  /\ Goto(r, "skipped")
  /\ main' = IF streaming THEN "crashed" ELSE main
  /\ UNCHANGED <<file, read, hasBatchHelper, batches, rest, handed, stats>>

\* Mutant of Enriched: the row that waited for the flush is forgotten.
EnrichedOnly(r) ==
  /\ MayResume(r)
  /\ pc[r] = "enrich"
  /\ HandOver(carried[r])
  /\ carried' = [carried EXCEPT ![r] = {}]
  /\ Goto(r, "skipped")
  /\ UNCHANGED <<file, read, hasBatchHelper, batches, rest, failed, main, stats>>

\* Mutant of Enriched: the LLM call has no deadline.
EnrichedNever(r) == pc[r] = "enrich" /\ UNCHANGED vars

\* enrichBatch() returns; it catches every error.
Enriched(r) ==
  /\ MayResume(r)
  /\ pc[r] = "enrich"
  /\ HandOver(carried[r])
  /\ carried' = [carried EXCEPT ![r] = {}]
  /\ Place(r)
  /\ UNCHANGED <<file, read, hasBatchHelper, rest, failed, main>>

-----------------------------------------------------------------------------
(* The end of the rows and flush().                                        *)

\* Mutant of Flush: it returns early unless there are deterministic rows.
FlushDeterministicOnly ==
  /\ main = "rows"
  /\ read = RowCount
  /\ IF streaming THEN \A r \in Row : pc[r] # "init" ELSE Suspended = {}
  /\ deterministicBatch' = {}
  /\ carried' = [carried EXCEPT ![0] = deterministicBatch]
  /\ main' = IF deterministicBatch = {} THEN "ended" ELSE "enqueue"
  /\ totalDeterministic' = totalDeterministic + Cardinality(deterministicBatch)
  /\ UNCHANGED <<file, read, hasBatchHelper, pc, ambiguousBatch, rest, handed, failed,
                 processedCount, totalAmbiguous>>

\* flush() takes what the arrays hold at this moment, once: the deterministic rows
\* are enqueued first, then the ambiguous ones enriched.  (Nothing to enrich is an
\* await less, here a step that does nothing.)
Flush ==
  /\ main = "rows"
  /\ read = RowCount
  /\ IF streaming THEN \A r \in Row : pc[r] # "init" ELSE Suspended = {}
  /\ deterministicBatch' = {} /\ ambiguousBatch' = {}
  /\ carried' = [carried EXCEPT ![0] = deterministicBatch]
  /\ rest' = ambiguousBatch
  /\ main' = CASE ~ hasBatchHelper -> "ended"
               [] hasBatchHelper /\ deterministicBatch # {} -> "enqueue"
               [] OTHER -> "enrich"
  /\ totalDeterministic' = totalDeterministic + Cardinality(deterministicBatch)
  /\ totalAmbiguous' = totalAmbiguous +
       (IF deterministicBatch = {} THEN Cardinality(ambiguousBatch) ELSE 0)
  /\ UNCHANGED <<file, read, hasBatchHelper, pc, handed, failed, processedCount>>

FlushEnqueued ==
  /\ main = "enqueue"
  /\ HandOver(carried[0])
  /\ carried' = [carried EXCEPT ![0] = {}]
  /\ main' = "enrich"
  /\ totalAmbiguous' = totalAmbiguous + Cardinality(rest)
  /\ UNCHANGED <<file, read, hasBatchHelper, pc, batches, rest, failed,
                 processedCount, totalDeterministic>>

\* The extraction fails, and the job's attempt with it.
FlushEnqueueThrows ==
  /\ main = "enqueue"
  /\ failed' = failed \union carried[0]
  /\ carried' = [carried EXCEPT ![0] = {}]
  /\ main' = "threw"
  /\ UNCHANGED <<file, read, hasBatchHelper, pc, batches, rest, handed, stats>>

FlushEnriched ==
  /\ main = "enrich"
  /\ HandOver(rest)
  /\ rest' = {}
  /\ main' = "drain"
  /\ UNCHANGED <<file, read, hasBatchHelper, pc, batches, carried, failed, stats>>

\* drain() returns and with it extractWithProcessor.
Drained ==
  /\ main = "drain"
  /\ main' = "ended"
  /\ UNCHANGED <<file, read, hasBatchHelper, pc, batches, carried, rest, handed,
                 failed, stats>>

HandlerStep(r) ==
  ReadRow(r) \/ Initialized(r) \/ Enqueued(r) \/ EnqueueThrows(r) \/ Enriched(r)

MainStep ==
  Flush \/ FlushEnqueued \/ FlushEnqueueThrows \/ FlushEnriched \/ Drained

Next == MainStep \/ \E r \in Row : HandlerStep(r)

Spec == Init /\ [][Next]_vars

\* The parser goes on, every await ends, and main's steps are taken in turn.
Fairness == WF_vars(MainStep) /\ \A r \in Row : WF_vars(HandlerStep(r))

FairSpec == Spec /\ Fairness
-----------------------------------------------------------------------------
(* Safety.                                                                 *)

Valid == {r \in Row : kind[r] # "invalid"}
Placed == {r \in Row : pc[r] = "done"}
Handed == {r \in Row : handed[r] > 0}
Carried == UNION {carried[s] : s \in Source}

\* However the handlers interleave, every row that was placed in a batch is in
\* exactly one place: an array, a batch on its way, a batch that failed or the rows
\* handed over, and those were handed over once.  It rests on the arrays being
\* taken and reset before the await (batch.helper.ts 168-185,
\* extraction-processor.helper.ts 65-84, 192-211).
EachRowOnce ==
  LET places == <<deterministicBatch, ambiguousBatch, Carried, rest, failed, Handed>> IN
  /\ \A m, n \in 1 .. 6 : m # n => places[m] \intersect places[n] = {}
  /\ UNION {places[n] : n \in 1 .. 6} = Placed
  /\ \A s, t \in Source : s # t => carried[s] \intersect carried[t] = {}
  /\ \A r \in Row : handed[r] <= 1

Forgotten == {r \in Valid : pc[r] = "skipped"}

\* What extracting a file promises its caller: no row is handed over twice or both
\* handed over and given up; a spreadsheet is over when every valid row was handed over
\* or given up, and a hand-over that fails costs at most the batch and the row whose
\* handler flushed it; what fails in the end is thrown
\* (extractXLSX.ts 364-410, extractCSV.ts 158-203, extraction-processor.helper.ts 65-211).
Abstract == INSTANCE Extraction WITH
  BatchSize <- DETERMINISTIC_BATCH_SIZE,
  valid <- Valid,
  handed <- Handed,
  lost <- failed \union Forgotten,
  outcome <- IF main \in {"ended", "threw", "crashed"} THEN main ELSE "running"

ImplementsExtraction == Abstract!Spec

\* A CSV file leaves at most one row behind for every full batch that was handed
\* over while it was read: the row whose handler flushed that batch.
LossIsBounded ==
  LET size == IF DETERMINISTIC_BATCH_SIZE < AMBIGUOUS_BATCH_SIZE
              THEN DETERMINISTIC_BATCH_SIZE ELSE AMBIGUOUS_BATCH_SIZE IN
  main \notin {"rows", "crashed"} =>
     size * Cardinality(deterministicBatch \union ambiguousBatch)
       <= Cardinality(Handed \union Carried \union failed)

(* Liveness, under FairSpec.                                               *)

\* extractWithProcessor ends, whatever its batches wait for, and so does every handler
\* that waits for a flush, also when the extraction has ended without it.
ExtractionEnds ==
  main = "rows" ~> main = "crashed" \/ (main \in {"ended", "threw"} /\ Suspended = {})

(* What the documents say.                                                 *)

\* README.md:8 "As we are storing every row of csv and xlsx": when the extraction
\* has ended and no handler runs, every valid row was handed over unless a hand-over
\* failed.
EveryRowHandedOver ==
  main = "ended" /\ Suspended = {} /\ failed = {} => Valid \subseteq Handed
=============================================================================
