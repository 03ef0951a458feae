# Verification of the asset extraction system

TLA+ modules of the extraction system in `src/` (a NestJS backend with BullMQ,
Postgres and LLM providers, and a React frontend that polls it), TLC runs that check
them on small instances, and theorems about them checked by TLAPS. Paths of code are
relative to `src/backend/src/` unless they begin with `src/`.

The code is the reference: where a document and the code disagree the modules follow
the code. `PROJECT.json` maps every definition to the lines it models and lists the
components, runs, hazards, findings and theorems.

To repeat the checks, inside this directory:

    tlc -config MCBatchPersistence_crash.cfg MCBatchPersistence
    tlapm BatchPersistenceProofs.tla

## 1. Inventory

### How a file travels

    UploadPage -> POST /extract -> MultiFileValidationPipe -> JobDispatcher
       -> rows in documents, processing_jobs -> BullMQ asset-extraction-queue
       -> ExtractionWorker (concurrency 3) -> CSV / XLSX / PDF strategy
       -> ExtractionProcessor: sample -> schema inference (LLM or by hand)
            -> deterministic rows -> BatchPersistenceQueue (BullMQ batch-persistence-queue)
                 -> one transaction per batch
            -> ambiguous rows     -> LLM enrichment -> scores, fields, flags, reviews
       -> listeners write processing_jobs.status <- DocumentsPage polls it

### Components

| Component | State it keeps | Operations | Hard behaviour |
|---|---|---|---|
| Batch persistence queue (`helpers/batch-persistence-queue.helper.ts`) | per attempt: `pendingCount`, a BullMQ Queue and Worker; shared: one Redis list | `initialize`, `enqueue`, `waitForDrain`, `drain`, `waitForCompletion`, the processor and the `failed` listener | every attempt's worker serves the one queue; `Queue.drain()` empties it for all; counters are per process object; crash between commit and acknowledgement |
| Job dispatch and worker (`services/job-dispatcher.service.ts`, `workers/extraction.worker.ts`) | `documents`, `processing_jobs`, the BullMQ job, the listeners' outstanding UPDATEs | `dispatchFiles`, `processJob`, `completed` / `failed` listeners, retry with backoff | two records of one job, written by different handlers; unawaited listener writes; crash between any two steps |
| Row pipeline (`helpers/extraction-processor.helper.ts`, `helpers/batch.helper.ts`, the row loops) | two arrays, counters | `processRow`, `flush` | CSV listeners are async and not awaited |
| Spreadsheet reading (`services/extractXLSX.ts`, `helpers/row-validation.helper.ts`) | one shared `headerCount` | two passes over the sheets, header detection, row validation | jobs and direct uploads interleave at awaits inside one service object |
| PDF extraction (`services/extractPDF.ts`, `extractDigitalPDF.ts`, `extractScannedPDF.ts`, `paddleOCR.ts`) | none | choice between text and OCR, grouping of text items into bands, clusters and blocks | thresholds; a job drops the records it gets |
| Upload endpoints (`controllers/extraction.controller.ts`, the pipes, `repositories/extraction.repository.ts`) | a map in memory of the results of direct extractions | `POST /extract`, `POST /extractions/csv`, `/xlsx`, `/pdf` | direct extraction beside the worker's, in the same objects |
| Schema inference and classification (`services/llmService/schema-inference.service.ts`, `helpers/deterministic.helpers.ts`) | none | race of LLM and timeout, mapping by hand, `detectAmbiguity` | late and malformed answers |
| LLM enrichment, validation, review (`services/llmService/llm.service.ts`, `enrichment.service.ts`, `helpers/llm-*.helper.ts`) | per batch: outputs, errors; tables of fields, flags, reviews | `enrichExtraction`, `processBatch`, scoring, `persistEnrichmentResults` | results paired by position; three writes without a common transaction |
| Frontend, jobs (`src/frontend/src/pages`, `store/slices/jobs.slice.ts`) | the Redux list of jobs, an interval, requests in flight | upload, `fetchData`, `pollJobs`, `updateJobStatus` | answers out of order, snapshots merged after an await |
| Sessions (`services/sessions.service.ts`, `repositories/session.repository.ts`, the pages' editor) | the table `sessions`; in the browser the list, the open editor, requests in flight | create, list, rename, delete; `handleCreateSession`, `saveEditing` | a name is sent, awaited and then applied to whatever the store has become |
| Documents API (`services/documents.service.ts`) | `documents`, `extracted_asset_fields`, `reviews` | list, by-jobs, update, review, delete | deletion during an extraction |
| Enrichment coordinator, LLM providers, bootstrap | buffers; none | flush by size or timer; one HTTP call | no caller; none |

What makes each of them correct, in the order of importance: no row is lost or stored
twice or under another document; a job's visible status is true; nothing waits for
ever; what is approved without a human is sound; one file does not disturb another.
Section 4 names the properties.

## 2. Modules

| Module | What it is |
|---|---|
| `BatchDelivery` | abstract specification: what the persistence queue promises to a file |
| `BatchPersistence` | the queue, its instances, workers, counters, crashes; refines `BatchDelivery` |
| `JobStatus` | abstract specification: the life of a job as a client sees it |
| `JobLifecycle` | upload, dispatcher, worker, listeners, BullMQ; refines `JobStatus` |
| `Extraction` | abstract specification: what whoever awaits an extraction may rely on |
| `RowPipeline` | one extraction from parsed rows to hand-over; refines `Extraction` |
| `SheetHeader`, `XlsxSheets` | header detection as operators; workbooks read at the same time |
| `PdfText`, `DirectExtraction` | a page's text as operators; the direct endpoints beside the jobs of `XlsxSheets` |
| `AssetMapping`, `SchemaInference`, `EnrichmentScoring`, `Enrichment` | raw cells to mapped rows; column mapping and classification; validation, confidence, escalation (all operators); one file's way through the LLM |
| `FrontendPolling` | the jobs in the browser, over `JobStatus` as their server |
| `Sessions` | the names of the sessions, on the server and in the browser |
| `InOrder`, `InOrderProofs` | what a filter or a sort leaves of the numbers it takes, and the lemmas about it |
| `BatchPersistenceProofs`, `JobLifecycleProofs`, `RowPipelineProofs`, `DirectExtractionProofs`, `EnrichmentProofs`, `FrontendPollingProofs`, `SessionsProofs` | the theorems about those modules, and about the operators and sheets they are built from |
| `MC*` | the instances TLC checks |

How they compose: `FrontendPolling` instantiates `JobStatus` for the server, the same
specification `JobLifecycle` is proved to implement (`ClientView`): the two halves meet
in it. `ClientView` assumes `PromptListeners` (below); what the browser shows is therefore known for
listeners whose writes land before the retry. `DirectExtraction` extends `XlsxSheets`: jobs
and direct uploads share its header count, and what is proved of the sheets holds beside the
PDFs (`DirectImplementsSheets`). `Enrichment` is built from the three operator
modules. `RowPipeline` takes the verdict of the classification and the outcome of an
enqueue or an enrichment as nondeterministic; `Enrichment` and `BatchPersistence` have
what is behind them, and `JobLifecycle` has a whole extraction as two steps
(`HandOverRows`, which an extraction without a row to hand over leaves out, and `Extracted`),
either of which may be followed by a failure. Whether rows that are handed over are stored is a
matter of `BatchPersistence` alone: neither `JobLifecycle` nor `JobStatus` says so of a job.

### BatchPersistence

`phase[i]` is the life of one `BatchPersistenceQueue` object; `call[b]` the `enqueue()`
call of batch `b` between its awaits (`backpressure`, `adding`, `added`) and how it ended
(`done`, `refused`, `unanswered`); `job[b]` the
state of the BullMQ job; `takenBy[b]` the instance whose worker has it;
`pendingCount[i]` the private counter. `Enqueue`, `BackpressureOver/Timeout`,
`AddLands`, `AddRefused`, `CountPending`, `AddUnanswered` are the pieces of `enqueue()`. Redis may
refuse an add on a queue that is open, or take it and lose the answer: `enqueue()` then throws before
`pendingCount++`, in the second case with the job in Redis. A source whose `enqueue()` threw adds no
more and does not come to `drain()` (`GaveUp`); its instance stays open, as in the code, with its
worker serving. That the Redis client sends a command again, so that one `enqueue()` adds a batch
twice, is not modelled.
`DrainStart`, `DrainLands`, `WaitDone/Timeout`, `WorkerClosed` those of `drain()`;
`Take`, `Save`, `SaveFails`, `Complete` the processor. `DrainLands` removes every waiting
job, as BullMQ's `Queue.drain()` does. `Crash` kills all instances of the process;
`StalledRequeued` and `StalledTooOften` are BullMQ's recovery. `saves`, `savedAs` and
`stalls` record what the database and BullMQ did.

### JobLifecycle

`request[r]` is where `dispatchFiles` stands; `status`, `rowDoc`, `errorSummary` are columns
of `processing_jobs`; `documents` the table; `bull`, `attemptsMade`, `stalls` BullMQ's
record; `pc`, `docVar` the running `processJob`; `okWrites`, `failWrites` count the
listeners' UPDATEs that are under way; `extractions` how often a job's attempts handed rows over.
One action
per await of `processJob` (`MarkRunning`, `LookUp`, `CreateForExtraction`, `LinkDocument`,
`HandOverRows`, `Extracted`, `UpdateSchema`, `Succeed`, `AttemptFails`), per await of the
dispatcher, per listener write, plus `DeleteDocument`, `Crash`, `Restart` and BullMQ's
stalled jobs. `DispatchUnanswered` is an add that reached Redis and whose answer did not come
back. A file outside `Tabular` is a PDF, whose attempts hand nothing over; one in it may have no row to
hand over, and completes all the same. The backoff is `Promote`;
with `PromptListeners` it waits for the listener's UPDATE (two seconds against one
statement), without it it does not.

### RowPipeline and Extraction

One step is what runs between two awaits. `streaming` chooses the CSV loop, whose
listeners all start in one tick before any resumes, or the spreadsheet loop. `kind` is
each row's verdict and is arbitrary: with the code's `detectAmbiguity` hardly any row is
ambiguous (section 5), with a repaired one any row may be. `deterministicBatch`,
`ambiguousBatch` are the arrays, `carried[s]` the batch a handler or `flush()` waits with,
`handed[r]` how often a row was handed over. `crashed` is the unhandled rejection of a
listener that enqueues on a closed queue or whose enqueue throws. `Extraction` has no
arrays, handlers or batches: its `HandOver`, `GiveUp`, `Throw`, `Crash` and `End` are all its
caller can tell apart.

### SheetHeader, XlsxSheets, PdfText, DirectExtraction

`SheetHeader` has the four strategies of `detectHeaderRowNumber` over cells of the kinds
empty, text, number and note. `XlsxSheets` has files whose code runs between awaits: `loop` is
the file that holds the event loop, `headerCount` the field of the one
`RowValidationHelper`, set by `StartSheet` and read by `RejectRow` / `AcceptRow`. The header
of every sheet is computed once, in `Init`. The files in `Direct` take
`extractDataFromXlsx`, which `POST /extractions/xlsx` calls, in one step, and set the same `headerCount`. `PdfText` works on
pages whose text items are points: `SortedByY` and `FirstOfBand` are the bands of `groupIntoYBands`,
`ReadingOrder` goes through them from the left, `ClusterStarts` says where `groupByXGaps` begins a
cluster, and `BlockType` is `detectBlockType`. The list of blocks the code builds item by item is
so written as a permutation with marks in it, of which something can be proved; the recursion over
the items is left in `FirstOfBand` and in the sums of a variance. The sort is the code's: by two keys,
equals in their order. `DirectExtraction` saves the blocks, page by page, in `repository`, the map
of `ExtractionRepository`.

### AssetMapping, SchemaInference, EnrichmentScoring, Enrichment

`MapFile` is `parseRow`, `validateRow` and `mapRow` over a file: rows without a value are rejected,
columns get their canonical names, the last of several columns with one name gives the value,
and what `parseFloat` cannot read under a numeric name becomes null. `Init` maps each file.
Of a column's name only its keywords matter, of a cell its kind. `ManualMapping` is
`createManualSchema`, `SchemaMap` / `DetectAmbiguity` are `buildSchemaMap` and
`detectAmbiguity` with the mistake between them. `EnrichmentScoring` scores in tenths.
`Enrichment` walks one file: `InferSchema` (answer, failure or ten second timeout),
`Classify`, `InferBatchSchema` with the outputs of rows that need no LLM, then per chunk
`ChunkAnswered` or `ChunkThrows`, `Score`, `StoreFields`, `StoreIssues`. An output carries the
position of the row it was made for (`of`), which the code does not keep; that is what the
pairing property compares.

### FrontendPolling and Sessions

In `FrontendPolling`, `copies[j]` is how often the store has the session of job `j` (`AddJob` pushes
it although a fetch may have brought it before), `shown[j]` the job's status in the first of them,
where `addJobsToSession` and `updateJobStatus` look; `flight` the status requests
under way with the answer they carry, `snapshot[m]` what `fetchData()` of one mount read before
its requests. What it reads is `Mapped`: the code's Map keeps the last session of an id, so that the
jobs of a session that is there twice are lost to it. `listed[m]` is any part of the sessions created:
the server sends the newest 100, and other clients delete sessions.
`SetSessions` merges the snapshot, `UpdateJobStatus` applies an answer,
`Polled` says for which jobs the interval asks.

In `Sessions`, `names` is the table, `store` the list in the browser, `fetch` and `save` the
requests under way with what they carry, `editing` the open editor. Every name is marked
with the session it was typed for, so that `NamesAreTheirOwn` can tell a name that ended up
elsewhere. `CreateOnServer` / `AddSession` are `handleExtract` before and after its awaits,
`SaveEditing` / `UpdateAnswered` / `SaveReturns` the rename, `CreateLocally` a session made up
in the browser, which no request ever carries.

## 3. Abstractions and assumptions common to all modules

* A row, batch, file or document is an element of a small set; contents appear only as
  the kinds the code branches on.
* A database transaction and a Redis command are one step each; both may fail where the
  code has a path for it.
* BullMQ is external and modelled from its use: at-least-once delivery, one holder per job
  while its lock is valid, requeueing of stalled jobs up to `MaxStalled`, `attempts` with
  backoff, `drain()` that removes waiting jobs. A lock is lost only with the process;
  a living worker that blocks the loop beyond the lock time is not modelled.
* Fairness is stated in each module where it is used, and assumed of what the code or its
  runtime does on its own, never of users, of sources of rows, or of failures *not* happening:
  - `BatchPersistence`: timers fire, Redis and Postgres answer, an idle worker fetches some
    waiting batch; nothing makes a source enqueue or call `drain()`.
  - `JobLifecycle`: the same, and a crashed process is restarted. `Take` is strongly fair: BullMQ
    serves the waiting list in order, so that a job cannot be overtaken for ever while slots
    become free and are taken again.
  - `RowPipeline`, `XlsxSheets`, `Enrichment`: promises settle, so that code that can run does;
    `DirectSpec` takes over the fairness of `XlsxSheets` and asks nothing of the PDFs.
  - `FrontendPolling`: the interval ticks, fetches end in an answer or an error, an answer that
    arrived is applied; `Answered` is strongly fair, for requests of a job may be lost, but not
    all of them.
  - `Sessions`: requests end, in an answer or an error.
  In `RowPipeline` (`Enriched`) and `Enrichment` a call to a provider ends because HTTP clients have a
  timeout of their own: the providers set none and pass no signal to abort. `EnrichmentEnds` and
  `ExtractionEnds` are worth as much as those defaults.

## 4. Runs

Deadlock is not checked where the modelled part simply stops (`CHECK_DEADLOCK FALSE`): an
extraction, a queue whose files are done and a page that is closed do stop. `Enrichment`
states its end as a step and is checked for deadlock.

| Run | Instance | What it shows |
|---|---|---|
| `batch_shared` | two files on the shared queue, 2 + 1 batches, the first a CSV; concurrency 1, one pending batch allowed, no crash | `RowsKeepTheirDocument`, `NoLeftoverAfterDrain`, `CountersCoverUnfinished`, `CallsReturn` |
| `batch_crash` | three attempts, the third a re-run of the first's document; one batch each for the first two; concurrency 2, two crashes, one redelivery | the inductive invariant `IInv`, `SavedOncePerDelivery`, refinement `ImplementsDelivery`, `OrphanRecovered` |
| `batch_rowloss` | one file, two batches | **violated**: `NoRowLoss` |
| `job_upload` | one request of a spreadsheet and a PDF, three attempts, one slot, one crash, an add whose answer may be lost, prompt listeners | `TypeOK`, `RestingStatusIsTruthful`, `DispatchedInOrder`, refinement `ImplementsJobStatus`, `JobSettles` |
| `job_late` | two requests of one file, two attempts, two slots, two crashes, one deletion, late listeners | `OneStrayPerAttempt`, `HandedOverOncePerAttempt`, `ExtractsUnderLinkedDocument` |
| `rows` | six rows of every mix of kinds, both loops, batch sizes 2 and 1, enqueues may throw | `EachRowOnce`, refinement `ImplementsExtraction`, `LossIsBounded`, `ExtractionEnds` |
| `rows_lost` | four rows, batch sizes 2 | **violated**: `EveryRowHandedOver` |
| `xlsx_files` | two jobs and a direct upload in one process: pairings of hand-made workbooks, every sheet of 3 rows by 2 columns, and PDFs whose pages lie on both sides of the thresholds | `RejectedForAnotherFile`, `EveryDataRowAccountedFor`, `HeadersAreReasonable`, `PdfPagesAreRead`, `EveryExtractionEnds` |
| `enrichment` | two rows under five headers (raw cells, two of one header for the same field), three LLM mappings, five outputs, chunks of one row, provider configured or not | `TypeOK`, `FallbackMapsEachColumnOnce`, `FieldsCarryTheirRow`, `EveryRowAccountedFor`, `NoAnswerIsReviewed`, `SilentApprovalIsSound`, `EnrichmentEnds` |
| `ambiguous_rows` | the same | **violated**: `AmbiguousRowsAreEnriched` |
| `polling` | one job, two mounts, two requests in flight | `TypeOK`, `CompletedIsTrue`, `JobsAreKept`, `RestIsShown`, `PollingStops` |
| `sessions` | two sessions of which the server lists one, one made up in the browser, one rename and one fetch under way, three entries in the store | `TypeOK`, `NamesAreTheirOwn`, `StoreConverges` |

### Why the bounds are enough

* Two instances are what the interplay of drains and counters needs: a foreign worker, a
  foreign drain, a counter nobody else sees. A third matters for crashes, where it serves
  the queue after the first two died. Two batches in one file are the least for one to
  be waiting while another is taken. `MaxQueueSize = 1` makes backpressure happen at the second
  batch. Concurrency 1 suffices where two workers already run side by side; two batches in one
  worker's hands matter when it dies, which is the instance with concurrency 2.
* Two files in a request make a partly dispatched request possible; two jobs and one
  slot make one wait for the other, two slots make them overlap. Two attempts are the
  least for a late `failed` write to meet a retry, three for a retry to be neither first nor last.
* Six rows fill a batch of two three times, so that several listeners suspend on
  batches at the same time; the code's 5000 and 50 change the number, not the order, of steps.
* In the spreadsheet run `ScanRows` is 3 and `MaxConsecutiveEmpty` 2 where the code has
  100: the sheets are as long as the bound allows on both sides. All sheets of 3 x 2 cells over
  the three kinds are 729, complete for the header strategies at that size. The pages are all pages
  of two items and many of three whose distances are just under, at and over the thresholds of 12
  and 25 points, and lines of ten items, the least that can make a table.
* Two rows and chunks of one row let the LLM path and the direct path mix in both orders
  and one of two calls fail; the code's chunk of 50 is usually the whole batch.
* Two mounts of the page are the least for a stale snapshot to meet a newer one, two
  requests in flight for answers to cross. The browser looks at nothing a job hands over, so that its
  job hands nothing over. Two sessions with a page of one let a session drop out of the list; a store of
  three entries has room for a session twice beside one made up in the browser.

## 5. What the runs found

Each of these is a disagreement of the code with a sentence of its documents.

* `batch_rowloss`: `drain()` awaits BullMQ's `Queue.drain()`, which deletes waiting
  jobs instead of waiting for them. Batches not yet taken, of any file, vanish
  (`batch-persistence-queue.helper.ts:185`; `specs/batch.persistence.queue.md:463`).
* `rows_lost`: in a CSV the row whose listener flushed a full batch joins an
  array after `flush()` took it; one row per full batch is lost (`extractCSV.ts:126`; `src/README.md:8`).
* `ambiguous_rows`: `buildSchemaMap` maps columns to roles, `detectAmbiguity` looks
  fields up in it; a missing currency makes no row ambiguous, and the LLM is reached only by
  files with a column literally called `currencyColumn` or the like (`batch.helper.ts:90`;
  `src/README.md:81`). The runs of `Enrichment` use such files, for they are the inputs on which
  the code gets that far; what they show of the path is what a repaired classification would rely on.

Known from the models, without a run of their own (a sentence each on what the code does):

* The shared validator's header count is overwritten by another job's sheet, or by a direct upload,
  and rows of a sheet of another width are rejected (`extractXLSX.ts:364`;
  `specs/xlsx.extraction.v2.md:263`); `RejectedForAnotherFile` is what remains true.
* A PDF job reads COMPLETED and has stored nothing: its records are in a result of which only
  counts and schema are looked at (`extraction.worker.ts:174`). Nor does COMPLETED say that the rows of a
  table were stored: `drain()` may have removed them, a failed transaction is swallowed
  (`extraction-persistence.service.ts:67`), or there was no valid row.
* A retry that finds its document deleted makes another one and links it an await later. What comes
  in between leaves documents no job points to; `OneStrayPerAttempt` says how many.
* An add to the persistence queue whose answer is lost leaves a batch nobody counted; its worker
  takes one from a counter all the same, and a batch of another file is then covered by none.
  `CountersCoverUnfinished` says that this is the most it costs, one for each such batch.
* A scanned PDF that begins with `%PDF`, as every PDF does, is taken for a digital one and
  never reaches OCR, unless its bytes spell `SCANNED_PDF` or `OCR_TEXT:` (`extractPDF.ts`; `specs/backend.architecture.md:228-229`).
* The block type `header` cannot occur, and a `table` needs a line of at least ten items no more than
  25 points apart (`extractDigitalPDF.ts`; `specs/digital.pdf.extraction.md:178-179`, 264);
  `PdfPagesAreRead` has the second half.
* An add to the extraction queue whose answer is lost leaves a job running for a request that was answered with an
  error.
* A job of the page is dropped from it, for good, by a fetch that was under way when it was added, by
  one whose list lacks its session, and by the next fetch after its session came into the store
  twice: the jobs are in the first copy, the Map of `fetchData()` keeps the last
  (`src/frontend/src/pages/DocumentsPage.tsx:103-145`, `UploadPage.tsx:92`). `JobsAreKept` says when
  it is not.
* A session made up in the browser is never sent and disappears at the next fetch; an upload that ends
  after a fetch listed its session shows it twice; a refused rename is shown until the next fetch; and
  the editor of another session is closed by the answer to an earlier save. `StoreConverges` says
  that none of this lasts, of the sessions and their names; their jobs are `FrontendPolling`'s.
* Deleting a session leaves the `session_id` of its documents as it is: the foreign key is on the
  column `sessionId`, which nothing writes.
* Fields of an enriched batch are committed, then the first flag or review throws, because
  `entity_id` is a uuid column and gets `field_<document>_<i>`: no flag or review is ever stored
  (`llm.service.ts:329`). `Enrichment` ends such batches in `unreviewed`.
* If rows that need the LLM precede rows that do not, or a call fails, fields are paired
  with the wrong raw values (`llm.service.ts:129`); `FieldsCarryTheirRow` says when they are not.
* An LLM row marked `needsReview` with otherwise full marks scores 0.7 and is approved
  without a review.
* Backpressure gives up after 60 seconds and adds anyway; a failed transaction's batch counts as
  done and is not retried (`specs/batch.persistence.queue.md:458`).
* A counter may reach zero although its file's rows are unfinished, when another file's worker
  has done the decrement (`specs/batch.persistence.queue.md:247-249`).
* `failed` is written after every attempt, not only the last. A retry stores the file's rows again
  (`specs/csv.extraction.v2.md:507`), and with late listeners a `failed` write may follow `completed`.
* A poll that falls between two attempts reads `failed` and ends the polling of that job
  (`src/frontend/src/pages/DocumentsPage.tsx:211`); hence the premise of `RestIsShown`'s second half.
* A request whose second file fails to dispatch is answered with an error while its first file's job
  runs (`specs/multi.file.upload.md:198-199`).
* Columns with one canonical name (`name` and `asset_name`) collapse: the last one's value is kept even
  when it is empty and an earlier one was not (`asset-mapping.helper.ts:58`).
* The source sheet's name does not reach the stored rows of a workbook.

## 6. Proofs

Everything below is proved for every value of the constants the named assumptions allow, and so for
any number of files, rows, jobs, requests, sheets, crashes and any limits.

**`BatchPersistenceProofs`**, from `ConstantsAssumption` (of which only that there are finitely many
`BatchPersistenceQueue` objects is more than a type, and only the counters need it).
`TypeCorrect`, `SavedOnce`, `DocumentKept`, `NothingLeftOver`, `CountersCover` and
`Refinement` (`Spec => ImplementsDelivery`). `SavedOncePerDelivery` is not inductive: that a
commit raises `saves` to at most `1 + stalls` needs that a batch a worker holds has not used this
delivery's commit (`CommitLeft`), which needs that a job is held exactly while `active` or
`returned` (`HeldWhileProcessed`), since a batch taken twice would commit twice, and that a batch
not yet added has no job (`JobFollowsCall`). `NoLeftoverAfterDrain` needs that a sequential source
has no `enqueue()` under way while its `drain()` runs (`NoEnqueueDuringDrain`), or the add would
land after the list was emptied. `IInv` is their conjunction with `TypeOK`; `batch_crash` checks
it with TLC. `CountersCoverUnfinished` compares cardinalities: an increment adds one mark to
`Pending` and a decrement, by whichever instance, takes at most one (`CountUp`, `CountDown`), and
each of them meets a batch that enters or leaves `Unfinished` or `Uncounted`. Beside `IInv` it
needs that before the first crash no job is orphaned and no call cut off (`NothingLostYet`).
`Uncounted` are the batches that were processed or removed before their count, and those whose add was
not answered, which are never counted: the claim is that the counters miss no more than one
unfinished batch for each of them.

**`JobLifecycleProofs`**, from `ConstantsAssumption` and `FilesAreDistinct`. `JobTypeCorrect`,
`HandedOverOnce`, `UnderLinkedDocument`, `InDispatchOrder`, all from `JInv`: how
far each request's dispatch has come and what that says of its files (`DispatchSoFar`); a job is in
BullMQ only with its row, in the worker's hands only while active, and written by a listener
only after BullMQ moved it (`InOrder`); how often rows were handed over, counted by what can have
caused it (`AttemptsSoFar`); and
the local `documentId` is the linked document unless it was deleted (`Linked`). `StraysAreBounded` adds
`SInv`: a job has one document at most until its row points to it, and between looking up the row and
linking a document the row points to none (`StraysSoFar`), so that an attempt makes a document only
where the one before it is deleted or a stray already counted.
`RestingIsTruthful` and `ClientView` (`Spec => ImplementsJobStatus`,
which assumes `PromptListeners`) need `QInv`, which adds that a `failed` write is outstanding
only while the job is delayed or failed for good (`Prompt`), so that it meets no later attempt.

**`RowPipelineProofs`**, from the batch sizes being positive. `RowTypeCorrect` and `OnePlacePerRow` from
`PlaceInv`: only a handler that waits carries a batch (`Carriers`), what the handlers have reached
(`Reading`), and every placed row has exactly one home (`Homes`). `CallersView`
(`Spec => ImplementsExtraction`) adds for spreadsheets that at most one row waits and the array
never outgrows a batch (`OneAtATime`), which is what bounds the rows given up. `AtMostOnePerBatch`
(`LossIsBounded`) adds `LossInv`: every row that may be left behind has itself sent a full batch of
other rows on its way (`Paid`); `flush()` empties the arrays, so that only rows that were
waiting then can be left.

**`DirectExtractionProofs`**, of spreadsheets from `FileAssumption` and `SheetAssumption`.
`SheetsTypeCorrect` needs that every header strategy finds a row of the sheet or none, for sheets of
any size; it is proved with lemmas on least elements, since the strategies are choices.
`HeadersReasonable` is a case for each number of candidates: with two or more, the first strategy scores
each but the last, which has none below it, and always takes one (`TransitionFindsOne`,
`HeaderAboveData`); with one, or none, the others end at the same row (`HeaderAlone`,
`HeaderWithoutCandidate`). `RejectionNeedsAnother` from `CountInv`: while
a file's sheet is read the shared count is its own header's, or a file with a sheet of another
width has started (`CountIsExplained`). `RowsAccountedFor` from `RowsKept`: the rows a file keeps are
exactly its data rows before the place it has reached (`Kept`, `Before`), in places that are pairwise
disjoint (`Apart`), and the run of empty rows behind the scan is as long as its counter says
(`Scanning`).

Of PDFs, from `PostsAssumption` (pages are sequences of points): `PagesAreRead`, for pages of any number of
items. The invariant is small (`ResultsAre`: what is saved as digital is what the grouping made of the
pages posted); the work is in `BlocksAreRead`, what the grouping makes of any page. That the functions
defined by recursion exist at all is a lemma (`RecursionExists`); `BandsAre` and `SortedSorts` say what
bands and sorts are, and `ReadingOrderIs` what follows for the order of reading. Blocks are counted by
the cluster starts before them: two items share a block exactly if no start lies between (`RankGrows`), and
`RanksAre` finds when none does. That no run of fewer than ten items is a table (`NarrowVariance`) is
arithmetic: if neighbours are at most 25 points apart, each further item adds no more to the variance
than `BoundsGrow` says, and up to nine of them vary by no more than the 5000 a table must exceed.

**`EnrichmentProofs`**, from `EnrichmentAssumption` (files are files; what the LLM may answer
with are mappings and enrichments). All safety properties of `Enrichment`, from `IInv`: what a step has not
reached is still empty (`StepByStep`); every row of the batch has an output, an error or is to do, and
only one of them (`EachRowOnce`), without which a row could be sent twice; an output for a row without
an answer is the empty enrichment (`UnansweredIsEmpty`); and, with the rows that need no LLM first, the
i-th output is the i-th row's until a call for it or an earlier one fails (`OutputsInStep`).
`UnansweredIsReviewed` and `SilentApprovals` add what the scores come to for every mapping
and every enrichment. `RowsAreAmbiguousByName` is the finding of `ambiguous_rows` without its bounds:
no row of any file is sent to the LLM unless a field is mapped to a column that bears the name of one of the
fields that are looked up.

**`FrontendPollingProofs`**, from `ConstantsAssumption`. `BrowserTypeCorrect` and
`ShownCompletedIsTrue` from `PInv`: the browser knows nothing of a job without a row
(`UnknownBeforeItExists`), and `completed` is in the store, in an answer or in a snapshot only for
jobs that are completed (`CompletedIsKnown`); without the last two places a snapshot merged late
could bring back what was never true. That the store has a session twice at most is
`OnceBeforeUpload`. `ShownJobsAreKept` is a box within a box, under a third: `Kept` is what holds of a
job once it is shown, its session there once, with no fetch under way (whatever fetch comes has it in what
it read of the store), and is not given up while every list names its session. `CompletedIsFinal` is the
same for a job that is shown completed with no older answer outstanding: nothing brings an earlier status
back.

**`SessionsProofs`**, from `ConstantsAssumption`: `SessionsTypeCorrect` and `NamesStayTheirOwn`. A name in the
store may come from a list that was answered before any number of renames, so that `IInv` says of those
lists too that they pair names and sessions (`ListsAreOwn`).

**The way to the end.** Liveness rests on fairness, which the prover cannot use. What can be proved is that
there is a way to the end that gets shorter with every step, and that nobody waits in a circle:

* `FourStepsPerRow` and `SomeoneGoesOn`: a file of `RowCount` rows takes at most `4 * RowCount + 4` steps, and
  until it is over a handler or the main loop has one;
* `EveryStepLeadsOn` and `LoopIsNeverLost`: every step of a workbook makes its standing (phase, sheets ahead,
  steps left in the sheet) smaller and leaves every other's, and the event loop is held by exactly the file
  whose code runs;
* `ChunksRunOut`: every step of an enrichment is one to a later stage or shortens what is to do.

Only model-checked: liveness (`CallsReturn`, `OrphanRecovered`, `JobSettles`, `ExtractionEnds`,
`EveryExtractionEnds`, `EnrichmentEnds`, `RestIsShown`, `PollingStops`, `StoreConverges`), for fairness and
ENABLED are out of the prover's reach. Every invariant, action property and refinement that a
passing run checks is a theorem. The prover cannot instantiate an induction over data either: where a proof
needs one it takes the least place at which a statement fails (`LeastPlace`, `LeastExists`). That is why
`InOrder`, `PdfText` and `EnrichmentScoring` say with sets, ranks and permutations what the code says with
filters, sorts and sums.

## 7. What could come next

1. A variant of `JobLifecycle` in which a living worker loses its lock: a workbook is read without
   a wait, and above the lock time of 30 seconds a second worker runs the job at the same time
   (`extractXLSX.ts:52`). Its two attempts would need two `pc` for one job.
2. `POST /extractions/csv`, whose rows take the path of `RowPipeline` without its batches, and the checks
   on a CSV row, one nondeterministic verdict now.
3. The listing, update and review of documents.
4. The enrichment coordinator, which has no caller in the repository: rows queued while its flush
   awaits are cleared with the batch.

## 8. Not modelled

* LLM providers: one HTTP request each, seen as an answer, an error or silence.
* The enrichment coordinator, for want of a caller.
* `updateSessionId`: no step reads what it writes. Which session is selected, the choice of files and the
  review table: no step of them changes a job or a session.
* `POST /extractions/csv` and the documents' listing, update and review (section 7).
* Text, fonts and bounding boxes of a PDF: the grouping looks at places only.
* Logging, error filters, bootstrap and DDL: no state a property reads. `main.ts` matters in that it
  installs no handler for unhandled rejections, which `RowPipeline` uses.
* Roles, confidences and explanations of an inferred schema, initial confidences of rows, priorities of
  reviews: no step branches on them.
