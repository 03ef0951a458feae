------------------------------ MODULE Extraction ------------------------------
(***************************************************************************)
(* What extracting a file promises whoever awaits it, without its loops,   *)
(* handlers and batches: rows are handed over or given up, none of them    *)
(* twice, and a spreadsheet is not over while one of its rows is neither.  *)
(* Of a CSV file no more is promised than that what is handed over was     *)
(* read from it: its rows may still be handed over when it is over, and    *)
(* some never are (RowPipeline!LossIsBounded).                             *)
(***************************************************************************)
EXTENDS Integers, FiniteSets

CONSTANTS
  Row,       \* the rows of a file
  BatchSize  \* of the rows that need no enrichment

VARIABLES
  streaming,  \* a CSV file
  valid,      \* its rows that pass validation
  handed,     \* those the persistence queue or the enrichment has got
  lost,       \* those given up with a hand-over that failed
  outcome     \* what the caller knows

evars == <<streaming, valid, handed, lost, outcome>>

Left == valid \ (handed \union lost)

Init ==
  /\ streaming \in BOOLEAN
  /\ valid \in SUBSET Row
  /\ handed = {} /\ lost = {}
  /\ outcome = "running"

HandOver ==
  /\ outcome # "crashed"
  /\ ~ streaming => outcome = "running"
  /\ \E rows \in SUBSET Left : rows # {} /\ handed' = handed \union rows
  /\ UNCHANGED <<streaming, valid, lost, outcome>>

\* A spreadsheet goes on without the batch that failed and the one row that waited
\* for it.
GiveUp ==
  /\ ~ streaming /\ outcome = "running"
  /\ \E rows \in SUBSET Left : /\ Cardinality(rows) <= BatchSize + 1
                               /\ lost' = lost \union rows
  /\ UNCHANGED <<streaming, valid, handed, outcome>>

\* The last hand-over fails: the caller learns of it.
Throw ==
  /\ outcome = "running"
  /\ outcome' = "threw"
  /\ \E rows \in SUBSET Left : rows # {} /\ lost' = lost \union rows
  /\ UNCHANGED <<streaming, valid, handed>>

\* An earlier one of a CSV file fails: nobody awaits it, and the process ends.
Crash ==
  /\ streaming /\ outcome # "crashed"
  /\ outcome' = "crashed"
  /\ \E rows \in SUBSET Left : rows # {} /\ lost' = lost \union rows
  /\ UNCHANGED <<streaming, valid, handed>>

End ==
  /\ outcome = "running"
  /\ ~ streaming => Left = {}
  /\ outcome' = "ended"
  /\ UNCHANGED <<streaming, valid, handed, lost>>

Next == HandOver \/ GiveUp \/ Throw \/ Crash \/ End

Spec == Init /\ [][Next]_evars
=============================================================================
