------------------------------ MODULE BatchStep ------------------------------
(***************************************************************************)
(* batch, Step.Run with a Writer and an optional CheckpointStore: items    *)
(* are read, processed, collected in chunks and written; the reader's      *)
(* position is saved separately.  A run may fail, be cancelled or crash,   *)
(* and the step is then run again.  Item k is the k-th the reader returns, *)
(* and its checkpoint is the number of items read.                         *)
(***************************************************************************)
EXTENDS Integers, FiniteSets

CONSTANTS
  N,             \* the number of items
  ChunkSize, MaxAttempts, MaxSkips,
  MaxRuns        \* bound of the runs

Items == 1..N

VARIABLES
  hasStore,          \* whether a CheckpointStore is configured
  drops,             \* whether the processor may filter items or fail for good
  pc, status, runs,
  position, eof,     \* the items the reader has returned; whether it reported the end
  chunk,             \* the processed items not yet written
  attempt,           \* of process or write
  reads, writes, skips, filters,   \* the counters of the report
  checkpoint,        \* the saved position, 0 if there is none
  written, dropped   \* history: the items written, and those filtered or skipped

report == <<reads, writes, skips, filters>>
config == <<hasStore, drops>>
vars == <<config, pc, status, runs, position, eof, chunk, attempt, report, checkpoint, written, dropped>>

TypeOK ==
  /\ hasStore \in BOOLEAN /\ drops \in BOOLEAN
  /\ pc \in {"idle", "restore", "read", "process", "write", "save"}
  /\ status \in {"none", "running", "completed", "failed", "cancelled"}
  /\ runs \in 0..MaxRuns /\ position \in 0..N /\ eof \in BOOLEAN
  /\ chunk \subseteq Items /\ Cardinality(chunk) <= ChunkSize
  /\ attempt \in 1..MaxAttempts
  /\ reads \in 0..N /\ writes \in 0..N /\ skips \in 0..MaxSkips /\ filters \in 0..N
  /\ checkpoint \in 0..N
  /\ written \subseteq Items /\ dropped \subseteq Items

Init ==
  /\ hasStore \in BOOLEAN /\ drops \in BOOLEAN
  /\ pc = "idle" /\ status = "none" /\ runs = 0
  /\ position = 0 /\ eof = FALSE /\ chunk = {} /\ attempt = 1
  /\ reads = 0 /\ writes = 0 /\ skips = 0 /\ filters = 0
  /\ checkpoint = 0 /\ written = {} /\ dropped = {}

-----------------------------------------------------------------------------

\* report.finish with an error, or the process dies; the reader, the chunk
\* and the report are gone with the run.
Finish(s) == pc' = "idle" /\ status' = s
Fails == Finish("failed")

\* Run: a new report, and reader and writer are opened.
Run ==
  /\ pc = "idle" /\ runs < MaxRuns /\ status # "completed"
  /\ runs' = runs + 1
  /\ pc' = "restore" /\ status' = "running"
  /\ position' = 0 /\ eof' = FALSE /\ chunk' = {} /\ attempt' = 1
  /\ reads' = 0 /\ writes' = 0 /\ skips' = 0 /\ filters' = 0
  /\ UNCHANGED <<checkpoint, written, dropped>>

\* Load and Restore; a reader without a checkpoint starts at the first item.
restoreCheckpoint ==
  /\ pc = "restore"
  /\ position' = IF hasStore THEN checkpoint ELSE 0
  /\ pc' = "read"
  /\ UNCHANGED <<status, runs, eof, chunk, attempt, report, checkpoint, written, dropped>>

\* The run ends between two steps: the process dies, or a call of the
\* reader, writer or store fails, or the context is cancelled.
Stop ==
  /\ pc # "idle"
  /\ Finish("failed") \/ Finish("cancelled")
  /\ UNCHANGED <<runs, position, eof, chunk, attempt, report, checkpoint, written, dropped>>

\* The end of the input completes the run, whatever is in the chunk.
ReadUnflushed ==
  /\ pc = "read"
  /\ IF position < N
     THEN /\ position' = position + 1 /\ reads' = reads + 1
          /\ pc' = "process"
          /\ UNCHANGED <<status, eof>>
     ELSE Finish("completed") /\ eof' = TRUE /\ UNCHANGED <<position, reads>>
  /\ UNCHANGED <<runs, chunk, attempt, writes, skips, filters, checkpoint, written, dropped>>

\* Read returns an item; or none, and the rest is flushed.
Read ==
  /\ pc = "read"
  /\ IF position < N
     THEN /\ position' = position + 1 /\ reads' = reads + 1
          /\ pc' = "process"
          /\ UNCHANGED <<status, eof>>
     ELSE /\ eof' = TRUE
          /\ IF chunk = {} THEN Finish("completed") ELSE pc' = "write" /\ UNCHANGED status
          /\ UNCHANGED <<position, reads>>
  /\ UNCHANGED <<runs, chunk, attempt, writes, skips, filters, checkpoint, written, dropped>>

-----------------------------------------------------------------------------
(* process, and what Run makes of its result. *)

\* Process fails and shouldRetry.
ProcessRetry ==
  /\ pc = "process" /\ attempt < MaxAttempts
  /\ attempt' = attempt + 1
  /\ UNCHANGED <<pc, status, runs, position, eof, chunk, report, checkpoint, written, dropped>>

\* shouldSkip of SkipPolicy, one skip too generous.
shouldSkipOneMore(cost) == cost > 0 /\ MaxSkips > 0 /\ skips + cost <= MaxSkips + 1

\* shouldSkip of SkipPolicy, for an error that is not the context's.
shouldSkip(cost) == cost > 0 /\ MaxSkips > 0 /\ skips + cost <= MaxSkips

\* Process fails and is not retried: the item is skipped, or the run fails
\* (Stop).
ProcessSkip ==
  /\ pc = "process" /\ drops
  /\ shouldSkip(1)
  /\ skips' = skips + 1
  /\ dropped' = dropped \cup {position}
  /\ pc' = "save" /\ attempt' = 1
  /\ UNCHANGED <<status, runs, position, eof, chunk, reads, writes, filters, checkpoint, written>>

\* Process returns keep = false.
ProcessFilter ==
  /\ pc = "process" /\ drops
  /\ filters' = filters + 1
  /\ dropped' = dropped \cup {position}
  /\ pc' = "save" /\ attempt' = 1
  /\ UNCHANGED <<status, runs, position, eof, chunk, reads, writes, skips, checkpoint, written>>

\* The position is saved before the chunk is written.
ProcessKeepSaved ==
  /\ pc = "process"
  /\ chunk' = chunk \cup {position}
  /\ pc' = IF Cardinality(chunk') = ChunkSize THEN "write" ELSE "read"
  /\ checkpoint' = IF hasStore /\ pc' = "write" THEN position ELSE checkpoint
  /\ attempt' = 1
  /\ UNCHANGED <<status, runs, position, eof, report, written, dropped>>

\* The item joins the chunk, which is flushed when it is full.
ProcessKeep ==
  /\ pc = "process"
  /\ chunk' = chunk \cup {position}
  /\ pc' = IF Cardinality(chunk') = ChunkSize THEN "write" ELSE "read"
  /\ attempt' = 1
  /\ UNCHANGED <<status, runs, position, eof, report, checkpoint, written, dropped>>

-----------------------------------------------------------------------------
(* flush *)

\* write and the counter, with the chunk kept for the next flush.
WriteKept ==
  /\ pc = "write"
  /\ written' = written \cup chunk
  /\ writes' = writes + Cardinality(chunk)
  /\ pc' = "save" /\ attempt' = 1
  /\ UNCHANGED <<status, runs, position, eof, chunk, reads, skips, filters, checkpoint, dropped>>

\* Write succeeds.
Write ==
  /\ pc = "write"
  /\ written' = written \cup chunk
  /\ writes' = writes + Cardinality(chunk)
  /\ chunk' = {}
  /\ pc' = "save" /\ attempt' = 1
  /\ UNCHANGED <<status, runs, position, eof, reads, skips, filters, checkpoint, dropped>>

\* Write fails, having written some of the chunk, and shouldRetry; or the
\* run fails.
WriteFails ==
  /\ pc = "write"
  /\ \E part \in SUBSET chunk : written' = written \cup part
  /\ \/ attempt < MaxAttempts /\ attempt' = attempt + 1 /\ UNCHANGED <<pc, status>>
     \/ Fails /\ UNCHANGED attempt
  /\ UNCHANGED <<runs, position, eof, chunk, report, checkpoint, dropped>>

\* Write fails, is not retried and the chunk is skipped: only without a
\* store, ErrUnsafeWriterSkipCheckpoint otherwise.
WriteSkip ==
  /\ pc = "write"
  /\ shouldSkip(Cardinality(chunk)) /\ ~hasStore
  /\ \E part \in SUBSET chunk : written' = written \cup part
  /\ skips' = skips + Cardinality(chunk)
  /\ dropped' = dropped \cup chunk
  /\ chunk' = {}
  /\ pc' = "save" /\ attempt' = 1
  /\ UNCHANGED <<status, runs, position, eof, reads, writes, filters, checkpoint>>

\* saveCheckpoint saves the reader's position.
saveCheckpoint ==
  /\ pc = "save"
  /\ checkpoint' = IF hasStore THEN position ELSE checkpoint
  /\ IF eof THEN Finish("completed") ELSE pc' = "read" /\ UNCHANGED status
  /\ UNCHANGED <<runs, position, eof, chunk, attempt, report, written, dropped>>

\* Save fails, applied or not.
saveFails ==
  /\ pc = "save" /\ hasStore
  /\ checkpoint' \in {checkpoint, position}
  /\ Fails
  /\ UNCHANGED <<runs, position, eof, chunk, attempt, report, written, dropped>>

-----------------------------------------------------------------------------

Step ==
  \/ restoreCheckpoint \/ Read
  \/ ProcessRetry \/ ProcessSkip \/ ProcessFilter \/ ProcessKeep
  \/ Write \/ WriteFails \/ WriteSkip
  \/ saveCheckpoint \/ saveFails

Next == (Run \/ Stop \/ Step) /\ UNCHANGED config

Spec == Init /\ [][Next]_vars

-----------------------------------------------------------------------------

\* The report of a completed run accounts for every item it read, whatever
\* was retried, filtered or skipped, item by item or as a chunk.
ReportAccounts ==
  status = "completed" => reads = writes + skips + filters

\* A completed run has handled every item: each was written, filtered or
\* skipped by it or by an earlier run.  With a store this needs a processor
\* that keeps every item, see AtLeastOnce.
CompletedHandledAll ==
  status = "completed" /\ ~(hasStore /\ drops) => Items = written \cup dropped

\* At-least-once: between two runs, an item that the saved checkpoint has
\* passed, which no later run will read, was written, filtered or skipped.
AtLeastOnce ==
  pc = "idle" => \A i \in 1..checkpoint : i \in written \cup dropped

\* At-least-once holds when the processor keeps every item.
AtLeastOnceUnfiltered == ~drops => AtLeastOnce

=============================================================================
