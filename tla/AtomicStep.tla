------------------------------ MODULE AtomicStep ------------------------------
(***************************************************************************)
(* batch, runAtomic, with the writer of batch/sqlcheckpoint: the items of  *)
(* a chunk and the checkpoint row are committed in one transaction, which  *)
(* compares the row's revision with the one the run knows.  Several        *)
(* runners may run the step for the same key, one run after another each.  *)
(* A transaction past the comparison holds the lock of the row; when its   *)
(* runner dies or loses the connection, the server resolves it later.      *)
(***************************************************************************)
EXTENDS Integers

CONSTANTS
  Runners,
  N,             \* the number of items
  ChunkSize,     \* of the step each runner has configured
  MaxAttempts, MaxSkips,
  MaxRevision,   \* math.MaxInt64: the last revision
  MaxRuns        \* bound of the runs of a runner

ASSUME AtomicAssumption ==
  /\ N \in Nat /\ ChunkSize \in [Runners -> Nat \ {0}] /\ MaxAttempts \in Nat \ {0}
  /\ MaxSkips \in Nat /\ MaxRevision \in Nat /\ MaxRuns \in Nat

Items == 1..N

VARIABLES
  value, revision,             \* the row: the position it holds; 0 if there is none
  written, dropped,            \* how often an item was written; history: filtered or skipped
  locked, txValue, txItems, txDrops,   \* the transaction past the comparison
  pc, status, runs,
  position, eof,               \* of the runner's reader
  expected, pending, progress, attempt, skips,   \* locals of runAtomic
  drops                        \* history: what the run dropped since its last commit

row == <<value, revision, written, dropped>>
tx == <<locked, txValue, txItems, txDrops>>
reader == <<position, eof>>
chunk == <<pending, progress, drops>>
vars == <<row, tx, pc, status, runs, reader, expected, chunk, attempt, skips>>

TypeOK ==
  /\ value \in 0..N /\ revision \in 0..MaxRevision
  /\ written \in [Items -> Nat] /\ dropped \subseteq Items
  /\ locked \in BOOLEAN /\ txValue \in 0..N /\ txItems \subseteq Items /\ txDrops \subseteq Items
  /\ pc \in [Runners -> {"idle", "load", "read", "process", "begin", "compare", "commit"}]
  /\ status \in [Runners -> {"none", "running", "completed", "failed"}]
  /\ runs \in [Runners -> 0..MaxRuns]
  /\ position \in [Runners -> 0..N] /\ eof \in [Runners -> BOOLEAN]
  /\ expected \in [Runners -> 0..MaxRevision]
  /\ pending \in [Runners -> SUBSET Items] /\ drops \in [Runners -> SUBSET Items]
  /\ progress \in [Runners -> Nat]
  /\ attempt \in [Runners -> 1..MaxAttempts] /\ skips \in [Runners -> 0..MaxSkips]

Init ==
  /\ value = 0 /\ revision = 0
  /\ written = [i \in Items |-> 0] /\ dropped = {}
  /\ locked = FALSE /\ txValue = 0 /\ txItems = {} /\ txDrops = {}
  /\ pc = [r \in Runners |-> "idle"] /\ status = [r \in Runners |-> "none"]
  /\ runs = [r \in Runners |-> 0]
  /\ position = [r \in Runners |-> 0] /\ eof = [r \in Runners |-> FALSE]
  /\ expected = [r \in Runners |-> 0]
  /\ pending = [r \in Runners |-> {}] /\ drops = [r \in Runners |-> {}]
  /\ progress = [r \in Runners |-> 0]
  /\ attempt = [r \in Runners |-> 1] /\ skips = [r \in Runners |-> 0]

Goto(r, label) == pc' = [pc EXCEPT ![r] = label]
Finish(r, s) == Goto(r, "idle") /\ status' = [status EXCEPT ![r] = s]

-----------------------------------------------------------------------------
(* runAtomic *)

\* A new run: the reader is opened.
Run(r) ==
  /\ pc[r] = "idle" /\ runs[r] < MaxRuns
  /\ runs' = [runs EXCEPT ![r] = @ + 1]
  /\ Goto(r, "load") /\ status' = [status EXCEPT ![r] = "running"]
  /\ position' = [position EXCEPT ![r] = 0] /\ eof' = [eof EXCEPT ![r] = FALSE]
  /\ expected' = [expected EXCEPT ![r] = 0]
  /\ pending' = [pending EXCEPT ![r] = {}] /\ drops' = [drops EXCEPT ![r] = {}]
  /\ progress' = [progress EXCEPT ![r] = 0]
  /\ attempt' = [attempt EXCEPT ![r] = 1] /\ skips' = [skips EXCEPT ![r] = 0]
  /\ UNCHANGED <<row, tx>>

\* Load reads the committed row, and Restore moves the reader there.
Load(r) ==
  /\ pc[r] = "load"
  /\ position' = [position EXCEPT ![r] = value]
  /\ expected' = [expected EXCEPT ![r] = revision]
  /\ Goto(r, "read")
  /\ UNCHANGED <<row, tx, status, runs, eof, chunk, attempt, skips>>

\* The end of the input completes the run; only full chunks are committed.
ReadUncommitted(r) ==
  /\ pc[r] = "read"
  /\ IF position[r] < N
     THEN /\ position' = [position EXCEPT ![r] = @ + 1]
          /\ progress' = [progress EXCEPT ![r] = @ + 1]
          /\ Goto(r, "process")
          /\ UNCHANGED <<status, eof>>
     ELSE /\ eof' = [eof EXCEPT ![r] = TRUE]
          /\ Finish(r, "completed")
          /\ UNCHANGED <<position, progress>>
  /\ UNCHANGED <<row, tx, runs, expected, pending, drops, attempt, skips>>

\* Read returns an item; or none, and what was read since the last commit is
\* committed.
Read(r) ==
  /\ pc[r] = "read"
  /\ IF position[r] < N
     THEN /\ position' = [position EXCEPT ![r] = @ + 1]
          /\ progress' = [progress EXCEPT ![r] = @ + 1]
          /\ Goto(r, "process")
          /\ UNCHANGED <<status, eof>>
     ELSE /\ eof' = [eof EXCEPT ![r] = TRUE]
          /\ IF progress[r] > 0
             THEN Goto(r, "begin") /\ UNCHANGED status
             ELSE Finish(r, "completed")
          /\ UNCHANGED <<position, progress>>
  /\ UNCHANGED <<row, tx, runs, expected, pending, drops, attempt, skips>>

\* process tries again.
ProcessRetry(r) ==
  /\ pc[r] = "process" /\ attempt[r] < MaxAttempts
  /\ attempt' = [attempt EXCEPT ![r] = @ + 1]
  /\ UNCHANGED <<row, tx, pc, status, runs, reader, expected, chunk, skips>>

\* What follows the processing of an item: a full chunk is committed.
Processed(r) ==
  /\ Goto(r, IF progress[r] = ChunkSize[r] THEN "begin" ELSE "read")
  /\ attempt' = [attempt EXCEPT ![r] = 1]

\* The item is kept.
ProcessKeep(r) ==
  /\ pc[r] = "process"
  /\ pending' = [pending EXCEPT ![r] = @ \cup {position[r]}]
  /\ Processed(r)
  /\ UNCHANGED <<row, tx, status, runs, reader, expected, progress, drops, skips>>

\* The item is filtered, or its error skipped while skips are left.
ProcessDrop(r) ==
  /\ pc[r] = "process"
  /\ \/ UNCHANGED skips
     \/ skips[r] + 1 <= MaxSkips /\ skips' = [skips EXCEPT ![r] = @ + 1]
  /\ drops' = [drops EXCEPT ![r] = @ \cup {position[r]}]
  /\ Processed(r)
  /\ UNCHANGED <<row, tx, status, runs, reader, expected, pending, progress>>

-----------------------------------------------------------------------------
(* Commit of the sqlcheckpoint writer, called by commitAtomic. *)

\* The revision may grow past the largest bigint.
BeginUnbounded(r) ==
  /\ pc[r] = "begin"
  /\ Goto(r, "compare")
  /\ UNCHANGED <<row, tx, status, runs, reader, expected, chunk, attempt, skips>>

\* The transaction begins and the callback, if there are items, writes them
\* in it; a known error or exhausted revisions end the run (Stop).
Begin(r) ==
  /\ pc[r] = "begin" /\ expected[r] < MaxRevision
  /\ Goto(r, "compare")
  /\ UNCHANGED <<row, tx, status, runs, reader, expected, chunk, attempt, skips>>

\* The checkpoint is written without comparing the revision.
ScanRevisionUnchecked(r) ==
  /\ pc[r] = "compare" /\ ~locked
  /\ locked' = TRUE
  /\ txValue' = position[r] /\ txItems' = pending[r] /\ txDrops' = drops[r]
  /\ Goto(r, "commit")
  /\ UNCHANGED <<row, status, runs, reader, expected, chunk, attempt, skips>>

\* insertCheckpointSQL or updateCheckpointSQL: it waits for the transaction
\* that holds the row, and finds the expected revision or none.
ScanRevision(r) ==
  /\ pc[r] = "compare" /\ ~locked
  /\ IF revision = expected[r]
     THEN /\ locked' = TRUE
          /\ txValue' = position[r] /\ txItems' = pending[r] /\ txDrops' = drops[r]
          /\ Goto(r, "commit")
          /\ UNCHANGED status
     ELSE Finish(r, "failed") /\ UNCHANGED tx
  /\ UNCHANGED <<row, runs, reader, expected, chunk, attempt, skips>>

\* The open transaction commits.
Apply ==
  /\ value' = txValue
  /\ revision' = revision + 1
  /\ written' = [i \in Items |-> IF i \in txItems THEN written[i] + 1 ELSE written[i]]
  /\ dropped' = dropped \cup txDrops
  /\ locked' = FALSE
  /\ UNCHANGED <<txValue, txItems, txDrops>>

\* The open transaction rolls back.
RollBack == locked' = FALSE /\ UNCHANGED <<row, txValue, txItems, txDrops>>

\* The commit succeeds, but the items stay pending.
CommitKept(r) ==
  /\ pc[r] = "commit"
  /\ Apply
  /\ expected' = [expected EXCEPT ![r] = revision + 1]
  /\ progress' = [progress EXCEPT ![r] = 0]
  /\ IF eof[r] THEN Finish(r, "completed") ELSE Goto(r, "read") /\ UNCHANGED status
  /\ UNCHANGED <<runs, reader, pending, drops, attempt, skips>>

\* The commit succeeds; runAtomic goes on with the new revision.
Commit(r) ==
  /\ pc[r] = "commit"
  /\ Apply
  /\ expected' = [expected EXCEPT ![r] = revision + 1]
  /\ pending' = [pending EXCEPT ![r] = {}] /\ drops' = [drops EXCEPT ![r] = {}]
  /\ progress' = [progress EXCEPT ![r] = 0]
  /\ IF eof[r] THEN Finish(r, "completed") ELSE Goto(r, "read") /\ UNCHANGED status
  /\ UNCHANGED <<runs, reader, attempt, skips>>

\* The server refuses the commit, or the context ended before it.
CommitRefused(r) ==
  /\ pc[r] = "commit"
  /\ RollBack
  /\ Finish(r, "failed")
  /\ UNCHANGED <<runs, reader, expected, chunk, attempt, skips>>

\* The run fails, is cancelled or dies before its transaction holds the row,
\* which rolls it back; or the outcome of its commit is unknown
\* (ErrCommitUnknown), and the transaction is left to the server.
Stop(r) ==
  /\ pc[r] # "idle"
  /\ Finish(r, "failed")
  /\ UNCHANGED <<row, tx, runs, reader, expected, chunk, attempt, skips>>

\* The server resolves a transaction that was left to it.
Resolve ==
  /\ locked /\ \A r \in Runners : pc[r] # "commit"
  /\ Apply \/ RollBack
  /\ UNCHANGED <<pc, status, runs, reader, expected, chunk, attempt, skips>>

-----------------------------------------------------------------------------

runAtomic(r) ==
  \/ Load(r) \/ Read(r) \/ ProcessRetry(r) \/ ProcessKeep(r) \/ ProcessDrop(r)
  \/ Begin(r) \/ ScanRevision(r) \/ Commit(r) \/ CommitRefused(r) \/ Stop(r)

Next == Resolve \/ \E r \in Runners : Run(r) \/ runAtomic(r)

Spec == Init /\ [][Next]_vars

-----------------------------------------------------------------------------

\* The checkpoint and the business rows agree: an item the checkpoint has
\* passed was written exactly once or dropped, never both; no other item was
\* written.  Runs may overlap, be repeated, fail or leave commits of unknown
\* outcome behind.
ExactlyOnce ==
  \A i \in Items :
    /\ i \in dropped => i <= value
    /\ written[i] = IF i <= value /\ i \notin dropped THEN 1 ELSE 0

\* A run that reports completion has left no item behind the end.
CompletedHandledAll ==
  \A r \in Runners : status[r] = "completed" => value = N

\* runAtomic and Commit implement the atomic progress of one checkpoint.
Progress == INSTANCE AtomicProgress WITH N <- N, value <- value, written <- written, dropped <- dropped
Implements == Progress!Spec

=============================================================================
