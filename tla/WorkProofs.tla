----------------------------- MODULE WorkProofs -----------------------------
(***************************************************************************)
(* Proofs about work that is done in steps and may fail between them: the  *)
(* chunks of an atomic step (first part) and the rows of audit/sqloutbox   *)
(* (second part), which several processes share through a SQL table, and   *)
(* a batch step with a separate checkpoint store (third part).             *)
(*                                                                         *)
(* AtomicStep, for any runners, number of items, chunk size and number of  *)
(* runs.  A run whose expected revision is still the row's has split       *)
(* exactly the items after the row's position into pending and dropped     *)
(* ones (RunInv); the transaction past the comparison did the same         *)
(* (TxInv).  A commit raises the revision, which makes what every other    *)
(* run collected stale.                                                    *)
(***************************************************************************)
EXTENDS AtomicStep, TLAPS

\* W and D split the items after a, up to b.
Splits(W, D, a, b) ==
  \A i \in Items : (i \in W \/ i \in D <=> a < i /\ i <= b) /\ ~(i \in W /\ i \in D)

Active(r) == pc[r] \in {"read", "process", "begin", "compare", "commit"}

\* The last item that has been processed.
Covered(r) == IF pc[r] = "process" THEN position[r] - 1 ELSE position[r]

TxInv ==
  locked => /\ revision < MaxRevision
            /\ value <= txValue
            /\ Splits(txItems, txDrops, value, txValue)

BoundInv(r) ==
  /\ pc[r] = "read" => progress[r] < ChunkSize[r]
  /\ pc[r] = "process" => 0 < position[r] /\ progress[r] <= ChunkSize[r]
  /\ pc[r] \in {"compare", "commit"} => expected[r] < MaxRevision

SplitInv(r) ==
  expected[r] = revision => value <= Covered(r) /\ Splits(pending[r], drops[r], value, Covered(r))

RunInv(r) ==
  /\ Active(r) => /\ expected[r] <= revision
                  /\ position[r] - progress[r] <= value
                  /\ eof[r] => position[r] = N
                  /\ SplitInv(r)
  /\ pc[r] = "load" => pending[r] = {} /\ drops[r] = {} /\ progress[r] = 0 /\ ~eof[r]
  /\ pc[r] = "commit" => locked /\ expected[r] = revision /\ txValue = position[r]
  /\ status[r] = "completed" => value = N

OneHolder == \A q, r \in Runners : pc[q] = "commit" /\ pc[r] = "commit" => q = r

Bounded == TypeOK /\ \A r \in Runners : BoundInv(r)

Inv ==
  /\ Bounded
  /\ TxInv
  /\ \A r \in Runners : RunInv(r)
  /\ OneHolder
  /\ ExactlyOnce

\* The part of the state that is a runner's own and its invariants mention.
View(r) ==
  <<pc[r], status[r], position[r], eof[r], expected[r], pending[r], drops[r], progress[r]>>

-----------------------------------------------------------------------------

\* A step that leaves the row and the view of a runner alone, and the open
\* transaction too if it is that runner's, keeps the runner's invariants.
LEMMA FrameQuiet ==
  ASSUME NEW r \in Runners, RunInv(r), BoundInv(r), UNCHANGED View(r), UNCHANGED <<value, revision>>,
         pc[r] = "commit" => UNCHANGED <<locked, txValue>>
  PROVE  RunInv(r)' /\ BoundInv(r)'
BY Zenon DEF RunInv, BoundInv, View, Active, SplitInv, Covered, Splits

\* A commit keeps the invariants of the runners that do not hold the row:
\* what they collected is stale.
LEMMA FrameApply ==
  ASSUME NEW r \in Runners, TypeOK, TxInv, RunInv(r), BoundInv(r), UNCHANGED View(r),
         locked, Apply, pc[r] # "commit"
  PROVE  RunInv(r)' /\ BoundInv(r)'
<1>1. /\ revision \in Nat /\ value \in 0..N /\ txValue \in 0..N /\ N \in Nat
      /\ expected[r] \in Nat /\ position[r] \in Nat /\ progress[r] \in Nat
  BY AtomicAssumption DEF TypeOK
<1>2. value <= txValue /\ value' = txValue /\ revision' = revision + 1
  BY Zenon DEF TxInv, Apply
<1>3. BoundInv(r)'
  BY Zenon DEF BoundInv, View
<1>4. Active(r) => expected[r] <= revision' /\ expected[r] # revision' /\ position[r] - progress[r] <= value'
  BY <1>1, <1>2 DEF RunInv
<1>5. value = N => value' = N
  BY <1>1, <1>2
<1> QED
  BY <1>3, <1>4, <1>5, Zenon DEF RunInv, View, Active, SplitInv

\* A commit of the open transaction keeps the checkpoint and the business
\* rows in agreement.
LEMMA ApplySafe ==
  ASSUME TypeOK, TxInv, ExactlyOnce, locked, Apply
  PROVE  /\ ExactlyOnce' /\ TxInv'
         /\ value' \in 0..N /\ revision' \in 0..MaxRevision
         /\ written' \in [Items -> Nat] /\ dropped' \subseteq Items
         /\ locked' \in BOOLEAN /\ txValue' \in 0..N /\ txItems' \subseteq Items /\ txDrops' \subseteq Items
<1>1. ExactlyOnce'
  <2> SUFFICES ASSUME NEW i \in Items
               PROVE  /\ i \in dropped' => i <= value'
                      /\ written'[i] = IF i <= value' /\ i \notin dropped' THEN 1 ELSE 0
    BY Zenon DEF ExactlyOnce
  <2>1. /\ i \in Int /\ value \in Int /\ txValue \in Int /\ value <= txValue
        /\ (i \in txItems \/ i \in txDrops <=> value < i /\ i <= txValue) /\ ~(i \in txItems /\ i \in txDrops)
    BY AtomicAssumption DEF TypeOK, TxInv, Splits, Items
  <2>2. value' = txValue /\ (i \in dropped' <=> i \in dropped \/ i \in txDrops)
    BY Zenon DEF Apply
  <2>3. written'[i] = IF i \in txItems THEN written[i] + 1 ELSE written[i]
    BY Zenon DEF Apply
  <2>4. (i \in dropped => i <= value) /\ written[i] = IF i <= value /\ i \notin dropped THEN 1 ELSE 0
    BY Zenon DEF ExactlyOnce
  <2> QED
    BY <2>1, <2>2, <2>3, <2>4
<1>2. TxInv'
  BY Zenon DEF TxInv, Apply
<1>3. revision' \in 0..MaxRevision
  BY AtomicAssumption DEF TypeOK, TxInv, Apply
<1>4. written' \in [Items -> Nat]
  <2>1. ASSUME NEW i \in Items PROVE (IF i \in txItems THEN written[i] + 1 ELSE written[i]) \in Nat
    BY DEF TypeOK
  <2> QED
    BY <2>1, Zenon DEF Apply
<1>5. value' \in 0..N /\ dropped' \subseteq Items
  BY Zenon DEF TypeOK, Apply
<1>6. locked' \in BOOLEAN /\ txValue' \in 0..N /\ txItems' \subseteq Items /\ txDrops' \subseteq Items
  BY ZenonT(40) DEF TypeOK, Apply
<1> QED
  BY <1>1, <1>2, <1>3, <1>4, <1>5, <1>6, Zenon

-----------------------------------------------------------------------------

\* A step of a runner that leaves the row and the open transaction alone.
LEMMA LocalStep ==
  ASSUME Inv, NEW r \in Runners, UNCHANGED <<row, tx>>,
         \A q \in Runners \ {r} : UNCHANGED View(q),
         TypeOK', BoundInv(r)', RunInv(r)', pc'[r] # "commit"
  PROVE  Inv'
<1>1. \A q \in Runners \ {r} : RunInv(q)' /\ BoundInv(q)'
  BY FrameQuiet, Zenon DEF Inv, Bounded, row, tx
<1>2. TxInv' /\ ExactlyOnce'
  BY Zenon DEF Inv, TxInv, ExactlyOnce, Splits, row, tx
<1>3. OneHolder'
  <2>1. \A q \in Runners \ {r} : pc'[q] = pc[q]
    BY Zenon DEF View
  <2> QED
    BY <2>1, Zenon DEF Inv, OneHolder
<1>4. \A q \in Runners : RunInv(q)' /\ BoundInv(q)'
  BY <1>1, Zenon
<1> QED
  BY <1>2, <1>3, <1>4, Zenon DEF Inv, Bounded

\* Run, Load and the end of a run.
LEMMA OuterStep ==
  ASSUME Inv, NEW r \in Runners, Run(r) \/ Load(r) \/ Begin(r) \/ Stop(r)
  PROVE  Inv'
<1> USE AtomicAssumption
<1>1. TypeOK /\ BoundInv(r) /\ RunInv(r)
  BY Zenon DEF Inv, Bounded
<1>2. CASE Run(r)
  <2>1. TypeOK'
    BY <1>1, <1>2 DEF TypeOK, Run, Goto, row, tx
  <2>2. UNCHANGED <<row, tx>> /\ \A q \in Runners \ {r} : UNCHANGED View(q)
    BY <1>1, <1>2, Zenon DEF TypeOK, Run, Goto, View
  <2>3. /\ pc'[r] = "load" /\ status'[r] = "running" /\ pending'[r] = {} /\ drops'[r] = {}
        /\ progress'[r] = 0 /\ eof'[r] = FALSE
    BY <1>1, <1>2, Zenon DEF TypeOK, Run, Goto
  <2>4. BoundInv(r)' /\ RunInv(r)'
    BY <2>3, Zenon DEF BoundInv, RunInv, Active
  <2> QED
    BY <2>1, <2>2, <2>3, <2>4, LocalStep, Zenon
<1>3. CASE Load(r)
  <2>1. TypeOK'
    BY <1>1, <1>3, Zenon DEF TypeOK, Load, Goto, row, tx, chunk
  <2>2. UNCHANGED <<row, tx>> /\ \A q \in Runners \ {r} : UNCHANGED View(q)
    BY <1>1, <1>3, Zenon DEF TypeOK, Load, Goto, View, chunk
  <2>3. /\ pc'[r] = "read" /\ position'[r] = value /\ expected'[r] = revision
        /\ pending'[r] = {} /\ drops'[r] = {} /\ progress'[r] = 0 /\ eof'[r] = FALSE
        /\ status'[r] = status[r] /\ value' = value /\ revision' = revision
    BY <1>1, <1>3, Zenon DEF TypeOK, Load, Goto, RunInv, row, chunk
  <2>4. value \in Nat /\ revision \in Nat /\ Items \subseteq Int
    BY <1>1 DEF TypeOK, Items
  <2>5. BoundInv(r)'
    BY <2>3 DEF BoundInv
  <2>6. SplitInv(r)'
    <3>1. Covered(r)' = value' /\ value' <= value'
      BY <2>3, <2>4 DEF Covered
    <3>2. Splits({}, {}, value', value')
      BY <2>3, <2>4 DEF Splits
    <3> QED BY <2>3, <3>1, <3>2, Zenon DEF SplitInv, Splits
  <2>7. expected'[r] <= revision' /\ position'[r] - progress'[r] <= value'
    BY <2>3, <2>4
  <2>8. RunInv(r)'
    BY <1>1, <2>3, <2>6, <2>7, Zenon DEF RunInv
  <2> QED
    BY <2>1, <2>2, <2>3, <2>5, <2>8, LocalStep, Zenon
<1>4. CASE Begin(r)
  <2>1. TypeOK'
    BY <1>1, <1>4, Zenon DEF TypeOK, Begin, Goto, row, tx, reader, chunk
  <2>2. UNCHANGED <<row, tx>> /\ \A q \in Runners \ {r} : UNCHANGED View(q)
    BY <1>1, <1>4, Zenon DEF TypeOK, Begin, Goto, View, reader, chunk
  <2>3. /\ pc[r] = "begin" /\ pc'[r] = "compare" /\ expected[r] < MaxRevision
        /\ UNCHANGED <<position, expected, pending, drops, progress, eof, status, value, revision>>
    BY <1>1, <1>4, Zenon DEF TypeOK, Begin, Goto, row, reader, chunk
  <2>4. BoundInv(r)'
    BY <2>3, Zenon DEF BoundInv
  <2>5. RunInv(r)'
    BY <1>1, <2>3, Zenon DEF RunInv, Active, SplitInv, Covered, Splits
  <2> QED
    BY <2>1, <2>2, <2>3, <2>4, <2>5, LocalStep, Zenon
<1>5. CASE Stop(r)
  <2>1. TypeOK'
    BY <1>1, <1>5, Zenon DEF TypeOK, Stop, Finish, Goto, row, tx, reader, chunk
  <2>2. UNCHANGED <<row, tx>> /\ \A q \in Runners \ {r} : UNCHANGED View(q)
    BY <1>1, <1>5, Zenon DEF TypeOK, Stop, Finish, Goto, View, reader, chunk
  <2>3. pc'[r] = "idle" /\ status'[r] = "failed"
    BY <1>1, <1>5, Zenon DEF TypeOK, Stop, Finish, Goto
  <2>4. BoundInv(r)' /\ RunInv(r)'
    BY <2>3, Zenon DEF BoundInv, RunInv, Active
  <2> QED
    BY <2>1, <2>2, <2>3, <2>4, LocalStep, Zenon
<1> QED
  BY <1>2, <1>3, <1>4, <1>5, Zenon

\* Reading: the item read is not covered until it has been processed.
LEMMA ReadStep ==
  ASSUME Inv, NEW r \in Runners, Read(r)
  PROVE  Inv'
<1> USE AtomicAssumption
<1>1. TypeOK /\ BoundInv(r) /\ RunInv(r) /\ pc[r] = "read" /\ Active(r)
  BY Zenon DEF Inv, Bounded, Read, Active
<1>2. /\ position[r] \in 0..N /\ progress[r] \in Nat /\ progress[r] < ChunkSize[r] /\ ChunkSize[r] \in Nat
      /\ value \in 0..N /\ revision \in Nat /\ expected[r] \in Nat
  BY <1>1 DEF TypeOK, BoundInv
<1>3. UNCHANGED <<row, tx>> /\ \A q \in Runners \ {r} : UNCHANGED View(q)
  BY <1>1 DEF TypeOK, Read, Finish, Goto, View
<1>4. CASE position[r] < N
  <2>1. /\ position' = [position EXCEPT ![r] = position[r] + 1]
        /\ progress' = [progress EXCEPT ![r] = progress[r] + 1]
        /\ pc' = [pc EXCEPT ![r] = "process"]
        /\ UNCHANGED <<row, tx, status, eof, runs, expected, pending, drops, attempt, skips>>
    BY <1>4, Zenon DEF Read, Goto
  <2>2. position[r] + 1 \in 0..N /\ progress[r] + 1 \in Nat /\ progress[r] + 1 <= ChunkSize[r]
    BY <1>2, <1>4
  <2>3. TypeOK'
    BY <1>1, <2>1, <2>2, Zenon DEF TypeOK, row, tx
  <2>4. /\ pc'[r] = "process" /\ position'[r] = position[r] + 1 /\ progress'[r] = progress[r] + 1
        /\ expected' = expected /\ pending' = pending /\ drops' = drops /\ eof' = eof
        /\ status' = status /\ value' = value /\ revision' = revision
    BY <1>1, <2>1, Zenon DEF TypeOK, row
  <2>5. BoundInv(r)'
    BY <1>2, <2>4 DEF BoundInv
  <2>6. Covered(r)' = Covered(r)
    BY <1>1, <1>2, <2>4 DEF Covered
  <2>7. SplitInv(r)'
    BY <1>1, <2>4, <2>6, Zenon DEF RunInv, SplitInv, Splits
  <2>8. position'[r] - progress'[r] <= value' /\ expected'[r] <= revision' /\ ~eof'[r]
    BY <1>1, <1>2, <1>4, <2>4 DEF RunInv
  <2>9. RunInv(r)'
    BY <1>1, <2>4, <2>7, <2>8, Zenon DEF RunInv
  <2> QED
    BY <1>3, <2>3, <2>4, <2>5, <2>9, LocalStep, Zenon
<1>5. CASE ~(position[r] < N)
  <2>1. PICK l, t :
          /\ l \in {"begin", "idle"} /\ t \in {status[r], "completed"}
          /\ l = "begin" => t = status[r]
          /\ l = "idle" => t = "completed" /\ progress[r] = 0
          /\ eof' = [eof EXCEPT ![r] = TRUE]
          /\ pc' = [pc EXCEPT ![r] = l]
          /\ status' = [status EXCEPT ![r] = t]
          /\ UNCHANGED <<row, tx, position, progress, runs, expected, pending, drops, attempt, skips>>
    <3>1. status = [status EXCEPT ![r] = status[r]]
      BY <1>1, Zenon DEF TypeOK
    <3>2. CASE progress[r] > 0
      BY <1>5, <3>1, <3>2, Zenon DEF Read, Goto
    <3>3. CASE ~(progress[r] > 0)
      <4>1. progress[r] = 0
        BY <1>2, <3>3
      <4> QED
        BY <1>5, <3>3, <4>1, Zenon DEF Read, Finish, Goto
    <3> QED
      BY <3>2, <3>3, Zenon
  <2>2. TypeOK'
    BY <1>1, <2>1, Zenon DEF TypeOK, row, tx
  <2>3. /\ pc'[r] = l /\ status'[r] = t /\ eof'[r] = TRUE
        /\ position' = position /\ progress' = progress /\ expected' = expected
        /\ pending' = pending /\ drops' = drops /\ value' = value /\ revision' = revision
    BY <1>1, <2>1, Zenon DEF TypeOK, row
  <2>4. position[r] = N
    BY <1>2, <1>5
  <2>5. l = "idle" => value = N
    BY <1>1, <1>2, <2>1, <2>4 DEF RunInv
  <2>6. BoundInv(r)'
    BY <2>1, <2>3, Zenon DEF BoundInv
  <2>7. Covered(r)' = Covered(r)
    BY <1>1, <2>1, <2>3, Zenon DEF Covered
  <2>8. SplitInv(r)'
    BY <1>1, <2>3, <2>7, Zenon DEF RunInv, SplitInv, Splits
  <2>9. status'[r] = "completed" => value' = N
    BY <1>1, <2>1, <2>3, <2>5, Zenon DEF RunInv
  <2>10. RunInv(r)'
    BY <1>1, <2>1, <2>3, <2>4, <2>8, <2>9, Zenon DEF RunInv, Active
  <2> QED
    BY <1>3, <2>1, <2>2, <2>3, <2>6, <2>10, LocalStep, Zenon
<1> QED
  BY <1>4, <1>5, Zenon

\* Processing: the item read joins the pending items or the dropped ones.
LEMMA ProcessStep ==
  ASSUME Inv, NEW r \in Runners, ProcessRetry(r) \/ ProcessKeep(r) \/ ProcessDrop(r)
  PROVE  Inv'
<1> USE AtomicAssumption
<1>1. TypeOK /\ BoundInv(r) /\ RunInv(r) /\ pc[r] = "process" /\ Active(r)
  BY Zenon DEF Inv, Bounded, ProcessRetry, ProcessKeep, ProcessDrop, Active
<1>2. CASE ProcessRetry(r)
  <2>1. TypeOK'
    BY <1>1, <1>2 DEF TypeOK, ProcessRetry, row, tx, reader, chunk
  <2>2. UNCHANGED <<row, tx>> /\ \A q \in Runners : UNCHANGED View(q)
    BY <1>2, Zenon DEF ProcessRetry, View, reader, chunk
  <2>3. BoundInv(r)' /\ RunInv(r)' /\ pc'[r] # "commit"
    BY <1>1, <1>2, <2>2, FrameQuiet, Zenon DEF row, tx, ProcessRetry
  <2> QED
    BY <2>1, <2>2, <2>3, LocalStep, Zenon
<1>3. CASE ProcessKeep(r) \/ ProcessDrop(r)
  <2>1. PICK W, D, l, k :
          /\ W \subseteq Items /\ D \subseteq Items /\ k \in 0..MaxSkips
          /\ \/ W = pending[r] \cup {position[r]} /\ D = drops[r]
             \/ W = pending[r] /\ D = drops[r] \cup {position[r]}
          /\ l = IF progress[r] = ChunkSize[r] THEN "begin" ELSE "read"
          /\ pending' = [pending EXCEPT ![r] = W] /\ drops' = [drops EXCEPT ![r] = D]
          /\ skips' = [skips EXCEPT ![r] = k]
          /\ pc' = [pc EXCEPT ![r] = l] /\ attempt' = [attempt EXCEPT ![r] = 1]
          /\ UNCHANGED <<row, tx, status, runs, reader, expected, progress>>
    <3>1. /\ pending = [pending EXCEPT ![r] = pending[r]] /\ drops = [drops EXCEPT ![r] = drops[r]]
          /\ skips = [skips EXCEPT ![r] = skips[r]] /\ skips[r] \in 0..MaxSkips
          /\ pending[r] \subseteq Items /\ drops[r] \subseteq Items
      BY <1>1, Zenon DEF TypeOK
    <3>2. position[r] \in Items
      BY <1>1 DEF TypeOK, BoundInv, Items
    <3>3. CASE ProcessKeep(r)
      <4>1. /\ pending' = [pending EXCEPT ![r] = pending[r] \cup {position[r]}]
            /\ drops' = [drops EXCEPT ![r] = drops[r]]
            /\ skips' = [skips EXCEPT ![r] = skips[r]]
            /\ pc' = [pc EXCEPT ![r] = IF progress[r] = ChunkSize[r] THEN "begin" ELSE "read"]
            /\ attempt' = [attempt EXCEPT ![r] = 1]
            /\ UNCHANGED <<row, tx, status, runs, reader, expected, progress>>
        BY <3>1, <3>3, Zenon DEF ProcessKeep, Processed, Goto
      <4>2. pending[r] \cup {position[r]} \subseteq Items
        BY <3>1, <3>2, Zenon
      <4> QED
        BY <3>1, <4>1, <4>2, Zenon
    <3>4. CASE ProcessDrop(r)
      <4>1. PICK k \in 0..MaxSkips : skips' = [skips EXCEPT ![r] = k]
        <5>1. CASE skips' = skips
          BY <3>1, <5>1, Zenon
        <5>2. CASE skips[r] + 1 <= MaxSkips /\ skips' = [skips EXCEPT ![r] = skips[r] + 1]
          <6>1. skips[r] + 1 \in 0..MaxSkips
            BY <3>1, <5>2
          <6> QED
            BY <5>2, <6>1, Zenon
        <5> QED
          BY <3>4, <5>1, <5>2, Zenon DEF ProcessDrop
      <4>2. /\ drops' = [drops EXCEPT ![r] = drops[r] \cup {position[r]}]
            /\ pending' = [pending EXCEPT ![r] = pending[r]]
            /\ pc' = [pc EXCEPT ![r] = IF progress[r] = ChunkSize[r] THEN "begin" ELSE "read"]
            /\ attempt' = [attempt EXCEPT ![r] = 1]
            /\ UNCHANGED <<row, tx, status, runs, reader, expected, progress>>
        BY <3>1, <3>4, Zenon DEF ProcessDrop, Processed, Goto
      <4>3. drops[r] \cup {position[r]} \subseteq Items
        BY <3>1, <3>2, Zenon
      <4> QED
        BY <3>1, <4>1, <4>2, <4>3, Zenon
    <3> QED
      BY <1>3, <3>3, <3>4, Zenon
  <2>2. 1 \in 1..MaxAttempts /\ l \in {"begin", "read"}
    BY <2>1
  <2>3. TypeOK'
    BY <1>1, <2>1, <2>2, Zenon DEF TypeOK, row, tx, reader
  <2>4. \A q \in Runners \ {r} : UNCHANGED View(q)
    BY <1>1, <2>1, Zenon DEF TypeOK, View, reader
  <2>5. /\ pc'[r] = l /\ pending'[r] = W /\ drops'[r] = D
        /\ position' = position /\ eof' = eof /\ progress' = progress /\ expected' = expected
        /\ status' = status /\ value' = value /\ revision' = revision
    BY <1>1, <2>1, Zenon DEF TypeOK, row, reader
  <2>6. BoundInv(r)'
    BY <1>1, <2>1, <2>5, SMTT(30) DEF BoundInv, TypeOK
  <2>7. SplitInv(r)'
    <3> SUFFICES ASSUME expected'[r] = revision'
                 PROVE  value' <= Covered(r)' /\ Splits(pending[r], drops[r], value, Covered(r))'
      BY Zenon DEF SplitInv
    <3>1. Covered(r) = position[r] - 1 /\ Covered(r)' = position[r]
      BY <1>1, <2>2, <2>5, Zenon DEF Covered
    <3>2. value <= Covered(r) /\ Splits(pending[r], drops[r], value, Covered(r))
      BY <1>1, <2>5, Zenon DEF RunInv, SplitInv
    <3>3. value \in Nat /\ position[r] \in Nat /\ Items \subseteq Int
      BY <1>1 DEF TypeOK, Items
    <3>4. ASSUME NEW i \in Items
          PROVE  /\ i \in W \/ i \in D <=> value < i /\ i <= position[r]
                 /\ ~(i \in W /\ i \in D)
      BY <2>1, <3>1, <3>2, <3>3 DEF Splits
    <3>5. value <= position[r]
      BY <3>1, <3>2, <3>3
    <3> QED
      BY <2>5, <3>1, <3>4, <3>5, Zenon DEF Splits
  <2>8. RunInv(r)'
    BY <1>1, <2>2, <2>5, <2>7, Zenon DEF RunInv
  <2> QED
    BY <2>1, <2>2, <2>3, <2>4, <2>5, <2>6, <2>8, LocalStep, Zenon
<1> QED
  BY <1>2, <1>3, Zenon

\* The comparison: the transaction takes over what the run collected.
LEMMA ScanStep ==
  ASSUME Inv, NEW r \in Runners, ScanRevision(r)
  PROVE  Inv'
<1> USE AtomicAssumption
<1>1. TypeOK /\ BoundInv(r) /\ RunInv(r) /\ pc[r] = "compare" /\ Active(r) /\ locked = FALSE
  BY Zenon DEF Inv, Bounded, ScanRevision, Active, TypeOK
<1>2. \A q \in Runners \ {r} : UNCHANGED View(q)
  BY <1>1 DEF TypeOK, ScanRevision, Finish, Goto, View, reader, chunk
<1>3. \A q \in Runners : pc[q] # "commit"
  BY <1>1, Zenon DEF Inv, RunInv
<1>4. CASE revision # expected[r]
  <2>1. TypeOK'
    BY <1>1, <1>4, Zenon DEF TypeOK, ScanRevision, Finish, Goto, row, tx, reader, chunk
  <2>2. UNCHANGED <<row, tx>> /\ pc'[r] = "idle" /\ status'[r] = "failed"
    BY <1>1, <1>4, Zenon DEF TypeOK, ScanRevision, Finish, Goto
  <2>3. BoundInv(r)' /\ RunInv(r)'
    BY <2>2, Zenon DEF BoundInv, RunInv, Active
  <2> QED
    BY <1>2, <2>1, <2>2, <2>3, LocalStep, Zenon
<1>5. CASE revision = expected[r]
  <2>1. /\ locked' = TRUE /\ txValue' = position[r] /\ txItems' = pending[r] /\ txDrops' = drops[r]
        /\ pc' = [pc EXCEPT ![r] = "commit"]
        /\ UNCHANGED <<row, status, runs, reader, expected, chunk, attempt, skips>>
    BY <1>5, Zenon DEF ScanRevision, Goto
  <2>2. TypeOK'
    BY <1>1, <2>1, Zenon DEF TypeOK, row, reader, chunk
  <2>3. /\ pc'[r] = "commit" /\ UNCHANGED <<position, eof, progress, expected, pending, drops, status, value, revision>>
    BY <1>1, <2>1, Zenon DEF TypeOK, row, reader, chunk
  <2>4. Covered(r) = position[r] /\ Covered(r)' = position[r]
    BY <1>1, <2>3, Zenon DEF Covered
  <2>5. value <= position[r] /\ Splits(pending[r], drops[r], value, position[r])
    BY <1>1, <1>5, <2>4, Zenon DEF RunInv, SplitInv
  <2>6. TxInv'
    BY <1>1, <1>5, <2>1, <2>3, <2>5, Zenon DEF TxInv, Splits, BoundInv
  <2>7. SplitInv(r)'
    BY <2>3, <2>4, <2>5, Zenon DEF SplitInv, Splits
  <2>8. RunInv(r)' /\ BoundInv(r)'
    BY <1>1, <1>5, <2>1, <2>3, <2>7, Zenon DEF RunInv, BoundInv
  <2>9. \A q \in Runners \ {r} : RunInv(q)' /\ BoundInv(q)'
    BY <1>2, <1>3, <2>3, FrameQuiet, Zenon DEF Inv, Bounded
  <2>10. \A q \in Runners : RunInv(q)' /\ BoundInv(q)'
    BY <2>8, <2>9, Zenon
  <2>11. OneHolder'
    <3>1. \A q \in Runners \ {r} : pc'[q] # "commit"
      BY <1>2, <1>3, Zenon DEF View
    <3> QED
      BY <3>1, Zenon DEF OneHolder
  <2>12. ExactlyOnce'
    BY <2>1, Zenon DEF Inv, ExactlyOnce, row
  <2> QED
    BY <2>2, <2>6, <2>10, <2>11, <2>12, Zenon DEF Inv, Bounded
<1> QED
  BY <1>4, <1>5, Zenon

\* The end of the transaction that holds the row, by its runner.
LEMMA CommitStep ==
  ASSUME Inv, NEW r \in Runners, Commit(r) \/ CommitRefused(r)
  PROVE  Inv'
<1> USE AtomicAssumption
<1>1. /\ TypeOK /\ BoundInv(r) /\ RunInv(r) /\ pc[r] = "commit" /\ Active(r) /\ TxInv /\ ExactlyOnce
      /\ locked /\ expected[r] = revision /\ txValue = position[r]
  BY Zenon DEF Inv, Bounded, Commit, CommitRefused, Active, RunInv
<1>2. \A q \in Runners \ {r} : pc[q] # "commit" /\ RunInv(q) /\ BoundInv(q)
  BY <1>1, Zenon DEF Inv, Bounded, OneHolder
<1>3. CASE CommitRefused(r)
  <2>1. TypeOK'
    BY <1>1, <1>3, ZenonT(40) DEF TypeOK, CommitRefused, RollBack, Finish, Goto, row, reader, chunk
  <2>2. \A q \in Runners \ {r} : UNCHANGED View(q)
    BY <1>1, <1>3, Zenon DEF TypeOK, CommitRefused, Finish, Goto, View, reader, chunk
  <2>3. /\ locked' = FALSE /\ UNCHANGED row /\ pc'[r] = "idle" /\ status'[r] = "failed"
    BY <1>1, <1>3, Zenon DEF TypeOK, CommitRefused, RollBack, Finish, Goto
  <2>4. BoundInv(r)' /\ RunInv(r)'
    BY <2>3, Zenon DEF BoundInv, RunInv, Active
  <2>5. \A q \in Runners \ {r} : RunInv(q)' /\ BoundInv(q)'
    BY <1>2, <2>2, <2>3, FrameQuiet, Zenon DEF row
  <2>6. \A q \in Runners : RunInv(q)' /\ BoundInv(q)'
    BY <2>4, <2>5, Zenon
  <2>7. OneHolder'
    BY <1>2, <2>2, <2>3, Zenon DEF OneHolder, View
  <2>8. TxInv' /\ ExactlyOnce'
    BY <1>1, <2>3, Zenon DEF TxInv, ExactlyOnce, row
  <2> QED
    BY <2>1, <2>6, <2>7, <2>8, Zenon DEF Inv, Bounded
<1>4. CASE Commit(r)
  <2>1. PICK l, t :
          /\ l \in {"idle", "read"} /\ t \in {status[r], "completed"}
          /\ l = "idle" => eof[r] /\ t = "completed"
          /\ l = "read" => ~eof[r] /\ t = status[r]
          /\ pc' = [pc EXCEPT ![r] = l] /\ status' = [status EXCEPT ![r] = t]
    <3>1. status = [status EXCEPT ![r] = status[r]]
      BY <1>1, Zenon DEF TypeOK
    <3> QED
      BY <1>4, <3>1, Zenon DEF Commit, Finish, Goto
  <2>2. /\ Apply
        /\ expected' = [expected EXCEPT ![r] = revision + 1]
        /\ pending' = [pending EXCEPT ![r] = {}] /\ drops' = [drops EXCEPT ![r] = {}]
        /\ progress' = [progress EXCEPT ![r] = 0]
        /\ UNCHANGED <<runs, reader, attempt, skips>>
    BY <1>4, Zenon DEF Commit
  <2>3. /\ ExactlyOnce' /\ TxInv'
        /\ value' \in 0..N /\ revision' \in 0..MaxRevision
        /\ written' \in [Items -> Nat] /\ dropped' \subseteq Items
        /\ locked' \in BOOLEAN /\ txValue' \in 0..N /\ txItems' \subseteq Items /\ txDrops' \subseteq Items
    BY <1>1, <2>2, ApplySafe, Zenon
  <2>4. revision' = revision + 1 /\ value' = position[r]
    BY <1>1, <2>2, Zenon DEF Apply
  <2>5. TypeOK'
    <3>1. revision + 1 \in 0..MaxRevision
      BY <2>3, <2>4, Zenon
    <3> QED
      BY <1>1, <2>1, <2>2, <2>3, <3>1, Zenon DEF TypeOK, reader
  <2>6. \A q \in Runners \ {r} : UNCHANGED View(q)
    BY <1>1, <2>1, <2>2, Zenon DEF TypeOK, View, reader
  <2>7. /\ pc'[r] = l /\ status'[r] = t /\ expected'[r] = revision' /\ pending'[r] = {} /\ drops'[r] = {}
        /\ progress'[r] = 0 /\ position' = position /\ eof' = eof
    BY <1>1, <2>1, <2>2, <2>4, Zenon DEF TypeOK, reader
  <2>8. BoundInv(r)'
    BY <2>1, <2>7 DEF BoundInv
  <2>9. position[r] \in 0..N /\ revision' \in Nat /\ Items \subseteq Int
    BY <1>1, <2>3 DEF TypeOK, Items
  <2>10. SplitInv(r)'
    BY <2>1, <2>4, <2>7, <2>9 DEF SplitInv, Covered, Splits
  <2>11. expected'[r] <= revision' /\ position'[r] - progress'[r] <= value'
    BY <2>4, <2>7, <2>9
  <2>12. t = "completed" => value' = N
    <3>1. CASE eof[r]
      BY <1>1, <2>4, <3>1, Zenon DEF RunInv
    <3>2. CASE ~eof[r] /\ t = "completed"
      <4>1. status[r] = "completed"
        BY <2>1, <3>2, SMTT(30)
      <4>2. value = N /\ value <= txValue /\ value' = txValue /\ N \in Nat
        BY <1>1, <2>2, <4>1, Zenon DEF RunInv, TxInv, Apply
      <4> QED
        BY <2>3, <4>2
    <3> QED
      BY <3>1, <3>2, Zenon
  <2>13. RunInv(r)'
    BY <1>1, <2>1, <2>7, <2>10, <2>11, <2>12, Zenon DEF RunInv, Active
  <2>14. \A q \in Runners \ {r} : RunInv(q)' /\ BoundInv(q)'
    BY <1>1, <1>2, <2>2, <2>6, FrameApply, Zenon
  <2>15. \A q \in Runners : RunInv(q)' /\ BoundInv(q)'
    BY <2>8, <2>13, <2>14, Zenon
  <2>16. OneHolder'
    <3>1. \A q \in Runners : pc'[q] # "commit"
      BY <1>2, <2>1, <2>6, <2>7 DEF View
    <3> QED
      BY <3>1, Zenon DEF OneHolder
  <2> QED
    BY <2>3, <2>5, <2>15, <2>16, Zenon DEF Inv, Bounded
<1> QED
  BY <1>3, <1>4, Zenon

\* The end of a transaction that was left to the server.
LEMMA ResolveStep ==
  ASSUME Inv, Resolve
  PROVE  Inv'
<1> USE AtomicAssumption
<1>1. /\ TypeOK /\ TxInv /\ ExactlyOnce /\ locked
      /\ \A q \in Runners : pc[q] # "commit" /\ RunInv(q) /\ BoundInv(q) /\ UNCHANGED View(q)
  BY Zenon DEF Inv, Bounded, Resolve, View, reader, chunk
<1>2. OneHolder'
  BY <1>1, Zenon DEF OneHolder, View
<1>3. CASE Apply
  <2>1. \A q \in Runners : RunInv(q)' /\ BoundInv(q)'
    BY <1>1, <1>3, FrameApply, Zenon
  <2>2. /\ ExactlyOnce' /\ TxInv'
        /\ value' \in 0..N /\ revision' \in 0..MaxRevision
        /\ written' \in [Items -> Nat] /\ dropped' \subseteq Items
        /\ locked' \in BOOLEAN /\ txValue' \in 0..N /\ txItems' \subseteq Items /\ txDrops' \subseteq Items
    BY <1>1, <1>3, ApplySafe, Zenon
  <2>3. TypeOK'
    BY <1>1, <2>2, Zenon DEF TypeOK, Resolve, reader, chunk
  <2> QED
    BY <1>2, <2>1, <2>2, <2>3, Zenon DEF Inv, Bounded
<1>4. CASE RollBack
  <2>1. \A q \in Runners : RunInv(q)' /\ BoundInv(q)'
    BY <1>1, <1>4, FrameQuiet, Zenon DEF RollBack, row
  <2>2. ExactlyOnce' /\ TxInv'
    BY <1>1, <1>4, Zenon DEF RollBack, row, TxInv, ExactlyOnce
  <2>3. TypeOK'
    BY <1>1, <1>4, Zenon DEF TypeOK, Resolve, RollBack, row, reader, chunk
  <2> QED
    BY <1>2, <2>1, <2>2, <2>3, Zenon DEF Inv, Bounded
<1> QED
  BY <1>3, <1>4, Zenon DEF Resolve

-----------------------------------------------------------------------------

\* The inductive invariant.
THEOREM Invariance == Spec => []Inv
<1> USE AtomicAssumption
<1>1. Init => Inv
  <2> SUFFICES ASSUME Init PROVE Inv
    BY Zenon
  <2>1. TypeOK
    <3>1. /\ 0 \in 0..N /\ 0 \in 0..MaxRevision /\ 0 \in 0..MaxRuns
          /\ 0 \in 0..MaxSkips /\ 1 \in 1..MaxAttempts /\ 0 \in Nat
      OBVIOUS
    <3> QED
      BY <3>1, Zenon DEF Init, TypeOK
  <2>2. \A r \in Runners : pc[r] = "idle" /\ status[r] = "none"
    BY Zenon DEF Init
  <2>3. \A r \in Runners : RunInv(r) /\ BoundInv(r)
    BY <2>2, Zenon DEF RunInv, BoundInv, Active
  <2>4. OneHolder /\ TxInv
    BY <2>2, Zenon DEF OneHolder, TxInv, Init
  <2>5. ExactlyOnce
    BY DEF ExactlyOnce, Init, Items
  <2> QED
    BY <2>1, <2>3, <2>4, <2>5, Zenon DEF Inv, Bounded
<1>2. Inv /\ [Next]_vars => Inv'
  <2> SUFFICES ASSUME Inv, [Next]_vars PROVE Inv'
    BY Zenon
  <2>1. CASE Resolve
    BY <2>1, ResolveStep, Zenon
  <2>2. ASSUME NEW r \in Runners, Run(r) \/ runAtomic(r)
        PROVE  Inv'
    BY <2>2, OuterStep, ReadStep, ProcessStep, ScanStep, CommitStep, Zenon DEF runAtomic
  <2>3. CASE UNCHANGED vars
    <3>1. \A q \in Runners : UNCHANGED View(q)
      BY <2>3, Zenon DEF vars, View, reader, chunk
    <3>2. UNCHANGED <<row, tx>>
      BY <2>3, Zenon DEF vars
    <3>3. TypeOK' /\ OneHolder' /\ TxInv' /\ ExactlyOnce'
      BY <2>3, Zenon DEF vars, row, tx, reader, chunk, Inv, Bounded, TypeOK, OneHolder, TxInv, ExactlyOnce, Splits
    <3>4. \A q \in Runners : RunInv(q)' /\ BoundInv(q)'
      BY <3>1, <3>2, FrameQuiet, Zenon DEF Inv, Bounded, row, tx
    <3> QED
      BY <3>3, <3>4, Zenon DEF Inv, Bounded
  <2> QED
    BY <2>1, <2>2, <2>3, Zenon DEF Next
<1> QED
  BY <1>1, <1>2, PTL DEF Spec

\* The state of the runs and of the row keeps its types; in particular the
\* revision never exceeds the largest bigint.
THEOREM TypeCorrect == Spec => []TypeOK
<1>1. Inv => TypeOK
  BY Zenon DEF Inv, Bounded
<1> QED
  BY <1>1, Invariance, PTL

\* Every item the checkpoint has passed was written exactly once or dropped,
\* for any number of overlapping, failing and repeated runs.
THEOREM AlwaysExactlyOnce == Spec => []ExactlyOnce
<1>1. Inv => ExactlyOnce
  BY Zenon DEF Inv
<1> QED
  BY <1>1, Invariance, PTL

\* When a run has reported completion, the checkpoint is at the end of the
\* input.
THEOREM CompletionIsTotal == Spec => []CompletedHandledAll
<1>1. Inv => CompletedHandledAll
  BY Zenon DEF Inv, RunInv, CompletedHandledAll
<1> QED
  BY <1>1, Invariance, PTL

-----------------------------------------------------------------------------

\* A commit of the open transaction is a step of AtomicProgress.
LEMMA ApplyAdvances ==
  ASSUME TypeOK, TxInv, locked, Apply
  PROVE  Progress!Next
<1> USE AtomicAssumption
<1>1. /\ value \in 0..N /\ txValue \in 0..N /\ value <= txValue /\ txItems \subseteq Items
      /\ Splits(txItems, txDrops, value, txValue) /\ txDrops \subseteq Items
  BY Zenon DEF TypeOK, TxInv
<1>2. txItems \subseteq (value + 1)..txValue
  BY <1>1 DEF Splits, Items
<1>3. txDrops = ((value + 1)..txValue) \ txItems
  <2>1. ASSUME NEW i \in txDrops PROVE i \in ((value + 1)..txValue) \ txItems
    BY <1>1 DEF Splits, Items
  <2>2. ASSUME NEW i \in ((value + 1)..txValue) \ txItems PROVE i \in txDrops
    <3>1. i \in Items /\ value < i /\ i <= txValue
      BY <1>1 DEF Items
    <3> QED
      BY <1>1, <3>1, Zenon DEF Splits
  <2> QED
    BY <2>1, <2>2, Zenon
<1>4. txValue \in value..N
  BY <1>1
<1>5. Progress!Items = Items
  BY Zenon DEF Items, Progress!Items
<1>6. Progress!Advance(txValue, txItems)
  BY <1>2, <1>3, <1>4, <1>5, Zenon DEF Apply, Progress!Advance
<1> QED
  BY <1>1, <1>5, <1>6, Zenon DEF Progress!Next

\* The atomic step implements AtomicProgress: the runs and the transactions
\* of the checkpoint writer act on the business rows and the checkpoint as
\* single steps that move both together.
THEOREM Refinement == Spec => Implements
<1>1. Init => Progress!Init
  BY Zenon DEF Init, Progress!Init, Items, Progress!Items
<1>2. Inv /\ [Next]_vars => [Progress!Next]_Progress!vars
  <2> SUFFICES ASSUME Inv, [Next]_vars, ~(UNCHANGED Progress!vars)
               PROVE  Progress!Next
    BY Zenon
  <2>1. TypeOK /\ TxInv
    BY Zenon DEF Inv, Bounded
  <2>2. locked /\ Apply
    <3>1. ~(UNCHANGED row)
      BY Zenon DEF row, Progress!vars
    <3>2. CASE Resolve
      BY <3>1, <3>2, Zenon DEF Resolve, RollBack
    <3>3. ASSUME NEW r \in Runners, Run(r) \/ runAtomic(r)
          PROVE  locked /\ Apply
      <4>1. Commit(r)
        BY <3>1, <3>3, Zenon DEF runAtomic, Run, Load, Read, ProcessRetry, ProcessKeep, ProcessDrop,
           Begin, ScanRevision, CommitRefused, RollBack, Stop
      <4> QED
        BY <4>1, Zenon DEF Commit, Inv, RunInv
    <3>4. CASE UNCHANGED vars
      BY <3>1, <3>4, Zenon DEF vars
    <3> QED
      BY <3>2, <3>3, <3>4, Zenon DEF Next
  <2> QED
    BY <2>1, <2>2, ApplyAdvances, Zenon
<1> QED
  BY <1>1, <1>2, Invariance, PTL DEF Spec, Implements, Progress!Spec

-----------------------------------------------------------------------------
(***************************************************************************)
(* audit/sqloutbox, for any records, relays, limits and number of faults.   *)
(* Order per aggregate and the fencing of marks by the attempt number are   *)
(* kept by steps of all the relays together, so the inductive invariant     *)
(* IInv relates the table (status and attempts of a row) to what every      *)
(* relay remembers of its claims, however late it acts on it.               *)
(***************************************************************************)
CONSTANTS Records, Relays, Aggregate, Revision, ClaimLimit, MaxFaults, None

VARIABLES rowStatus, attempts, due, relayPc, batch, claimedAt, current, holder, delivered, faults

Outbox == INSTANCE SqlOutbox WITH status <- rowStatus, pc <- relayPc, attempt <- claimedAt

Pcs == {"idle", "loop", "published", "failed"}

TableTypes ==
  /\ rowStatus \in [Records -> {"absent"} \cup Outbox!Unfinished \cup Outbox!Finished]
  /\ attempts \in [Records -> Nat] /\ delivered \subseteq Records

RelayTypes ==
  /\ relayPc \in [Relays -> Pcs] /\ batch \in [Relays -> SUBSET Records]
  /\ current \in [Relays -> Records \cup {None}]

ClaimTypes ==
  /\ claimedAt \in [Relays -> [Records -> Nat]]
  /\ holder \in [Records -> Relays \cup {None}]

\* The revisions of an aggregate are enqueued in order.
InOrder == \A r \in Records : rowStatus[r] # "absent" => \A q \in Outbox!Earlier(r) : rowStatus[q] # "absent"

\* Rows are claimed after they are enqueued and delivered after they are claimed.
Progressed ==
  \A r \in Records :
    /\ attempts[r] > 0 => rowStatus[r] # "absent"
    /\ rowStatus[r] \in {"claimed"} \cup Outbox!Finished => attempts[r] > 0
    /\ rowStatus[r] = "published" => r \in delivered
    /\ r \in delivered => attempts[r] > 0

\* What a relay works on was claimed, and what it will mark published was delivered.
Works(w) ==
  /\ \A r \in batch[w] : attempts[r] > 0
  /\ relayPc[w] \in {"published", "failed"} => current[w] \in Records /\ attempts[current[w]] > 0
  /\ relayPc[w] = "published" => current[w] \in delivered

Working == \A w \in Relays : Works(w)

\* A relay remembers no attempt later than the row's, and the row's own only
\* if it is the relay that claimed the row last.
Fenced ==
  \A w \in Relays : \A r \in Records :
    /\ claimedAt[w][r] <= attempts[r]
    /\ claimedAt[w][r] = attempts[r] /\ attempts[r] > 0 => holder[r] = w

Types == TableTypes /\ RelayTypes /\ ClaimTypes

IInv == Types /\ InOrder /\ Progressed /\ Outbox!OrderedPerAggregate /\ Working /\ Fenced

-----------------------------------------------------------------------------
(* The steps of the table                                                  *)

\* Enqueue inserts the next revision of an aggregate as pending.
LEMMA EnqueueTable ==
  ASSUME IInv, NEW r \in Records, Outbox!Enqueue(r)
  PROVE  TableTypes' /\ InOrder' /\ Progressed' /\ Outbox!OrderedPerAggregate'
  <1> USE DEF IInv, Types, TableTypes
  <1>1. rowStatus[r] = "absent" /\ \A q \in Outbox!Earlier(r) : rowStatus[q] # "absent"
    BY Zenon DEF Outbox!Enqueue
  <1>2. attempts' = attempts /\ delivered' = delivered
    BY Zenon DEF Outbox!Enqueue
  <1>3. rowStatus' = [rowStatus EXCEPT ![r] = "pending"]
    BY Zenon DEF Outbox!Enqueue
  <1>4. \A s \in Records : rowStatus'[s] = IF s = r THEN "pending" ELSE rowStatus[s]
    BY <1>3, Zenon
  <1>5. TableTypes'
    BY <1>2, <1>3, Zenon DEF Outbox!Unfinished
  <1>6. \A s \in Records : Outbox!Earlier(s) \subseteq Records /\ Outbox!Earlier(s)' = Outbox!Earlier(s)
    BY Zenon DEF Outbox!Earlier
  <1>7. InOrder'
    BY <1>1, <1>4, <1>6, Zenon DEF InOrder
  <1>8. Progressed'
    BY <1>1, <1>2, <1>4, Zenon DEF Progressed, Outbox!Finished
  <1>9. Outbox!OrderedPerAggregate'
    BY <1>1, <1>2, <1>4, <1>6, Zenon DEF Outbox!OrderedPerAggregate
  <1> QED
    BY <1>5, <1>7, <1>8, <1>9, Zenon

\* Claim takes rows all of whose earlier revisions are finished for good.
LEMMA ClaimedTable ==
  ASSUME IInv, NEW w \in Relays, NEW c \in SUBSET Outbox!Candidates, Outbox!Claimed(w, c), delivered' = delivered
  PROVE  TableTypes' /\ InOrder' /\ Progressed' /\ Outbox!OrderedPerAggregate'
  <1> USE DEF IInv, Types, TableTypes
  <1>1. \A r \in c : r \in Records /\ rowStatus[r] \in Outbox!Unfinished
        /\ \A q \in Outbox!Earlier(r) : rowStatus[q] \notin Outbox!Unfinished
    BY Zenon DEF Outbox!Candidates
  <1>2. \A r \in Records : rowStatus'[r] = IF r \in c THEN "claimed" ELSE rowStatus[r]
    BY Zenon DEF Outbox!Claimed
  <1>3. \A r \in Records : attempts'[r] = IF r \in c THEN attempts[r] + 1 ELSE attempts[r]
    BY Zenon DEF Outbox!Claimed
  <1>4. TableTypes'
    BY DEF Outbox!Claimed, Outbox!Unfinished
  <1>5. \A r \in Records : Outbox!Earlier(r) \subseteq Records /\ Outbox!Earlier(r)' = Outbox!Earlier(r)
    BY Zenon DEF Outbox!Earlier
  <1>6. InOrder'
    BY <1>1, <1>2, <1>5, Zenon DEF InOrder, Outbox!Unfinished
  <1>7. Progressed'
    BY <1>1, <1>2, <1>3 DEF Progressed, Outbox!Unfinished, Outbox!Finished
  <1>8. Outbox!OrderedPerAggregate'
    <2> SUFFICES ASSUME NEW r \in Records, attempts'[r] > 0, NEW q \in Outbox!Earlier(r)
                 PROVE  rowStatus'[q] = "dead_letter" \/ (rowStatus'[q] = "published" /\ q \in delivered')
      BY <1>5, Zenon DEF Outbox!OrderedPerAggregate
    <2>1. q \in Records /\ rowStatus[q] \in Outbox!Finished
      <3>1. CASE r \in c
        BY <3>1, <1>1, <1>5, Zenon DEF InOrder, Outbox!Unfinished, Outbox!Finished
      <3>2. CASE r \notin c
        BY <3>2, <1>3, <1>5, Zenon DEF Outbox!OrderedPerAggregate, Outbox!Finished
      <3> QED
        BY <3>1, <3>2, Zenon
    <2>2. rowStatus'[q] = rowStatus[q]
      BY <2>1, <1>1, <1>2, Zenon DEF Outbox!Unfinished, Outbox!Finished
    <2> QED
      BY <2>1, <2>2, Zenon DEF Progressed, Outbox!Finished
  <1> QED
    BY <1>4, <1>6, <1>7, <1>8, Zenon

\* A mark moves a claimed row, and to published only after its delivery.
LEMMA MarkTable ==
  ASSUME IInv, NEW w \in Relays, relayPc[w] \in {"published", "failed"}, Outbox!Mark(w), delivered' = delivered
  PROVE  TableTypes' /\ InOrder' /\ Progressed' /\ Outbox!OrderedPerAggregate' /\ attempts' = attempts
  <1> USE DEF IInv, Types, TableTypes
  <1> DEFINE r == current[w]
  <1>1. r \in Records
    BY Zenon DEF Working, Works
  <1>2. CASE ~Outbox!Matches(w)
    BY <1>2, Zenon DEF Outbox!Mark, Outbox!table, InOrder, Progressed, Outbox!OrderedPerAggregate, Outbox!Earlier
  <1>3. CASE Outbox!Matches(w)
    <2>1. PICK s \in {"published", "dead_letter", "pending"} :
            rowStatus' = [rowStatus EXCEPT ![r] = s] /\ attempts' = attempts /\ (s = "published" => r \in delivered)
      <3>1. CASE relayPc[w] = "published"
        BY <1>3, <3>1, Zenon DEF Outbox!Mark, Outbox!SetPublished, Working, Works
      <3>2. CASE relayPc[w] # "published"
        BY <1>3, <3>2, Zenon DEF Outbox!Mark, Outbox!SetFailed
      <3> QED
        BY <3>1, <3>2, Zenon
    <2>2. rowStatus[r] = "claimed"
      BY <1>3, Zenon DEF Outbox!Matches
    <2>3. \A q \in Records : rowStatus'[q] = IF q = r THEN s ELSE rowStatus[q]
      BY <1>1, <2>1, Zenon
    <2>4. TableTypes'
      BY <1>1, <2>1, Zenon DEF Outbox!Unfinished, Outbox!Finished
    <2>5. \A q \in Records : Outbox!Earlier(q) \subseteq Records /\ Outbox!Earlier(q)' = Outbox!Earlier(q)
      BY Zenon DEF Outbox!Earlier
    <2>6. InOrder'
      BY <2>2, <2>3, <2>5, Zenon DEF InOrder
    <2>7. Progressed'
      BY <1>1, <2>1, <2>2, <2>3, Zenon DEF Progressed, Outbox!Finished
    <2>8. Outbox!OrderedPerAggregate'
      BY <1>1, <2>1, <2>2, <2>3, <2>5, Zenon DEF Outbox!OrderedPerAggregate
    <2> QED
      BY <2>1, <2>4, <2>6, <2>7, <2>8, Zenon
  <1> QED
    BY <1>2, <1>3, Zenon

-----------------------------------------------------------------------------
(* The steps of the relays                                                 *)

\* What a relay works on stays claimed and delivered, whatever the others do.
LEMMA OthersWork ==
  ASSUME IInv, NEW w \in Relays, UNCHANGED <<relayPc[w], batch[w], current[w]>>,
         \A r \in Records : attempts'[r] \in Nat /\ attempts'[r] >= attempts[r], delivered \subseteq delivered'
  PROVE  Works(w)'
  <1>1. Works(w) /\ batch[w] \subseteq Records /\ \A r \in Records : attempts[r] \in Nat
    BY Zenon DEF IInv, Types, TableTypes, RelayTypes, Working
  <1> QED
    BY <1>1 DEF Works

\* Rows claimed anew are fenced off from every relay that claimed them before.
LEMMA ClaimedFenced ==
  ASSUME IInv, NEW w \in Relays, NEW c \in SUBSET Outbox!Candidates, Outbox!Claimed(w, c)
  PROVE  /\ \A r \in Records : attempts'[r] \in Nat /\ attempts'[r] >= attempts[r]
         /\ holder' \in [Records -> Relays \cup {None}]
         /\ \A v \in Relays : \A r \in Records :
              /\ claimedAt[v][r] <= attempts'[r]
              /\ claimedAt[v][r] = attempts'[r] /\ attempts'[r] > 0 => r \notin c /\ holder'[r] = v
  <1> USE DEF IInv, Types
  <1>1. \A r \in Records : attempts'[r] = IF r \in c THEN attempts[r] + 1 ELSE attempts[r]
    BY Zenon DEF Outbox!Claimed
  <1>2. \A r \in Records : holder'[r] = IF r \in c THEN w ELSE holder[r]
    BY Zenon DEF Outbox!Claimed
  <1>3. holder' \in [Records -> Relays \cup {None}]
    BY Zenon DEF Outbox!Claimed, ClaimTypes
  <1>4. \A v \in Relays : \A r \in Records : claimedAt[v][r] \in Nat /\ attempts[r] \in Nat
    BY Zenon DEF ClaimTypes, TableTypes
  <1>5. ASSUME NEW v \in Relays, NEW r \in Records
        PROVE  /\ claimedAt[v][r] <= attempts'[r]
               /\ claimedAt[v][r] = attempts'[r] /\ attempts'[r] > 0 => r \notin c /\ holder'[r] = v
    <2>1. claimedAt[v][r] <= attempts[r] /\ (claimedAt[v][r] = attempts[r] /\ attempts[r] > 0 => holder[r] = v)
      BY Zenon DEF Fenced
    <2>2. CASE r \in c
      BY <2>1, <2>2, <1>1, <1>4
    <2>3. CASE r \notin c
      BY <2>1, <2>3, <1>1, <1>2, <1>4, Zenon
    <2> QED
      BY <2>2, <2>3, Zenon
  <1> QED
    BY <1>1, <1>3, <1>4, <1>5

\* Claim takes rows with no unfinished predecessor and numbers the attempt.
LEMMA ClaimIInv == ASSUME IInv, NEW w \in Relays, Outbox!Claim(w) PROVE IInv'
  <1> USE DEF IInv, Types
  <1>1. PICK c \in Outbox!Claimable : Outbox!Claimed(w, c) /\ batch' = [batch EXCEPT ![w] = c]
    BY Zenon DEF Outbox!Claim
  <1>2. c \in SUBSET Outbox!Candidates /\ c \subseteq Records
    BY Zenon DEF Outbox!Claimable, Outbox!Candidates
  <1>3. /\ claimedAt' = [claimedAt EXCEPT ![w] = [r \in Records |-> IF r \in batch'[w] THEN attempts'[r] ELSE 0]]
        /\ relayPc' = [relayPc EXCEPT ![w] = "loop"] /\ current' = current /\ delivered' = delivered
    BY Zenon DEF Outbox!Claim
  <1>4. TableTypes' /\ InOrder' /\ Progressed' /\ Outbox!OrderedPerAggregate'
    BY <1>1, <1>2, <1>3, ClaimedTable, Zenon
  <1>5. RelayTypes' /\ batch'[w] = c
    BY <1>1, <1>2, <1>3, Zenon DEF RelayTypes, Pcs
  <1>6. claimedAt'[w] = [r \in Records |-> IF r \in c THEN attempts'[r] ELSE 0]
    BY <1>3, <1>5, Zenon DEF ClaimTypes
  <1>7. \A v \in Relays : v # w => claimedAt'[v] = claimedAt[v]
    BY <1>3, Zenon DEF ClaimTypes
  <1>8. claimedAt'[w] \in [Records -> Nat]
    BY <1>4, <1>6 DEF TableTypes
  <1>9. ClaimTypes'
    <2>1. claimedAt' \in [Relays -> [Records -> Nat]]
      BY <1>3, <1>7, <1>8, Zenon DEF ClaimTypes
    <2> QED
      BY <2>1, <1>1, <1>2, ClaimedFenced, Zenon DEF ClaimTypes
  <1>10. Working'
    <2>1. ASSUME NEW v \in Relays, v # w PROVE Works(v)'
      <3>1. UNCHANGED <<relayPc[v], batch[v], current[v]>>
        BY <1>1, <1>3, <2>1, Zenon DEF RelayTypes
      <3> QED
        BY <3>1, <1>1, <1>2, <1>3, ClaimedFenced, OthersWork, Zenon
    <2>2. relayPc'[w] = "loop"
      BY <1>3, Zenon DEF RelayTypes
    <2>3. \A r \in c : attempts'[r] > 0
      BY <1>1, <1>2 DEF Outbox!Claimed, TableTypes
    <2>4. Works(w)'
      BY <1>5, <2>2, <2>3, Zenon DEF Works
    <2> QED
      BY <2>1, <2>4, Zenon DEF Working
  <1>11. Fenced'
    <2> SUFFICES ASSUME NEW v \in Relays, NEW r \in Records
                 PROVE  /\ claimedAt'[v][r] <= attempts'[r]
                        /\ claimedAt'[v][r] = attempts'[r] /\ attempts'[r] > 0 => holder'[r] = v
      BY Zenon DEF Fenced
    <2>1. CASE v # w
      BY <2>1, <1>1, <1>2, <1>7, ClaimedFenced, Zenon
    <2>2. CASE v = w /\ r \in c
      <3>1. claimedAt'[w][r] = attempts'[r] /\ holder'[r] = w /\ attempts'[r] \in Nat
        BY <2>2, <1>1, <1>2, <1>6, ClaimedFenced, ZenonT(40) DEF Outbox!Claimed
      <3> QED
        BY <2>2, <3>1
    <2>3. CASE v = w /\ r \notin c
      <3>1. claimedAt'[w][r] = 0 /\ attempts'[r] \in Nat
        BY <2>3, <1>1, <1>2, <1>6, ClaimedFenced, Zenon
      <3> QED
        BY <2>3, <3>1
    <2> QED
      BY <2>1, <2>2, <2>3, Zenon
  <1> QED
    BY <1>4, <1>5, <1>9, <1>10, <1>11, Zenon

\* Claim's answer is lost: the rows stay claimed with nobody to mark them.
LEMMA ClaimLostIInv == ASSUME IInv, NEW w \in Relays, Outbox!ClaimLost(w) PROVE IInv'
  <1> USE DEF IInv, Types
  <1>1. PICK c \in Outbox!Claimable : Outbox!Claimed(w, c)
    BY Zenon DEF Outbox!ClaimLost
  <1>2. c \in SUBSET Outbox!Candidates
    BY Zenon DEF Outbox!Claimable
  <1>3. UNCHANGED <<relayPc, batch, claimedAt, current, delivered>>
    BY Zenon DEF Outbox!ClaimLost, Outbox!relay
  <1>4. TableTypes' /\ InOrder' /\ Progressed' /\ Outbox!OrderedPerAggregate'
    BY <1>1, <1>2, <1>3, ClaimedTable, Zenon
  <1>5. RelayTypes'
    BY <1>3, Zenon DEF RelayTypes
  <1>6. ClaimTypes' /\ Fenced'
    BY <1>1, <1>2, <1>3, ClaimedFenced, Zenon DEF ClaimTypes, Fenced
  <1>7. Working'
    BY <1>1, <1>2, <1>3, ClaimedFenced, OthersWork, Zenon DEF Working
  <1> QED
    BY <1>4, <1>5, <1>6, <1>7, Zenon

\* Publish takes a record of the batch to the publisher, which may fail after it has it.
LEMMA PublishIInv == ASSUME IInv, NEW w \in Relays, Outbox!Publish(w) PROVE IInv'
  <1> USE DEF IInv, Types
  <1>1. PICK r \in batch[w] :
          /\ current' = [current EXCEPT ![w] = r]
          /\ batch' = [batch EXCEPT ![w] = @ \ {r}]
          /\ \/ relayPc' = [relayPc EXCEPT ![w] = "published"] /\ delivered' = delivered \cup {r}
             \/ relayPc' = [relayPc EXCEPT ![w] = "failed"] /\ delivered' \in {delivered, delivered \cup {r}}
    BY Zenon DEF Outbox!Publish
  <1>2. UNCHANGED <<rowStatus, attempts, claimedAt, holder>>
    BY Zenon DEF Outbox!Publish, Outbox!table
  <1>3. r \in Records /\ attempts[r] > 0
    BY Zenon DEF RelayTypes, Working, Works
  <1>4. delivered \subseteq delivered' /\ delivered' \subseteq delivered \cup {r}
    BY <1>1, Zenon
  <1>5. TableTypes' /\ Progressed'
    BY <1>2, <1>3, <1>4, Zenon DEF TableTypes, Progressed
  <1>6. InOrder' /\ Outbox!OrderedPerAggregate'
    BY <1>2, <1>4, Zenon DEF InOrder, Outbox!OrderedPerAggregate, Outbox!Earlier
  <1>7. RelayTypes'
    BY <1>1, <1>3, Zenon DEF RelayTypes, Pcs
  <1>8. ClaimTypes' /\ Fenced'
    BY <1>2, Zenon DEF ClaimTypes, Fenced
  <1>9. Working'
    <2>1. ASSUME NEW v \in Relays, v # w PROVE Works(v)'
      <3>1. UNCHANGED <<relayPc[v], batch[v], current[v]>>
        BY <1>1, <2>1, Zenon DEF RelayTypes
      <3>2. \A s \in Records : attempts'[s] \in Nat /\ attempts'[s] >= attempts[s]
        BY <1>2 DEF TableTypes
      <3> QED
        BY <3>1, <3>2, <1>4, OthersWork, Zenon
    <2>2. batch'[w] = batch[w] \ {r} /\ current'[w] = r /\ (relayPc'[w] = "published" => r \in delivered')
      BY <1>1, Zenon DEF RelayTypes
    <2>3. Works(w)'
      BY <2>2, <1>2, <1>3, Zenon DEF Working, Works
    <2> QED
      BY <2>1, <2>3, Zenon DEF Working
  <1> QED
    BY <1>5, <1>6, <1>7, <1>8, <1>9, Zenon

\* RunOnce goes on to the next record or returns: the relay forgets a claim.
LEMMA RelayMovesOn ==
  ASSUME IInv, NEW w \in Relays, UNCHANGED <<attempts, holder, delivered>>,
         \/ Outbox!Abort(w)
         \/ relayPc[w] # "idle" /\ Outbox!Marked(w)
         \/ Outbox!Done(w)
  PROVE  RelayTypes' /\ ClaimTypes' /\ Working' /\ Fenced'
  <1> USE DEF IInv, Types
  <1>1. PICK b \in {batch[w], {}}, f \in [Records -> Nat], p \in {"idle", "loop"} :
          /\ batch' = [batch EXCEPT ![w] = b] /\ claimedAt' = [claimedAt EXCEPT ![w] = f]
          /\ relayPc' = [relayPc EXCEPT ![w] = p]
          /\ \A r \in Records : f[r] \in {0, claimedAt[w][r]}
    <2>1. batch = [batch EXCEPT ![w] = batch[w]] /\ claimedAt = [claimedAt EXCEPT ![w] = claimedAt[w]]
      BY Zenon DEF RelayTypes, ClaimTypes
    <2>2. claimedAt[w] \in [Records -> Nat]
      BY Zenon DEF ClaimTypes
    <2>3. CASE Outbox!Abort(w)
      <3> DEFINE f == [r \in Records |-> 0]
      <3>1. f \in [Records -> Nat] /\ \A r \in Records : f[r] = 0
        BY Zenon
      <3> QED
        BY <2>3, <3>1, Zenon DEF Outbox!Abort
    <2>4. CASE Outbox!Matches(w) /\ Outbox!Marked(w)
      <3> DEFINE f == [claimedAt[w] EXCEPT ![current[w]] = 0]
      <3>1. f \in [Records -> Nat] /\ \A r \in Records : f[r] \in {0, claimedAt[w][r]}
        BY <2>2, Zenon
      <3>2. claimedAt' = [claimedAt EXCEPT ![w] = f] /\ relayPc' = [relayPc EXCEPT ![w] = "loop"] /\ batch' = batch
        BY <2>4, Zenon DEF Outbox!Marked, ClaimTypes
      <3> QED
        BY <2>1, <3>1, <3>2, Zenon
    <2>5. CASE Outbox!Done(w)
      BY <2>1, <2>2, <2>5, Zenon DEF Outbox!Done
    <2> QED
      BY <2>3, <2>4, <2>5, Zenon DEF Outbox!Marked
  <1>2. current' \in [Relays -> Records \cup {None}] /\ \A v \in Relays : v # w => current'[v] = current[v]
    BY Zenon DEF Outbox!Abort, Outbox!Marked, Outbox!Done, RelayTypes
  <1>3. RelayTypes'
    BY <1>1, <1>2, Zenon DEF RelayTypes, Pcs
  <1>4. ClaimTypes'
    BY <1>1, Zenon DEF ClaimTypes
  <1>5. Fenced'
    <2> SUFFICES ASSUME NEW v \in Relays, NEW r \in Records
                 PROVE  /\ claimedAt'[v][r] <= attempts[r]
                        /\ claimedAt'[v][r] = attempts[r] /\ attempts[r] > 0 => holder[r] = v
      BY Zenon DEF Fenced
    <2>1. claimedAt'[v][r] \in {0, claimedAt[v][r]}
      BY <1>1, Zenon DEF ClaimTypes
    <2>2. attempts[r] \in Nat /\ claimedAt[v][r] \in Nat
      BY Zenon DEF TableTypes, ClaimTypes
    <2> QED
      BY <2>1, <2>2 DEF Fenced
  <1>6. Working'
    <2>1. ASSUME NEW v \in Relays, v # w PROVE Works(v)'
      <3>1. UNCHANGED <<relayPc[v], batch[v], current[v]>>
        BY <1>1, <1>2, <2>1, Zenon DEF RelayTypes
      <3>2. \A s \in Records : attempts'[s] \in Nat /\ attempts'[s] >= attempts[s]
        BY DEF TableTypes
      <3> QED
        BY <3>1, <3>2, OthersWork, Zenon
    <2>2. batch'[w] \subseteq batch[w] /\ relayPc'[w] \in {"idle", "loop"}
      BY <1>1, Zenon DEF RelayTypes
    <2>3. Works(w)'
      BY <2>2, Zenon DEF Working, Works
    <2> QED
      BY <2>1, <2>3, Zenon DEF Working
  <1> QED
    BY <1>3, <1>4, <1>5, <1>6, Zenon

\* An empty table and idle relays satisfy the invariant.
LEMMA InitIInv == Outbox!Init => IInv
  BY DEF Outbox!Init, IInv, Types, TableTypes, RelayTypes, ClaimTypes, Pcs, InOrder, Progressed, Outbox!Finished,
      Outbox!OrderedPerAggregate, Working, Works, Fenced

\* Every step keeps the inductive invariant.
LEMMA NextIInv == IInv /\ [Outbox!Next]_(Outbox!vars) => IInv'
  <1> SUFFICES ASSUME IInv, [Outbox!Next]_(Outbox!vars) PROVE IInv'
    BY Zenon
  <1>1. ASSUME UNCHANGED <<rowStatus, attempts, delivered>>
        PROVE  TableTypes' /\ InOrder' /\ Progressed' /\ Outbox!OrderedPerAggregate'
    BY <1>1, Zenon DEF IInv, Types, TableTypes, InOrder, Progressed, Outbox!OrderedPerAggregate, Outbox!Earlier
  <1>2. ASSUME UNCHANGED <<relayPc, batch, claimedAt, current, attempts, holder, delivered>>
        PROVE  RelayTypes' /\ ClaimTypes' /\ Working' /\ Fenced'
    BY <1>2, Zenon DEF IInv, Types, RelayTypes, ClaimTypes, Working, Works, Fenced
  <1>3. ASSUME NEW r \in Records, Outbox!Enqueue(r) PROVE IInv'
    BY <1>2, <1>3, EnqueueTable, Zenon DEF Outbox!Enqueue, Outbox!relay, IInv, Types
  <1>4. ASSUME NEW r \in Records, Outbox!Due(r) PROVE IInv'
    BY <1>1, <1>2, <1>4, Zenon DEF Outbox!Due, Outbox!relay, IInv, Types
  <1>5. ASSUME NEW w \in Relays, Outbox!Done(w) \/ Outbox!Stop(w) PROVE IInv'
    BY <1>1, <1>5, RelayMovesOn, Zenon DEF Outbox!Done, Outbox!Stop, Outbox!table, IInv, Types
  <1>6. ASSUME NEW w \in Relays, Outbox!MarkPublished(w) \/ Outbox!MarkFailed(w) PROVE IInv'
    <2>1. relayPc[w] \in {"published", "failed"} /\ Outbox!Mark(w) /\ Outbox!Marked(w) /\ UNCHANGED <<holder, delivered>>
      BY <1>6, Zenon DEF Outbox!MarkPublished, Outbox!MarkFailed
    <2>2. TableTypes' /\ InOrder' /\ Progressed' /\ Outbox!OrderedPerAggregate' /\ attempts' = attempts
      BY <2>1, MarkTable, Zenon
    <2>3. RelayTypes' /\ ClaimTypes' /\ Working' /\ Fenced'
      BY <2>1, <2>2, RelayMovesOn, Zenon
    <2> QED
      BY <2>2, <2>3, Zenon DEF IInv, Types
  <1>7. ASSUME NEW w \in Relays, Outbox!MarkUnknown(w) PROVE IInv'
    <2>1. /\ relayPc[w] \in {"published", "failed"} /\ Outbox!Abort(w) /\ UNCHANGED <<holder, delivered>>
          /\ Outbox!Mark(w) \/ UNCHANGED Outbox!table
      BY <1>7, Zenon DEF Outbox!MarkUnknown
    <2>2. TableTypes' /\ InOrder' /\ Progressed' /\ Outbox!OrderedPerAggregate' /\ attempts' = attempts
      BY <2>1, <1>1, MarkTable, Zenon DEF Outbox!table
    <2>3. RelayTypes' /\ ClaimTypes' /\ Working' /\ Fenced'
      BY <2>1, <2>2, RelayMovesOn, Zenon
    <2> QED
      BY <2>2, <2>3, Zenon DEF IInv, Types
  <1>8. CASE UNCHANGED Outbox!vars
    BY <1>1, <1>2, <1>8, Zenon DEF Outbox!vars, Outbox!table, Outbox!relay, IInv, Types
  <1> QED
    BY <1>3, <1>4, <1>5, <1>6, <1>7, <1>8, ClaimIInv, ClaimLostIInv, PublishIInv, Zenon DEF Outbox!Next, Outbox!Work

\* The inductive invariant holds in every reachable state of the outbox.
LEMMA OutboxInvariance == Outbox!Spec => []IInv
  BY InitIInv, NextIInv, PTL DEF Outbox!Spec

-----------------------------------------------------------------------------
(* What the outbox guarantees                                              *)

\* Per aggregate no record is claimed before every earlier revision is
\* published and delivered or dead-lettered, whatever relays, stale marks and
\* lost answers do.
THEOREM Ordered == Outbox!Spec => []Outbox!OrderedPerAggregate
<1>1. IInv => Outbox!OrderedPerAggregate
  BY Zenon DEF IInv
<1> QED
  BY <1>1, OutboxInvariance, PTL

\* So the publisher sees an aggregate's records in the order of their
\* revisions: none is delivered, even by a failed Publish, before the earlier
\* ones are finished.
DeliveredInOrder ==
  \A r \in delivered : \A q \in Outbox!Earlier(r) : rowStatus[q] = "dead_letter" \/ (rowStatus[q] = "published"
      /\ q \in delivered)

\* Relays deliver a record only after all earlier records of its aggregate are
\* finished: the publisher first sees them in order.
THEOREM DeliveryOrdered == Outbox!Spec => []DeliveredInOrder
<1>1. IInv => DeliveredInOrder
  BY Zenon DEF IInv, Types, TableTypes, Progressed, Outbox!OrderedPerAggregate, DeliveredInOrder
<1> QED
  BY <1>1, OutboxInvariance, PTL

\* Only the relay that claimed a row last moves it out of "claimed": the
\* attempt number in the where clause of the marks fences off every other.
THEOREM MarksFenced == Outbox!Spec => [][Outbox!StaleCannotMark]_(Outbox!vars)
<1>1. ASSUME IInv, NEW r \in Records, rowStatus[r] = "claimed", rowStatus'[r] # "claimed",
             NEW w \in Relays, relayPc[w] \in {"published", "failed"}, Outbox!Mark(w), Outbox!Abort(w) \/ Outbox!Marked(w)
      PROVE  current[holder[r]] = r /\ relayPc[holder[r]] # "idle" /\ relayPc'[holder[r]] # relayPc[holder[r]]
  <2>1. Outbox!Matches(w) /\ current[w] = r
    <3>1. Outbox!Matches(w)
      BY <1>1, Zenon DEF Outbox!Mark, Outbox!table
    <3>2. PICK s : rowStatus' = [rowStatus EXCEPT ![current[w]] = s]
      BY <1>1, <3>1, Zenon DEF Outbox!Mark, Outbox!SetPublished, Outbox!SetFailed
    <3> QED
      BY <1>1, <3>1, <3>2, Zenon DEF IInv, Types, TableTypes
  <2>2. attempts[r] > 0 /\ claimedAt[w][r] = attempts[r]
    BY <1>1, <2>1, Zenon DEF Outbox!Matches, IInv, Progressed
  <2>3. holder[r] = w
    BY <1>1, <2>2, Zenon DEF IInv, Fenced
  <2>4. relayPc'[w] \in {"idle", "loop"}
    BY <1>1, Zenon DEF Outbox!Abort, Outbox!Marked, IInv, Types, RelayTypes
  <2> QED
    BY <1>1, <2>1, <2>3, <2>4, Zenon
<1>2. IInv /\ [Outbox!Next]_(Outbox!vars) => [Outbox!StaleCannotMark]_(Outbox!vars)
  <2> SUFFICES ASSUME IInv, Outbox!Next, NEW r \in Records, rowStatus[r] = "claimed", rowStatus'[r] # "claimed"
               PROVE  current[holder[r]] = r /\ relayPc[holder[r]] # "idle" /\ relayPc'[holder[r]] # relayPc[holder[r]]
    BY Zenon DEF Outbox!StaleCannotMark, Outbox!vars
  <2>1. ~UNCHANGED Outbox!table
    BY Zenon DEF Outbox!table
  <2>2. ASSUME NEW s \in Records PROVE ~Outbox!Enqueue(s) /\ ~Outbox!Due(s)
    BY Zenon DEF Outbox!Enqueue, Outbox!Due, IInv, Types, TableTypes
  <2>3. ASSUME NEW w \in Relays, NEW c \in Outbox!Claimable PROVE ~Outbox!Claimed(w, c)
    BY Zenon DEF Outbox!Claimed
  <2>4. PICK w \in Relays : Outbox!MarkPublished(w) \/ Outbox!MarkFailed(w) \/ Outbox!MarkUnknown(w)
    BY <2>1, <2>2, <2>3, Zenon DEF Outbox!Next, Outbox!Work, Outbox!Claim, Outbox!ClaimLost, Outbox!Publish, Outbox!Done,
        Outbox!Stop
  <2> QED
    BY <1>1, <2>1, <2>4, Zenon DEF Outbox!MarkPublished, Outbox!MarkFailed, Outbox!MarkUnknown
<1> QED
  BY <1>2, OutboxInvariance, PTL DEF Outbox!Spec

\* A record that was published or dead-lettered stays so: no late mark, and no
\* claim, takes it back.
FinishedForGood == [][\A r \in Records : rowStatus[r] \in Outbox!Finished => rowStatus'[r] = rowStatus[r]]_(Outbox!vars)

\* No claim, mark or late relay touches a row that MarkPublished or the last
\* MarkFailed has finished.
THEOREM FinishedStays == Outbox!Spec => FinishedForGood
<1>1. IInv /\ [Outbox!Next]_(Outbox!vars) => [\A r \in Records : rowStatus[r] \in Outbox!Finished
      => rowStatus'[r] = rowStatus[r]]_(Outbox!vars)
  <2> SUFFICES ASSUME IInv, Outbox!Next, NEW r \in Records, rowStatus[r] \in Outbox!Finished
      PROVE rowStatus'[r] = rowStatus[r]
    BY Zenon DEF Outbox!vars
  <2>1. rowStatus[r] \notin Outbox!Unfinished /\ rowStatus[r] # "absent" /\ rowStatus[r] # "claimed"
    BY Zenon DEF Outbox!Unfinished, Outbox!Finished
  <2>2. ASSUME NEW s \in Records, Outbox!Enqueue(s) \/ Outbox!Due(s) PROVE rowStatus'[r] = rowStatus[r]
    BY <2>1, <2>2, Zenon DEF Outbox!Enqueue, Outbox!Due, IInv, Types, TableTypes
  <2>3. ASSUME NEW w \in Relays, NEW c \in Outbox!Claimable, Outbox!Claimed(w, c) PROVE rowStatus'[r] = rowStatus[r]
    BY <2>1, <2>3, Zenon DEF Outbox!Claimable, Outbox!Candidates, Outbox!Claimed
  <2>4. ASSUME NEW w \in Relays, Outbox!Mark(w) PROVE rowStatus'[r] = rowStatus[r]
    <3>1. CASE Outbox!Matches(w)
      <4>1. PICK s : rowStatus' = [rowStatus EXCEPT ![current[w]] = s]
        BY <2>4, <3>1, Zenon DEF Outbox!Mark, Outbox!SetPublished, Outbox!SetFailed
      <4>2. current[w] # r
        BY <2>1, <3>1, Zenon DEF Outbox!Matches
      <4> QED
        BY <4>1, <4>2, Zenon DEF IInv, Types, TableTypes
    <3>2. CASE ~Outbox!Matches(w)
      BY <2>4, <3>2, Zenon DEF Outbox!Mark, Outbox!table
    <3> QED
      BY <3>1, <3>2, Zenon
  <2>5. ASSUME UNCHANGED Outbox!table PROVE rowStatus'[r] = rowStatus[r]
    BY <2>5, Zenon DEF Outbox!table
  <2> QED
    BY <2>2, <2>3, <2>4, <2>5, Zenon DEF Outbox!Next, Outbox!Work, Outbox!Claim, Outbox!ClaimLost, Outbox!Publish,
        Outbox!Done, Outbox!Stop, Outbox!MarkPublished, Outbox!MarkFailed, Outbox!MarkUnknown
<1> QED
  BY <1>1, OutboxInvariance, PTL DEF Outbox!Spec, FinishedForGood

-----------------------------------------------------------------------------
(* How often a record is tried                                             *)

\* The records a relay has in hand.
Hand(w) == batch[w] \cup {r \in Records : relayPc[w] \in {"published", "failed"} /\ current[w] = r}

\* A relay with an intact hand: all of it is still claimed, by this relay's
\* claim, and no lease has ended.
Intact(w) == \A r \in Hand(w) : rowStatus[r] = "claimed" /\ attempts[r] = claimedAt[w][r] /\ r \notin due

InHand(r) == \E w \in Relays : r \in Hand(w) /\ Intact(w)

\* A record is in a relay's hand once, and an idle relay has none.
Hands ==
  \A w \in Relays : /\ relayPc[w] = "idle" => batch[w] = {}
                    /\ relayPc[w] \in {"published", "failed"} => current[w] \notin batch[w]

\* A record is claimed more than MaxAttempts times only after faults, and a
\* claim that is in no intact hand leaves a fault for its next claim.
OutboxBounded ==
  \A r \in Records :
    /\ attempts[r] <= MaxAttempts + faults
    /\ rowStatus[r] \in {"absent", "pending"} => attempts[r] < MaxAttempts
    /\ rowStatus[r] = "claimed" /\ ~InHand(r) => attempts[r] < MaxAttempts + faults

OutboxAssumption == MaxAttempts \in Nat \ {0} /\ MaxFaults \in Nat

BInv == IInv /\ Hands /\ OutboxBounded /\ faults \in 0..MaxFaults

\* Rows that could be claimed are in no intact hand.
LEMMA CandidatesNotInHand == \A r \in Outbox!Candidates : ~InHand(r)
  BY Zenon DEF Outbox!Candidates, InHand, Intact

\* Claim numbers an attempt only for a row that may be tried again.
LEMMA ClaimBounded ==
  ASSUME OutboxAssumption, BInv, NEW w \in Relays, NEW c \in SUBSET Outbox!Candidates, Outbox!Claimed(w, c)
  PROVE  \A r \in Records : /\ attempts'[r] <= MaxAttempts + faults
                            /\ rowStatus'[r] \in {"absent", "pending"} => attempts'[r] < MaxAttempts
                            /\ r \notin c => attempts'[r] = attempts[r] /\ rowStatus'[r] = rowStatus[r]
  <1>1. \A r \in Records : /\ attempts'[r] = IF r \in c THEN attempts[r] + 1 ELSE attempts[r]
                           /\ rowStatus'[r] = IF r \in c THEN "claimed" ELSE rowStatus[r]
    BY Zenon DEF Outbox!Claimed
  <1>2. \A r \in c : attempts[r] < MaxAttempts + faults
    <2> SUFFICES ASSUME NEW r \in c PROVE attempts[r] < MaxAttempts + faults
      BY Zenon
    <2>1. r \in Records /\ rowStatus[r] \in {"pending", "claimed"} /\ ~InHand(r)
      BY CandidatesNotInHand, Zenon DEF Outbox!Candidates, Outbox!Unfinished
    <2>2. attempts[r] \in Nat /\ MaxAttempts \in Nat /\ faults \in Nat
      BY <2>1 DEF BInv, IInv, Types, TableTypes, OutboxAssumption
    <2> QED
      BY <2>1, <2>2 DEF BInv, OutboxBounded
  <1>3. \A r \in Records : attempts[r] \in Nat
    BY Zenon DEF BInv, IInv, Types, TableTypes
  <1>4. MaxAttempts \in Nat /\ faults \in Nat
    BY DEF BInv, OutboxAssumption
  <1>5. ASSUME NEW r \in Records, r \in c
        PROVE  attempts'[r] <= MaxAttempts + faults /\ rowStatus'[r] = "claimed"
    BY <1>1, <1>2, <1>3, <1>4, <1>5
  <1>6. ASSUME NEW r \in Records, r \notin c
        PROVE  attempts'[r] = attempts[r] /\ rowStatus'[r] = rowStatus[r]
    BY <1>1, <1>6, Zenon
  <1> QED
    BY <1>5, <1>6, Zenon DEF BInv, OutboxBounded

\* Claim keeps the bound: its rows were in nobody's hand.
LEMMA ClaimBInv == ASSUME OutboxAssumption, BInv, NEW w \in Relays, Outbox!Claim(w) PROVE Hands' /\ OutboxBounded'
  <1> USE DEF BInv, IInv, Types
  <1>1. PICK c \in Outbox!Claimable : Outbox!Claimed(w, c) /\ batch' = [batch EXCEPT ![w] = c]
    BY Zenon DEF Outbox!Claim
  <1>2. c \in SUBSET Outbox!Candidates /\ c \subseteq Records
    BY Zenon DEF Outbox!Claimable, Outbox!Candidates
  <1>3. /\ claimedAt' = [claimedAt EXCEPT ![w] = [r \in Records |-> IF r \in batch'[w] THEN attempts'[r] ELSE 0]]
        /\ relayPc' = [relayPc EXCEPT ![w] = "loop"] /\ UNCHANGED <<current, faults>>
    BY Zenon DEF Outbox!Claim
  <1>4. /\ batch'[w] = c /\ relayPc'[w] = "loop" /\ claimedAt'[w] = [r \in Records |-> IF r \in batch'[w]
           THEN attempts'[r] ELSE 0]
        /\ \A v \in Relays : v # w => UNCHANGED <<batch[v], relayPc[v], claimedAt[v]>>
    BY <1>1, <1>3, Zenon DEF RelayTypes, ClaimTypes
  <1>5. Hands'
    BY <1>3, <1>4 DEF Hands
  <1>6. ASSUME NEW r \in c PROVE InHand(r)'
    <2>1. Hand(w)' = c
      BY <1>4, Zenon DEF Hand
    <2>2. \A s \in c : rowStatus'[s] = "claimed" /\ s \notin due' /\ claimedAt'[w][s] = attempts'[s]
      BY <1>1, <1>2, <1>4, Zenon DEF Outbox!Claimed
    <2>3. Intact(w)'
      BY <2>1, <2>2, Zenon DEF Intact
    <2> QED
      BY <2>1, <2>3, Zenon DEF InHand
  <1>7. ASSUME NEW r \in Records \ c, InHand(r) PROVE InHand(r)'
    <2>1. PICK v \in Relays : r \in Hand(v) /\ Intact(v)
      BY <1>7, Zenon DEF InHand
    <2>2. v # w
      BY <2>1, Zenon DEF Hand, Hands, Outbox!Claim
    <2>3. Hand(v)' = Hand(v) /\ claimedAt'[v] = claimedAt[v] /\ Hand(v) \subseteq Records
      BY <1>3, <1>4, <2>2, Zenon DEF Hand, RelayTypes
    <2>4. \A s \in Hand(v) : s \notin c
      BY <1>2, <2>1, Zenon DEF Intact, Outbox!Candidates
    <2>5. \A s \in Hand(v) : UNCHANGED <<rowStatus[s], attempts[s]>> /\ (s \in due' => s \in due)
      BY <1>1, <2>3, <2>4, Zenon DEF Outbox!Claimed
    <2>6. Intact(v)'
      BY <2>1, <2>3, <2>5, ZenonT(40) DEF Intact
    <2> QED
      BY <2>1, <2>3, <2>6, Zenon DEF InHand
  <1>8. OutboxBounded'
    BY <1>1, <1>2, <1>3, <1>6, <1>7, ClaimBounded, Zenon DEF OutboxBounded
  <1> QED
    BY <1>5, <1>8, Zenon

\* A fault pays for whatever it takes out of a hand.
LEMMA FaultBounded ==
  ASSUME OutboxAssumption, BInv, faults' = faults + 1,
         \A r \in Records : attempts'[r] \in Nat /\ attempts'[r] <= MaxAttempts + faults,
         \A r \in Records : rowStatus'[r] \in {"absent", "pending"} => attempts'[r] < MaxAttempts
  PROVE  OutboxBounded'
  <1>1. MaxAttempts \in Nat /\ faults \in Nat
    BY DEF OutboxAssumption, BInv
  <1>2. ASSUME NEW r \in Records PROVE attempts'[r] < MaxAttempts + faults'
    BY <1>1
  <1>3. ASSUME NEW r \in Records PROVE attempts'[r] <= MaxAttempts + faults'
    BY <1>1, <1>2
  <1> QED
    BY <1>2, <1>3, Zenon DEF OutboxBounded

\* Without a fault or a claim, what stays claimed has to stay in its hand.
LEMMA HandBounded ==
  ASSUME OutboxAssumption, BInv, UNCHANGED <<faults, attempts>>,
         \A r \in Records : rowStatus'[r] \in {"absent", "pending"} => attempts[r] < MaxAttempts,
         \A r \in Records : rowStatus'[r] = "claimed" => rowStatus[r] = "claimed" /\ (InHand(r) => InHand(r)')
  PROVE  OutboxBounded'
  BY Zenon DEF BInv, OutboxBounded

\* Enqueue starts a row without attempts.
LEMMA EnqueueBInv == ASSUME OutboxAssumption, BInv, NEW r \in Records, Outbox!Enqueue(r) PROVE OutboxBounded'
  <1> USE DEF BInv, IInv, Types, TableTypes
  <1>1. UNCHANGED <<attempts, relayPc, batch, claimedAt, current, faults>> /\ due' \subseteq due \cup {r}
        /\ rowStatus[r] = "absent"
    BY Zenon DEF Outbox!Enqueue, Outbox!relay
  <1>2. \A s \in Records : rowStatus'[s] = IF s = r THEN "pending" ELSE rowStatus[s]
    BY Zenon DEF Outbox!Enqueue
  <1>3. ASSUME NEW s \in Records, InHand(s) PROVE InHand(s)'
    <2>1. PICK v \in Relays : s \in Hand(v) /\ Intact(v)
      BY <1>3, Zenon DEF InHand
    <2>2. Hand(v)' = Hand(v) /\ Hand(v) \subseteq Records
      BY <1>1, Zenon DEF Hand, RelayTypes
    <2>3. r \notin Hand(v)
      BY <1>1, <2>1, Zenon DEF Intact
    <2>4. Intact(v)'
      BY <1>1, <1>2, <2>1, <2>2, <2>3, Zenon DEF Intact
    <2> QED
      BY <2>1, <2>2, <2>4, Zenon DEF InHand
  <1>4. \A s \in Records : rowStatus'[s] \in {"absent", "pending"} => attempts[s] < MaxAttempts
    BY <1>1, <1>2, Zenon DEF OutboxBounded
  <1> QED
    BY <1>1, <1>2, <1>3, <1>4, HandBounded, Zenon

\* available_at is reached: a lease may end under the relay that holds it, which is a fault.
LEMMA DueBInv == ASSUME OutboxAssumption, BInv, NEW r \in Records, Outbox!Due(r) PROVE OutboxBounded'
  <1> USE DEF BInv, IInv, Types, TableTypes
  <1>1. UNCHANGED <<rowStatus, attempts, relayPc, batch, claimedAt, current>> /\ due' = due \cup {r}
    BY Zenon DEF Outbox!Due, Outbox!relay
  <1>2. CASE faults' = faults + 1
    BY <1>1, <1>2, FaultBounded, Zenon DEF OutboxBounded
  <1>3. CASE faults' = faults /\ ~(rowStatus[r] = "claimed" /\ \E w \in Relays : Outbox!Holds(w, r))
    <2>1. ASSUME NEW s \in Records, InHand(s) PROVE InHand(s)'
      <3>1. PICK v \in Relays : s \in Hand(v) /\ Intact(v)
        BY <2>1, Zenon DEF InHand
      <3>2. Hand(v)' = Hand(v)
        BY <1>1, Zenon DEF Hand
      <3>3. r \notin Hand(v)
        BY <1>3, <3>1, Zenon DEF Intact, Hand, Outbox!Holds
      <3>4. Intact(v)'
        BY <1>1, <3>1, <3>2, <3>3, Zenon DEF Intact
      <3> QED
        BY <3>1, <3>2, <3>4, Zenon DEF InHand
    <2> QED
      BY <1>1, <1>3, <2>1, HandBounded, Zenon DEF OutboxBounded
  <1> QED
    BY <1>2, <1>3, Zenon DEF Outbox!Due, Outbox!Fault

\* Taking the next record, or returning after the last, leaves the hand as it is.
LEMMA SameHandBInv ==
  ASSUME OutboxAssumption, BInv, NEW w \in Relays, Outbox!Publish(w) \/ Outbox!Done(w)
  PROVE  Hands' /\ OutboxBounded'
  <1> USE DEF BInv, IInv, Types
  <1>1. UNCHANGED <<rowStatus, attempts, due, claimedAt, faults>>
    BY Zenon DEF Outbox!Publish, Outbox!Done, Outbox!table
  <1>2. Hands' /\ \A v \in Relays : Hand(v)' = Hand(v)
    <2>1. CASE Outbox!Done(w)
      <3>1. /\ relayPc[w] = "loop" /\ batch[w] = {} /\ relayPc'[w] = "idle" /\ UNCHANGED <<batch, current>>
            /\ \A v \in Relays : v # w => relayPc'[v] = relayPc[v]
        BY <2>1, Zenon DEF Outbox!Done, RelayTypes
      <3> QED
        BY <3>1, Zenon DEF Hands, Hand
    <2>2. CASE Outbox!Publish(w)
      <3>1. PICK r \in batch[w] :
              /\ current' = [current EXCEPT ![w] = r] /\ batch' = [batch EXCEPT ![w] = @ \ {r}]
              /\ relayPc' = [relayPc EXCEPT ![w] = "published"] \/ relayPc' = [relayPc EXCEPT ![w] = "failed"]
        BY <2>2, Zenon DEF Outbox!Publish
      <3>2. /\ current'[w] = r /\ batch'[w] = batch[w] \ {r} /\ relayPc'[w] \in {"published", "failed"}
               /\ relayPc[w] = "loop"
            /\ \A v \in Relays : v # w => UNCHANGED <<current[v], batch[v], relayPc[v]>>
        BY <2>2, <3>1, ZenonT(40) DEF Outbox!Publish, RelayTypes
      <3>3. Hands'
        BY <3>2, Zenon DEF Hands
      <3>4. r \in Records
        BY Zenon DEF RelayTypes
      <3>5. Hand(w)' = Hand(w)
        BY <3>2, <3>4, Zenon DEF Hand
      <3>6. ASSUME NEW v \in Relays, v # w PROVE Hand(v)' = Hand(v)
        BY <3>2, <3>6, Zenon DEF Hand
      <3> QED
        BY <3>3, <3>5, <3>6, Zenon
    <2> QED
      BY <2>1, <2>2, Zenon
  <1>3. \A r \in Records : InHand(r) => InHand(r)'
    BY <1>1, <1>2, Zenon DEF InHand, Intact
  <1>4. OutboxBounded'
    BY <1>1, <1>3, HandBounded, Zenon DEF OutboxBounded
  <1> QED
    BY <1>2, <1>4, Zenon

\* A mark is applied: only its record leaves the hand.
LEMMA MarkedBInv ==
  ASSUME OutboxAssumption, BInv, NEW w \in Relays, relayPc[w] \in {"published", "failed"},
         Outbox!Matches(w), Outbox!Mark(w), Outbox!Marked(w), faults' = faults
  PROVE  Hands' /\ OutboxBounded'
  <1> USE DEF BInv, IInv, Types
  <1> DEFINE r == current[w]
  <1>1. r \in Records /\ r \notin batch[w] /\ rowStatus[r] = "claimed" /\ claimedAt[w][r] = attempts[r] /\ holder[r] = w
    <2>1. r \in Records /\ attempts[r] > 0
      BY Zenon DEF Working, Works
    <2>2. rowStatus[r] = "claimed" /\ claimedAt[w][r] = attempts[r]
      BY Zenon DEF Outbox!Matches
    <2> QED
      BY <2>1, <2>2, Zenon DEF Hands, Fenced
  <1>2. PICK s \in {"published", "dead_letter", "pending"} :
          /\ rowStatus' = [rowStatus EXCEPT ![r] = s] /\ attempts' = attempts /\ due' \subseteq due
          /\ s = "pending" => attempts[r] < MaxAttempts
    BY Zenon DEF Outbox!Mark, Outbox!SetPublished, Outbox!SetFailed
  <1>3. /\ relayPc' = [relayPc EXCEPT ![w] = "loop"] /\ current' = [current EXCEPT ![w] = None]
        /\ claimedAt' = [claimedAt EXCEPT ![w][r] = 0] /\ batch' = batch
    BY Zenon DEF Outbox!Marked
  <1>4. relayPc'[w] = "loop" /\ \A v \in Relays : v # w => UNCHANGED <<relayPc[v], current[v], claimedAt[v]>>
    BY <1>3, Zenon DEF RelayTypes, ClaimTypes
  <1>5. \A q \in Records : q # r => claimedAt'[w][q] = claimedAt[w][q]
    BY <1>3, Zenon DEF ClaimTypes
  <1>6. Hands'
    BY <1>3, <1>4, Zenon DEF Hands
  <1>7. \A q \in Records : rowStatus'[q] = IF q = r THEN s ELSE rowStatus[q]
    BY <1>2, Zenon DEF TableTypes
  <1>8. ASSUME NEW q \in Records, q # r, InHand(q) PROVE InHand(q)'
    <2>1. PICK v \in Relays : q \in Hand(v) /\ Intact(v)
      BY <1>8, Zenon DEF InHand
    <2>2. Hand(v) \subseteq Records
      BY Zenon DEF Hand, RelayTypes
    <2>3. CASE v = w
      <3>1. Hand(w)' = batch[w] /\ batch[w] \subseteq Hand(w) /\ Hand(w) \subseteq batch[w] \cup {r}
        BY <1>3, <1>4, Zenon DEF Hand
      <3>2. Intact(w)'
        <4>1. ASSUME NEW p \in batch[w]
              PROVE  rowStatus'[p] = "claimed" /\ attempts'[p] = claimedAt'[w][p] /\ p \notin due'
          <5>1. p \in Records /\ p # r
            BY <1>1, <2>2, <2>3, <3>1, ZenonT(40)
          <5>2. rowStatus[p] = "claimed" /\ attempts[p] = claimedAt[w][p] /\ p \notin due
            BY <2>1, <2>3, <3>1, Zenon DEF Intact
          <5> QED
            BY <1>2, <1>5, <1>7, <5>1, <5>2, ZenonT(40)
        <4> QED
          BY <3>1, <4>1, ZenonT(40) DEF Intact
      <3> QED
        BY <1>8, <2>1, <2>3, <3>1, <3>2, Zenon DEF InHand
    <2>4. CASE v # w
      <3>1. Hand(v)' = Hand(v) /\ claimedAt'[v] = claimedAt[v]
        BY <1>3, <1>4, <2>4, ZenonT(40) DEF Hand
      <3>2. r \notin Hand(v)
        <4> SUFFICES ASSUME r \in Hand(v) PROVE FALSE
          BY Zenon
        <4>1. claimedAt[v][r] = attempts[r] /\ attempts[r] > 0
          BY <1>1, <2>1, Zenon DEF Intact, Progressed
        <4> QED
          BY <1>1, <2>4, <4>1, Zenon DEF Fenced
      <3>3. Intact(v)'
        BY <1>2, <1>7, <2>1, <2>2, <3>1, <3>2, Zenon DEF Intact
      <3> QED
        BY <2>1, <3>1, <3>3, Zenon DEF InHand
    <2> QED
      BY <2>3, <2>4, Zenon
  <1>9. OutboxBounded'
    <2>1. \A q \in Records : rowStatus'[q] \in {"absent", "pending"} => attempts[q] < MaxAttempts
      BY <1>2, <1>7, ZenonT(40) DEF OutboxBounded
    <2>2. \A q \in Records : rowStatus'[q] = "claimed" => rowStatus[q] = "claimed" /\ (InHand(q) => InHand(q)')
      BY <1>2, <1>7, <1>8, Zenon
    <2> QED
      BY <1>2, <2>1, <2>2, HandBounded, Zenon
  <1> QED
    BY <1>6, <1>9, Zenon

\* A relay that stops puts down what it held.
LEMMA AbortHands == ASSUME BInv, NEW w \in Relays, Outbox!Abort(w) PROVE Hands'
  <1>1. /\ relayPc'[w] = "idle" /\ batch'[w] = {}
        /\ \A v \in Relays : v # w => UNCHANGED <<relayPc[v], batch[v], current[v]>>
    BY Zenon DEF Outbox!Abort, BInv, IInv, Types, RelayTypes
  <1> QED
    BY <1>1, Zenon DEF BInv, Hands

\* requireRows ends RunOnce: the hand it drops was not intact any more.
LEMMA MismatchBInv ==
  ASSUME OutboxAssumption, BInv, NEW w \in Relays, relayPc[w] \in {"published", "failed"},
         ~Outbox!Matches(w), Outbox!Mark(w), Outbox!Marked(w), faults' = faults
  PROVE  Hands' /\ OutboxBounded'
  <1> USE DEF BInv, IInv, Types
  <1>1. UNCHANGED <<rowStatus, attempts, due>> /\ Outbox!Abort(w)
    BY Zenon DEF Outbox!Mark, Outbox!Marked, Outbox!table
  <1>2. ~Intact(w)
    <2>1. current[w] \in Hand(w)
      BY Zenon DEF Hand, Working, Works
    <2> QED
      BY <2>1, Zenon DEF Intact, Outbox!Matches
  <1>3. ASSUME NEW r \in Records, InHand(r) PROVE InHand(r)'
    <2>1. PICK v \in Relays : r \in Hand(v) /\ Intact(v)
      BY <1>3, Zenon DEF InHand
    <2>2. v # w
      BY <1>2, <2>1, Zenon
    <2>3. UNCHANGED <<relayPc[v], batch[v], current[v], claimedAt[v]>>
      BY <1>1, <2>2, ZenonT(40) DEF Outbox!Abort, RelayTypes, ClaimTypes
    <2>4. Hand(v)' = Hand(v) /\ Intact(v)'
      BY <1>1, <2>1, <2>3, ZenonT(40) DEF Hand, Intact
    <2> QED
      BY <2>1, <2>4, Zenon DEF InHand
  <1>4. OutboxBounded'
    BY <1>1, <1>3, HandBounded, Zenon DEF OutboxBounded
  <1> QED
    BY <1>1, <1>4, AbortHands, Zenon

\* A fault pays for the attempt it may cost.
LEMMA FaultBInv ==
  ASSUME OutboxAssumption, BInv, NEW w \in Relays, Outbox!ClaimLost(w) \/ Outbox!MarkUnknown(w) \/ Outbox!Stop(w)
  PROVE  Hands' /\ OutboxBounded'
  <1> USE DEF BInv, IInv, Types, TableTypes
  <1>1. faults' = faults + 1
    BY ZenonT(40) DEF Outbox!ClaimLost, Outbox!MarkUnknown, Outbox!Stop, Outbox!Fault
  <1>2. CASE Outbox!ClaimLost(w)
    <2>1. PICK c \in Outbox!Claimable : Outbox!Claimed(w, c)
      BY <1>2, Zenon DEF Outbox!ClaimLost
    <2>2. c \in SUBSET Outbox!Candidates
      BY ZenonT(40) DEF Outbox!Claimable
    <2>3. OutboxBounded'
      BY <1>1, <2>1, <2>2, ClaimBounded, ClaimedFenced, FaultBounded, ZenonT(40)
    <2> QED
      BY <1>2, <2>3, Zenon DEF Outbox!ClaimLost, Outbox!relay, Hands
  <1>3. CASE UNCHANGED Outbox!table /\ Outbox!Abort(w)
    <2>1. \A r \in Records : /\ attempts'[r] \in Nat /\ attempts'[r] <= MaxAttempts + faults
                             /\ rowStatus'[r] \in {"absent", "pending"} => attempts'[r] < MaxAttempts
      BY <1>3, ZenonT(40) DEF Outbox!table, OutboxBounded
    <2> QED
      BY <1>1, <1>3, <2>1, FaultBounded, AbortHands, Zenon
  <1>4. CASE relayPc[w] \in {"published", "failed"} /\ Outbox!Matches(w) /\ Outbox!Mark(w) /\ Outbox!Abort(w)
    <2>1. PICK s \in {"published", "dead_letter", "pending"} :
            /\ rowStatus' = [rowStatus EXCEPT ![current[w]] = s] /\ attempts' = attempts
            /\ s = "pending" => attempts[current[w]] < MaxAttempts
      BY <1>4, Zenon DEF Outbox!Mark, Outbox!SetPublished, Outbox!SetFailed
    <2>2. \A r \in Records : /\ attempts'[r] \in Nat /\ attempts'[r] <= MaxAttempts + faults
                             /\ rowStatus'[r] \in {"absent", "pending"} => attempts'[r] < MaxAttempts
      BY <2>1, Zenon DEF OutboxBounded
    <2> QED
      BY <1>1, <1>4, <2>2, FaultBounded, AbortHands, ZenonT(40)
  <1> QED
    BY <1>2, <1>3, <1>4, Zenon DEF Outbox!MarkUnknown, Outbox!Mark, Outbox!Stop

\* Every step keeps the bounded invariant.
LEMMA NextBInv == ASSUME OutboxAssumption PROVE BInv /\ [Outbox!Next]_(Outbox!vars) => BInv'
  <1> SUFFICES ASSUME BInv, [Outbox!Next]_(Outbox!vars) PROVE BInv'
    BY Zenon
  <1>1. IInv'
    BY NextIInv, Zenon DEF BInv
  <1>2. faults' \in 0..MaxFaults
    <2>1. faults' = faults \/ Outbox!Fault
      BY ZenonT(40) DEF Outbox!Next, Outbox!Enqueue, Outbox!Due, Outbox!Work, Outbox!Claim, Outbox!ClaimLost,
          Outbox!Publish, Outbox!Done, Outbox!MarkPublished, Outbox!MarkFailed, Outbox!MarkUnknown, Outbox!Stop, Outbox!vars
    <2> QED
      BY <2>1, SMTT(30) DEF Outbox!Fault, BInv, OutboxAssumption
  <1>3. ASSUME UNCHANGED <<relayPc, batch, current>> PROVE Hands'
    BY <1>3, Zenon DEF Hands, BInv
  <1>4. ASSUME NEW r \in Records, Outbox!Enqueue(r) \/ Outbox!Due(r) PROVE Hands' /\ OutboxBounded'
    BY <1>3, <1>4, EnqueueBInv, DueBInv, Zenon DEF Outbox!Enqueue, Outbox!Due, Outbox!relay
  <1>5. ASSUME NEW w \in Relays, Outbox!MarkPublished(w) \/ Outbox!MarkFailed(w) PROVE Hands' /\ OutboxBounded'
    BY <1>5, MarkedBInv, MismatchBInv, Zenon DEF Outbox!MarkPublished, Outbox!MarkFailed
  <1>6. ASSUME UNCHANGED Outbox!vars PROVE Hands' /\ OutboxBounded'
    BY <1>3, <1>6 DEF Outbox!vars, Outbox!table, Outbox!relay, BInv, OutboxBounded, InHand, Hand, Intact
  <1>7. Hands' /\ OutboxBounded'
    BY <1>4, <1>5, <1>6, ClaimBInv, SameHandBInv, FaultBInv, Zenon DEF Outbox!Next, Outbox!Work
  <1> QED
    BY <1>1, <1>2, <1>7, Zenon DEF BInv

\* The bounded invariant holds in every reachable state of the outbox.
LEMMA BoundedInvariance == ASSUME OutboxAssumption PROVE Outbox!Spec => []BInv
  <1>1. Outbox!Init => BInv
    <2> SUFFICES ASSUME Outbox!Init PROVE BInv
      BY Zenon
    <2>1. Hands
      BY Zenon DEF Outbox!Init, Hands
    <2>2. OutboxBounded /\ faults \in 0..MaxFaults
      BY DEF Outbox!Init, OutboxBounded, OutboxAssumption
    <2> QED
      BY <2>1, <2>2, InitIInv, Zenon DEF BInv
  <1> QED
    BY <1>1, NextBInv, PTL DEF Outbox!Spec

\* A record is tried at most MaxAttempts times, and once more for each fault:
\* the attempts column never passes MaxAttempts unless a relay stopped, a
\* statement failed or a lease ended too early.
AttemptsBounded == \A r \in Records : attempts[r] <= MaxAttempts + faults

\* MarkFailed dead-letters a record at MaxAttempts: only a fault (a lease that
\* ended early, a lost mark, a stopped relay) buys a record another attempt.
THEOREM TriesBounded == ASSUME OutboxAssumption PROVE Outbox!Spec => []AttemptsBounded
<1>1. BInv => AttemptsBounded
  BY Zenon DEF BInv, OutboxBounded, AttemptsBounded
<1> QED
  BY <1>1, BoundedInvariance, PTL

\* The columns and what the relays remember of them keep their types; the
\* attempts stay below the bound although nothing in the code caps them.
THEOREM OutboxTypeCorrect == ASSUME OutboxAssumption PROVE Outbox!Spec => []Outbox!TypeOK
<1> DEFINE DueRows == due \subseteq Records
<1>1. Outbox!Init => DueRows
  BY Zenon DEF Outbox!Init
<1>2. IInv /\ DueRows /\ [Outbox!Next]_(Outbox!vars) => DueRows'
  <2> SUFFICES ASSUME IInv, DueRows, [Outbox!Next]_(Outbox!vars) PROVE DueRows'
    BY Zenon
  <2>1. ASSUME NEW w \in Relays, Outbox!Mark(w) PROVE DueRows'
    BY <2>1, Zenon DEF Outbox!Mark, Outbox!SetPublished, Outbox!SetFailed, Outbox!table
  <2>2. ASSUME NEW w \in Relays, NEW c \in Outbox!Claimable, Outbox!Claimed(w, c) PROVE DueRows'
    BY <2>2, Zenon DEF Outbox!Claimed
  <2>3. ASSUME NEW r \in Records, Outbox!Enqueue(r) \/ Outbox!Due(r) PROVE DueRows'
    BY <2>3, Zenon DEF Outbox!Enqueue, Outbox!Due
  <2> QED
    BY <2>1, <2>2, <2>3, Zenon DEF Outbox!Next, Outbox!Work, Outbox!Claim, Outbox!ClaimLost, Outbox!Publish, Outbox!Done,
        Outbox!MarkPublished, Outbox!MarkFailed, Outbox!MarkUnknown, Outbox!Stop, Outbox!vars, Outbox!table
<1>3. Outbox!Spec => []DueRows
  BY <1>1, <1>2, OutboxInvariance, PTL DEF Outbox!Spec
<1>4. BInv /\ DueRows => Outbox!TypeOK
  <2> SUFFICES ASSUME BInv, DueRows PROVE Outbox!TypeOK
    BY Zenon
  <2> USE DEF BInv, IInv, Types
  <2>1. MaxAttempts \in Nat /\ MaxFaults \in Nat /\ faults \in 0..MaxFaults
    BY Zenon DEF OutboxAssumption
  <2>2. \A r \in Records : attempts[r] \in 0..(MaxAttempts + MaxFaults)
    BY <2>1 DEF TableTypes, OutboxBounded
  <2>3. \A w \in Relays : \A r \in Records : claimedAt[w][r] \in 0..(MaxAttempts + MaxFaults)
    BY <2>1, <2>2 DEF ClaimTypes, TableTypes, Fenced
  <2>4. attempts \in [Records -> 0..(MaxAttempts + MaxFaults)]
    BY <2>2, Zenon DEF TableTypes
  <2>5. \A w \in Relays : claimedAt[w] \in [Records -> 0..(MaxAttempts + MaxFaults)]
    BY <2>3, Zenon DEF ClaimTypes
  <2>6. claimedAt \in [Relays -> [Records -> 0..(MaxAttempts + MaxFaults)]]
    BY <2>5, Zenon DEF ClaimTypes
  <2> QED
    BY <2>1, <2>4, <2>6, Zenon DEF Outbox!TypeOK, TableTypes, RelayTypes, ClaimTypes, Pcs
<1> QED
  BY <1>3, <1>4, BoundedInvariance, PTL

-----------------------------------------------------------------------------
(***************************************************************************)
(* batch, Step.Run with a Writer and a separate checkpoint store, for any   *)
(* input, chunk size, attempts, skips and runs.  Counters of the report and *)
(* the chunk are tied to the reader's position (Phase, Accounted), and the  *)
(* position and the checkpoint to what was written or dropped (Kept).       *)
(***************************************************************************)
INSTANCE FiniteSetTheorems

CONSTANT Chunk

VARIABLES hasStore, dropping, at, result, started, place, end, collected, tries, reads, writes, skipped, filters,
          checkpoint, handled, left

\* Step.Run of batch with a separate checkpoint store
Batch == INSTANCE BatchStep WITH
  ChunkSize <- Chunk, drops <- dropping, pc <- at, status <- result, runs <- started, position <- place, eof <- end,
  chunk <- collected, attempt <- tries, skips <- skipped, written <- handled, dropped <- left

BatchAssumption ==
  N \in Nat /\ Chunk \in Nat \ {0} /\ MaxAttempts \in Nat \ {0} /\ MaxSkips \in Nat /\ MaxRuns \in Nat

Size == Batch!Cardinality(collected)

\* What a run has in hand at each point: items it has read, fewer than a chunk of them while it may read another.
Phase ==
  /\ at # "idle" => result = "running"
  /\ result = "completed" => collected = {} /\ place = N
  /\ end => place = N /\ at \in {"write", "save", "idle"}
  /\ end /\ at = "save" => collected = {}
  /\ at = "restore" => collected = {} /\ reads = 0
  /\ collected \subseteq 1..place
  /\ at = "process" => place \notin collected /\ place > 0
  /\ at \in {"read", "process", "save"} => Size < Chunk

\* Every item a run has read is counted, or in its chunk, or being processed.
Accounted ==
  /\ reads <= place
  /\ result \in {"running", "completed"} =>
       reads = writes + skipped + filters + Size + (IF at = "process" THEN 1 ELSE 0)

\* Without a store, or with a processor that keeps every item: what lies behind the checkpoint was handled, and what
\* lies behind the reader was handled or is in the chunk.
Kept ==
  ~(hasStore /\ dropping) =>
    /\ \A i \in 1..checkpoint : i \in handled \cup left
    /\ ~hasStore => checkpoint = 0
    /\ hasStore /\ at = "save" => collected = {}
    /\ result \in {"running", "completed"} /\ at # "restore" =>
         \A i \in 1..place : i \in handled \cup left \cup collected \/ (at = "process" /\ i = place)

Flags == hasStore \in BOOLEAN /\ dropping \in BOOLEAN /\ end \in BOOLEAN

Ranges ==
  /\ at \in {"idle", "restore", "read", "process", "write", "save"}
  /\ result \in {"none", "running", "completed", "failed", "cancelled"}
  /\ started \in 0..MaxRuns /\ place \in 0..N /\ collected \subseteq Batch!Items /\ Size <= Chunk
  /\ tries \in 1..MaxAttempts
  /\ reads \in 0..N /\ writes \in 0..N /\ skipped \in 0..MaxSkips /\ filters \in 0..N
  /\ checkpoint \in 0..N /\ handled \subseteq Batch!Items /\ left \subseteq Batch!Items

BatchInv == Batch!TypeOK /\ Phase /\ Accounted /\ Kept

\* The instance's Cardinality is that of the library.
LEMMA Sizes ==
  ASSUME BatchAssumption
  PROVE  /\ Batch!Cardinality({}) = 0
         /\ \A S \in SUBSET Batch!Items : Batch!Cardinality(S) \in Nat
         /\ \A S \in SUBSET Batch!Items, i \in Batch!Items : i \notin S
             => Batch!Cardinality(S \cup {i}) = Batch!Cardinality(S) + 1
  <1>1. \A S : Batch!Cardinality(S) = Cardinality(S)
    BY Zenon DEF Batch!Cardinality, Cardinality
  <1>2. IsFiniteSet(Batch!Items)
    BY FS_Interval DEF BatchAssumption, Batch!Items
  <1>3. \A S \in SUBSET Batch!Items : IsFiniteSet(S) /\ Cardinality(S) \in Nat
    BY <1>2, FS_Subset, FS_CardinalityType, Zenon
  <1>4. \A S \in SUBSET Batch!Items, i \in Batch!Items : i \notin S => Cardinality(S \cup {i}) = Cardinality(S) + 1
    BY <1>3, FS_AddElement, Zenon
  <1>5. Cardinality({}) = 0
    BY FS_EmptySet, Zenon
  <1> QED BY <1>1, <1>3, <1>4, <1>5, Zenon

LEMMA RunKeeps ==
  ASSUME BatchAssumption, BatchInv, Batch!Run, UNCHANGED Batch!config
  PROVE  BatchInv'
  <1> USE DEF BatchAssumption, BatchInv, Batch!Items
  <1>0. Size \in Nat /\ (collected = {} => Size = 0) /\ (collected' = {} => Size' = 0)
    BY Sizes, Zenon DEF Size, Batch!TypeOK
  <1>1. Batch!TypeOK'
    <2>1. Flags'
      BY Zenon DEF Flags, Batch!TypeOK, Batch!Run, Batch!config
    <2>2. Ranges'
      BY <1>0 DEF Ranges, Batch!TypeOK, Size, Batch!Run, Batch!report
    <2> QED BY <2>1, <2>2, Zenon DEF Flags, Ranges, Size, Batch!TypeOK
  <1>2. (Phase /\ Accounted /\ Kept)'
    BY <1>0 DEF Size, Phase, Accounted, Kept, Batch!TypeOK, Batch!Run, Batch!report, Batch!config
  <1> QED BY <1>1, <1>2, Zenon

LEMMA StopKeeps ==
  ASSUME BatchAssumption, BatchInv, Batch!Stop, UNCHANGED Batch!config
  PROVE  BatchInv'
  <1> USE DEF BatchAssumption, BatchInv, Batch!Items
  <1>0. Size \in Nat /\ (collected = {} => Size = 0) /\ (collected' = {} => Size' = 0)
    BY Sizes, Zenon DEF Size, Batch!TypeOK
  <1> QED
    BY <1>0 DEF Size, Phase, Accounted, Kept, Batch!TypeOK, Batch!Stop, Batch!Finish, Batch!report, Batch!config

LEMMA RestoreCheckpointKeeps ==
  ASSUME BatchAssumption, BatchInv, Batch!restoreCheckpoint, UNCHANGED Batch!config
  PROVE  BatchInv'
  <1> USE DEF BatchAssumption, BatchInv, Batch!Items
  <1>0. Size \in Nat /\ (collected = {} => Size = 0) /\ (collected' = {} => Size' = 0)
    BY Sizes, Zenon DEF Size, Batch!TypeOK
  <1>1. Batch!TypeOK'
    <2>1. Flags'
      BY Zenon DEF Flags, Batch!TypeOK, Batch!restoreCheckpoint, Batch!config
    <2>2. Ranges'
      BY <1>0, SMTT(20) DEF Ranges, Batch!TypeOK, Size, Batch!restoreCheckpoint, Batch!report
    <2> QED BY <2>1, <2>2, Zenon DEF Flags, Ranges, Size, Batch!TypeOK
  <1>2. (Phase /\ Accounted /\ Kept)'
    BY <1>0 DEF Size, Phase, Accounted, Kept, Batch!TypeOK, Batch!restoreCheckpoint, Batch!report, Batch!config
  <1> QED BY <1>1, <1>2, Zenon

LEMMA ReadKeeps ==
  ASSUME BatchAssumption, BatchInv, Batch!Read, UNCHANGED Batch!config
  PROVE  BatchInv'
  <1> USE DEF BatchAssumption, BatchInv, Batch!Items
  <1>0. Size \in Nat /\ (collected = {} => Size = 0) /\ (collected' = {} => Size' = 0)
    BY Sizes, Zenon DEF Size, Batch!TypeOK
  <1>a. reads <= place
    BY DEF Accounted
  <1>1. Batch!TypeOK'
    <2>1. Flags'
      BY Zenon DEF Flags, Batch!TypeOK, Batch!Read, Batch!Finish, Batch!config
    <2>2. Ranges'
      BY <1>a, <1>0, SMTT(20) DEF Ranges, Batch!TypeOK, Size, Batch!Read, Batch!Finish, Batch!report
    <2> QED BY <2>1, <2>2, Zenon DEF Flags, Ranges, Size, Batch!TypeOK
  <1>2. (Phase /\ Accounted /\ Kept)'
    BY <1>0, SMTT(20) DEF Size, Phase, Accounted, Kept, Batch!TypeOK, Batch!Read, Batch!Finish, Batch!report, Batch!config
  <1> QED BY <1>1, <1>2, Zenon

LEMMA ProcessRetryKeeps ==
  ASSUME BatchAssumption, BatchInv, Batch!ProcessRetry, UNCHANGED Batch!config
  PROVE  BatchInv'
  <1> USE DEF BatchAssumption, BatchInv, Batch!Items
  <1>0. Size \in Nat /\ (collected = {} => Size = 0) /\ (collected' = {} => Size' = 0)
    BY Sizes, Zenon DEF Size, Batch!TypeOK
  <1> QED
    BY <1>0 DEF Size, Phase, Accounted, Kept, Batch!TypeOK, Batch!ProcessRetry, Batch!report, Batch!config

LEMMA ProcessSkipKeeps ==
  ASSUME BatchAssumption, BatchInv, Batch!ProcessSkip, UNCHANGED Batch!config
  PROVE  BatchInv'
  <1> USE DEF BatchAssumption, BatchInv, Batch!Items
  <1>0. Size \in Nat /\ (collected = {} => Size = 0) /\ (collected' = {} => Size' = 0)
    BY Sizes, Zenon DEF Size, Batch!TypeOK
  <1> QED
    BY <1>0 DEF Size, Phase, Accounted, Kept, Batch!TypeOK, Batch!ProcessSkip, Batch!shouldSkip, Batch!report, Batch!config

LEMMA ProcessFilterKeeps ==
  ASSUME BatchAssumption, BatchInv, Batch!ProcessFilter, UNCHANGED Batch!config
  PROVE  BatchInv'
  <1> USE DEF BatchAssumption, BatchInv, Batch!Items
  <1>0. Size \in Nat /\ (collected = {} => Size = 0) /\ (collected' = {} => Size' = 0)
    BY Sizes, Zenon DEF Size, Batch!TypeOK
  <1> QED
    BY <1>0 DEF Size, Phase, Accounted, Kept, Batch!TypeOK, Batch!ProcessFilter, Batch!report, Batch!config

LEMMA ProcessKeepKeeps ==
  ASSUME BatchAssumption, BatchInv, Batch!ProcessKeep, UNCHANGED Batch!config
  PROVE  BatchInv'
  <1> USE DEF BatchAssumption, BatchInv, Batch!Items
  <1>0. Size \in Nat /\ (collected = {} => Size = 0) /\ (collected' = {} => Size' = 0)
    BY Sizes, Zenon DEF Size, Batch!TypeOK
  <1>a. place \in Batch!Items /\ place \notin collected /\ collected' = collected \cup {place}
    BY DEF Batch!ProcessKeep, Phase, Batch!TypeOK
  <1>b. Size' = Size + 1
    BY <1>a, Sizes, Zenon DEF Size, Batch!TypeOK
  <1> QED
    BY <1>0, <1>a, <1>b DEF Size, Phase, Accounted, Kept, Batch!TypeOK, Batch!ProcessKeep, Batch!report, Batch!config

LEMMA WriteKeeps ==
  ASSUME BatchAssumption, BatchInv, Batch!Write, UNCHANGED Batch!config
  PROVE  BatchInv'
  <1> USE DEF BatchAssumption, BatchInv, Batch!Items
  <1>0. Size \in Nat /\ (collected = {} => Size = 0) /\ (collected' = {} => Size' = 0)
    BY Sizes, Zenon DEF Size, Batch!TypeOK
  <1> QED
    BY <1>0 DEF Size, Phase, Accounted, Kept, Batch!TypeOK, Batch!Write, Batch!report, Batch!config

LEMMA WriteFailsKeeps ==
  ASSUME BatchAssumption, BatchInv, Batch!WriteFails, UNCHANGED Batch!config
  PROVE  BatchInv'
  <1> USE DEF BatchAssumption, BatchInv, Batch!Items
  <1>0. Size \in Nat /\ (collected = {} => Size = 0) /\ (collected' = {} => Size' = 0)
    BY Sizes, Zenon DEF Size, Batch!TypeOK
  <1> QED
    BY <1>0 DEF Size, Phase, Accounted, Kept, Batch!TypeOK, Batch!WriteFails, Batch!Fails, Batch!Finish, Batch!report,
        Batch!config

LEMMA WriteSkipKeeps ==
  ASSUME BatchAssumption, BatchInv, Batch!WriteSkip, UNCHANGED Batch!config
  PROVE  BatchInv'
  <1> USE DEF BatchAssumption, BatchInv, Batch!Items
  <1>0. Size \in Nat /\ (collected = {} => Size = 0) /\ (collected' = {} => Size' = 0)
    BY Sizes, Zenon DEF Size, Batch!TypeOK
  <1> QED
    BY <1>0 DEF Size, Phase, Accounted, Kept, Batch!TypeOK, Batch!WriteSkip, Batch!shouldSkip, Batch!report, Batch!config

LEMMA SaveCheckpointKeeps ==
  ASSUME BatchAssumption, BatchInv, Batch!saveCheckpoint, UNCHANGED Batch!config
  PROVE  BatchInv'
  <1> USE DEF BatchAssumption, BatchInv, Batch!Items
  <1>0. Size \in Nat /\ (collected = {} => Size = 0) /\ (collected' = {} => Size' = 0)
    BY Sizes, Zenon DEF Size, Batch!TypeOK
  <1> QED
    BY <1>0 DEF Size, Phase, Accounted, Kept, Batch!TypeOK, Batch!saveCheckpoint, Batch!Finish, Batch!report, Batch!config

LEMMA SaveFailsKeeps ==
  ASSUME BatchAssumption, BatchInv, Batch!saveFails, UNCHANGED Batch!config
  PROVE  BatchInv'
  <1> USE DEF BatchAssumption, BatchInv, Batch!Items
  <1>0. Size \in Nat /\ (collected = {} => Size = 0) /\ (collected' = {} => Size' = 0)
    BY Sizes, Zenon DEF Size, Batch!TypeOK
  <1> QED
    BY <1>0 DEF Size, Phase, Accounted, Kept, Batch!TypeOK, Batch!saveFails, Batch!Fails, Batch!Finish, Batch!report,
        Batch!config

LEMMA BatchInductive ==
  ASSUME BatchAssumption
  PROVE  Batch!Spec => []BatchInv
  <1>1. Batch!Init => BatchInv
    <2> SUFFICES ASSUME Batch!Init PROVE BatchInv
      BY Zenon
    <2> USE DEF BatchAssumption, Batch!Init
    <2>1. Size = 0
      BY Sizes, Zenon DEF Size
    <2>2. Batch!TypeOK
      <3>1. Flags
        BY Zenon DEF Flags
      <3>2. Ranges
        BY <2>1 DEF Ranges
      <3> QED BY <3>1, <3>2, Zenon DEF Flags, Ranges, Size, Batch!TypeOK
    <2>3. Phase /\ Accounted /\ Kept
      BY <2>1 DEF Phase, Accounted, Kept
    <2> QED BY <2>2, <2>3, Zenon DEF BatchInv
  <1>2. BatchInv /\ [Batch!Next]_(Batch!vars) => BatchInv'
    <2> SUFFICES ASSUME BatchInv, [Batch!Next]_(Batch!vars) PROVE BatchInv'
      BY Zenon
    <2>1. CASE UNCHANGED Batch!vars
      BY <2>1 DEF BatchInv, Batch!TypeOK, Phase, Accounted, Kept, Size, Batch!vars, Batch!config, Batch!report
    <2>2. CASE Batch!Next
      BY <2>2, RunKeeps, StopKeeps, RestoreCheckpointKeeps, ReadKeeps, ProcessRetryKeeps, ProcessSkipKeeps,
         ProcessFilterKeeps, ProcessKeepKeeps, WriteKeeps, WriteFailsKeeps, WriteSkipKeeps, SaveCheckpointKeeps,
         SaveFailsKeeps,
         Zenon DEF Batch!Next, Batch!Step
    <2> QED BY <2>1, <2>2, Zenon
  <1> QED BY <1>1, <1>2, PTL DEF Batch!Spec

\* For any input, chunk size and limits: the report of a completed run of batch Step.Run accounts for every item it read,
\* whatever was retried, filtered or skipped, item by item or as a chunk.
THEOREM ReportComplete ==
  ASSUME BatchAssumption
  PROVE  Batch!Spec => []Batch!ReportAccounts
  <1>1. BatchInv => Batch!ReportAccounts
    <2> SUFFICES ASSUME BatchInv, result = "completed" PROVE reads = writes + skipped + filters
      BY Zenon DEF Batch!ReportAccounts
    <2>1. Size = 0 /\ at # "process"
      BY Sizes, Zenon DEF BatchInv, Phase, Size
    <2>2. reads \in Int /\ writes \in Int /\ skipped \in Int /\ filters \in Int
      BY DEF BatchInv, Batch!TypeOK, BatchAssumption
    <2> QED BY <2>1, <2>2 DEF BatchInv, Accounted
  <1> QED BY <1>1, BatchInductive, PTL

\* A completed run without a store, or with a processor that keeps every item, leaves no item of the input unhandled,
\* however many runs failed, were cancelled or crashed before it.
THEOREM CompletedRunTotal ==
  ASSUME BatchAssumption
  PROVE  Batch!Spec => []Batch!CompletedHandledAll
  <1>1. BatchInv => Batch!CompletedHandledAll
    BY Zenon DEF BatchInv, Batch!CompletedHandledAll, Phase, Kept, Batch!TypeOK, Batch!Items
  <1> QED BY <1>1, BatchInductive, PTL

\* At-least-once with a separate store, for a processor that keeps every item: what the saved checkpoint has passed was
\* written, whichever writes and saves failed half way.  A processor that filters loses items: see the run batch_step_filter.
THEOREM AtLeastOnceKept ==
  ASSUME BatchAssumption
  PROVE  Batch!Spec => []Batch!AtLeastOnceUnfiltered
  <1>1. BatchInv => Batch!AtLeastOnceUnfiltered
    BY DEF BatchInv, Batch!AtLeastOnceUnfiltered, Batch!AtLeastOnce, Kept
  <1> QED BY <1>1, BatchInductive, PTL

\* The types of its variables: in particular a chunk never grows past the configured size, and no counter past the input.
THEOREM BatchTypeCorrect ==
  ASSUME BatchAssumption
  PROVE  Batch!Spec => []Batch!TypeOK
  <1>1. BatchInv => Batch!TypeOK
    BY DEF BatchInv
  <1> QED BY <1>1, BatchInductive, PTL

=============================================================================
