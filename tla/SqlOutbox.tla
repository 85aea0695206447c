------------------------------ MODULE SqlOutbox ------------------------------
(***************************************************************************)
(* audit/sqloutbox: the outbox table and the relays that claim its rows,   *)
(* publish them and mark the result.  The clock is abstracted to whether a *)
(* row's available_at has been reached: retry delays and claim leases end  *)
(* by themselves, a lease possibly while its relay is still at work.  The  *)
(* faults (relays that stop half-way, statements that fail, leases that    *)
(* end too early) are bounded by MaxFaults.                                *)
(***************************************************************************)
EXTENDS Integers, FiniteSets

CONSTANTS
  Records, Relays,
  Aggregate, Revision,      \* of each record
  ClaimLimit, MaxAttempts,
  MaxFaults, None

VARIABLES
  status, attempts,   \* columns of the table; "absent" before Enqueue
  due,                \* the rows whose available_at has been reached
  pc, batch, attempt, \* of each relay: the claimed records, with the attempts they were claimed at
  current,            \* the record it publishes
  holder,             \* history: the relay that claimed the row last
  delivered,          \* history: the records the publisher has delivered
  faults

table == <<status, attempts, due>>
relay == <<pc, batch, attempt, current>>
vars == <<table, relay, holder, delivered, faults>>

Unfinished == {"pending", "claimed"}
Finished == {"published", "dead_letter"}

TypeOK ==
  /\ status \in [Records -> {"absent"} \cup Unfinished \cup Finished]
  /\ attempts \in [Records -> 0..(MaxAttempts + MaxFaults)]
  /\ due \subseteq Records
  /\ pc \in [Relays -> {"idle", "loop", "published", "failed"}]
  /\ batch \in [Relays -> SUBSET Records]
  /\ attempt \in [Relays -> [Records -> 0..(MaxAttempts + MaxFaults)]]
  /\ current \in [Relays -> Records \cup {None}]
  /\ holder \in [Records -> Relays \cup {None}]
  /\ delivered \subseteq Records /\ faults \in 0..MaxFaults

Init ==
  /\ status = [r \in Records |-> "absent"] /\ attempts = [r \in Records |-> 0]
  /\ due = {}
  /\ pc = [w \in Relays |-> "idle"] /\ batch = [w \in Relays |-> {}]
  /\ attempt = [w \in Relays |-> [r \in Records |-> 0]]
  /\ current = [w \in Relays |-> None]
  /\ holder = [r \in Records |-> None] /\ delivered = {} /\ faults = 0

Earlier(r) == {q \in Records : Aggregate[q] = Aggregate[r] /\ Revision[q] < Revision[r]}

\* The relay still works on its current claim of r.
Holds(w, r) == (r \in batch[w] \/ current[w] = r) /\ attempt[w][r] = attempts[r]

Fault == faults < MaxFaults /\ faults' = faults + 1

-----------------------------------------------------------------------------

\* Enqueue in the transaction of the caller, who records the revisions of an
\* aggregate in order; available_at is the time the caller recorded.
Enqueue(r) ==
  /\ status[r] = "absent" /\ \A q \in Earlier(r) : status[q] # "absent"
  /\ status' = [status EXCEPT ![r] = "pending"]
  /\ due' \in {due, due \cup {r}}
  /\ UNCHANGED <<attempts, relay, holder, delivered, faults>>

\* available_at is reached: of a pending record, or of a claim whose relay has
\* stopped; of a claim whose relay is still at work it is a fault.
Due(r) ==
  /\ status[r] \in Unfinished /\ r \notin due
  /\ IF status[r] = "claimed" /\ \E w \in Relays : Holds(w, r) THEN Fault ELSE UNCHANGED faults
  /\ due' = due \cup {r}
  /\ UNCHANGED <<status, attempts, relay, holder, delivered>>

\* The candidates without the test for earlier revisions.
CandidatesAnyRevision == {r \in Records : status[r] \in Unfinished /\ r \in due}

\* Only pending rows are candidates: an expired claim is never taken over.
CandidatesPending ==
  {r \in Records : /\ status[r] = "pending" /\ r \in due
                   /\ \A q \in Earlier(r) : status[q] \notin Unfinished}

\* The candidates of Claim: due, and no earlier revision unfinished.
Candidates ==
  {r \in Records : /\ status[r] \in Unfinished /\ r \in due
                   /\ \A q \in Earlier(r) : status[q] \notin Unfinished}

\* The records claimed: as many candidates as the limit allows.
Claimable == {c \in SUBSET Candidates : /\ Cardinality(c) <= ClaimLimit
                                        /\ Cardinality(c) = ClaimLimit \/ c = Candidates}

\* The rows that Claim updates.
Claimed(w, c) ==
  /\ status' = [r \in Records |-> IF r \in c THEN "claimed" ELSE status[r]]
  /\ attempts' = [r \in Records |-> IF r \in c THEN attempts[r] + 1 ELSE attempts[r]]
  /\ due' = due \ c
  /\ holder' = [r \in Records |-> IF r \in c THEN w ELSE holder[r]]

\* Claim, by RunOnce; without a candidate RunOnce returns.
Claim(w) ==
  /\ pc[w] = "idle" /\ Candidates # {}
  /\ \E c \in Claimable :
       /\ Claimed(w, c)
       /\ batch' = [batch EXCEPT ![w] = c]
  /\ attempt' = [attempt EXCEPT ![w] = [r \in Records |-> IF r \in batch'[w] THEN attempts'[r] ELSE 0]]
  /\ pc' = [pc EXCEPT ![w] = "loop"]
  /\ UNCHANGED <<current, delivered, faults>>

\* Claim is applied, but its answer is lost or a row cannot be decoded.
ClaimLost(w) ==
  /\ pc[w] = "idle" /\ Candidates # {}
  /\ Fault
  /\ \E c \in Claimable : Claimed(w, c)
  /\ UNCHANGED <<relay, delivered>>

\* RunOnce takes the next record; Publish delivers it, or fails and may have.
Publish(w) ==
  /\ pc[w] = "loop"
  /\ \E r \in batch[w] :
       /\ current' = [current EXCEPT ![w] = r]
       /\ batch' = [batch EXCEPT ![w] = @ \ {r}]
       /\ \/ pc' = [pc EXCEPT ![w] = "published"] /\ delivered' = delivered \cup {r}
          \/ pc' = [pc EXCEPT ![w] = "failed"] /\ delivered' \in {delivered, delivered \cup {r}}
  /\ UNCHANGED <<table, attempt, holder, faults>>

\* RunOnce returns after the last record.
Done(w) ==
  /\ pc[w] = "loop" /\ batch[w] = {}
  /\ pc' = [pc EXCEPT ![w] = "idle"]
  /\ UNCHANGED <<table, batch, attempt, current, holder, delivered, faults>>

\* RunOnce returns with an error, and the rest of its batch stays claimed.
Abort(w) ==
  /\ pc' = [pc EXCEPT ![w] = "idle"] /\ current' = [current EXCEPT ![w] = None]
  /\ batch' = [batch EXCEPT ![w] = {}]
  /\ attempt' = [attempt EXCEPT ![w] = [r \in Records |-> 0]]

\* The row is matched by its id and status only.
MatchesAnyClaim(w) == status[current[w]] = "claimed"

\* The where clause of MarkPublished and MarkFailed.
Matches(w) == status[current[w]] = "claimed" /\ attempts[current[w]] = attempt[w][current[w]]

\* What a mark leaves of the relay: the next record, or the row was not
\* found and requireRows ends RunOnce.
Marked(w) ==
  IF Matches(w)
  THEN /\ pc' = [pc EXCEPT ![w] = "loop"] /\ current' = [current EXCEPT ![w] = None]
       /\ attempt' = [attempt EXCEPT ![w][current[w]] = 0]
       /\ UNCHANGED batch
  ELSE Abort(w)

\* What MarkPublished does to the table.
SetPublished(r) == status' = [status EXCEPT ![r] = "published"] /\ UNCHANGED <<attempts, due>>

\* Every failed record is retried.
SetPending(r) == status' = [status EXCEPT ![r] = "pending"] /\ due' = due \ {r} /\ UNCHANGED attempts

\* What MarkFailed does to the table; a retried record waits for retryAt.
SetFailed(r) ==
  /\ \/ attempts[r] >= MaxAttempts /\ status' = [status EXCEPT ![r] = "dead_letter"] /\ UNCHANGED due
     \/ attempts[r] < MaxAttempts /\ status' = [status EXCEPT ![r] = "pending"] /\ due' = due \ {r}
  /\ UNCHANGED attempts

\* The update of the table, when the row matches.
Mark(w) ==
  LET r == current[w]
  IN IF Matches(w)
     THEN IF pc[w] = "published" THEN SetPublished(r) ELSE SetFailed(r)
     ELSE UNCHANGED table

MarkPublished(w) ==
  /\ pc[w] = "published"
  /\ Mark(w) /\ Marked(w)
  /\ UNCHANGED <<holder, delivered, faults>>

MarkFailed(w) ==
  /\ pc[w] = "failed"
  /\ Mark(w) /\ Marked(w)
  /\ UNCHANGED <<holder, delivered, faults>>

\* A mark fails, applied or not.
MarkUnknown(w) ==
  /\ pc[w] \in {"published", "failed"}
  /\ Fault
  /\ Mark(w) \/ UNCHANGED table
  /\ Abort(w)
  /\ UNCHANGED <<holder, delivered>>

\* The relay is cancelled between or during Publish calls, or dies.
Stop(w) ==
  /\ pc[w] # "idle"
  /\ Fault
  /\ Abort(w)
  /\ UNCHANGED <<table, holder, delivered>>

-----------------------------------------------------------------------------

Work(w) == Claim(w) \/ Publish(w) \/ Done(w) \/ MarkPublished(w) \/ MarkFailed(w)

Next ==
  \/ \E r \in Records : Enqueue(r) \/ Due(r)
  \/ \E w \in Relays : Work(w) \/ ClaimLost(w) \/ MarkUnknown(w) \/ Stop(w)

Spec == Init /\ [][Next]_vars

\* Time passes, and the relays are run again and take their steps: Run calls
\* RunOnce in a loop, and a relay that stopped is started again.
Fairness ==
  /\ \A w \in Relays : WF_vars(Work(w))
  /\ \A r \in Records : WF_vars(Due(r))

FairSpec == Spec /\ Fairness

-----------------------------------------------------------------------------

\* Only the relay that claimed a row last marks it: a relay whose lease ended
\* cannot overwrite what a later claim will decide.
StaleCannotMark ==
  \A r \in Records : status[r] = "claimed" /\ status'[r] # "claimed" =>
    current[holder[r]] = r /\ pc[holder[r]] # "idle" /\ pc'[holder[r]] # pc[holder[r]]

\* Per aggregate, a record is claimed and delivered only after every earlier
\* revision is finished: published and delivered, or dead-lettered.
OrderedPerAggregate ==
  \A r \in Records : attempts[r] > 0 =>
    \A q \in Earlier(r) : status[q] = "dead_letter" \/ (status[q] = "published" /\ q \in delivered)

Enqueued(r) == status[r] # "absent"
Ended(r) == status[r] \in Finished

\* Every record that was enqueued is published or dead-lettered in the end,
\* whatever relays stop, leases end early or statements fail on the way.
EventuallyFinished == \A r \in Records : Enqueued(r) ~> Ended(r)

=============================================================================
