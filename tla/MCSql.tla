-------------------------------- MODULE MCSql --------------------------------
(***************************************************************************)
(* Model checking on PostgreSQL: the leader elector, and for liveness also *)
(* the outbox.  They share no state: which chooses the one a behaviour is  *)
(* about.                                                                  *)
(***************************************************************************)
EXTENDS SqlLeader, TLC

CONSTANTS a1, a2, w1, w2, None

VARIABLES which, status, attempts, due, pc, batch, attempt, current, holder, delivered, faults

\* Two revisions of one aggregate.
Aggregates == [r \in {a1, a2} |-> "a"]
Revisions == [r \in {a1, a2} |-> IF r = a2 THEN 2 ELSE 1]
Outbox == INSTANCE SqlOutbox WITH Records <- {a1, a2}, Relays <- {w1, w2}, Aggregate <- Aggregates,
                                  Revision <- Revisions, ClaimLimit <- 2, MaxAttempts <- 2, MaxFaults <- 2

outboxVars == <<status, attempts, due, pc, batch, attempt, current, holder, delivered, faults>>
liveVars == <<which, vars, outboxVars>>

Unused(x) == x = 0
NoOutbox ==
  /\ Unused(status) /\ Unused(attempts) /\ Unused(due) /\ Unused(pc) /\ Unused(batch) /\ Unused(attempt)
  /\ Unused(current) /\ Unused(holder) /\ Unused(delivered) /\ Unused(faults)

\* The elector alone; electors and resigners are interchangeable.
LeaderInit == which = "leader" /\ NoOutbox /\ Init
LeaderNext == Next /\ UNCHANGED <<which, outboxVars>>
LeaderSpec == LeaderInit /\ [][LeaderNext]_liveVars
Symmetry == Permutations(Electors) \cup Permutations(Resigners)

LiveInit == Init /\ ((which = "leader" /\ NoOutbox) \/ (which = "outbox" /\ Outbox!Init))

OnOutbox(A) == which = "outbox" /\ A /\ UNCHANGED <<which, vars>>

LiveNext == (which = "leader" /\ Next /\ UNCHANGED <<which, outboxVars>>) \/ OnOutbox(Outbox!Next)

\* The fairness of SqlLeader, and that of SqlOutbox: relays are run again and time passes.
OutboxFairness ==
  /\ \A w \in {w1, w2} : WF_liveVars(OnOutbox(Outbox!Work(w)))
  /\ \A r \in {a1, a2} : WF_liveVars(OnOutbox(Outbox!Due(r)))

LiveSpec == LiveInit /\ [][LiveNext]_liveVars /\ Fairness /\ OutboxFairness

\* Every enqueued record is published or dead-lettered in the end.
EventuallyFinished ==
  \A r \in {a1, a2} : (which = "outbox" /\ Outbox!Enqueued(r)) ~> (which = "outbox" /\ Outbox!Ended(r))

=============================================================================
