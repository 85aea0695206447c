------------------------------ MODULE Strategic ------------------------------
(***************************************************************************)
(* The strategic electors of leader/redis and leader/mongo, and the         *)
(* strategies of leader/strategy.go.  Every node registers itself with a    *)
(* TTL, lists the candidates, and runs its action if the strategy picks it. *)
(* Redis keeps the live candidates in an index beside their keys.           *)
(***************************************************************************)
EXTENDS Integers, Sequences, FiniteSets

CONSTANTS
  Nodes,        \* integers: the order of the node ids
  Indexed,      \* TRUE for Redis, FALSE for MongoDB
  TTLs, Buffer, \* what RegisterCandidate is called with; strategicIndexTTLBuffer
  Scores,       \* the scores a candidate may register with
  MaxTime, MaxResults

VARIABLES
  now,
  cand,         \* the candidate keys or documents
  index,        \* the index: its scores and its expiry
  step          \* where each node is, and the list and the winner it has in hand

vars == <<now, cand, index, step>>

Absent == [until |-> 0, at |-> 0, score |-> 0, counted |-> 0]
NoList == [pc |-> "idle", list |-> <<>>, winner |-> 0]
Candidate == [until : Nat, at : Nat, score : Scores \cup {0}, counted : Nat]
Listed == [id : Nodes, at : Nat, score : Scores]

TypeOK ==
  /\ now \in 0..MaxTime
  /\ cand \in [Nodes -> Candidate]
  /\ index \in [scores : [Nodes -> Nat], until : Nat]
  /\ step \in [Nodes -> [pc : {"idle", "elect", "act", "unindex"}, list : Seq(Listed), winner : Nodes \cup {0}]]

Init ==
  /\ now = 0
  /\ cand = [n \in Nodes |-> Absent]
  /\ index = [scores |-> [n \in Nodes |-> 0], until |-> 0]
  /\ step = [n \in Nodes |-> NoList]

live(n) == cand[n].until > now

\* The members of a list.
Members(list) == {list[i] : i \in DOMAIN list}

\* The members of S in the order less: the i-th is the one that i - 1 precede.
Sorted(S, less(_, _)) ==
  [i \in 1..Cardinality(S) |-> CHOOSE x \in S : Cardinality({y \in S : less(y, x)}) = i - 1]

Tick == now < MaxTime /\ now' = now + 1 /\ UNCHANGED <<cand, index, step>>

\* The scores of an index that has expired are gone.
Scored(n) == IF index.until > now THEN index.scores[n] ELSE 0

\* A registration that leaves the index alone.
RegisterUnindexed(n) ==
  /\ step[n].pc = "idle"
  /\ \E ttl \in TTLs, score \in Scores :
       cand' = [cand EXCEPT ![n] = [until |-> now + ttl, at |-> 1, score |-> score, counted |-> 0]]
  /\ UNCHANGED <<now, index, step>>

RegisterCandidate(n) ==
  /\ step[n].pc = "idle"
  /\ \E ttl \in TTLs, at \in 1..2, score \in Scores :
       /\ cand' = [cand EXCEPT ![n] = [until |-> now + ttl, at |-> at, score |-> score, counted |-> 0]]
       /\ index' = IF Indexed
                   THEN [scores |-> [m \in Nodes |-> IF m = n THEN now + ttl ELSE Scored(m)], until |-> now + ttl + Buffer]
                   ELSE index
  /\ UNCHANGED <<now, step>>

\* The candidate goes first, then its entry of the index.
UnregisterCandidate(n) ==
  /\ step[n].pc = "idle"
  /\ cand' = [cand EXCEPT ![n] = Absent]
  /\ step' = [step EXCEPT ![n].pc = IF Indexed THEN "unindex" ELSE "idle"]
  /\ UNCHANGED <<now, index>>

UnregisterIndex(n) ==
  /\ step[n].pc = "unindex"
  /\ index' = [index EXCEPT !.scores[n] = 0]
  /\ step' = [step EXCEPT ![n] = NoList]
  /\ UNCHANGED <<now, cand>>

\* A candidate is listed if it has not expired and, for Redis, is indexed.
listed(m) == live(m) /\ (Indexed => Scored(m) > now)

\* ListCandidates prunes what has expired, and sorts by node id.
ListCandidates(n) ==
  /\ step[n].pc = "idle"
  /\ LET seen == {m \in Nodes : listed(m)}
         info(m) == [id |-> m, at |-> cand[m].at, score |-> cand[m].score]
         ids == Sorted(seen, <)
     IN /\ step' = [step EXCEPT ![n] = [pc |-> "elect", list |-> [i \in DOMAIN ids |-> info(ids[i])], winner |-> 0]]
        /\ index' = IF Indexed THEN [index EXCEPT !.scores = [m \in Nodes |-> IF m \in seen THEN Scored(m) ELSE 0]] ELSE index
        /\ cand' = [m \in Nodes |-> IF live(m) THEN cand[m] ELSE Absent]
  /\ UNCHANGED now

\* sortCandidates: by registration, then by node id.
before(a, b) == a.at < b.at \/ (a.at = b.at /\ a.id < b.id)
sortCandidates(list) == Sorted(Members(list), before)

\* The last of the best instead of the first.
scoredLast(list) ==
  LET sorted == sortCandidates(list)
      winner[i \in DOMAIN sorted] ==
        IF i = 1 \/ sorted[i].score >= winner[i - 1].score THEN sorted[i] ELSE winner[i - 1]
  IN winner[Len(sorted)].id

\* ScoredStrategy.Elect, with the winner after i candidates; FifoStrategy is
\* the case of equal scores.
scoredElect(list) ==
  LET sorted == sortCandidates(list)
      winner[i \in DOMAIN sorted] ==
        IF i = 1 \/ sorted[i].score > winner[i - 1].score THEN sorted[i] ELSE winner[i - 1]
  IN winner[Len(sorted)].id

\* RunIfLeader: the strategy picks, and the node acts or returns.
Elect(n) ==
  /\ step[n].pc = "elect"
  /\ LET winner == IF step[n].list = <<>> THEN 0 ELSE scoredElect(step[n].list)
     IN step' = [step EXCEPT ![n] = IF winner = n THEN [pc |-> "act", list |-> @.list, winner |-> n] ELSE NoList]
  /\ UNCHANGED <<now, cand, index>>

\* A result that is stored whether or not the candidate is there.
UpdateAny(n) ==
  /\ step[n].pc = "act" /\ cand[n].counted < MaxResults
  /\ cand' = [cand EXCEPT ![n].counted = @ + 1, ![n].until = IF @ > now THEN @ ELSE now + 1]
  /\ step' = [step EXCEPT ![n] = NoList]
  /\ UNCHANGED <<now, index>>

\* The action is over; UpdateResult counts it for a live candidate only, and
\* leaves its expiry.
UpdateResult(n) ==
  /\ step[n].pc = "act" /\ cand[n].counted < MaxResults
  /\ cand' = IF live(n) THEN [cand EXCEPT ![n].counted = @ + 1] ELSE cand
  /\ step' = [step EXCEPT ![n] = NoList]
  /\ UNCHANGED <<now, index>>

Step(n) ==
  \/ RegisterCandidate(n) \/ UnregisterCandidate(n) \/ UnregisterIndex(n)
  \/ ListCandidates(n) \/ Elect(n) \/ UpdateResult(n)

Next == Tick \/ \E n \in Nodes : Step(n)

Spec == Init /\ [][Next]_vars

-----------------------------------------------------------------------------

\* Every candidate that has not expired is one that ListCandidates returns.
LiveCandidatesListed == \A n \in Nodes : live(n) => listed(n)

\* A node runs its action only if no candidate of its list had a better score,
\* or the same and an earlier registration.
ElectedIsBest ==
  \A n \in Nodes : step[n].pc = "act" =>
    \E w \in Members(step[n].list) :
      /\ w.id = n
      /\ \A c \in Members(step[n].list) : c.score < w.score \/ (c.score = w.score /\ (c = w \/ before(w, c)))

\* Storing a result, listing or electing never brings a candidate back that
\* has expired or was unregistered, and never prolongs one.
NeverRevived ==
  \A n \in Nodes : cand'[n].until > cand[n].until => step[n].pc = "idle"

=============================================================================
