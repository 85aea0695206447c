----------------------------- MODULE MongoProofs -----------------------------
(***************************************************************************)
(* Proofs about leader/mongo for any electors or members, lease, clock skew *)
(* and bounds: the Elector (first part) and the GroupElector (second part). *)
(* Each part has the same plan.  A step changes the record of one elector,  *)
(* and what the invariant says of it is shown from what the new record      *)
(* holds; whatever the step does to the documents disturbs no other         *)
(* elector, because a lease is overwritten only when it has run out for     *)
(* every clock.                                                             *)
(***************************************************************************)
EXTENDS MongoElectors, TLAPS

-----------------------------------------------------------------------------
(* The Elector: one document                                               *)

\* What the constants of the elector must be.
ElectorAssumption == Lease \in Nat /\ MaxSkew \in Nat /\ MaxNow \in Nat /\ NoOwner \notin Electors

Renews(e) == el[e].loop \in {"waiting", "renewing"}

\* The clocks a command uses were read before.
ReadBefore(e) == el[e].at \in 0..clock(e) /\ el[e].renewAt \in 0..clock(e)

\* A leader whose lease has more than the skew left has it in the document.
Led(e) ==
  /\ el[e].owned => el[e].pc = "idle"
  /\ el[e].owned /\ clock(e) + MaxSkew < known[e] => record.token = e /\ record.until >= known[e]

\* A document that an elector may still have is one it leads with, campaigns for or will clean up.
Kept(e) ==
  /\ Renews(e) => el[e].owned \/ el[e].cleanup
  /\ el[e].pc = "delete" => ~Renews(e)
  /\ el[e].pc = "sleep" => record.token # e
  /\ record.token = e /\ record.until > clock(e) => el[e].owned \/ el[e].cleanup \/ el[e].pc \in {"acquire", "sleep"}

DocInv == TypeOKLeader /\ \A e \in Electors : ReadBefore(e) /\ Led(e) /\ Kept(e)

Rec(o, c, x, l, a, r, p) == [owned |-> o, cleanup |-> c, cancelled |-> x, loop |-> l, at |-> a, renewAt |-> r, pc |-> p]

\* The record of elector e becomes this one.
Becomes(e, o, c, l, a, r, p) == \E x \in BOOLEAN : el' = [el EXCEPT ![e] = Rec(o, c, x, l, a, r, p)]

Labels == {"idle", "acquire", "sleep", "join", "delete"}

\* ... and those of the others stay.
LEMMA Fields ==
  ASSUME el \in [Electors -> Elector], NEW e \in Electors, NEW o \in BOOLEAN, NEW c \in BOOLEAN, NEW l \in Loops,
         NEW a \in Int, NEW r \in Int, NEW p \in Labels, Becomes(e, o, c, l, a, r, p)
  PROVE  /\ el' \in [Electors -> Elector] /\ \A f \in Electors : f # e => el'[f] = el[f]
         /\ el'[e].owned = o /\ el'[e].cleanup = c /\ el'[e].loop = l /\ el'[e].at = a /\ el'[e].renewAt = r
             /\ el'[e].pc = p
  <1>1. PICK x \in BOOLEAN : el' = [el EXCEPT ![e] = Rec(o, c, x, l, a, r, p)]
    BY Zenon DEF Becomes
  <1> DEFINE s == Rec(o, c, x, l, a, r, p)
  <1>2. s \in Elector /\ s.owned = o /\ s.cleanup = c /\ s.loop = l /\ s.at = a /\ s.renewAt = r /\ s.pc = p
    BY Zenon DEF Elector, Labels, Rec
  <1> HIDE DEF s
  <1>3. el' \in [Electors -> Elector] /\ el'[e] = s /\ \A f \in Electors : f # e => el'[f] = el[f]
    BY <1>1, <1>2, Zenon DEF s
  <1> QED BY <1>2, <1>3, Zenon

\* The types of the fields.
LEMMA FieldTypes ==
  ASSUME el \in [Electors -> Elector], NEW e \in Electors
  PROVE  /\ el[e].owned \in BOOLEAN /\ el[e].cleanup \in BOOLEAN /\ el[e].cancelled \in BOOLEAN /\ el[e].loop \in Loops
         /\ el[e].at \in Int /\ el[e].renewAt \in Int /\ el[e].pc \in Labels
         /\ el[e] = Rec(el[e].owned, el[e].cleanup, el[e].cancelled, el[e].loop, el[e].at, el[e].renewAt, el[e].pc)
  <1>1. el[e] \in Elector
    BY Zenon
  <1> QED BY <1>1, Zenon DEF Elector, Labels, Rec

\* What the actions make of the record of their elector. beginCampaign, sleepContext
LEMMA ToAcquire ==
  ASSUME el \in [Electors -> Elector], NEW e \in Electors, NEW t \in Int,
         el' = [el EXCEPT ![e].pc = "acquire", ![e].at = t]
  PROVE  Becomes(e, el[e].owned, el[e].cleanup, el[e].loop, t, el[e].renewAt, "acquire")
  <1>1. el' = [el EXCEPT ![e] = [el[e] EXCEPT !.pc = "acquire", !.at = t]]
    BY Zenon
  <1>2. el[e] \in Elector /\ el[e].cancelled \in BOOLEAN
    BY FieldTypes, Zenon
  <1>3. ASSUME NEW q \in Elector, NEW s, s = [q EXCEPT !.pc = "acquire", !.at = t]
        PROVE s = Rec(q.owned, q.cleanup, q.cancelled, q.loop, t, q.renewAt, "acquire")
    BY <1>3, Zenon DEF Rec, Elector
  <1>4. [el[e] EXCEPT !.pc = "acquire", !.at = t] = Rec(el[e].owned, el[e].cleanup, el[e].cancelled, el[e].loop, t,
        el[e].renewAt, "acquire")
    BY <1>2, <1>3, Zenon
  <1> QED BY <1>1, <1>2, <1>4, Zenon DEF Becomes

\* tryAcquire
LEMMA ToSleep ==
  ASSUME el \in [Electors -> Elector], NEW e \in Electors,
         el' = [el EXCEPT ![e].pc = "sleep", ![e].at = 0]
  PROVE  Becomes(e, el[e].owned, el[e].cleanup, el[e].loop, 0, el[e].renewAt, "sleep")
  <1>1. el' = [el EXCEPT ![e] = [el[e] EXCEPT !.pc = "sleep", !.at = 0]]
    BY Zenon
  <1>2. el[e] \in Elector /\ el[e].cancelled \in BOOLEAN
    BY FieldTypes, Zenon
  <1>3. ASSUME NEW q \in Elector, NEW s, s = [q EXCEPT !.pc = "sleep", !.at = 0]
        PROVE s = Rec(q.owned, q.cleanup, q.cancelled, q.loop, 0, q.renewAt, "sleep")
    BY <1>3, Zenon DEF Rec, Elector
  <1>4. [el[e] EXCEPT !.pc = "sleep", !.at = 0] = Rec(el[e].owned, el[e].cleanup, el[e].cancelled, el[e].loop, 0,
        el[e].renewAt, "sleep")
    BY <1>2, <1>3, Zenon
  <1> QED BY <1>1, <1>2, <1>4, Zenon DEF Becomes

\* startRenewal
LEMMA ToOwner ==
  ASSUME el \in [Electors -> Elector], NEW e \in Electors,
         el' = [el EXCEPT ![e].pc = "idle", ![e].owned = TRUE, ![e].cleanup = FALSE, ![e].cancelled = FALSE,
             ![e].loop = "waiting", ![e].at = 0]
  PROVE  Becomes(e, TRUE, FALSE, "waiting", 0, el[e].renewAt, "idle")
  <1>1. el' = [el EXCEPT ![e] = [el[e] EXCEPT !.pc = "idle", !.owned = TRUE, !.cleanup = FALSE, !.cancelled = FALSE,
        !.loop = "waiting", !.at = 0]]
    BY Zenon
  <1>2. el[e] \in Elector /\ FALSE \in BOOLEAN
    BY FieldTypes, Zenon
  <1>3. ASSUME NEW q \in Elector, NEW s, s = [q EXCEPT !.pc = "idle", !.owned = TRUE, !.cleanup = FALSE,
        !.cancelled = FALSE, !.loop = "waiting", !.at = 0]
            PROVE s = Rec(TRUE, FALSE, FALSE, "waiting", 0, q.renewAt, "idle")
    BY <1>3, Zenon DEF Rec, Elector
  <1>4. [el[e] EXCEPT !.pc = "idle", !.owned = TRUE, !.cleanup = FALSE, !.cancelled = FALSE, !.loop = "waiting",
        !.at = 0] = Rec(TRUE, FALSE, FALSE, "waiting", 0, el[e].renewAt, "idle")
    BY <1>2, <1>3, Zenon
  <1> QED BY <1>1, <1>2, <1>4, Zenon DEF Becomes

\* acquireUnknown
LEMMA ToUnknown ==
  ASSUME el \in [Electors -> Elector], NEW e \in Electors,
         el' = [el EXCEPT ![e].pc = "idle", ![e].cleanup = TRUE, ![e].at = 0]
  PROVE  Becomes(e, el[e].owned, TRUE, el[e].loop, 0, el[e].renewAt, "idle")
  <1>1. el' = [el EXCEPT ![e] = [el[e] EXCEPT !.pc = "idle", !.cleanup = TRUE, !.at = 0]]
    BY Zenon
  <1>2. el[e] \in Elector /\ el[e].cancelled \in BOOLEAN
    BY FieldTypes, Zenon
  <1>3. ASSUME NEW q \in Elector, NEW s, s = [q EXCEPT !.pc = "idle", !.cleanup = TRUE, !.at = 0]
        PROVE s = Rec(q.owned, TRUE, q.cancelled, q.loop, 0, q.renewAt, "idle")
    BY <1>3, Zenon DEF Rec, Elector
  <1>4. [el[e] EXCEPT !.pc = "idle", !.cleanup = TRUE, !.at = 0] = Rec(el[e].owned, TRUE, el[e].cancelled, el[e].loop, 0,
        el[e].renewAt, "idle")
    BY <1>2, <1>3, Zenon
  <1> QED BY <1>1, <1>2, <1>4, Zenon DEF Becomes

\* sleepContext, Join, Resign
LEMMA ToLabel ==
  ASSUME el \in [Electors -> Elector], NEW e \in Electors, NEW p \in Labels,
         el' = [el EXCEPT ![e].pc = p]
  PROVE  Becomes(e, el[e].owned, el[e].cleanup, el[e].loop, el[e].at, el[e].renewAt, p)
  <1>1. el' = [el EXCEPT ![e] = [el[e] EXCEPT !.pc = p]]
    BY Zenon
  <1>2. el[e] \in Elector /\ el[e].cancelled \in BOOLEAN
    BY FieldTypes, Zenon
  <1>3. ASSUME NEW q \in Elector, NEW s, s = [q EXCEPT !.pc = p]
        PROVE s = Rec(q.owned, q.cleanup, q.cancelled, q.loop, q.at, q.renewAt, p)
    BY <1>3, Zenon DEF Rec, Elector
  <1>4. [el[e] EXCEPT !.pc = p] = Rec(el[e].owned, el[e].cleanup, el[e].cancelled, el[e].loop, el[e].at, el[e].renewAt, p)
    BY <1>2, <1>3, Zenon
  <1> QED BY <1>1, <1>2, <1>4, Zenon DEF Becomes

\* renewLoop, renew
LEMMA ToLoop ==
  ASSUME el \in [Electors -> Elector], NEW e \in Electors, NEW t \in Int, NEW l \in Loops,
         el' = [el EXCEPT ![e].loop = l, ![e].renewAt = t]
  PROVE  Becomes(e, el[e].owned, el[e].cleanup, l, el[e].at, t, el[e].pc)
  <1>1. el' = [el EXCEPT ![e] = [el[e] EXCEPT !.loop = l, !.renewAt = t]]
    BY Zenon
  <1>2. el[e] \in Elector /\ el[e].cancelled \in BOOLEAN
    BY FieldTypes, Zenon
  <1>3. ASSUME NEW q \in Elector, NEW s, s = [q EXCEPT !.loop = l, !.renewAt = t]
        PROVE s = Rec(q.owned, q.cleanup, q.cancelled, l, q.at, t, q.pc)
    BY <1>3, Zenon DEF Rec, Elector
  <1>4. [el[e] EXCEPT !.loop = l, !.renewAt = t] = Rec(el[e].owned, el[e].cleanup, el[e].cancelled, l, el[e].at, t,
        el[e].pc)
    BY <1>2, <1>3, Zenon
  <1> QED BY <1>1, <1>2, <1>4, Zenon DEF Becomes

\* renewLoop
LEMMA ToStopped ==
  ASSUME el \in [Electors -> Elector], NEW e \in Electors,
         el' = [el EXCEPT ![e].loop = "stopped"]
  PROVE  Becomes(e, el[e].owned, el[e].cleanup, "stopped", el[e].at, el[e].renewAt, el[e].pc)
  <1>1. el' = [el EXCEPT ![e] = [el[e] EXCEPT !.loop = "stopped"]]
    BY Zenon
  <1>2. el[e] \in Elector /\ el[e].cancelled \in BOOLEAN
    BY FieldTypes, Zenon
  <1>3. ASSUME NEW q \in Elector, NEW s, s = [q EXCEPT !.loop = "stopped"]
        PROVE s = Rec(q.owned, q.cleanup, q.cancelled, "stopped", q.at, q.renewAt, q.pc)
    BY <1>3, Zenon DEF Rec, Elector
  <1>4. [el[e] EXCEPT !.loop = "stopped"] = Rec(el[e].owned, el[e].cleanup, el[e].cancelled, "stopped", el[e].at,
        el[e].renewAt, el[e].pc)
    BY <1>2, <1>3, Zenon
  <1> QED BY <1>1, <1>2, <1>4, Zenon DEF Becomes

\* clearOwnershipAfterLoss
LEMMA ToLoss ==
  ASSUME el \in [Electors -> Elector], NEW e \in Electors, NEW b \in BOOLEAN,
         el' = [el EXCEPT ![e].owned = FALSE, ![e].cleanup = b, ![e].loop = "none", ![e].renewAt = 0]
  PROVE  Becomes(e, FALSE, b, "none", el[e].at, 0, el[e].pc)
  <1>1. el' = [el EXCEPT ![e] = [el[e] EXCEPT !.owned = FALSE, !.cleanup = b, !.loop = "none", !.renewAt = 0]]
    BY Zenon
  <1>2. el[e] \in Elector /\ el[e].cancelled \in BOOLEAN
    BY FieldTypes, Zenon
  <1>3. ASSUME NEW q \in Elector, NEW s, s = [q EXCEPT !.owned = FALSE, !.cleanup = b, !.loop = "none", !.renewAt = 0]
        PROVE s = Rec(FALSE, b, q.cancelled, "none", q.at, 0, q.pc)
    BY <1>3, Zenon DEF Rec, Elector
  <1>4. [el[e] EXCEPT !.owned = FALSE, !.cleanup = b, !.loop = "none", !.renewAt = 0] = Rec(FALSE, b, el[e].cancelled,
        "none", el[e].at, 0, el[e].pc)
    BY <1>2, <1>3, Zenon
  <1> QED BY <1>1, <1>2, <1>4, Zenon DEF Becomes

\* clearOwnership
LEMMA ToJoin ==
  ASSUME el \in [Electors -> Elector], NEW e \in Electors,
         el' = [el EXCEPT ![e].owned = FALSE, ![e].cleanup = TRUE, ![e].cancelled = TRUE, ![e].pc = "join"]
  PROVE  Becomes(e, FALSE, TRUE, el[e].loop, el[e].at, el[e].renewAt, "join")
  <1>1. el' = [el EXCEPT ![e] = [el[e] EXCEPT !.owned = FALSE, !.cleanup = TRUE, !.cancelled = TRUE, !.pc = "join"]]
    BY Zenon
  <1>2. el[e] \in Elector /\ TRUE \in BOOLEAN
    BY FieldTypes, Zenon
  <1>3. ASSUME NEW q \in Elector, NEW s, s = [q EXCEPT !.owned = FALSE, !.cleanup = TRUE, !.cancelled = TRUE, !.pc = "join"]
        PROVE s = Rec(FALSE, TRUE, TRUE, q.loop, q.at, q.renewAt, "join")
    BY <1>3, Zenon DEF Rec, Elector
  <1>4. [el[e] EXCEPT !.owned = FALSE, !.cleanup = TRUE, !.cancelled = TRUE, !.pc = "join"] = Rec(FALSE, TRUE, TRUE,
        el[e].loop, el[e].at, el[e].renewAt, "join")
    BY <1>2, <1>3, Zenon
  <1> QED BY <1>1, <1>2, <1>4, Zenon DEF Becomes

\* Resign
LEMMA ToClean ==
  ASSUME el \in [Electors -> Elector], NEW e \in Electors,
         el' = [el EXCEPT ![e].pc = "idle", ![e].cleanup = FALSE, ![e].loop = "none"]
  PROVE  Becomes(e, el[e].owned, FALSE, "none", el[e].at, el[e].renewAt, "idle")
  <1>1. el' = [el EXCEPT ![e] = [el[e] EXCEPT !.pc = "idle", !.cleanup = FALSE, !.loop = "none"]]
    BY Zenon
  <1>2. el[e] \in Elector /\ el[e].cancelled \in BOOLEAN
    BY FieldTypes, Zenon
  <1>3. ASSUME NEW q \in Elector, NEW s, s = [q EXCEPT !.pc = "idle", !.cleanup = FALSE, !.loop = "none"]
        PROVE s = Rec(q.owned, FALSE, q.cancelled, "none", q.at, q.renewAt, "idle")
    BY <1>3, Zenon DEF Rec, Elector
  <1>4. [el[e] EXCEPT !.pc = "idle", !.cleanup = FALSE, !.loop = "none"] = Rec(el[e].owned, FALSE, el[e].cancelled, "none",
        el[e].at, el[e].renewAt, "idle")
    BY <1>2, <1>3, Zenon
  <1> QED BY <1>1, <1>2, <1>4, Zenon DEF Becomes

\* What a step of elector e may do to the document: write a lease that begins when the clock was read, or delete
\* its own.
DocStep(e) ==
  \/ record' = record
  \/ \E t \in 0..clock(e) : (record.token \in {NoOwner, e} \/ record.until <= t) /\ record' = [token |-> e,
      until |-> t + Lease]
  \/ record.token = e /\ record' = NoDoc

Own(e) == ReadBefore(e) /\ Led(e) /\ Kept(e)

\* The values a step of elector e uses.
LEMMA Values ==
  ASSUME ElectorAssumption, TypeOKLeader, NEW e \in Electors
  PROVE  /\ el \in [Electors -> Elector] /\ clock(e) \in Nat /\ clock(e) <= now + MaxSkew /\ now <= clock(e) /\ now \in Nat
         /\ record.token \in Electors \cup {NoOwner} /\ record.until \in Nat /\ known \in [Electors -> Nat]
             /\ known[e] \in Nat
         /\ 0 \in 0..clock(e) /\ clock(e) \in 0..clock(e) /\ NoOwner # e
  <1>1. /\ el \in [Electors -> Elector] /\ now \in 0..MaxNow /\ skew[e] \in 0..MaxSkew /\ known \in [Electors -> Nat]
        /\ record \in [token : Electors \cup {NoOwner}, until : Nat]
    BY Zenon DEF TypeOKLeader
  <1>2. clock(e) \in Nat /\ clock(e) <= now + MaxSkew /\ now <= clock(e) /\ now \in Nat
    BY <1>1 DEF clock, ElectorAssumption
  <1>3. 0 \in 0..clock(e) /\ clock(e) \in 0..clock(e)
    BY <1>2
  <1>4. record.token \in Electors \cup {NoOwner} /\ record.until \in Nat
    BY <1>1, Zenon
  <1> QED BY <1>1, <1>2, <1>3, <1>4, Zenon DEF ElectorAssumption

\* Every step of an elector does one of these.
LEMMA DocSteps ==
  ASSUME ElectorAssumption, DocInv, NEW e \in Electors, Step(e)
  PROVE  DocStep(e) /\ UNCHANGED <<now, skew>>
  <1>1. el[e].at \in 0..clock(e) /\ el[e].renewAt \in 0..clock(e)
    BY Zenon DEF DocInv, ReadBefore
  <1>2. CASE beginCampaign(e) \/ sleepContext(e) \/ renewLoop(e) \/ clearOwnership(e) \/ Join(e)
    BY <1>2, Zenon DEF beginCampaign, sleepContext, renewLoop, clearOwnership, Join, DocStep
  <1>3. CASE tryAcquire(e) \/ acquireUnknown(e)
    BY <1>1, <1>3, Zenon DEF tryAcquire, acquireUnknown, Filter, Leased, DocStep
  <1>4. CASE renew(e) \/ renewUnknown(e)
    BY <1>1, <1>4, Zenon DEF renew, renewUnknown, Holds, Leased, DocStep
  <1>5. CASE Resign(e)
    BY <1>5, Zenon DEF Resign, Without, DocStep
  <1> QED BY <1>2, <1>3, <1>4, <1>5, Zenon DEF Step

\* A step of e leaves every other elector what it has: a lease is overwritten only after it has run out for any
\* clock.
LEMMA OthersOwn ==
  ASSUME ElectorAssumption, DocInv, NEW e \in Electors, DocStep(e), UNCHANGED <<now, skew>>,
         NEW f \in Electors, f # e, el'[f] = el[f], known'[f] = known[f]
  PROVE  Own(f)'
  <1>1. clock(f)' = clock(f) /\ ReadBefore(f) /\ Led(f) /\ Kept(f)
    BY Zenon DEF clock, DocInv
  <1>2. /\ clock(f) \in Nat /\ now <= clock(f) /\ now \in Nat /\ record.until \in Nat /\ known[f] \in Nat /\ NoOwner # f
        /\ clock(e) \in Nat /\ clock(e) <= now + MaxSkew /\ MaxSkew \in Nat
    BY Values, Zenon DEF DocInv, ElectorAssumption
  <1>3. record' = record \/ record'.token # f
    <2>1. NoDoc.token # f
      BY <1>2, Zenon DEF NoDoc
    <2>2. ASSUME NEW t, record' = [token |-> e, until |-> t + Lease] PROVE record'.token # f
      BY <2>2, Zenon
    <2> QED BY <2>1, <2>2, Zenon DEF DocStep
  <1>4. ReadBefore(f)'
    BY <1>1, Zenon DEF ReadBefore
  <1>5. Led(f)'
    <2>1. ASSUME el[f].owned, clock(f) + MaxSkew < known[f] PROVE record' = record
      <3>1. record.token = f /\ record.until >= known[f]
        BY <1>1, <2>1, Zenon DEF Led
      <3>2. ASSUME NEW t \in 0..clock(e) PROVE ~(record.until <= t)
        BY <1>2, <2>1, <3>1, <3>2
      <3> QED BY <1>2, <3>1, <3>2, Zenon DEF DocStep
    <2> QED BY <1>1, <2>1, Zenon DEF Led
  <1>6. Kept(f)'
    BY <1>1, <1>3, Zenon DEF Kept, Renews
  <1> QED BY <1>4, <1>5, <1>6, Zenon DEF Own

\* What the invariant asks of the record an elector gets.
Good(e, o, c, l, a, r, p) ==
  /\ a \in 0..clock(e) /\ r \in 0..clock(e)
  /\ o => p = "idle"
  /\ o /\ clock(e) + MaxSkew < known'[e] => record'.token = e /\ record'.until >= known'[e]
  /\ l \in {"waiting", "renewing"} => o \/ c
  /\ p = "delete" => l \notin {"waiting", "renewing"}
  /\ p = "sleep" => record'.token # e
  /\ record'.token = e /\ record'.until > clock(e) => o \/ c \/ p \in {"acquire", "sleep"}

Kinds(e) ==
  /\ el' \in [Electors -> Elector] /\ \A f \in Electors : f # e => el'[f] = el[f]
  /\ Own(e)'

\* An elector gets a good record.
Fits(e, o, c, l, a, r, p) ==
  /\ o \in BOOLEAN /\ c \in BOOLEAN /\ l \in Loops /\ p \in Labels
  /\ Becomes(e, o, c, l, a, r, p) /\ Good(e, o, c, l, a, r, p)

\* With a good record the invariant holds for the elector.
LEMMA GoodKeeps ==
  ASSUME ElectorAssumption, TypeOKLeader, NEW e \in Electors, UNCHANGED <<now, skew>>,
         NEW o, NEW c, NEW l, NEW a, NEW r, NEW p, Fits(e, o, c, l, a, r, p)
  PROVE  Kinds(e)
  <1>0. /\ o \in BOOLEAN /\ c \in BOOLEAN /\ l \in Loops /\ p \in Labels
        /\ Becomes(e, o, c, l, a, r, p) /\ Good(e, o, c, l, a, r, p)
    BY Zenon DEF Fits
  <1>1. el \in [Electors -> Elector] /\ clock(e) \in Nat /\ clock(e)' = clock(e)
    BY Values, Zenon DEF clock
  <1>2. a \in 0..clock(e) /\ r \in 0..clock(e)
    BY <1>0, Zenon DEF Good
  <1>3. a \in Int /\ r \in Int
    BY <1>1, <1>2
  <1>4. /\ el' \in [Electors -> Elector] /\ \A f \in Electors : f # e => el'[f] = el[f]
        /\ el'[e].owned = o /\ el'[e].cleanup = c /\ el'[e].loop = l /\ el'[e].at = a /\ el'[e].renewAt = r /\ el'[e].pc = p
    BY <1>0, <1>1, <1>3, Fields
  <1>5. ReadBefore(e)' /\ Led(e)'
    BY <1>0, <1>1, <1>2, <1>4, Zenon DEF Good, ReadBefore, Led
  <1>6. Kept(e)'
    BY <1>0, <1>1, <1>4, Zenon DEF Good, Kept, Renews
  <1> QED BY <1>4, <1>5, <1>6, Zenon DEF Kinds, Own

\* Steps of a campaign.
LEMMA CampaignOwn ==
  ASSUME ElectorAssumption, DocInv, NEW e \in Electors,
         beginCampaign(e) \/ tryAcquire(e) \/ acquireUnknown(e) \/ sleepContext(e)
  PROVE  Kinds(e)
  <1> DEFINE o == el[e].owned
             c == el[e].cleanup
             l == el[e].loop
             a == el[e].at
             r == el[e].renewAt
  <1>1. /\ TypeOKLeader /\ ReadBefore(e) /\ Led(e) /\ Kept(e) /\ a \in 0..clock(e) /\ r \in 0..clock(e) /\ UNCHANGED <<now,
           skew>>
    <2>1. TypeOKLeader /\ ReadBefore(e) /\ Led(e) /\ Kept(e)
      BY Zenon DEF DocInv
    <2> QED BY <2>1, Zenon DEF ReadBefore, beginCampaign, tryAcquire, acquireUnknown, sleepContext
  <1>2. /\ el \in [Electors -> Elector] /\ clock(e) \in Nat /\ clock(e) \in Int /\ 0 \in 0..clock(e)
           /\ clock(e) \in 0..clock(e)
        /\ known \in [Electors -> Nat] /\ NoOwner # e
    BY <1>1, Values
  <1>3. o \in BOOLEAN /\ c \in BOOLEAN /\ l \in Loops
    BY <1>2, FieldTypes, Zenon
  <1>4. \A t : Leased(e, t).token = e /\ Leased(e, t).until = t + Lease
    BY Zenon DEF Leased
  <1>5. "waiting" \in Loops /\ {"idle", "acquire", "sleep", "join", "delete"} = Labels
    BY Zenon DEF Loops, Labels
  <1>6. CASE beginCampaign(e)
    <2>1. /\ el[e].pc = "idle" /\ ~c /\ ~o /\ record' = record /\ known' = known
          /\ el' = [el EXCEPT ![e].pc = "acquire", ![e].at = clock(e)]
      BY <1>6, Zenon DEF beginCampaign
    <2>2. Becomes(e, o, c, l, clock(e), r, "acquire")
      BY <1>2, <2>1, ToAcquire, Zenon
    <2>3. Good(e, o, c, l, clock(e), r, "acquire")
      BY <1>1, <1>2, <2>1, Zenon DEF Good, Kept, Renews
    <2>9. Fits(e, o, c, l, clock(e), r, "acquire")
      BY <1>2, <1>3, <1>5, <2>2, <2>3, Zenon DEF Fits
    <2> QED BY <1>1, <2>9, GoodKeeps, Zenon
  <1>7. CASE tryAcquire(e) /\ Filter(e)
    <2>1. /\ startRenewal(e) /\ record' = Leased(e, a) /\ known' = [known EXCEPT ![e] = a + Lease]
      BY <1>7, Zenon DEF tryAcquire
    <2>2. Becomes(e, TRUE, FALSE, "waiting", 0, r, "idle")
      BY <1>2, <2>1, ToOwner, Zenon DEF startRenewal
    <2>3. known'[e] = a + Lease /\ record'.token = e /\ record'.until = a + Lease /\ a + Lease >= a + Lease
      <3>1. a + Lease >= a + Lease
        BY <1>1, <1>2 DEF ElectorAssumption
      <3> QED BY <1>2, <1>4, <2>1, <3>1, Zenon
    <2>4. Good(e, TRUE, FALSE, "waiting", 0, r, "idle")
      BY <1>1, <1>2, <2>3, Zenon DEF Good
    <2>9. Fits(e, TRUE, FALSE, "waiting", 0, r, "idle")
      BY <1>2, <1>3, <1>5, <2>2, <2>4, Zenon DEF Fits
    <2> QED BY <1>1, <2>9, GoodKeeps, Zenon
  <1>8. CASE tryAcquire(e) /\ ~Filter(e)
    <2>1. /\ el[e].pc = "acquire" /\ el' = [el EXCEPT ![e].pc = "sleep", ![e].at = 0] /\ record' = record /\ known' = known
             /\ record.token # e
      BY <1>8, Zenon DEF tryAcquire, Filter
    <2>2. Becomes(e, o, c, l, 0, r, "sleep")
      BY <1>2, <2>1, ToSleep, Zenon
    <2>3. Good(e, o, c, l, 0, r, "sleep")
      BY <1>1, <1>2, <2>1, Zenon DEF Good, Kept, Renews, Led
    <2>9. Fits(e, o, c, l, 0, r, "sleep")
      BY <1>2, <1>3, <1>5, <2>2, <2>3, Zenon DEF Fits
    <2> QED BY <1>1, <2>9, GoodKeeps, Zenon
  <1>9. CASE acquireUnknown(e)
    <2>1. /\ el[e].pc = "acquire" /\ el' = [el EXCEPT ![e].pc = "idle", ![e].cleanup = TRUE, ![e].at = 0] /\ known' = known
      BY <1>9, Zenon DEF acquireUnknown
    <2>2. Becomes(e, o, TRUE, l, 0, r, "idle")
      BY <1>2, <2>1, ToUnknown, Zenon
    <2>3. ~o
      BY <1>1, <2>1, Zenon DEF Led
    <2>4. Good(e, o, TRUE, l, 0, r, "idle")
      BY <1>1, <1>2, <2>1, <2>3, Zenon DEF Good
    <2>9. Fits(e, o, TRUE, l, 0, r, "idle")
      BY <1>2, <1>3, <1>5, <2>2, <2>4, Zenon DEF Fits
    <2> QED BY <1>1, <2>9, GoodKeeps, Zenon
  <1>10. CASE sleepContext(e)
    <2>1. /\ el[e].pc = "sleep" /\ record' = record /\ known' = known
          /\ \/ el' = [el EXCEPT ![e].pc = "acquire", ![e].at = clock(e)]
             \/ el' = [el EXCEPT ![e].pc = "idle"]
      BY <1>10, Zenon DEF sleepContext
    <2>2. ~o /\ record.token # e
      BY <1>1, <2>1, Zenon DEF Led, Kept
    <2>3. CASE el' = [el EXCEPT ![e].pc = "acquire", ![e].at = clock(e)]
      <3>1. Becomes(e, o, c, l, clock(e), r, "acquire")
        BY <1>2, <2>3, ToAcquire, Zenon
      <3>2. Good(e, o, c, l, clock(e), r, "acquire")
        BY <1>1, <1>2, <2>1, <2>2, Zenon DEF Good, Kept, Renews
      <3>9. Fits(e, o, c, l, clock(e), r, "acquire")
        BY <1>2, <1>3, <1>5, <3>1, <3>2, Zenon DEF Fits
      <3> QED BY <1>1, <3>9, GoodKeeps, Zenon
    <2>4. CASE el' = [el EXCEPT ![e].pc = "idle"]
      <3>1. Becomes(e, o, c, l, a, r, "idle")
        BY <1>2, <1>5, <2>4, ToLabel, Zenon
      <3>2. Good(e, o, c, l, a, r, "idle")
        BY <1>1, <1>2, <2>1, <2>2, Zenon DEF Good, Kept, Renews
      <3>9. Fits(e, o, c, l, a, r, "idle")
        BY <1>2, <1>3, <1>5, <3>1, <3>2, Zenon DEF Fits
      <3> QED BY <1>1, <3>9, GoodKeeps, Zenon
    <2> QED BY <2>1, <2>3, <2>4, Zenon
  <1> QED BY <1>6, <1>7, <1>8, <1>9, <1>10, Zenon

\* Steps of the renewal loop.
LEMMA RenewalOwn ==
  ASSUME ElectorAssumption, DocInv, NEW e \in Electors,
         renewLoop(e) \/ renew(e) \/ renewUnknown(e)
  PROVE  Kinds(e)
  <1> DEFINE o == el[e].owned
             c == el[e].cleanup
             l == el[e].loop
             a == el[e].at
             r == el[e].renewAt
             p == el[e].pc
  <1>1. /\ TypeOKLeader /\ ReadBefore(e) /\ Led(e) /\ Kept(e) /\ a \in 0..clock(e) /\ r \in 0..clock(e) /\ UNCHANGED <<now,
           skew>>
    <2>1. TypeOKLeader /\ ReadBefore(e) /\ Led(e) /\ Kept(e)
      BY Zenon DEF DocInv
    <2> QED BY <2>1, Zenon DEF ReadBefore, renewLoop, renew, renewUnknown
  <1>2. /\ el \in [Electors -> Elector] /\ clock(e) \in Nat /\ clock(e) \in Int /\ 0 \in 0..clock(e)
           /\ clock(e) \in 0..clock(e) /\ 0 \in Int
        /\ known \in [Electors -> Nat] /\ NoOwner # e /\ record.until \in Nat
    BY <1>1, Values
  <1>3. o \in BOOLEAN /\ c \in BOOLEAN /\ l \in Loops /\ p \in Labels
    BY <1>2, FieldTypes, Zenon
  <1>4. \A t : Leased(e, t).token = e /\ Leased(e, t).until = t + Lease
    BY Zenon DEF Leased
  <1>5. /\ "waiting" \in Loops /\ "none" \in Loops /\ "renewing" \in Loops /\ "stopped" \in Loops
        /\ {"idle", "acquire", "sleep", "join", "delete"} = Labels /\ TRUE \in BOOLEAN /\ FALSE \in BOOLEAN
    BY Zenon DEF Loops, Labels
  <1>6. CASE renewLoop(e)
    <2>1. /\ l = "waiting" /\ record' = record /\ known' = known
          /\ \/ el' = [el EXCEPT ![e].loop = "renewing", ![e].renewAt = clock(e)]
             \/ el' = [el EXCEPT ![e].loop = "stopped"]
      BY <1>6, Zenon DEF renewLoop
    <2>2. CASE el' = [el EXCEPT ![e].loop = "renewing", ![e].renewAt = clock(e)]
      <3>1. Becomes(e, o, c, "renewing", a, clock(e), p)
        BY <1>2, <1>5, <2>2, ToLoop, Zenon
      <3>2. Good(e, o, c, "renewing", a, clock(e), p)
        BY <1>1, <1>2, <2>1, Zenon DEF Good, Kept, Renews, Led
      <3>9. Fits(e, o, c, "renewing", a, clock(e), p)
        BY <1>2, <1>3, <1>5, <3>1, <3>2, Zenon DEF Fits
      <3> QED BY <1>1, <3>9, GoodKeeps, Zenon
    <2>3. CASE el' = [el EXCEPT ![e].loop = "stopped"]
      <3>1. Becomes(e, o, c, "stopped", a, r, p)
        BY <1>2, <2>3, ToStopped, Zenon
      <3>2. Good(e, o, c, "stopped", a, r, p)
        BY <1>1, <1>2, <2>1, Zenon DEF Good, Kept, Renews, Led
      <3>9. Fits(e, o, c, "stopped", a, r, p)
        BY <1>2, <1>3, <1>5, <3>1, <3>2, Zenon DEF Fits
      <3> QED BY <1>1, <3>9, GoodKeeps, Zenon
    <2> QED BY <2>1, <2>2, <2>3, Zenon
  <1>7. CASE renew(e) /\ Holds(e)
    <2>1. /\ l = "renewing" /\ record.token = e /\ record' = Leased(e, r)
          /\ known' = [known EXCEPT ![e] = IF o THEN r + Lease ELSE 0]
          /\ el' = [el EXCEPT ![e].loop = "waiting", ![e].renewAt = 0]
      BY <1>7, Zenon DEF renew, Holds
    <2>2. Becomes(e, o, c, "waiting", a, 0, p)
      BY <1>2, <1>5, <2>1, ToLoop, Zenon
    <2>3. record'.token = e /\ record'.until = r + Lease /\ (o => known'[e] = r + Lease) /\ r + Lease >= r + Lease
      <3>1. r + Lease >= r + Lease
        BY <1>1, <1>2 DEF ElectorAssumption
      <3> QED BY <1>2, <1>4, <2>1, <3>1, Zenon
    <2>4. p # "sleep" /\ p # "delete" /\ (o \/ c) /\ (o => p = "idle")
      BY <1>1, <2>1, Zenon DEF Kept, Renews, Led
    <2>5. Good(e, o, c, "waiting", a, 0, p)
      BY <1>1, <1>2, <2>3, <2>4, Zenon DEF Good
    <2>9. Fits(e, o, c, "waiting", a, 0, p)
      BY <1>2, <1>3, <1>5, <2>2, <2>5, Zenon DEF Fits
    <2> QED BY <1>1, <2>9, GoodKeeps, Zenon
  <1>8. CASE renew(e) /\ ~Holds(e)
    <2>1. /\ l = "renewing" /\ record' = record /\ (record.token = e => ~(record.until > r))
          /\ el' = [el EXCEPT ![e].owned = FALSE, ![e].cleanup = FALSE, ![e].loop = "none", ![e].renewAt = 0]
      BY <1>8, Zenon DEF renew, Holds, clearOwnershipAfterLoss
    <2>2. Becomes(e, FALSE, FALSE, "none", a, 0, p)
      BY <1>2, <1>5, <2>1, ToLoss, Zenon
    <2>3. ~(record.token = e /\ record.until > clock(e))
      BY <1>1, <1>2, <2>1
    <2>4. Good(e, FALSE, FALSE, "none", a, 0, p)
      BY <1>1, <1>2, <2>1, <2>3, Zenon DEF Good, Kept, Renews
    <2>9. Fits(e, FALSE, FALSE, "none", a, 0, p)
      BY <1>2, <1>3, <1>5, <2>2, <2>4, Zenon DEF Fits
    <2> QED BY <1>1, <2>9, GoodKeeps, Zenon
  <1>9. CASE renewUnknown(e)
    <2>1. /\ l = "renewing" /\ (record.token = e \/ record' = record)
          /\ el' = [el EXCEPT ![e].owned = FALSE, ![e].cleanup = TRUE, ![e].loop = "none", ![e].renewAt = 0]
      BY <1>9, Zenon DEF renewUnknown, Holds, clearOwnershipAfterLoss
    <2>2. Becomes(e, FALSE, TRUE, "none", a, 0, p)
      BY <1>2, <1>5, <2>1, ToLoss, Zenon
    <2>3. Good(e, FALSE, TRUE, "none", a, 0, p)
      BY <1>1, <1>2, <2>1, Zenon DEF Good, Kept, Renews
    <2>9. Fits(e, FALSE, TRUE, "none", a, 0, p)
      BY <1>2, <1>3, <1>5, <2>2, <2>3, Zenon DEF Fits
    <2> QED BY <1>1, <2>9, GoodKeeps, Zenon
  <1> QED BY <1>6, <1>7, <1>8, <1>9, Zenon

\* Steps of Resign.
LEMMA ResignOwn ==
  ASSUME ElectorAssumption, DocInv, NEW e \in Electors,
         clearOwnership(e) \/ Join(e) \/ Resign(e)
  PROVE  Kinds(e)
  <1> DEFINE o == el[e].owned
             c == el[e].cleanup
             l == el[e].loop
             a == el[e].at
             r == el[e].renewAt
             p == el[e].pc
  <1>1. /\ TypeOKLeader /\ ReadBefore(e) /\ Led(e) /\ Kept(e) /\ a \in 0..clock(e) /\ r \in 0..clock(e) /\ UNCHANGED <<now,
           skew>>
    <2>1. TypeOKLeader /\ ReadBefore(e) /\ Led(e) /\ Kept(e)
      BY Zenon DEF DocInv
    <2> QED BY <2>1, Zenon DEF ReadBefore, clearOwnership, Join, Resign
  <1>2. /\ el \in [Electors -> Elector] /\ clock(e) \in Nat /\ clock(e) \in Int /\ 0 \in 0..clock(e)
           /\ clock(e) \in 0..clock(e) /\ 0 \in Int
        /\ known \in [Electors -> Nat] /\ NoOwner # e /\ record.until \in Nat
    BY <1>1, Values
  <1>3. o \in BOOLEAN /\ c \in BOOLEAN /\ l \in Loops /\ p \in Labels
    BY <1>2, FieldTypes, Zenon
  <1>4. \A t : Leased(e, t).token = e /\ Leased(e, t).until = t + Lease
    BY Zenon DEF Leased
  <1>5. /\ "waiting" \in Loops /\ "none" \in Loops /\ "renewing" \in Loops /\ "stopped" \in Loops
        /\ {"idle", "acquire", "sleep", "join", "delete"} = Labels /\ TRUE \in BOOLEAN /\ FALSE \in BOOLEAN
    BY Zenon DEF Loops, Labels
  <1>6. CASE clearOwnership(e)
    <2>1. /\ record' = record
          /\ el' = [el EXCEPT ![e].owned = FALSE, ![e].cleanup = TRUE, ![e].cancelled = TRUE, ![e].pc = "join"]
      BY <1>6, Zenon DEF clearOwnership
    <2>2. Becomes(e, FALSE, TRUE, l, a, r, "join")
      BY <1>2, <2>1, ToJoin, Zenon
    <2>3. Good(e, FALSE, TRUE, l, a, r, "join")
      BY <1>1, <1>2, <2>1, Zenon DEF Good
    <2>9. Fits(e, FALSE, TRUE, l, a, r, "join")
      BY <1>2, <1>3, <1>5, <2>2, <2>3, Zenon DEF Fits
    <2> QED BY <1>1, <2>9, GoodKeeps, Zenon
  <1>7. CASE Join(e)
    <2>1. /\ p = "join" /\ record' = record
          /\ \/ l \in {"none", "stopped"} /\ el' = [el EXCEPT ![e].pc = "delete"]
             \/ el' = [el EXCEPT ![e].pc = "idle"]
      BY <1>7, Zenon DEF Join
    <2>2. ~o
      BY <1>1, <2>1, Zenon DEF Led
    <2>3. CASE l \in {"none", "stopped"} /\ el' = [el EXCEPT ![e].pc = "delete"]
      <3>1. Becomes(e, o, c, l, a, r, "delete")
        BY <1>2, <1>5, <2>3, ToLabel, Zenon
      <3>2. Good(e, o, c, l, a, r, "delete")
        BY <1>1, <1>2, <2>1, <2>2, <2>3, Zenon DEF Good, Kept, Renews
      <3>9. Fits(e, o, c, l, a, r, "delete")
        BY <1>2, <1>3, <1>5, <3>1, <3>2, Zenon DEF Fits
      <3> QED BY <1>1, <3>9, GoodKeeps, Zenon
    <2>4. CASE el' = [el EXCEPT ![e].pc = "idle"]
      <3>1. Becomes(e, o, c, l, a, r, "idle")
        BY <1>2, <1>5, <2>4, ToLabel, Zenon
      <3>2. Good(e, o, c, l, a, r, "idle")
        BY <1>1, <1>2, <2>1, <2>2, Zenon DEF Good, Kept, Renews
      <3>9. Fits(e, o, c, l, a, r, "idle")
        BY <1>2, <1>3, <1>5, <3>1, <3>2, Zenon DEF Fits
      <3> QED BY <1>1, <3>9, GoodKeeps, Zenon
    <2> QED BY <2>1, <2>3, <2>4, Zenon
  <1>8. CASE Resign(e)
    <2>1. /\ p = "delete" /\ record' \in {record, Without(e)}
          /\ \/ record' = Without(e) /\ el' = [el EXCEPT ![e].pc = "idle", ![e].cleanup = FALSE, ![e].loop = "none"]
             \/ el' = [el EXCEPT ![e].pc = "idle"]
      BY <1>8, Zenon DEF Resign
    <2>2. ~o /\ ~(l \in {"waiting", "renewing"})
      BY <1>1, <2>1, Zenon DEF Led, Kept, Renews
    <2>3. Without(e).token # e
      BY <1>2, Zenon DEF Without, NoDoc
    <2>4. CASE record' = Without(e) /\ el' = [el EXCEPT ![e].pc = "idle", ![e].cleanup = FALSE, ![e].loop = "none"]
      <3>1. Becomes(e, o, FALSE, "none", a, r, "idle")
        BY <1>2, <2>4, ToClean, Zenon
      <3>2. Good(e, o, FALSE, "none", a, r, "idle")
        BY <1>1, <1>2, <2>2, <2>3, <2>4, Zenon DEF Good
      <3>9. Fits(e, o, FALSE, "none", a, r, "idle")
        BY <1>2, <1>3, <1>5, <3>1, <3>2, Zenon DEF Fits
      <3> QED BY <1>1, <3>9, GoodKeeps, Zenon
    <2>5. CASE el' = [el EXCEPT ![e].pc = "idle"]
      <3>1. Becomes(e, o, c, l, a, r, "idle")
        BY <1>2, <1>5, <2>5, ToLabel, Zenon
      <3>2. Good(e, o, c, l, a, r, "idle")
        BY <1>1, <1>2, <2>1, <2>2, <2>3, Zenon DEF Good, Kept
      <3>9. Fits(e, o, c, l, a, r, "idle")
        BY <1>2, <1>3, <1>5, <3>1, <3>2, Zenon DEF Fits
      <3> QED BY <1>1, <3>9, GoodKeeps, Zenon
    <2> QED BY <2>1, <2>4, <2>5, Zenon
  <1> QED BY <1>6, <1>7, <1>8, Zenon

\* What a step of elector e does to the history of the leases it was told of.
LEMMA KnownStep ==
  ASSUME ElectorAssumption, DocInv, NEW e \in Electors, Step(e)
  PROVE  known' \in [Electors -> Nat] /\ \A f \in Electors : f # e => known'[f] = known[f]
  <1>1. el[e].at \in 0..clock(e) /\ el[e].renewAt \in 0..clock(e) /\ TypeOKLeader
    BY Zenon DEF DocInv, ReadBefore
  <1>2. known \in [Electors -> Nat] /\ clock(e) \in Nat /\ Lease \in Nat
    BY <1>1, Values, Zenon DEF ElectorAssumption
  <1>3. el[e].at + Lease \in Nat /\ el[e].renewAt + Lease \in Nat /\ 0 \in Nat
    BY <1>1, <1>2
  <1>4. known' = known \/ \E k \in Nat : known' = [known EXCEPT ![e] = k]
    <2>1. CASE tryAcquire(e)
      BY <1>3, <2>1, Zenon DEF tryAcquire
    <2>2. CASE renew(e)
      <3>1. CASE el[e].owned
        BY <1>3, <2>2, <3>1, Zenon DEF renew, clearOwnershipAfterLoss
      <3>2. CASE ~el[e].owned
        BY <1>3, <2>2, <3>2, Zenon DEF renew, clearOwnershipAfterLoss
      <3> QED BY <3>1, <3>2, Zenon
    <2>3. CASE renewUnknown(e) \/ clearOwnership(e)
      BY <1>3, <2>3, Zenon DEF renewUnknown, clearOwnership, clearOwnershipAfterLoss
    <2>4. CASE beginCampaign(e) \/ acquireUnknown(e) \/ sleepContext(e) \/ renewLoop(e) \/ Join(e) \/ Resign(e)
      BY <2>4, Zenon DEF beginCampaign, acquireUnknown, sleepContext, renewLoop, Join, Resign
    <2> QED BY <2>1, <2>2, <2>3, <2>4, Zenon DEF Step
  <1> QED BY <1>2, <1>4, Zenon

\* The type of the document.
LEMMA DocType ==
  ASSUME ElectorAssumption, TypeOKLeader, NEW e \in Electors, DocStep(e)
  PROVE  record' \in [token : Electors \cup {NoOwner}, until : Nat]
  <1>1. record \in [token : Electors \cup {NoOwner}, until : Nat] /\ clock(e) \in Nat /\ Lease \in Nat
    BY Values, Zenon DEF TypeOKLeader, ElectorAssumption
  <1>2. NoDoc \in [token : Electors \cup {NoOwner}, until : Nat]
    BY Zenon DEF NoDoc
  <1>3. ASSUME NEW t \in 0..clock(e) PROVE [token |-> e, until |-> t + Lease] \in [token : Electors \cup {NoOwner},
        until : Nat]
    <2>1. t + Lease \in Nat
      BY <1>1
    <2> QED BY <2>1, Zenon
  <1> QED BY <1>1, <1>2, <1>3, Zenon DEF DocStep

\* Steps of an elector keep the invariant.
LEMMA StepDoc ==
  ASSUME ElectorAssumption, DocInv, NEW e \in Electors, Step(e)
  PROVE  DocInv'
  <1>1. TypeOKLeader /\ DocStep(e) /\ UNCHANGED <<now, skew>>
    BY DocSteps, Zenon DEF DocInv
  <1>2. Kinds(e)
    BY CampaignOwn, RenewalOwn, ResignOwn, Zenon DEF Step
  <1>3. \A f \in Electors : Own(f)'
    <2>1. ASSUME NEW f \in Electors PROVE Own(f)'
      <3>1. CASE f = e
        BY <1>2, <3>1, Zenon DEF Kinds
      <3>2. CASE f # e
        <4>1. el'[f] = el[f] /\ known'[f] = known[f]
          BY <1>2, <3>2, KnownStep, Zenon DEF Kinds
        <4> QED BY <1>1, <3>2, <4>1, OthersOwn, Zenon
      <3> QED BY <3>1, <3>2, Zenon
    <2> QED BY <2>1, Zenon
  <1>4. TypeOKLeader'
    BY <1>1, <1>2, KnownStep, DocType, Zenon DEF TypeOKLeader, Kinds
  <1> QED BY <1>3, <1>4, Zenon DEF DocInv, Own

\* The clocks tick together.
LEMMA TickDoc ==
  ASSUME ElectorAssumption, DocInv, Tick
  PROVE  DocInv'
  <1>1. TypeOKLeader /\ now < MaxNow /\ now' = now + 1 /\ skew' = skew /\ record' = record /\ el' = el /\ known' = known
    BY Zenon DEF DocInv, Tick
  <1>2. now' \in 0..MaxNow
    BY <1>1 DEF TypeOKLeader, ElectorAssumption
  <1>3. TypeOKLeader'
    BY <1>1, <1>2, Zenon DEF TypeOKLeader
  <1>4. ASSUME NEW e \in Electors PROVE ReadBefore(e)' /\ Led(e)' /\ Kept(e)'
    <2>1. ReadBefore(e) /\ Led(e) /\ Kept(e)
      BY Zenon DEF DocInv
    <2>2. clock(e) \in Nat /\ record.until \in Nat /\ known[e] \in Nat /\ MaxSkew \in Nat
      BY <1>1, Values, Zenon DEF ElectorAssumption
    <2>3. clock(e)' = clock(e) + 1
      <3>1. skew[e] \in Nat /\ now \in Nat
        BY <1>1 DEF TypeOKLeader, ElectorAssumption
      <3> QED BY <1>1, <3>1 DEF clock
    <2>4. /\ \A t \in 0..clock(e) : t \in 0..clock(e)'
          /\ clock(e)' + MaxSkew < known[e] => clock(e) + MaxSkew < known[e]
          /\ record.until > clock(e)' => record.until > clock(e)
      BY <2>2, <2>3
    <2>5. ReadBefore(e)'
      BY <1>1, <2>1, <2>4, Zenon DEF ReadBefore
    <2>6. Led(e)'
      BY <1>1, <2>1, <2>4, Zenon DEF Led
    <2>7. Kept(e)'
      BY <1>1, <2>1, <2>4, Zenon DEF Kept, Renews
    <2> QED BY <2>5, <2>6, <2>7, Zenon
  <1> QED BY <1>3, <1>4, Zenon DEF DocInv

\* The TTL index removes what no clock counts on any more.
LEMMA ExpireDoc ==
  ASSUME ElectorAssumption, DocInv, Expire
  PROVE  DocInv'
  <1>1. TypeOKLeader /\ record.until <= now /\ now' = now /\ skew' = skew /\ record' = NoDoc /\ el' = el /\ known' = known
    BY Zenon DEF DocInv, Expire
  <1>2. NoDoc \in [token : Electors \cup {NoOwner}, until : Nat] /\ NoDoc.token = NoOwner
    BY Zenon DEF NoDoc
  <1>3. TypeOKLeader'
    BY <1>1, <1>2, Zenon DEF TypeOKLeader
  <1>4. ASSUME NEW e \in Electors PROVE ReadBefore(e)' /\ Led(e)' /\ Kept(e)'
    <2>1. ReadBefore(e) /\ Led(e) /\ Kept(e) /\ clock(e)' = clock(e)
      BY <1>1, Zenon DEF DocInv, clock
    <2>2. clock(e) \in Nat /\ now \in Nat /\ now <= clock(e) /\ record.until \in Nat /\ known[e] \in Nat /\ MaxSkew \in Nat
          /\ NoOwner # e
      BY <1>1, Values, Zenon DEF ElectorAssumption
    <2>3. ReadBefore(e)'
      BY <1>1, <2>1, Zenon DEF ReadBefore
    <2>4. ~(el[e].owned /\ clock(e) + MaxSkew < known[e])
      BY <1>1, <2>1, <2>2 DEF Led
    <2>5. Led(e)'
      BY <1>1, <2>1, <2>4, Zenon DEF Led
    <2>6. Kept(e)'
      BY <1>1, <1>2, <2>1, <2>2, Zenon DEF Kept, Renews
    <2> QED BY <2>3, <2>5, <2>6, Zenon
  <1> QED BY <1>3, <1>4, Zenon DEF DocInv

\* The initial states.
LEMMA InitDoc ==
  ASSUME ElectorAssumption, InitLeader
  PROVE  DocInv
  <1> DEFINE none == Rec(FALSE, FALSE, FALSE, "none", 0, 0, "idle")
  <1>1. none \in Elector /\ none.owned = FALSE /\ none.cleanup = FALSE /\ none.loop = "none" /\ none.at = 0
        /\ none.renewAt = 0 /\ none.pc = "idle"
    BY DEF Rec, Elector, Loops
  <1>2. [owned |-> FALSE, cleanup |-> FALSE, cancelled |-> FALSE, loop |-> "none", pc |-> "idle", at |-> 0,
        renewAt |-> 0] = none
    BY Zenon DEF Rec
  <1> HIDE DEF none
  <1>3. el = [e \in Electors |-> none] /\ record = NoDoc /\ now = 0 /\ skew \in [Electors -> 0..MaxSkew]
        /\ known = [e \in Electors |-> 0]
    BY <1>2, Zenon DEF InitLeader
  <1>4. NoDoc \in [token : Electors \cup {NoOwner}, until : Nat] /\ NoDoc.token = NoOwner
    BY Zenon DEF NoDoc
  <1>5. 0 \in Nat /\ 0 \in 0..MaxNow
    BY DEF ElectorAssumption
  <1>6. TypeOKLeader
    BY <1>1, <1>3, <1>4, <1>5, Zenon DEF TypeOKLeader
  <1>7. ASSUME NEW e \in Electors PROVE ReadBefore(e) /\ Led(e) /\ Kept(e)
    <2>1. el[e] = none /\ NoOwner # e
      BY <1>3, Zenon DEF ElectorAssumption
    <2>2. 0 \in 0..clock(e)
      BY <1>6, Values, Zenon
    <2> QED BY <1>1, <1>3, <1>4, <2>1, <2>2, Zenon DEF ReadBefore, Led, Kept, Renews
  <1> QED BY <1>6, <1>7, Zenon DEF DocInv

\* The invariant holds in every behaviour.
LEMMA DocInductive ==
  ASSUME ElectorAssumption
  PROVE  SpecLeader => []DocInv
  <1>1. InitLeader => DocInv
    BY InitDoc, Zenon
  <1>2. DocInv /\ [NextLeader]_vars => DocInv'
    <2> SUFFICES ASSUME DocInv, [NextLeader]_vars PROVE DocInv'
      BY Zenon
    <2>1. CASE UNCHANGED vars
      BY <2>1, Zenon DEF vars, DocInv, TypeOKLeader, ReadBefore, Led, Kept, Renews, clock
    <2>2. CASE NextLeader
      BY <2>2, StepDoc, TickDoc, ExpireDoc, Zenon DEF NextLeader
    <2> QED BY <2>1, <2>2, Zenon
  <1> QED BY <1>1, <1>2, PTL DEF SpecLeader

\* An elector of leader/mongo that leads, with more than the clock skew left of its lease, has the document, and
\* a live document of an elector is one it leads with, campaigns for or will clean up.
THEOREM DocumentSafe ==
  ASSUME ElectorAssumption
  PROVE  SpecLeader => [](LeaderHoldsDocument /\ NothingForgotten)
  <1>1. DocInv => LeaderHoldsDocument /\ NothingForgotten
    BY Zenon DEF DocInv, Led, Kept, LeaderHoldsDocument, NothingForgotten
  <1> QED BY <1>1, DocInductive, PTL

\* So no two electors of leader/mongo lead at a time, each with more than the skew left of its lease.
THEOREM OneDocumentLeader ==
  ASSUME ElectorAssumption
  PROVE  SpecLeader => [](\A e, f \in Electors : el[e].owned /\ el[f].owned /\ clock(e) + MaxSkew < known[e]
         /\ clock(f) + MaxSkew < known[f] => e = f)
  <1>1. LeaderHoldsDocument =>
          \A e, f \in Electors : el[e].owned /\ el[f].owned /\ clock(e) + MaxSkew < known[e]
              /\ clock(f) + MaxSkew < known[f] => e = f
    BY Zenon DEF LeaderHoldsDocument
  <1> QED BY <1>1, DocumentSafe, PTL

\* The types of its variables.
THEOREM ElectorTypeCorrect ==
  ASSUME ElectorAssumption
  PROVE  SpecLeader => []TypeOKLeader
  <1>1. DocInv => TypeOKLeader
    BY Zenon DEF DocInv
  <1> QED BY <1>1, DocInductive, PTL

\* A write of the document is one the record allows.
LEMMA DocRecord ==
  ASSUME ElectorAssumption, DocInv, NEW e \in Electors, DocStep(e), now' = now
  PROVE  RecordStep
  <1>1. clock(e) \in Nat /\ clock(e) <= now + MaxSkew /\ now \in Nat /\ MaxSkew \in Nat
    BY Values, Zenon DEF DocInv, ElectorAssumption
  <1>2. CASE record' = record
    BY <1>2, Zenon DEF RecordStep, Record!vars
  <1>3. ASSUME NEW t \in 0..clock(e), record.token \in {NoOwner, e} \/ record.until <= t, record' = [token |-> e,
        until |-> t + Lease]
        PROVE RecordStep
    <2>1. t \in Record!Readings
      BY <1>1 DEF Record!Readings
    <2>2. record'.token = e /\ record'.until = t + Lease
      BY <1>3, Zenon
    <2> QED BY <1>3, <2>1, <2>2, Zenon DEF RecordStep, Record!Next, Record!campaign
  <1>4. CASE record.token = e /\ record' = NoDoc
    <2>1. record'.token = NoOwner /\ record'.until = 0
      BY <1>4, Zenon DEF NoDoc
    <2> QED BY <1>4, <2>1, Zenon DEF RecordStep, Record!Next, Record!resign
  <1> QED BY <1>2, <1>3, <1>4, Zenon DEF DocStep

\* The document of leader/mongo implements the lease record of the conformance suite, for clocks that are ahead
\* by up to the skew: whatever order the commands, the clocks and the TTL index take, every write is a campaign,
\* a resign or an expiry of the record.
THEOREM DocumentImplementsRecord ==
  ASSUME ElectorAssumption
  PROVE  SpecLeader => Record!Spec
  <1>1. InitLeader => Record!Init
    <2>1. NoDoc.token = NoOwner /\ NoDoc.until = 0
      BY Zenon DEF NoDoc
    <2> QED BY <2>1, Zenon DEF InitLeader, Record!Init
  <1>2. DocInv /\ [NextLeader]_vars => [Record!Next]_(Record!vars)
    <2> SUFFICES ASSUME DocInv, [NextLeader]_vars PROVE RecordStep
      BY Zenon DEF RecordStep
    <2>1. CASE UNCHANGED vars
      BY <2>1, Zenon DEF vars, RecordStep, Record!vars
    <2>2. CASE Tick
      BY <2>2, Zenon DEF Tick, RecordStep, Record!Next, Record!Tick
    <2>3. CASE Expire
      <3>1. NoDoc.token = NoOwner /\ NoDoc.until = 0
        BY Zenon DEF NoDoc
      <3> QED BY <2>3, <3>1, Zenon DEF Expire, RecordStep, Record!Next, Record!Owner
    <2>4. ASSUME NEW e \in Electors, Step(e) PROVE RecordStep
      BY <2>4, DocSteps, DocRecord, Zenon
    <2> QED BY <2>1, <2>2, <2>3, <2>4, Zenon DEF NextLeader
  <1> QED BY <1>1, <1>2, DocInductive, PTL DEF SpecLeader, Record!Spec

-----------------------------------------------------------------------------
(* The GroupElector: one document per slot                                 *)

\* What the constants of the group must be.
GroupAssumption ==
  /\ Lease \in Nat /\ MaxSkew \in Nat /\ MaxNow \in Nat /\ MaxDelay \in Nat /\ NoOwner \notin Members
  /\ MaxLeaders \in Nat \ {0} /\ SlotStart \in [Members -> Nat]

\* The loop of a member renews the slot of its own acquisition: a campaign begins only after the last one has
\* ended.
SlotLoop(m) ==
  /\ el[m].owned => el[m].pc = "idle" /\ el[m].slot \in Slots
  /\ el[m].pc # "join" /\ ~el[m].owned => el[m].loop = "none"
  /\ el[m].loop = "renewing" => el[m].held \in Slots /\ el[m].renewAt \in 0..clockGroup(m)
  /\ el[m].loop = "renewing" /\ el[m].owned => el[m].held = el[m].slot
  /\ el[m].pc = "join" => el[m].cancelled
  /\ el[m].pc \in {"join", "delete"} => el[m].offset \in Slots

\* A leader whose lease has more than the skew left has it in its slot.
SlotLed(m) ==
  el[m].owned /\ clockGroup(m) + MaxSkew < known[m] => record[el[m].slot].token = m /\ record[el[m].slot].until >= known[m]

SlotInv == TypeOKGroup /\ \A m \in Members : SlotLoop(m) /\ SlotLed(m)

RecG(o, s, x, l, p, f, r, h) == [owned |-> o, slot |-> s, cancelled |-> x, loop |-> l, pc |-> p, offset |-> f,
    renewAt |-> r, held |-> h]

\* The record of member m becomes this one.
BecomesG(m, o, s, x, l, p, f, r, h) == el' = [el EXCEPT ![m] = RecG(o, s, x, l, p, f, r, h)]

\* The types of the fields.
LEMMA FieldTypesG ==
  ASSUME el \in [Members -> Member], NEW m \in Members
  PROVE  /\ el[m].owned \in BOOLEAN /\ el[m].slot \in Slots \cup {-1} /\ el[m].cancelled \in BOOLEAN /\ el[m].loop \in Loops
         /\ el[m].pc \in Labels /\ el[m].offset \in 0..MaxLeaders /\ el[m].renewAt \in Nat /\ el[m].held \in Slots \cup {-1}
  <1>1. el[m] \in Member
    BY Zenon
  <1> QED BY <1>1, Zenon DEF Member, Labels, Loops

\* What the actions make of the record of their member. beginCampaignGroup, acquireError, sleepContextGroup,
\* ResignGroup
LEMMA ToLabelG ==
  ASSUME el \in [Members -> Member], NEW m \in Members, NEW p,
         el' = [el EXCEPT ![m].pc = p, ![m].offset = 0]
  PROVE  BecomesG(m, el[m].owned, el[m].slot, el[m].cancelled, el[m].loop, p, 0, el[m].renewAt, el[m].held)
  <1>1. el' = [el EXCEPT ![m] = [el[m] EXCEPT !.pc = p, !.offset = 0]]
    BY Zenon
  <1>2. ASSUME NEW q \in Member, NEW y, y = [q EXCEPT !.pc = p, !.offset = 0]
        PROVE y = RecG(q.owned, q.slot, q.cancelled, q.loop, p, 0, q.renewAt, q.held)
    BY <1>2, Zenon DEF RecG, Member
  <1>3. [el[m] EXCEPT !.pc = p, !.offset = 0] = RecG(el[m].owned, el[m].slot, el[m].cancelled, el[m].loop, p, 0,
        el[m].renewAt, el[m].held)
    BY <1>2, Zenon
  <1> QED BY <1>1, <1>3, Zenon DEF BecomesG

\* tryAcquireSlot: the slot is taken
LEMMA ToNextG ==
  ASSUME el \in [Members -> Member], NEW m \in Members, NEW f,
         el' = [el EXCEPT ![m].offset = f]
  PROVE  BecomesG(m, el[m].owned, el[m].slot, el[m].cancelled, el[m].loop, el[m].pc, f, el[m].renewAt, el[m].held)
  <1>1. el' = [el EXCEPT ![m] = [el[m] EXCEPT !.offset = f]]
    BY Zenon
  <1>2. ASSUME NEW q \in Member, NEW y, y = [q EXCEPT !.offset = f]
        PROVE y = RecG(q.owned, q.slot, q.cancelled, q.loop, q.pc, f, q.renewAt, q.held)
    BY <1>2, Zenon DEF RecG, Member
  <1>3. [el[m] EXCEPT !.offset = f] = RecG(el[m].owned, el[m].slot, el[m].cancelled, el[m].loop, el[m].pc, f, el[m].renewAt,
        el[m].held)
    BY <1>2, Zenon
  <1> QED BY <1>1, <1>3, Zenon DEF BecomesG

\* tryAcquireSlot
LEMMA ToOwnerG ==
  ASSUME el \in [Members -> Member], NEW m \in Members, NEW s,
         el' = [el EXCEPT ![m].pc = "idle", ![m].owned = TRUE, ![m].slot = s, ![m].cancelled = FALSE, ![m].loop = "waiting",
             ![m].offset = 0]
  PROVE  BecomesG(m, TRUE, s, FALSE, "waiting", "idle", 0, el[m].renewAt, el[m].held)
  <1>1. el' = [el EXCEPT ![m] = [el[m] EXCEPT !.pc = "idle", !.owned = TRUE, !.slot = s, !.cancelled = FALSE,
        !.loop = "waiting", !.offset = 0]]
    BY Zenon
  <1>2. ASSUME NEW q \in Member, NEW y, y = [q EXCEPT !.pc = "idle", !.owned = TRUE, !.slot = s, !.cancelled = FALSE,
        !.loop = "waiting", !.offset = 0] PROVE y = RecG(TRUE, s, FALSE, "waiting", "idle", 0, q.renewAt, q.held)
    BY <1>2, Zenon DEF RecG, Member
  <1>3. [el[m] EXCEPT !.pc = "idle", !.owned = TRUE, !.slot = s, !.cancelled = FALSE, !.loop = "waiting",
        !.offset = 0] = RecG(TRUE, s, FALSE, "waiting", "idle", 0, el[m].renewAt, el[m].held)
    BY <1>2, Zenon
  <1> QED BY <1>1, <1>3, Zenon DEF BecomesG

\* renewLoopGroup
LEMMA ToRenewingG ==
  ASSUME el \in [Members -> Member], NEW m \in Members, NEW r, NEW h,
         el' = [el EXCEPT ![m].loop = "renewing", ![m].renewAt = r, ![m].held = h]
  PROVE  BecomesG(m, el[m].owned, el[m].slot, el[m].cancelled, "renewing", el[m].pc, el[m].offset, r, h)
  <1>1. el' = [el EXCEPT ![m] = [el[m] EXCEPT !.loop = "renewing", !.renewAt = r, !.held = h]]
    BY Zenon
  <1>2. ASSUME NEW q \in Member, NEW y, y = [q EXCEPT !.loop = "renewing", !.renewAt = r, !.held = h]
        PROVE y = RecG(q.owned, q.slot, q.cancelled, "renewing", q.pc, q.offset, r, h)
    BY <1>2, Zenon DEF RecG, Member
  <1>3. [el[m] EXCEPT !.loop = "renewing", !.renewAt = r, !.held = h] = RecG(el[m].owned, el[m].slot, el[m].cancelled,
        "renewing", el[m].pc, el[m].offset, r, h)
    BY <1>2, Zenon
  <1> QED BY <1>1, <1>3, Zenon DEF BecomesG

\* renewLoopGroup
LEMMA ToStoppedG ==
  ASSUME el \in [Members -> Member], NEW m \in Members,
         el' = [el EXCEPT ![m].loop = "stopped"]
  PROVE  BecomesG(m, el[m].owned, el[m].slot, el[m].cancelled, "stopped", el[m].pc, el[m].offset, el[m].renewAt, el[m].held)
  <1>1. el' = [el EXCEPT ![m] = [el[m] EXCEPT !.loop = "stopped"]]
    BY Zenon
  <1>2. ASSUME NEW q \in Member, NEW y, y = [q EXCEPT !.loop = "stopped"]
        PROVE y = RecG(q.owned, q.slot, q.cancelled, "stopped", q.pc, q.offset, q.renewAt, q.held)
    BY <1>2, Zenon DEF RecG, Member
  <1>3. [el[m] EXCEPT !.loop = "stopped"] = RecG(el[m].owned, el[m].slot, el[m].cancelled, "stopped", el[m].pc,
        el[m].offset, el[m].renewAt, el[m].held)
    BY <1>2, Zenon
  <1> QED BY <1>1, <1>3, Zenon DEF BecomesG

\* clearOwnershipAfterLossGroup
LEMMA ToLossG ==
  ASSUME el \in [Members -> Member], NEW m \in Members,
         el' = [el EXCEPT ![m].owned = FALSE, ![m].slot = -1, ![m].loop = "none", ![m].renewAt = 0, ![m].held = -1]
  PROVE  BecomesG(m, FALSE, -1, el[m].cancelled, "none", el[m].pc, el[m].offset, 0, -1)
  <1>1. el' = [el EXCEPT ![m] = [el[m] EXCEPT !.owned = FALSE, !.slot = -1, !.loop = "none", !.renewAt = 0, !.held = -1]]
    BY Zenon
  <1>2. ASSUME NEW q \in Member, NEW y, y = [q EXCEPT !.owned = FALSE, !.slot = -1, !.loop = "none", !.renewAt = 0,
        !.held = -1] PROVE y = RecG(FALSE, -1, q.cancelled, "none", q.pc, q.offset, 0, -1)
    BY <1>2, Zenon DEF RecG, Member
  <1>3. [el[m] EXCEPT !.owned = FALSE, !.slot = -1, !.loop = "none", !.renewAt = 0, !.held = -1] = RecG(FALSE, -1,
        el[m].cancelled, "none", el[m].pc, el[m].offset, 0, -1)
    BY <1>2, Zenon
  <1> QED BY <1>1, <1>3, Zenon DEF BecomesG

\* renewGroup
LEMMA ToRenewedG ==
  ASSUME el \in [Members -> Member], NEW m \in Members,
         el' = [el EXCEPT ![m].loop = "waiting", ![m].renewAt = 0, ![m].held = -1]
  PROVE  BecomesG(m, el[m].owned, el[m].slot, el[m].cancelled, "waiting", el[m].pc, el[m].offset, 0, -1)
  <1>1. el' = [el EXCEPT ![m] = [el[m] EXCEPT !.loop = "waiting", !.renewAt = 0, !.held = -1]]
    BY Zenon
  <1>2. ASSUME NEW q \in Member, NEW y, y = [q EXCEPT !.loop = "waiting", !.renewAt = 0, !.held = -1]
        PROVE y = RecG(q.owned, q.slot, q.cancelled, "waiting", q.pc, q.offset, 0, -1)
    BY <1>2, Zenon DEF RecG, Member
  <1>3. [el[m] EXCEPT !.loop = "waiting", !.renewAt = 0, !.held = -1] = RecG(el[m].owned, el[m].slot, el[m].cancelled,
        "waiting", el[m].pc, el[m].offset, 0, -1)
    BY <1>2, Zenon
  <1> QED BY <1>1, <1>3, Zenon DEF BecomesG

\* clearOwnershipGroup
LEMMA ToJoinG ==
  ASSUME el \in [Members -> Member], NEW m \in Members, NEW f,
         el' = [el EXCEPT ![m].owned = FALSE, ![m].slot = -1, ![m].cancelled = TRUE, ![m].pc = "join", ![m].offset = f]
  PROVE  BecomesG(m, FALSE, -1, TRUE, el[m].loop, "join", f, el[m].renewAt, el[m].held)
  <1>1. el' = [el EXCEPT ![m] = [el[m] EXCEPT !.owned = FALSE, !.slot = -1, !.cancelled = TRUE, !.pc = "join",
        !.offset = f]]
    BY Zenon
  <1>2. ASSUME NEW q \in Member, NEW y, y = [q EXCEPT !.owned = FALSE, !.slot = -1, !.cancelled = TRUE, !.pc = "join",
        !.offset = f] PROVE y = RecG(FALSE, -1, TRUE, q.loop, "join", f, q.renewAt, q.held)
    BY <1>2, Zenon DEF RecG, Member
  <1>3. [el[m] EXCEPT !.owned = FALSE, !.slot = -1, !.cancelled = TRUE, !.pc = "join", !.offset = f] = RecG(FALSE, -1, TRUE,
        el[m].loop, "join", f, el[m].renewAt, el[m].held)
    BY <1>2, Zenon
  <1> QED BY <1>1, <1>3, Zenon DEF BecomesG

\* JoinGroup
LEMMA ToDeleteG ==
  ASSUME el \in [Members -> Member], NEW m \in Members,
         el' = [el EXCEPT ![m].pc = "delete", ![m].loop = "none"]
  PROVE  BecomesG(m, el[m].owned, el[m].slot, el[m].cancelled, "none", "delete", el[m].offset, el[m].renewAt, el[m].held)
  <1>1. el' = [el EXCEPT ![m] = [el[m] EXCEPT !.pc = "delete", !.loop = "none"]]
    BY Zenon
  <1>2. ASSUME NEW q \in Member, NEW y, y = [q EXCEPT !.pc = "delete", !.loop = "none"]
        PROVE y = RecG(q.owned, q.slot, q.cancelled, "none", "delete", q.offset, q.renewAt, q.held)
    BY <1>2, Zenon DEF RecG, Member
  <1>3. [el[m] EXCEPT !.pc = "delete", !.loop = "none"] = RecG(el[m].owned, el[m].slot, el[m].cancelled, "none", "delete",
        el[m].offset, el[m].renewAt, el[m].held)
    BY <1>2, Zenon
  <1> QED BY <1>1, <1>3, Zenon DEF BecomesG

\* What a step of member m may do to the slots: write a lease that begins when the clock was read, or delete its
\* own.
SlotStep(m) ==
  \/ record' = record
  \/ \E s \in Slots : \E t \in 0..clockGroup(m) :
       (record[s].token \in {NoOwner, m} \/ record[s].until <= t) /\ record' = [record EXCEPT ![s] = LeasedGroup(m, t)]
  \/ \E s \in Slots : record[s].token = m /\ record' = [record EXCEPT ![s] = NoDocGroup]

\* The values a step of member m uses.
LEMMA ValuesG ==
  ASSUME GroupAssumption, TypeOKGroup, NEW m \in Members
  PROVE  /\ el \in [Members -> Member] /\ clockGroup(m) \in Nat /\ clockGroup(m) <= now + MaxSkew /\ now <= clockGroup(m)
            /\ now \in Nat
         /\ record \in [Slots -> [token : Members \cup {NoOwner}, until : Nat]] /\ known \in [Members -> Nat]
             /\ known[m] \in Nat
         /\ \A s \in Slots : record[s].until \in Nat
         /\ NoOwner # m /\ Lease \in Nat /\ MaxSkew \in Nat /\ skew[m] \in Nat
  <1>1. /\ now \in 0..MaxNow /\ skew[m] \in 0..MaxSkew /\ el \in [Members -> Member] /\ known \in [Members -> Nat]
        /\ record \in [Slots -> [token : Members \cup {NoOwner}, until : Nat]]
    BY Zenon DEF TypeOKGroup
  <1>2. Lease \in Nat /\ MaxSkew \in Nat /\ MaxNow \in Nat /\ NoOwner # m
    BY Zenon DEF GroupAssumption
  <1>3. /\ clockGroup(m) \in Nat /\ clockGroup(m) <= now + MaxSkew /\ now <= clockGroup(m) /\ now \in Nat /\ skew[m] \in Nat
    BY <1>1, <1>2 DEF clockGroup
  <1>4. \A s \in Slots : record[s].until \in Nat
    BY <1>1, Zenon
  <1> QED BY <1>1, <1>2, <1>3, <1>4, Zenon

\* Reads of the clock, and the slots a member visits.
LEMMA SlotReads ==
  ASSUME GroupAssumption, TypeOKGroup, NEW m \in Members
  PROVE  /\ \A t \in Readings(m) : t \in 0..clockGroup(m)
         /\ slotAt(m) \in Slots
         /\ Slots \subseteq 0..MaxLeaders
         /\ 0 \in 0..MaxLeaders /\ -1 \in Slots \cup {-1}
  <1>1. clockGroup(m) \in Nat /\ skew[m] \in Nat /\ MaxDelay \in Nat /\ MaxLeaders \in Nat /\ MaxLeaders > 0
    BY ValuesG DEF GroupAssumption
  <1>2. \A t \in Readings(m) : t \in 0..clockGroup(m)
    BY <1>1 DEF Readings
  <1>3. SlotStart[m] \in Nat /\ el[m].offset \in Nat
    <2>1. el[m].offset \in 0..MaxLeaders /\ SlotStart[m] \in Nat
      BY FieldTypesG, Zenon DEF TypeOKGroup, GroupAssumption
    <2> QED BY <1>1, <2>1
  <1>4. \A n \in Nat : n % MaxLeaders \in 0..(MaxLeaders - 1)
    BY <1>1
  <1>5. SlotStart[m] + el[m].offset \in Nat
    BY <1>3
  <1>6. slotAt(m) \in Slots
    BY <1>4, <1>5, Zenon DEF slotAt, Slots
  <1>7. Slots \subseteq 0..MaxLeaders /\ 0 \in 0..MaxLeaders
    BY <1>1 DEF Slots
  <1> QED BY <1>2, <1>6, <1>7, Zenon

\* Steps of a member write its slots like that.
LEMMA SlotSteps ==
  ASSUME GroupAssumption, SlotInv, NEW m \in Members, StepGroup(m)
  PROVE  SlotStep(m) /\ UNCHANGED <<now, skew>>
  <1>1. TypeOKGroup /\ SlotLoop(m)
    BY Zenon DEF SlotInv
  <1>2. CASE beginCampaignGroup(m) \/ sleepContextGroup(m) \/ renewLoopGroup(m) \/ clearOwnershipGroup(m) \/ JoinGroup(m)
    BY <1>2, Zenon DEF beginCampaignGroup, sleepContextGroup, renewLoopGroup, clearOwnershipGroup, JoinGroup, SlotStep
  <1>3. CASE tryAcquireSlot(m) \/ acquireError(m)
    <2>1. \A t \in Readings(m) : t \in 0..clockGroup(m)
      BY <1>1, SlotReads, Zenon
    <2>2. slotAt(m) \in Slots
      BY <1>1, SlotReads, Zenon
    <2> QED BY <1>3, <2>1, <2>2, Zenon DEF tryAcquireSlot, acquireError, FilterGroup, SlotStep
  <1>4. CASE renewGroup(m) \/ renewError(m)
    <2>1. el[m].loop = "renewing"
      BY <1>4, Zenon DEF renewGroup, renewError
    <2>2. el[m].held \in Slots /\ el[m].renewAt \in 0..clockGroup(m)
      BY <1>1, <2>1, Zenon DEF SlotLoop
    <2> QED BY <1>4, <2>2, Zenon DEF renewGroup, renewError, HoldsGroup, SlotStep
  <1>5. CASE ResignGroup(m)
    <2> DEFINE s == el[m].offset
    <2>1. s \in Slots
      BY <1>1, <1>5, Zenon DEF ResignGroup, SlotLoop
    <2>2. record \in [Slots -> [token : Members \cup {NoOwner}, until : Nat]]
      BY <1>1, ValuesG, Zenon
    <2>3. record' = record \/ record' = [record EXCEPT ![s] = IF record[s].token = m THEN NoDocGroup ELSE record[s]]
      BY <1>5, Zenon DEF ResignGroup, WithoutGroup
    <2>4. [record EXCEPT ![s] = record[s]] = record
      BY <2>1, <2>2, Zenon
    <2>5. record' = record \/ (record[s].token = m /\ record' = [record EXCEPT ![s] = NoDocGroup])
      BY <2>3, <2>4, Zenon
    <2>6. UNCHANGED <<now, skew>>
      BY <1>5, Zenon DEF ResignGroup
    <2> QED BY <2>1, <2>5, <2>6, Zenon DEF SlotStep
  <1> QED BY <1>2, <1>3, <1>4, <1>5, Zenon DEF StepGroup

OwnG(m) == SlotLoop(m) /\ SlotLed(m)

\* A step of m leaves every other member what it has.
LEMMA OthersOwnG ==
  ASSUME GroupAssumption, SlotInv, NEW m \in Members, SlotStep(m), UNCHANGED <<now, skew>>,
         NEW n \in Members, n # m, el'[n] = el[n], known'[n] = known[n]
  PROVE  OwnG(n)'
  <1>1. clockGroup(n)' = clockGroup(n) /\ SlotLoop(n) /\ SlotLed(n)
    BY Zenon DEF clockGroup, SlotInv
  <1>2. /\ clockGroup(n) \in Nat /\ now <= clockGroup(n) /\ now \in Nat /\ known[n] \in Nat /\ NoOwner # n
        /\ clockGroup(m) \in Nat /\ clockGroup(m) <= now + MaxSkew /\ MaxSkew \in Nat
        /\ record \in [Slots -> [token : Members \cup {NoOwner}, until : Nat]] /\ \A s \in Slots : record[s].until \in Nat
    BY ValuesG, Zenon DEF SlotInv
  <1>3. SlotLoop(n)'
    BY <1>1, Zenon DEF SlotLoop
  <1>4. ASSUME el[n].owned, clockGroup(n) + MaxSkew < known[n] PROVE record'[el[n].slot] = record[el[n].slot]
    <2> DEFINE u == el[n].slot
    <2>1. u \in Slots /\ record[u].token = n /\ record[u].until >= known[n] /\ record[u].until \in Nat
      BY <1>1, <1>2, <1>4, Zenon DEF SlotLoop, SlotLed
    <2>2. ASSUME NEW t \in 0..clockGroup(m) PROVE ~(record[u].until <= t)
      BY <1>2, <1>4, <2>1, <2>2
    <2>3. ASSUME NEW s \in Slots, NEW t \in 0..clockGroup(m), record[s].token \in {NoOwner, m} \/ record[s].until <= t,
                 record' = [record EXCEPT ![s] = LeasedGroup(m, t)]
          PROVE  record'[u] = record[u]
      <3>1. s # u
        BY <1>2, <2>1, <2>2, <2>3, Zenon
      <3> QED BY <1>2, <2>1, <2>3, <3>1, Zenon
    <2>4. ASSUME NEW s \in Slots, record[s].token = m, record' = [record EXCEPT ![s] = NoDocGroup]
          PROVE  record'[u] = record[u]
      <3>1. s # u
        BY <2>1, <2>4, Zenon
      <3> QED BY <1>2, <2>1, <2>4, <3>1, Zenon
    <2> QED BY <2>3, <2>4, Zenon DEF SlotStep
  <1>5. SlotLed(n)'
    BY <1>1, <1>4, Zenon DEF SlotLed
  <1> QED BY <1>3, <1>5, Zenon DEF OwnG

\* What the invariant asks of the record a member gets.
GoodG(m, o, s, x, l, p, f, r, h) ==
  /\ o => p = "idle" /\ s \in Slots
  /\ p # "join" /\ ~o => l = "none"
  /\ l = "renewing" => h \in Slots /\ r \in 0..clockGroup(m)
  /\ l = "renewing" /\ o => h = s
  /\ p = "join" => x
  /\ p \in {"join", "delete"} => f \in Slots
  /\ o /\ clockGroup(m) + MaxSkew < known'[m] => record'[s].token = m /\ record'[s].until >= known'[m]

KindsG(m) ==
  /\ el' \in [Members -> Member] /\ \A n \in Members : n # m => el'[n] = el[n]
  /\ OwnG(m)'

\* A member gets a good record.
FitsG(m, o, s, x, l, p, f, r, h) ==
  /\ o \in BOOLEAN /\ s \in Slots \cup {-1} /\ x \in BOOLEAN /\ l \in Loops
  /\ p \in Labels /\ f \in 0..MaxLeaders /\ r \in Nat /\ h \in Slots \cup {-1}
  /\ BecomesG(m, o, s, x, l, p, f, r, h) /\ GoodG(m, o, s, x, l, p, f, r, h)

\* With a good record the invariant holds for the member.
LEMMA GoodKeepsG ==
  ASSUME GroupAssumption, TypeOKGroup, NEW m \in Members, UNCHANGED <<now, skew>>,
         NEW o, NEW s, NEW x, NEW l, NEW p, NEW f, NEW r, NEW h, FitsG(m, o, s, x, l, p, f, r, h)
  PROVE  KindsG(m)
  <1>0. GoodG(m, o, s, x, l, p, f, r, h)
    BY Zenon DEF FitsG
  <1>1. el \in [Members -> Member] /\ clockGroup(m)' = clockGroup(m)
    BY ValuesG, Zenon DEF clockGroup
  <1>2. /\ el' \in [Members -> Member] /\ \A n \in Members : n # m => el'[n] = el[n]
        /\ el'[m].owned = o /\ el'[m].slot = s /\ el'[m].cancelled = x /\ el'[m].loop = l /\ el'[m].pc = p
            /\ el'[m].offset = f
        /\ el'[m].renewAt = r /\ el'[m].held = h
    <2> DEFINE q == RecG(o, s, x, l, p, f, r, h)
    <2>1. q \in Member /\ q.owned = o /\ q.slot = s /\ q.cancelled = x /\ q.loop = l /\ q.pc = p /\ q.offset = f
          /\ q.renewAt = r /\ q.held = h
      BY DEF FitsG, Member, Labels, Loops, RecG
    <2>2. el' = [el EXCEPT ![m] = q]
      BY Zenon DEF FitsG, BecomesG
    <2> HIDE DEF q
    <2>3. el' \in [Members -> Member] /\ el'[m] = q /\ \A n \in Members : n # m => el'[n] = el[n]
      BY <1>1, <2>1, <2>2, Zenon
    <2> QED BY <2>1, <2>3, Zenon
  <1>3. SlotLoop(m)'
    BY <1>0, <1>1, <1>2, Zenon DEF GoodG, SlotLoop
  <1>4. SlotLed(m)'
    BY <1>0, <1>1, <1>2, Zenon DEF GoodG, SlotLed
  <1> QED BY <1>2, <1>3, <1>4, Zenon DEF KindsG, OwnG

\* Steps of a member's campaign.
LEMMA CampaignOwnG ==
  ASSUME GroupAssumption, SlotInv, NEW m \in Members,
         beginCampaignGroup(m) \/ tryAcquireSlot(m) \/ acquireError(m) \/ sleepContextGroup(m)
  PROVE  KindsG(m)
  <1> DEFINE o == el[m].owned
             s == el[m].slot
             x == el[m].cancelled
             l == el[m].loop
             p == el[m].pc
             f == el[m].offset
             r == el[m].renewAt
             h == el[m].held
  <1>1. TypeOKGroup /\ SlotLoop(m) /\ SlotLed(m) /\ UNCHANGED <<now, skew>>
    BY Zenon DEF SlotInv, beginCampaignGroup, tryAcquireSlot, acquireError, sleepContextGroup
  <1>2. /\ el \in [Members -> Member] /\ clockGroup(m) \in Nat /\ known \in [Members -> Nat] /\ NoOwner # m /\ Lease \in Nat
        /\ record \in [Slots -> [token : Members \cup {NoOwner}, until : Nat]]
    BY <1>1, ValuesG, Zenon
  <1>3. /\ o \in BOOLEAN /\ s \in Slots \cup {-1} /\ x \in BOOLEAN /\ l \in Loops
        /\ p \in Labels /\ f \in 0..MaxLeaders /\ r \in Nat /\ h \in Slots \cup {-1}
    BY <1>2, FieldTypesG, Zenon
  <1>4. \A t : LeasedGroup(m, t).token = m /\ LeasedGroup(m, t).until = t + Lease
    BY Zenon DEF LeasedGroup
  <1>5. /\ "waiting" \in Loops /\ "none" \in Loops /\ "renewing" \in Loops /\ "stopped" \in Loops /\ TRUE \in BOOLEAN
           /\ FALSE \in BOOLEAN
        /\ "idle" \in Labels /\ "acquire" \in Labels /\ "join" \in Labels /\ "delete" \in Labels /\ 0 \in Nat
    BY Zenon DEF Loops, Labels
  <1>6. 0 \in 0..MaxLeaders /\ -1 \in Slots \cup {-1} /\ Slots \subseteq 0..MaxLeaders /\ slotAt(m) \in Slots
    BY <1>1, SlotReads, Zenon
  <1>7. ASSUME NEW q, q \in {"idle", "acquire"}, p \in {"idle", "acquire"}, ~o, el' = [el EXCEPT ![m].pc = q,
        ![m].offset = 0]
        PROVE  KindsG(m)
    <2>1. BecomesG(m, o, s, x, l, q, 0, r, h)
      BY <1>2, <1>7, ToLabelG, Zenon
    <2>2. l = "none"
      BY <1>1, <1>7, Zenon DEF SlotLoop
    <2>3. GoodG(m, o, s, x, l, q, 0, r, h)
      BY <1>7, <2>2, Zenon DEF GoodG
    <2>4. q \in Labels
      BY <1>5, <1>7, Zenon
    <2>9. FitsG(m, o, s, x, l, q, 0, r, h)
      BY <1>3, <1>5, <1>6, <2>1, <2>3, <2>4, Zenon DEF FitsG
    <2> QED BY <1>1, <2>9, GoodKeepsG, Zenon
  <1>8. CASE beginCampaignGroup(m)
    BY <1>7, <1>8, Zenon DEF beginCampaignGroup
  <1>9. p = "acquire" => ~o
    BY <1>1, Zenon DEF SlotLoop
  <1>10. CASE acquireError(m) \/ sleepContextGroup(m)
    BY <1>7, <1>9, <1>10, Zenon DEF acquireError, sleepContextGroup
  <1>11. CASE tryAcquireSlot(m)
    <2> DEFINE u == slotAt(m)
    <2>1. PICK t \in Readings(m) :
            /\ p = "acquire" /\ f < MaxLeaders
            /\ IF FilterGroup(m, u, t)
               THEN /\ record' = [record EXCEPT ![u] = LeasedGroup(m, t)] /\ known' = [known EXCEPT ![m] = t + Lease]
                    /\ el' = [el EXCEPT ![m] = [@ EXCEPT !.pc = "idle", !.owned = TRUE, !.slot = u, !.cancelled = FALSE,
                                                         !.loop = "waiting", !.offset = 0]]
               ELSE el' = [el EXCEPT ![m].offset = @ + 1] /\ UNCHANGED <<record, known>>
      BY <1>11, Zenon DEF tryAcquireSlot
    <2>2. t \in 0..clockGroup(m) /\ t + Lease >= t + Lease
      <3>1. t \in 0..clockGroup(m)
        BY <1>1, SlotReads, Zenon
      <3> QED BY <1>2, <3>1
    <2>3. CASE FilterGroup(m, u, t)
      <3>1. el' = [el EXCEPT ![m].pc = "idle", ![m].owned = TRUE, ![m].slot = u, ![m].cancelled = FALSE,
            ![m].loop = "waiting", ![m].offset = 0]
        BY <2>1, <2>3, Zenon
      <3>2. BecomesG(m, TRUE, u, FALSE, "waiting", "idle", 0, r, h)
        BY <1>2, <3>1, ToOwnerG, Zenon
      <3>3. known'[m] = t + Lease /\ record'[u].token = m /\ record'[u].until = t + Lease
        <4>1. record' = [record EXCEPT ![u] = LeasedGroup(m, t)] /\ known' = [known EXCEPT ![m] = t + Lease]
          BY <2>1, <2>3, Zenon
        <4>2. known'[m] = t + Lease
          BY <1>2, <4>1, Zenon
        <4>3. record'[u] = LeasedGroup(m, t)
          BY <1>2, <1>6, <4>1, Zenon
        <4> QED BY <1>4, <4>2, <4>3, Zenon
      <3>4. GoodG(m, TRUE, u, FALSE, "waiting", "idle", 0, r, h)
        BY <1>6, <2>2, <3>3, Zenon DEF GoodG
      <3> HIDE DEF u
      <3>5. u \in Slots \cup {-1}
        BY <1>6, Zenon DEF u
      <3>9. FitsG(m, TRUE, u, FALSE, "waiting", "idle", 0, r, h)
        BY <1>3, <1>5, <1>6, <3>2, <3>4, <3>5, Zenon DEF FitsG
      <3> QED BY <1>1, <3>9, GoodKeepsG, Zenon
    <2>4. CASE ~FilterGroup(m, u, t)
      <3>1. el' = [el EXCEPT ![m].offset = f + 1]
        BY <2>1, <2>4, Zenon
      <3>2. BecomesG(m, o, s, x, l, p, f + 1, r, h)
        BY <1>2, <3>1, ToNextG, Zenon
      <3>3. f + 1 \in 0..MaxLeaders
        BY <1>3, <2>1 DEF GroupAssumption
      <3>4. ~o /\ l = "none" /\ p = "acquire"
        BY <1>1, <1>9, <2>1, Zenon DEF SlotLoop
      <3>5. GoodG(m, o, s, x, l, p, f + 1, r, h)
        BY <3>4, Zenon DEF GoodG
      <3>9. FitsG(m, o, s, x, l, p, f + 1, r, h)
        BY <1>3, <1>5, <1>6, <3>2, <3>3, <3>5, Zenon DEF FitsG
      <3> QED BY <1>1, <3>9, GoodKeepsG, Zenon
    <2> QED BY <2>3, <2>4, Zenon
  <1> QED BY <1>8, <1>10, <1>11, Zenon

\* Steps of a member's renewal loop.
LEMMA RenewalOwnG ==
  ASSUME GroupAssumption, SlotInv, NEW m \in Members,
         renewLoopGroup(m) \/ renewGroup(m) \/ renewError(m)
  PROVE  KindsG(m)
  <1> DEFINE o == el[m].owned
             s == el[m].slot
             x == el[m].cancelled
             l == el[m].loop
             p == el[m].pc
             f == el[m].offset
             r == el[m].renewAt
             h == el[m].held
  <1>1. TypeOKGroup /\ SlotLoop(m) /\ SlotLed(m) /\ UNCHANGED <<now, skew>>
    BY Zenon DEF SlotInv, renewLoopGroup, renewGroup, renewError
  <1>2. /\ el \in [Members -> Member] /\ clockGroup(m) \in Nat /\ known \in [Members -> Nat] /\ NoOwner # m /\ Lease \in Nat
        /\ record \in [Slots -> [token : Members \cup {NoOwner}, until : Nat]]
    BY <1>1, ValuesG, Zenon
  <1>3. /\ o \in BOOLEAN /\ s \in Slots \cup {-1} /\ x \in BOOLEAN /\ l \in Loops
        /\ p \in Labels /\ f \in 0..MaxLeaders /\ r \in Nat /\ h \in Slots \cup {-1}
    BY <1>2, FieldTypesG, Zenon
  <1>4. \A t : LeasedGroup(m, t).token = m /\ LeasedGroup(m, t).until = t + Lease
    BY Zenon DEF LeasedGroup
  <1>5. /\ "waiting" \in Loops /\ "none" \in Loops /\ "renewing" \in Loops /\ "stopped" \in Loops /\ TRUE \in BOOLEAN
           /\ FALSE \in BOOLEAN
        /\ "idle" \in Labels /\ "acquire" \in Labels /\ "join" \in Labels /\ "delete" \in Labels /\ 0 \in Nat
    BY Zenon DEF Loops, Labels
  <1>6. 0 \in 0..MaxLeaders /\ -1 \in Slots \cup {-1} /\ Slots \subseteq 0..MaxLeaders /\ slotAt(m) \in Slots
    BY <1>1, SlotReads, Zenon
  <1>7. CASE renewLoopGroup(m)
    <2>1. /\ l = "waiting" /\ record' = record /\ known' = known
          /\ \/ ~x /\ el' = [el EXCEPT ![m].loop = "renewing", ![m].renewAt = clockGroup(m), ![m].held = s]
             \/ el' = [el EXCEPT ![m].loop = "stopped"]
      BY <1>7, Zenon DEF renewLoopGroup
    <2>2. CASE ~x /\ el' = [el EXCEPT ![m].loop = "renewing", ![m].renewAt = clockGroup(m), ![m].held = s]
      <3>1. BecomesG(m, o, s, x, "renewing", p, f, clockGroup(m), s)
        BY <1>2, <2>2, ToRenewingG, Zenon
      <3>2. o /\ p = "idle" /\ s \in Slots
        BY <1>1, <2>1, <2>2, Zenon DEF SlotLoop
      <3>3. clockGroup(m) \in 0..clockGroup(m)
        BY <1>2
      <3>4. GoodG(m, o, s, x, "renewing", p, f, clockGroup(m), s)
        BY <1>1, <2>1, <3>2, <3>3, Zenon DEF GoodG, SlotLed
      <3>9. FitsG(m, o, s, x, "renewing", p, f, clockGroup(m), s)
        BY <1>2, <1>3, <1>5, <1>6, <3>1, <3>4, Zenon DEF FitsG
      <3> QED BY <1>1, <3>9, GoodKeepsG, Zenon
    <2>3. CASE el' = [el EXCEPT ![m].loop = "stopped"]
      <3>1. BecomesG(m, o, s, x, "stopped", p, f, r, h)
        BY <1>2, <2>3, ToStoppedG, Zenon
      <3>2. GoodG(m, o, s, x, "stopped", p, f, r, h)
        BY <1>1, <2>1, Zenon DEF GoodG, SlotLed, SlotLoop
      <3>9. FitsG(m, o, s, x, "stopped", p, f, r, h)
        BY <1>3, <1>5, <1>6, <3>1, <3>2, Zenon DEF FitsG
      <3> QED BY <1>1, <3>9, GoodKeepsG, Zenon
    <2> QED BY <2>1, <2>2, <2>3, Zenon
  <1>8. CASE renewGroup(m) /\ HoldsGroup(m)
    <2>1. /\ l = "renewing" /\ record' = [record EXCEPT ![h] = LeasedGroup(m, r)]
          /\ known' = [known EXCEPT ![m] = IF o THEN r + Lease ELSE 0]
          /\ el' = [el EXCEPT ![m].loop = "waiting", ![m].renewAt = 0, ![m].held = -1]
      BY <1>8, Zenon DEF renewGroup
    <2>2. BecomesG(m, o, s, x, "waiting", p, f, 0, -1)
      BY <1>2, <2>1, ToRenewedG, Zenon
    <2>3. h \in Slots /\ (o => h = s /\ p = "idle" /\ s \in Slots) /\ (~o => p = "join") /\ (p = "join" => x)
          /\ (p \in {"join", "delete"} => f \in Slots)
      BY <1>1, <2>1, Zenon DEF SlotLoop
    <2>4. o => known'[m] = r + Lease /\ record'[s].token = m /\ record'[s].until = r + Lease
      BY <1>2, <1>4, <2>1, <2>3, Zenon
    <2>5. r + Lease >= r + Lease
      BY <1>2, <1>3
    <2>6. GoodG(m, o, s, x, "waiting", p, f, 0, -1)
      BY <2>3, <2>4, <2>5, Zenon DEF GoodG
    <2>9. FitsG(m, o, s, x, "waiting", p, f, 0, -1)
      BY <1>3, <1>5, <1>6, <2>2, <2>6, Zenon DEF FitsG
    <2> QED BY <1>1, <2>9, GoodKeepsG, Zenon
  <1>9. CASE (renewGroup(m) /\ ~HoldsGroup(m)) \/ renewError(m)
    <2>1. el' = [el EXCEPT ![m].owned = FALSE, ![m].slot = -1, ![m].loop = "none", ![m].renewAt = 0, ![m].held = -1]
      BY <1>9, Zenon DEF renewGroup, renewError, clearOwnershipAfterLossGroup
    <2>2. BecomesG(m, FALSE, -1, x, "none", p, f, 0, -1)
      BY <1>2, <2>1, ToLossG, Zenon
    <2>3. GoodG(m, FALSE, -1, x, "none", p, f, 0, -1)
      BY <1>1, Zenon DEF GoodG, SlotLoop
    <2>9. FitsG(m, FALSE, -1, x, "none", p, f, 0, -1)
      BY <1>3, <1>5, <1>6, <2>2, <2>3, Zenon DEF FitsG
    <2> QED BY <1>1, <2>9, GoodKeepsG, Zenon
  <1> QED BY <1>7, <1>8, <1>9, Zenon

\* Steps of a member's Resign.
LEMMA ResignOwnG ==
  ASSUME GroupAssumption, SlotInv, NEW m \in Members,
         clearOwnershipGroup(m) \/ JoinGroup(m) \/ ResignGroup(m)
  PROVE  KindsG(m)
  <1> DEFINE o == el[m].owned
             s == el[m].slot
             x == el[m].cancelled
             l == el[m].loop
             p == el[m].pc
             f == el[m].offset
             r == el[m].renewAt
             h == el[m].held
  <1>1. TypeOKGroup /\ SlotLoop(m) /\ SlotLed(m) /\ UNCHANGED <<now, skew>>
    BY Zenon DEF SlotInv, clearOwnershipGroup, JoinGroup, ResignGroup
  <1>2. /\ el \in [Members -> Member] /\ clockGroup(m) \in Nat /\ known \in [Members -> Nat] /\ NoOwner # m /\ Lease \in Nat
        /\ record \in [Slots -> [token : Members \cup {NoOwner}, until : Nat]]
    BY <1>1, ValuesG, Zenon
  <1>3. /\ o \in BOOLEAN /\ s \in Slots \cup {-1} /\ x \in BOOLEAN /\ l \in Loops
        /\ p \in Labels /\ f \in 0..MaxLeaders /\ r \in Nat /\ h \in Slots \cup {-1}
    BY <1>2, FieldTypesG, Zenon
  <1>4. \A t : LeasedGroup(m, t).token = m /\ LeasedGroup(m, t).until = t + Lease
    BY Zenon DEF LeasedGroup
  <1>5. /\ "waiting" \in Loops /\ "none" \in Loops /\ "renewing" \in Loops /\ "stopped" \in Loops /\ TRUE \in BOOLEAN
           /\ FALSE \in BOOLEAN
        /\ "idle" \in Labels /\ "acquire" \in Labels /\ "join" \in Labels /\ "delete" \in Labels /\ 0 \in Nat
    BY Zenon DEF Loops, Labels
  <1>6. 0 \in 0..MaxLeaders /\ -1 \in Slots \cup {-1} /\ Slots \subseteq 0..MaxLeaders /\ slotAt(m) \in Slots
    BY <1>1, SlotReads, Zenon
  <1>7. CASE clearOwnershipGroup(m)
    <2>1. /\ o /\ el' = [el EXCEPT ![m].owned = FALSE, ![m].slot = -1, ![m].cancelled = TRUE, ![m].pc = "join",
             ![m].offset = s]
      BY <1>7, Zenon DEF clearOwnershipGroup
    <2>2. BecomesG(m, FALSE, -1, TRUE, l, "join", s, r, h)
      BY <1>2, <2>1, ToJoinG, Zenon
    <2>3. s \in Slots /\ (l = "renewing" => h \in Slots /\ r \in 0..clockGroup(m))
      BY <1>1, <2>1, Zenon DEF SlotLoop
    <2>4. GoodG(m, FALSE, -1, TRUE, l, "join", s, r, h)
      BY <2>3, Zenon DEF GoodG
    <2>5. s \in 0..MaxLeaders
      BY <1>6, <2>3, Zenon
    <2>9. FitsG(m, FALSE, -1, TRUE, l, "join", s, r, h)
      BY <1>3, <1>5, <1>6, <2>2, <2>4, <2>5, Zenon DEF FitsG
    <2> QED BY <1>1, <2>9, GoodKeepsG, Zenon
  <1>8. CASE JoinGroup(m)
    <2>1. p = "join" /\ el' = [el EXCEPT ![m].pc = "delete", ![m].loop = "none"]
      BY <1>8, Zenon DEF JoinGroup
    <2>2. BecomesG(m, o, s, x, "none", "delete", f, r, h)
      BY <1>2, <2>1, ToDeleteG, Zenon
    <2>3. ~o /\ f \in Slots
      BY <1>1, <2>1, Zenon DEF SlotLoop
    <2>4. GoodG(m, o, s, x, "none", "delete", f, r, h)
      BY <2>3, Zenon DEF GoodG
    <2>9. FitsG(m, o, s, x, "none", "delete", f, r, h)
      BY <1>3, <1>5, <1>6, <2>2, <2>4, Zenon DEF FitsG
    <2> QED BY <1>1, <2>9, GoodKeepsG, Zenon
  <1>9. CASE ResignGroup(m)
    <2>1. p = "delete" /\ el' = [el EXCEPT ![m].pc = "idle", ![m].offset = 0]
      BY <1>9, Zenon DEF ResignGroup
    <2>2. BecomesG(m, o, s, x, l, "idle", 0, r, h)
      BY <1>2, <2>1, ToLabelG, Zenon
    <2>3. ~o /\ l = "none"
      BY <1>1, <2>1, Zenon DEF SlotLoop
    <2>4. GoodG(m, o, s, x, l, "idle", 0, r, h)
      BY <2>3, Zenon DEF GoodG
    <2>9. FitsG(m, o, s, x, l, "idle", 0, r, h)
      BY <1>3, <1>5, <1>6, <2>2, <2>4, Zenon DEF FitsG
    <2> QED BY <1>1, <2>9, GoodKeepsG, Zenon
  <1> QED BY <1>7, <1>8, <1>9, Zenon

\* What a step of member m does to the history of the leases it was told of.
LEMMA KnownStepG ==
  ASSUME GroupAssumption, SlotInv, NEW m \in Members, StepGroup(m)
  PROVE  known' \in [Members -> Nat] /\ \A n \in Members : n # m => known'[n] = known[n]
  <1>1. TypeOKGroup
    BY Zenon DEF SlotInv
  <1>2. known \in [Members -> Nat] /\ clockGroup(m) \in Nat /\ Lease \in Nat /\ el \in [Members -> Member]
    BY <1>1, ValuesG, Zenon
  <1>3. el[m].renewAt + Lease \in Nat /\ 0 \in Nat
    <2>1. el[m].renewAt \in Nat
      BY <1>2, FieldTypesG, Zenon
    <2> QED BY <1>2, <2>1
  <1>4. \A t \in Readings(m) : t + Lease \in Nat
    <2>1. \A t \in Readings(m) : t \in 0..clockGroup(m)
      BY <1>1, SlotReads, Zenon
    <2>2. \A t \in 0..clockGroup(m) : t + Lease \in Nat
      BY <1>2
    <2> QED BY <2>1, <2>2, Zenon
  <1>5. known' = known \/ \E k \in Nat : known' = [known EXCEPT ![m] = k]
    <2>1. CASE tryAcquireSlot(m)
      BY <1>4, <2>1, Zenon DEF tryAcquireSlot
    <2>2. CASE renewGroup(m)
      <3>1. CASE el[m].owned
        BY <1>3, <2>2, <3>1, Zenon DEF renewGroup, clearOwnershipAfterLossGroup
      <3>2. CASE ~el[m].owned
        BY <1>3, <2>2, <3>2, Zenon DEF renewGroup, clearOwnershipAfterLossGroup
      <3> QED BY <3>1, <3>2, Zenon
    <2>3. CASE renewError(m) \/ clearOwnershipGroup(m)
      BY <1>3, <2>3, Zenon DEF renewError, clearOwnershipGroup, clearOwnershipAfterLossGroup
    <2>4. CASE \/ beginCampaignGroup(m) \/ acquireError(m) \/ sleepContextGroup(m)
               \/ renewLoopGroup(m) \/ JoinGroup(m) \/ ResignGroup(m)
      BY <2>4, Zenon DEF beginCampaignGroup, acquireError, sleepContextGroup, renewLoopGroup, JoinGroup, ResignGroup
    <2> QED BY <2>1, <2>2, <2>3, <2>4, Zenon DEF StepGroup
  <1> QED BY <1>2, <1>5, Zenon

\* The type of the slots.
LEMMA SlotType ==
  ASSUME GroupAssumption, TypeOKGroup, NEW m \in Members, SlotStep(m)
  PROVE  record' \in [Slots -> [token : Members \cup {NoOwner}, until : Nat]]
  <1> DEFINE Docs == [token : Members \cup {NoOwner}, until : Nat]
  <1>1. record \in [Slots -> Docs] /\ clockGroup(m) \in Nat /\ Lease \in Nat
    BY ValuesG, Zenon
  <1>2. NoDocGroup \in Docs
    BY Zenon DEF NoDocGroup
  <1>3. ASSUME NEW t \in 0..clockGroup(m) PROVE LeasedGroup(m, t) \in Docs
    <2>1. t + Lease \in Nat
      BY <1>1
    <2> QED BY <2>1, Zenon DEF LeasedGroup
  <1> HIDE DEF Docs
  <1>4. record' \in [Slots -> Docs]
    BY <1>1, <1>2, <1>3, Zenon DEF SlotStep
  <1> QED BY <1>4, Zenon DEF Docs

\* Steps of a member keep the invariant.
LEMMA StepSlot ==
  ASSUME GroupAssumption, SlotInv, NEW m \in Members, StepGroup(m)
  PROVE  SlotInv'
  <1>1. TypeOKGroup /\ SlotStep(m) /\ UNCHANGED <<now, skew>>
    BY SlotSteps, Zenon DEF SlotInv
  <1>2. KindsG(m)
    BY CampaignOwnG, RenewalOwnG, ResignOwnG, Zenon DEF StepGroup
  <1>3. \A n \in Members : OwnG(n)'
    <2>1. ASSUME NEW n \in Members PROVE OwnG(n)'
      <3>1. CASE n = m
        BY <1>2, <3>1, Zenon DEF KindsG
      <3>2. CASE n # m
        <4>1. el'[n] = el[n] /\ known'[n] = known[n]
          BY <1>2, <3>2, KnownStepG, Zenon DEF KindsG
        <4> QED BY <1>1, <3>2, <4>1, OthersOwnG, Zenon
      <3> QED BY <3>1, <3>2, Zenon
    <2> QED BY <2>1, Zenon
  <1>4. TypeOKGroup'
    BY <1>1, <1>2, KnownStepG, SlotType, Zenon DEF TypeOKGroup, KindsG
  <1> QED BY <1>3, <1>4, Zenon DEF SlotInv, OwnG

\* The clocks tick together.
LEMMA TickSlot ==
  ASSUME GroupAssumption, SlotInv, TickGroup
  PROVE  SlotInv'
  <1>1. TypeOKGroup /\ now < MaxNow /\ now' = now + 1 /\ skew' = skew /\ record' = record /\ el' = el /\ known' = known
    BY Zenon DEF SlotInv, TickGroup
  <1>2. now' \in 0..MaxNow
    BY <1>1 DEF TypeOKGroup, GroupAssumption
  <1>3. TypeOKGroup'
    BY <1>1, <1>2, Zenon DEF TypeOKGroup
  <1>4. ASSUME NEW m \in Members PROVE SlotLoop(m)' /\ SlotLed(m)'
    <2>1. SlotLoop(m) /\ SlotLed(m)
      BY Zenon DEF SlotInv
    <2>2. clockGroup(m) \in Nat /\ known[m] \in Nat /\ MaxSkew \in Nat /\ skew[m] \in Nat /\ now \in Nat
      BY <1>1, ValuesG, Zenon
    <2>3. clockGroup(m)' = clockGroup(m) + 1
      BY <1>1, <2>2 DEF clockGroup
    <2>4. /\ \A t \in 0..clockGroup(m) : t \in 0..clockGroup(m)'
          /\ clockGroup(m)' + MaxSkew < known[m] => clockGroup(m) + MaxSkew < known[m]
      BY <2>2, <2>3
    <2>5. SlotLoop(m)'
      BY <1>1, <2>1, <2>4, Zenon DEF SlotLoop
    <2>6. SlotLed(m)'
      BY <1>1, <2>1, <2>4, Zenon DEF SlotLed
    <2> QED BY <2>5, <2>6, Zenon
  <1> QED BY <1>3, <1>4, Zenon DEF SlotInv

\* The TTL index removes a slot that no clock counts on any more.
LEMMA ExpireSlot ==
  ASSUME GroupAssumption, SlotInv, NEW s \in Slots, ExpireGroup(s)
  PROVE  SlotInv'
  <1>1. /\ TypeOKGroup /\ record[s].until <= now /\ now' = now /\ skew' = skew /\ el' = el /\ known' = known
        /\ record' = [record EXCEPT ![s] = NoDocGroup]
    BY Zenon DEF SlotInv, ExpireGroup
  <1>2. NoDocGroup \in [token : Members \cup {NoOwner}, until : Nat]
    BY Zenon DEF NoDocGroup
  <1>3. TypeOKGroup'
    BY <1>1, <1>2, Zenon DEF TypeOKGroup
  <1>4. ASSUME NEW m \in Members PROVE SlotLoop(m)' /\ SlotLed(m)'
    <2>1. SlotLoop(m) /\ SlotLed(m) /\ clockGroup(m)' = clockGroup(m)
      BY <1>1, Zenon DEF SlotInv, clockGroup
    <2>2. /\ clockGroup(m) \in Nat /\ now \in Nat /\ now <= clockGroup(m) /\ known[m] \in Nat /\ MaxSkew \in Nat
          /\ record \in [Slots -> [token : Members \cup {NoOwner}, until : Nat]] /\ record[s].until \in Nat
      BY <1>1, ValuesG, Zenon
    <2>3. SlotLoop(m)'
      BY <1>1, <2>1, Zenon DEF SlotLoop
    <2>4. ASSUME el[m].owned, clockGroup(m) + MaxSkew < known[m] PROVE record'[el[m].slot] = record[el[m].slot]
      <3>1. el[m].slot \in Slots /\ record[el[m].slot].until >= known[m]
        BY <2>1, <2>4, Zenon DEF SlotLoop, SlotLed
      <3>2. ~(record[s].until >= known[m])
        BY <1>1, <2>2, <2>4
      <3>3. el[m].slot # s
        BY <3>1, <3>2, Zenon
      <3> QED BY <1>1, <2>2, <3>1, <3>3, Zenon
    <2>5. SlotLed(m)'
      BY <1>1, <2>1, <2>4, Zenon DEF SlotLed
    <2> QED BY <2>3, <2>5, Zenon
  <1> QED BY <1>3, <1>4, Zenon DEF SlotInv

\* The initial states.
LEMMA InitSlot ==
  ASSUME GroupAssumption, InitGroup
  PROVE  SlotInv
  <1> DEFINE none == RecG(FALSE, -1, FALSE, "none", "idle", 0, 0, -1)
  <1>1. none \in Member /\ none.owned = FALSE /\ none.loop = "none" /\ none.pc = "idle"
    BY DEF RecG, Member, GroupAssumption
  <1>2. [owned |-> FALSE, slot |-> -1, cancelled |-> FALSE, loop |-> "none", pc |-> "idle", offset |-> 0, renewAt |-> 0,
        held |-> -1] = none
    BY Zenon DEF RecG
  <1> HIDE DEF none
  <1>3. /\ el = [m \in Members |-> none] /\ record = [s \in Slots |-> NoDocGroup] /\ now = 0
        /\ skew \in [Members -> 0..MaxSkew] /\ known = [m \in Members |-> 0]
    BY <1>2, Zenon DEF InitGroup
  <1>4. NoDocGroup \in [token : Members \cup {NoOwner}, until : Nat]
    BY Zenon DEF NoDocGroup
  <1>5. 0 \in Nat /\ 0 \in 0..MaxNow
    BY DEF GroupAssumption
  <1>6. TypeOKGroup
    BY <1>1, <1>3, <1>4, <1>5, Zenon DEF TypeOKGroup
  <1>7. ASSUME NEW m \in Members PROVE SlotLoop(m) /\ SlotLed(m)
    <2>1. el[m].owned = FALSE /\ el[m].loop = "none" /\ el[m].pc = "idle"
      BY <1>1, <1>3, Zenon
    <2> QED BY <2>1, Zenon DEF SlotLoop, SlotLed
  <1> QED BY <1>6, <1>7, Zenon DEF SlotInv

\* The invariant holds in every behaviour.
LEMMA SlotInductive ==
  ASSUME GroupAssumption
  PROVE  SpecGroup => []SlotInv
  <1>1. InitGroup => SlotInv
    BY InitSlot, Zenon
  <1>2. SlotInv /\ [NextGroup]_vars => SlotInv'
    <2> SUFFICES ASSUME SlotInv, [NextGroup]_vars PROVE SlotInv'
      BY Zenon
    <2>1. CASE UNCHANGED vars
      BY <2>1, Zenon DEF vars, SlotInv, TypeOKGroup, SlotLoop, SlotLed, clockGroup
    <2>2. CASE NextGroup
      BY <2>2, StepSlot, TickSlot, ExpireSlot, Zenon DEF NextGroup
    <2> QED BY <2>1, <2>2, Zenon
  <1> QED BY <1>1, <1>2, PTL DEF SpecGroup

\* A member of a leader/mongo group that leads, with more than the clock skew left of its lease, has the document
\* of its slot.
THEOREM SlotSafe ==
  ASSUME GroupAssumption
  PROVE  SpecGroup => []LeaderHoldsSlot
  <1>1. SlotInv => LeaderHoldsSlot
    BY Zenon DEF SlotInv, SlotLed, LeaderHoldsSlot
  <1> QED BY <1>1, SlotInductive, PTL

\* The types of its variables.
THEOREM MemberTypeCorrect ==
  ASSUME GroupAssumption
  PROVE  SpecGroup => []TypeOKGroup
  <1>1. SlotInv => TypeOKGroup
    BY Zenon DEF SlotInv
  <1> QED BY <1>1, SlotInductive, PTL

\* Facts about cardinalities.
INSTANCE FiniteSetTheorems

\* The members that lead for certain.
LeadingMembers == {m \in Members : el[m].owned /\ clockGroup(m) + MaxSkew < known[m]}

\* No two of them share a slot, so at most MaxLeaders members of a group lead at a time, whichever commands fail
\* and however late the clocks were read.
THEOREM MembersBounded ==
  ASSUME GroupAssumption
  PROVE  SpecGroup => [](Cardinality(LeadingMembers) <= MaxLeaders)
  <1>1. ASSUME SlotInv PROVE Cardinality(LeadingMembers) <= MaxLeaders
    <2> DEFINE at == [m \in LeadingMembers |-> el[m].slot]
    <2>1. \A m \in LeadingMembers : el[m].slot \in Slots /\ record[el[m].slot].token = m
      BY <1>1, Zenon DEF LeadingMembers, SlotInv, SlotLoop, SlotLed
    <2>2. \A m, n \in LeadingMembers : el[m].slot = el[n].slot => m = n
      BY <2>1, Zenon
    <2>3. at \in Injection(LeadingMembers, Slots)
      BY <2>1, <2>2, Zenon DEF Injection, IsInjective
    <2>4. MaxLeaders \in Nat /\ IsFiniteSet(Slots) /\ Cardinality(Slots) = MaxLeaders
      <3>1. MaxLeaders \in Nat /\ 0 \in Int /\ MaxLeaders - 1 \in Int /\ ~(0 > MaxLeaders - 1)
            /\ MaxLeaders - 1 - 0 + 1 = MaxLeaders
        BY DEF GroupAssumption
      <3>2. IsFiniteSet(0..(MaxLeaders - 1)) /\ Cardinality(0..(MaxLeaders - 1)) = MaxLeaders
        BY <3>1, FS_Interval, Zenon
      <3> QED BY <3>1, <3>2, Zenon DEF Slots
    <2> HIDE DEF at
    <2> QED BY <2>3, <2>4, FS_Injection, Zenon
  <1> QED BY <1>1, SlotInductive, PTL

====
