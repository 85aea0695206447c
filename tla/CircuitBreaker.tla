--------------------------- MODULE CircuitBreaker ---------------------------
(***************************************************************************)
(* resilience/circuit_breaker.go: CircuitBreakerPolicy[T] shared by the    *)
(* goroutines of Calls.  A protected call is four steps: it reads the      *)
(* clock, runs beforeCall under the mutex, runs the operation outside the  *)
(* mutex, reads the clock again and runs afterCall under the mutex.        *)
(* Events and the error values are left out: no state depends on them.     *)
(***************************************************************************)
EXTENDS Integers, FiniteSets, FiniteSetTheorems, TLAPS

CONSTANTS
  Calls,                  \* goroutines that use the policy, one call each at a time
  FailureThreshold, SuccessThreshold,
  OpenTimeout, HalfOpenMaxConcurrent,
  MaxNow                  \* bound of the clock

ASSUME ThresholdAssumption ==
  /\ FailureThreshold \in Nat \ {0}
  /\ SuccessThreshold \in Nat \ {0}
  /\ HalfOpenMaxConcurrent \in Nat \ {0}
ASSUME TimeAssumption == OpenTimeout \in Nat \ {0} /\ MaxNow \in Nat
ASSUME CallsAssumption == IsFiniteSet(Calls)

VARIABLES
  now,                    \* what options.Now() returns
  state, failureCount, successCount, openedAt, halfOpenInFlight,
  pc,                     \* where each goroutine is in Apply
  callNow,                \* its last clock reading
  callState,              \* the state beforeCall admitted it in
  failed                  \* the outcome afterCall will be told

breaker == <<state, failureCount, successCount, openedAt, halfOpenInFlight>>
vars == <<now, breaker, pc, callNow, callState, failed>>

CircuitState == {"closed", "open", "half-open"}

\* The calls beforeCall let through while half-open and afterCall has not seen.
Probes == {c \in Calls : pc[c] \in {"running", "settling"} /\ callState[c] = "half-open"}

TypeOK ==
  /\ now \in 0..MaxNow
  /\ state \in CircuitState
  /\ failureCount \in Nat /\ successCount \in Nat
  /\ openedAt \in 0..MaxNow
  /\ halfOpenInFlight \in Nat
  /\ pc \in [Calls -> {"idle", "entering", "running", "settling"}]
  /\ callNow \in [Calls -> 0..MaxNow]
  /\ callState \in [Calls -> CircuitState]
  /\ failed \in [Calls -> BOOLEAN]

Init ==
  /\ now = 0
  /\ state = "closed" /\ failureCount = 0 /\ successCount = 0
  /\ openedAt = 0 /\ halfOpenInFlight = 0
  /\ pc = [c \in Calls |-> "idle"]
  /\ callNow = [c \in Calls |-> 0]
  /\ callState = [c \in Calls |-> "closed"]
  /\ failed = [c \in Calls |-> FALSE]

-----------------------------------------------------------------------------

\* transitionLocked for next # state; it resets every counter.
transitionLocked(next, t) ==
  /\ state' = next
  /\ failureCount' = 0 /\ successCount' = 0 /\ halfOpenInFlight' = 0
  /\ openedAt' = IF next = "open" THEN t ELSE openedAt

Tick ==
  /\ now < MaxNow
  /\ now' = now + 1
  /\ UNCHANGED <<breaker, pc, callNow, callState, failed>>

\* beforeCall reads the clock before it takes the mutex.
ReadClock(c) ==
  /\ pc[c] = "idle"
  /\ pc' = [pc EXCEPT ![c] = "entering"]
  /\ callNow' = [callNow EXCEPT ![c] = now]
  /\ UNCHANGED <<now, breaker, callState, failed>>

OpenElapsedUnchecked(c) == state = "open"

OpenElapsed(c) == state = "open" /\ callNow[c] - openedAt >= OpenTimeout

Admit(c, s) ==
  /\ pc' = [pc EXCEPT ![c] = "running"]
  /\ callState' = [callState EXCEPT ![c] = s]

AdmitClosed(c) ==
  /\ state = "closed"
  /\ Admit(c, "closed")
  /\ UNCHANGED breaker

\* The call that finds the open interval elapsed becomes the first probe.
AdmitFirstProbe(c) ==
  /\ OpenElapsed(c)
  /\ Admit(c, "half-open")
  /\ state' = "half-open"
  /\ failureCount' = 0 /\ successCount' = 0 /\ halfOpenInFlight' = 1
  /\ UNCHANGED openedAt

AdmitProbe(c) ==
  /\ state = "half-open"
  /\ halfOpenInFlight < HalfOpenMaxConcurrent
  /\ Admit(c, "half-open")
  /\ halfOpenInFlight' = halfOpenInFlight + 1
  /\ UNCHANGED <<state, failureCount, successCount, openedAt>>

Reject(c) ==
  /\ \/ state = "open" /\ ~OpenElapsed(c)
     \/ state = "half-open" /\ halfOpenInFlight >= HalfOpenMaxConcurrent
  /\ pc' = [pc EXCEPT ![c] = "idle"]
  /\ UNCHANGED <<breaker, callState>>

beforeCall(c) ==
  /\ pc[c] = "entering"
  /\ AdmitClosed(c) \/ AdmitFirstProbe(c) \/ AdmitProbe(c) \/ Reject(c)
  /\ UNCHANGED <<now, callNow, failed>>

\* The operation returned; afterCall reads the clock before it takes the mutex.
Settle(c, f) ==
  /\ pc[c] = "running"
  /\ pc' = [pc EXCEPT ![c] = "settling"]
  /\ failed' = [failed EXCEPT ![c] = f]
  /\ callNow' = [callNow EXCEPT ![c] = now]
  /\ UNCHANGED <<now, breaker, callState>>

\* FailureIf classifies what the operation returned.
Return(c) == \E f \in BOOLEAN : Settle(c, f)

\* A panic that unwinds past Apply without the deferred afterCall.
PanicWithoutDefer(c) ==
  /\ pc[c] = "running"
  /\ pc' = [pc EXCEPT ![c] = "idle"]
  /\ UNCHANGED <<now, breaker, callNow, callState, failed>>

\* The operation panicked: the deferred afterCall counts a failure.
Panic(c) == Settle(c, TRUE)

\* Trips one failure too late.
SettleClosedLate(c) ==
  /\ callState[c] = "closed"
  /\ LET count == IF failed[c] THEN failureCount + 1 ELSE 0
     IN IF failed[c] /\ count > FailureThreshold /\ state # "open"
        THEN transitionLocked("open", callNow[c])
        ELSE /\ failureCount' = count
             /\ UNCHANGED <<state, successCount, openedAt, halfOpenInFlight>>

SettleClosed(c) ==
  /\ callState[c] = "closed"
  /\ LET count == IF failed[c] THEN failureCount + 1 ELSE 0
     IN IF failed[c] /\ count >= FailureThreshold /\ state # "open"
        THEN transitionLocked("open", callNow[c])
        ELSE /\ failureCount' = count
             /\ UNCHANGED <<state, successCount, openedAt, halfOpenInFlight>>

\* Gives a slot back without looking whether one is counted.
SettleProbeUnderflow(c) ==
  /\ callState[c] = "half-open"
  /\ LET success == IF failed[c] THEN successCount ELSE successCount + 1
         next == IF failed[c] THEN "open"
                 ELSE IF success >= SuccessThreshold THEN "closed" ELSE state
     IN IF next # state
        THEN transitionLocked(next, callNow[c])
        ELSE /\ halfOpenInFlight' = halfOpenInFlight - 1
             /\ successCount' = success
             /\ UNCHANGED <<state, failureCount, openedAt>>

SettleProbe(c) ==
  /\ callState[c] = "half-open"
  /\ LET inFlight == IF halfOpenInFlight > 0 THEN halfOpenInFlight - 1 ELSE 0
         success == IF failed[c] THEN successCount ELSE successCount + 1
         next == IF failed[c] THEN "open"
                 ELSE IF success >= SuccessThreshold THEN "closed" ELSE state
     IN IF next # state
        THEN transitionLocked(next, callNow[c])
        ELSE /\ halfOpenInFlight' = inFlight
             /\ successCount' = success
             /\ UNCHANGED <<state, failureCount, openedAt>>

afterCall(c) ==
  /\ pc[c] = "settling"
  /\ SettleClosed(c) \/ SettleProbe(c)
  /\ pc' = [pc EXCEPT ![c] = "idle"]
  /\ UNCHANGED <<now, callNow, callState, failed>>

Next ==
  \/ Tick
  \/ \E c \in Calls :
       \/ ReadClock(c)
       \/ beforeCall(c)
       \/ Return(c)
       \/ Panic(c)
       \/ afterCall(c)

Spec == Init /\ [][Next]_vars

-----------------------------------------------------------------------------

\* Every half-open slot the breaker counts is held by a probe that is still
\* to reach afterCall: no rejection, error or panic leaks a slot of
\* halfOpenInFlight, so a half-open breaker without probes admits a call.
SlotsBacked == halfOpenInFlight <= Cardinality(Probes)

\* afterCall never leaves the breaker closed with FailureThreshold failures
\* counted, nor half-open with SuccessThreshold successes, whatever calls of
\* earlier states settle in between.
ThresholdsAct ==
  /\ state = "closed" => failureCount < FailureThreshold
  /\ state = "half-open" => successCount < SuccessThreshold

\* beforeCall moves an open breaker to half-open only after OpenTimeout, even
\* though it compares a clock reading taken before the mutex.
HalfOpenAfterInterval ==
  [][state = "open" /\ state' = "half-open" => now - openedAt >= OpenTimeout]_vars

\* The comment on CircuitStateOpen: it rejects calls until the open interval
\* elapses.  afterCall of a probe admitted before the breaker reopened breaks it.
OpenUntilElapsed ==
  [][state = "open" /\ state' # "open" => now - openedAt >= OpenTimeout]_vars

-----------------------------------------------------------------------------
(* Proofs, for any finite set of goroutines, thresholds and timeouts       *)

\* The type invariant holds in every reachable state of the breaker.
THEOREM TypeCorrect == Spec => []TypeOK
<1> USE ThresholdAssumption, TimeAssumption
<1>1. Init => TypeOK
  BY DEF Init, TypeOK, CircuitState
<1>2. TypeOK /\ [Next]_vars => TypeOK'
  <2> SUFFICES ASSUME TypeOK, [Next]_vars PROVE TypeOK'
    BY Zenon
  <2> USE DEF TypeOK, CircuitState, breaker
  <2>1. CASE Tick
    BY <2>1 DEF Tick
  <2>2. ASSUME NEW c \in Calls, ReadClock(c) PROVE TypeOK'
    BY <2>2, Zenon DEF ReadClock
  <2>3. ASSUME NEW c \in Calls, beforeCall(c) PROVE TypeOK'
    BY <2>3 DEF beforeCall, AdmitClosed, AdmitFirstProbe, AdmitProbe, Reject, Admit
  <2>4. ASSUME NEW c \in Calls, Return(c) \/ Panic(c) PROVE TypeOK'
    BY <2>4, ZenonT(40) DEF Return, Panic, Settle
  <2>5. ASSUME NEW c \in Calls, afterCall(c) PROVE TypeOK'
    <3>1. CASE SettleClosed(c)
      BY <2>5, <3>1 DEF afterCall, SettleClosed, transitionLocked
    <3>2. CASE SettleProbe(c)
      BY <2>5, <3>2 DEF afterCall, SettleProbe, transitionLocked
    <3> QED
      BY <2>5, <3>1, <3>2, Zenon DEF afterCall
  <2>6. CASE UNCHANGED vars
    BY <2>6, Zenon DEF vars
  <2> QED
    BY <2>1, <2>2, <2>3, <2>4, <2>5, <2>6, Zenon DEF Next
<1> QED
  BY <1>1, <1>2, PTL DEF Spec

\* afterCall never leaves a threshold reached and not acted upon.
THEOREM ThresholdsActAlways == Spec => []ThresholdsAct
<1> USE ThresholdAssumption
<1>1. Init => ThresholdsAct
  BY DEF Init, ThresholdsAct
<1>2. TypeOK /\ ThresholdsAct /\ [Next]_vars => ThresholdsAct'
  <2> SUFFICES ASSUME TypeOK, ThresholdsAct, [Next]_vars PROVE ThresholdsAct'
    BY Zenon
  <2> USE DEF ThresholdsAct, breaker
  <2>1. CASE Tick
    BY <2>1, Zenon DEF Tick
  <2>2. ASSUME NEW c \in Calls, ReadClock(c) PROVE ThresholdsAct'
    BY <2>2, Zenon DEF ReadClock
  <2>3. ASSUME NEW c \in Calls, beforeCall(c) PROVE ThresholdsAct'
    BY <2>3 DEF beforeCall, AdmitClosed, AdmitFirstProbe, AdmitProbe, Reject
  <2>4. ASSUME NEW c \in Calls, Return(c) \/ Panic(c) PROVE ThresholdsAct'
    BY <2>4, Zenon DEF Return, Panic, Settle
  <2>5. ASSUME NEW c \in Calls, afterCall(c) PROVE ThresholdsAct'
    <3>1. CASE SettleClosed(c)
      BY <2>5, <3>1 DEF afterCall, SettleClosed, transitionLocked, TypeOK
    <3>2. CASE SettleProbe(c)
      BY <2>5, <3>2 DEF afterCall, SettleProbe, transitionLocked, TypeOK
    <3> QED
      BY <2>5, <3>1, <3>2, Zenon DEF afterCall
  <2>6. CASE UNCHANGED vars
    BY <2>6, Zenon DEF vars
  <2> QED
    BY <2>1, <2>2, <2>3, <2>4, <2>5, <2>6, Zenon DEF Next
<1> QED
  BY <1>1, <1>2, TypeCorrect, PTL DEF Spec

-----------------------------------------------------------------------------

\* The set of probes is finite, so its cardinality counts.
LEMMA ProbesFinite == IsFiniteSet(Probes)
<1>1. Probes \subseteq Calls
  BY Zenon DEF Probes
<1> QED
  BY <1>1, CallsAssumption, FS_Subset, Zenon

\* No half-open slot leaks: every slot beforeCall counted is held by a call
\* that will still reach afterCall.
THEOREM SlotsAlwaysBacked == Spec => []SlotsBacked
<1> USE ThresholdAssumption
<1>1. Init => SlotsBacked
  BY ProbesFinite, FS_CardinalityType DEF Init, SlotsBacked
<1>2. TypeOK /\ SlotsBacked /\ [Next]_vars => SlotsBacked'
  <2> SUFFICES ASSUME TypeOK, SlotsBacked, [Next]_vars PROVE SlotsBacked'
    BY Zenon
  <2>fin. /\ IsFiniteSet(Probes) /\ Cardinality(Probes) \in Nat
          /\ IsFiniteSet(Probes') /\ Cardinality(Probes') \in Nat
    <3>1. Probes' \subseteq Calls
      BY Zenon DEF Probes
    <3> QED
      BY <3>1, ProbesFinite, CallsAssumption, FS_Subset, FS_CardinalityType, Zenon
  <2>1. CASE Tick
    <3>1. Probes' = Probes
      BY <2>1, Zenon DEF Tick, Probes
    <3> QED
      BY <2>1, <3>1, Zenon DEF Tick, breaker, SlotsBacked
  <2>2. ASSUME NEW c \in Calls, ReadClock(c) PROVE SlotsBacked'
    <3>1. Probes' = Probes
      BY <2>2, Zenon DEF ReadClock, Probes, TypeOK
    <3> QED
      BY <2>2, <3>1, Zenon DEF ReadClock, breaker, SlotsBacked
  <2>3. ASSUME NEW c \in Calls, beforeCall(c) PROVE SlotsBacked'
    <3>0. c \notin Probes
      BY <2>3, Zenon DEF beforeCall, Probes
    <3>1. CASE AdmitClosed(c)
      <4>1. Probes' = Probes
        BY <2>3, <3>0, <3>1, Zenon DEF beforeCall, AdmitClosed, Admit, Probes, TypeOK
      <4> QED
        BY <3>1, <4>1, Zenon DEF AdmitClosed, breaker, SlotsBacked
    <3>2. CASE AdmitFirstProbe(c)
      <4>1. c \in Probes'
        BY <3>2, Zenon DEF AdmitFirstProbe, Admit, Probes, TypeOK
      <4>2. Cardinality(Probes') # 0
        BY <4>1, <2>fin, FS_EmptySet, Zenon
      <4> QED
        BY <3>2, <4>2, <2>fin DEF AdmitFirstProbe, SlotsBacked
    <3>3. CASE AdmitProbe(c)
      <4>1. Probes' = Probes \cup {c}
        BY <3>3, Zenon DEF AdmitProbe, Admit, Probes, TypeOK
      <4>2. Cardinality(Probes') = Cardinality(Probes) + 1
        BY <4>1, <3>0, <2>fin, FS_AddElement, Zenon
      <4> QED
        BY <3>3, <4>2, <2>fin DEF AdmitProbe, SlotsBacked, TypeOK
    <3>4. CASE Reject(c)
      <4>1. Probes' = Probes
        BY <2>3, <3>4, Zenon DEF beforeCall, Reject, Probes, TypeOK
      <4> QED
        BY <3>4, <4>1, Zenon DEF Reject, breaker, SlotsBacked
    <3> QED
      BY <2>3, <3>1, <3>2, <3>3, <3>4, Zenon DEF beforeCall
  <2>4. ASSUME NEW c \in Calls, Return(c) \/ Panic(c) PROVE SlotsBacked'
    <3>1. Probes' = Probes
      BY <2>4, Zenon DEF Return, Panic, Settle, Probes, TypeOK
    <3> QED
      BY <2>4, <3>1, Zenon DEF Return, Panic, Settle, breaker, SlotsBacked
  <2>5. ASSUME NEW c \in Calls, afterCall(c) PROVE SlotsBacked'
    <3>1. Probes' = Probes \ {c}
      BY <2>5, Zenon DEF afterCall, Probes, TypeOK
    <3>2. CASE SettleClosed(c)
      <4>1. Probes' = Probes
        BY <3>1, <3>2, Zenon DEF SettleClosed, Probes
      <4> QED
        BY <3>2, <4>1, <2>fin DEF SettleClosed, transitionLocked, SlotsBacked
    <3>3. CASE SettleProbe(c)
      <4>1. c \in Probes
        BY <2>5, <3>3, Zenon DEF afterCall, SettleProbe, Probes
      <4>2. Cardinality(Probes') = Cardinality(Probes) - 1
        BY <3>1, <4>1, <2>fin, FS_RemoveElement, Zenon
      <4> QED
        BY <3>3, <4>2, <2>fin DEF SettleProbe, transitionLocked, SlotsBacked, TypeOK
    <3> QED
      BY <2>5, <3>2, <3>3, Zenon DEF afterCall
  <2>6. CASE UNCHANGED vars
    <3>1. Probes' = Probes
      BY <2>6, Zenon DEF vars, Probes
    <3> QED
      BY <2>6, <3>1, Zenon DEF vars, breaker, SlotsBacked
  <2> QED
    BY <2>1, <2>2, <2>3, <2>4, <2>5, <2>6, Zenon DEF Next
<1> QED
  BY <1>1, <1>2, TypeCorrect, PTL DEF Spec

-----------------------------------------------------------------------------

\* The clock reading a call decides with is never ahead of the clock.
ReadingsPast == \A c \in Calls : callNow[c] <= now

\* A call reads the clock before it takes the mutex and time only advances, so
\* every reading beforeCall and afterCall use lies in the past.
LEMMA ReadingsStayPast == Spec => []ReadingsPast
<1>1. Init => ReadingsPast
  BY DEF Init, ReadingsPast
<1>2. TypeOK /\ ReadingsPast /\ [Next]_vars => ReadingsPast'
  <2> SUFFICES ASSUME TypeOK, ReadingsPast, [Next]_vars PROVE ReadingsPast'
    BY Zenon
  <2> USE TimeAssumption DEF ReadingsPast, TypeOK
  <2>1. CASE Tick
    BY <2>1 DEF Tick
  <2>2. ASSUME NEW c \in Calls, ReadClock(c) PROVE ReadingsPast'
    BY <2>2 DEF ReadClock
  <2>3. ASSUME NEW c \in Calls, beforeCall(c) PROVE ReadingsPast'
    BY <2>3, Zenon DEF beforeCall
  <2>4. ASSUME NEW c \in Calls, Return(c) \/ Panic(c) PROVE ReadingsPast'
    BY <2>4 DEF Return, Panic, Settle
  <2>5. ASSUME NEW c \in Calls, afterCall(c) PROVE ReadingsPast'
    BY <2>5, Zenon DEF afterCall
  <2>6. CASE UNCHANGED vars
    BY <2>6, Zenon DEF vars
  <2> QED
    BY <2>1, <2>2, <2>3, <2>4, <2>5, <2>6, Zenon DEF Next
<1> QED
  BY <1>1, <1>2, TypeCorrect, PTL DEF Spec

\* An open breaker turns half-open only once OpenTimeout has passed on the
\* clock, although beforeCall compares a reading taken before the mutex.
THEOREM ProbedAfterInterval == Spec => HalfOpenAfterInterval
<1>1. ASSUME TypeOK, ReadingsPast, [Next]_vars
      PROVE [state = "open" /\ state' = "half-open" => now - openedAt >= OpenTimeout]_vars
  <2> SUFFICES ASSUME state = "open", state' = "half-open"
               PROVE now - openedAt >= OpenTimeout
    BY Zenon
  <2>1. PICK c \in Calls : beforeCall(c) \/ afterCall(c)
    BY <1>1, Zenon DEF Next, vars, breaker, Tick, ReadClock, Return, Panic, Settle
  <2>2. ~afterCall(c)
    <3>1. ~SettleClosed(c)
      BY Zenon DEF SettleClosed, transitionLocked
    <3>2. ~SettleProbe(c)
      BY Zenon DEF SettleProbe, transitionLocked
    <3> QED
      BY <3>1, <3>2, Zenon DEF afterCall
  <2>3. OpenElapsed(c)
    BY <2>1, <2>2, Zenon DEF beforeCall, AdmitClosed, AdmitFirstProbe, AdmitProbe, Reject, breaker
  <2> QED
    BY <1>1, <2>3, TimeAssumption DEF OpenElapsed, ReadingsPast, TypeOK
<1> QED
  BY <1>1, TypeCorrect, ReadingsStayPast, PTL DEF Spec, HalfOpenAfterInterval

=============================================================================
