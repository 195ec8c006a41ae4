--------------------------- MODULE PolicyAskProofs ---------------------------
(***************************************************************************)
(* Proofs about PolicyAsk for any number of requests, any threshold, any   *)
(* cooldown and any bound on the clock.                                    *)
(*                                                                         *)
(* SlotIsHeld is inductive given TypeOK: a thread that leaves InFlight     *)
(* either frees the slot or leaves it free.  OpensAfterThreshold needs the *)
(* count of failures to be bounded by the failures that really happened.   *)
(***************************************************************************)
EXTENDS PolicyAsk, FiniteSetTheorems, TLAPS

(* A request that has not been accounted for carries no outcome. *)
Undecided == {"new", "allow_clock", "refused", "calling", "fail_clock"}
UndecidedHasNone ==
    \A r \in Requests : pc[r] \in Undecided => outcome[r] = None

CountIsEarned == consecutive_failures <= Cardinality(Failed)

Strengthening ==
    UndecidedHasNone /\ CountIsEarned /\ OpensAfterThreshold
-----------------------------------------------------------------------------
(* Every variable keeps its type, from any state that has it.               *)
LEMMA TypeStep ==
    ASSUME TypeOK, [Next]_vars
    PROVE  TypeOK'
<1> USE BreakerAssumption, AskAssumption
<1> USE DEF TypeOK, BreakerTypeOK, InFlight, Running, Finished, HoldsReading,
            Outcomes, breakerVars, requestVars, Goto, IsOpen
<1>1. CASE Tick
    BY <1>1, SMT DEF Tick
<1>2. ASSUME NEW r \in Requests, Step(r)
      PROVE  TypeOK'
    <2>1. CASE RetrievalFails(r) \/ Health(r)
        BY <2>1, SMT DEF RetrievalFails, Health
    <2>2. CASE Allow(r)
        <3>1. CASE AllowOnClosed(r)
            BY <3>1, SMT DEF AllowOnClosed
        <3>2. CASE RefusedAtOnce(r)
            BY <3>2, SMT DEF RefusedAtOnce
        <3>3. CASE AllowReadsClock(r)
            BY <3>3, SMT DEF AllowReadsClock, ReadClock
        <3>4. CASE AllowedAsProbe(r)
            BY <3>4, SMT DEF AllowedAsProbe, TakeSlot, Cooled, DropReading
        <3>5. CASE RefusedWhileCooling(r)
            BY <3>5, SMT DEF RefusedWhileCooling, DropReading
        <3>6. CASE Crashes(r, "allow_clock")
            BY <3>6, SMT DEF Crashes, DropReading
        <3> QED  BY <2>2, <3>1, <3>2, <3>3, <3>4, <3>5, <3>6 DEF Allow
    <2>3. CASE Reject(r)
        <3>1. CASE RejectedOnClosed(r)
            BY <3>1, SMT DEF RejectedOnClosed, Count
        <3>2. CASE RejectedReadsClock(r)
            BY <3>2, SMT DEF RejectedReadsClock, Count, ReadClock
        <3>3. CASE RetryAfter(r) \/ Crashes(r, "retry_clock")
            BY <3>3, SMT DEF RetryAfter, Crashes, DropReading
        <3> QED  BY <2>3, <3>1, <3>2, <3>3 DEF Reject
    <2>4. CASE Call(r)
        <3>1. CASE ProviderAnswers(r)
            <4>1. probing' \in BOOLEAN
                BY <3>1, Zenon DEF ProviderAnswers, record_success
            <4> QED  BY <3>1, <4>1, SMT DEF ProviderAnswers, record_success, Count
        <3>2. CASE FailureCounted(r)
            BY <3>2, SMT DEF FailureCounted, CountFailure, Count
        <3>3. CASE FailureReadsClock(r)
            BY <3>3, SMT DEF FailureReadsClock, CountFailure, ReadClock
        <3>4. CASE FailureOpens(r)
            <4>1. probing' \in BOOLEAN
                BY <3>4, Zenon DEF FailureOpens, OpenAt
            <4> QED  BY <3>4, <4>1, SMT DEF FailureOpens, OpenAt, Count, DropReading
        <3> QED  BY <2>4, <3>1, <3>2, <3>3, <3>4 DEF Call
    <2>5. CASE LogState(r)
        <3>1. CASE StateAtOnce(r, "log", "state")
            BY <3>1, SMT DEF StateAtOnce
        <3>2. CASE StateReadsClock(r, "log", "log_clock")
            BY <3>2, SMT DEF StateReadsClock, ReadClock
        <3>3. CASE StateAfterClock(r, "log_clock", "state") \/ Crashes(r, "log_clock")
            BY <3>3, SMT DEF StateAfterClock, Crashes, DropReading
        <3> QED  BY <2>5, <3>1, <3>2, <3>3 DEF LogState
    <2>6. CASE ReplyState(r)
        <3>1. CASE StateAtOnce(r, "state", "replied")
            BY <3>1, SMT DEF StateAtOnce
        <3>2. CASE StateReadsClock(r, "state", "state_clock")
            BY <3>2, SMT DEF StateReadsClock, ReadClock
        <3>3. CASE StateAfterClock(r, "state_clock", "replied")
                   \/ Crashes(r, "state_clock")
            BY <3>3, SMT DEF StateAfterClock, Crashes, DropReading
        <3> QED  BY <2>6, <3>1, <3>2, <3>3 DEF ReplyState
    <2> QED  BY <1>2, <2>1, <2>2, <2>3, <2>4, <2>5, <2>6 DEF Step
<1>3. CASE UNCHANGED vars
    BY <1>3, SMT DEF vars
<1> QED  BY <1>1, <1>2, <1>3 DEF Next

(* Spec keeps every variable of the threads and of the breaker in its type. *)
THEOREM TypeCorrect == Spec => []TypeOK
<1>1. Init => TypeOK
  <2> SUFFICES ASSUME Init PROVE TypeOK
      OBVIOUS
  <2>1. probing \in BOOLEAN
      BY Zenon DEF Init, BreakerInit
  <2> QED
      BY <2>1, BreakerAssumption, AskAssumption, SMT
      DEF Init, BreakerInit, TypeOK, BreakerTypeOK, Running, Finished,
          HoldsReading, InFlight
<1>2. TypeOK /\ [Next]_vars => TypeOK'
    BY TypeStep
<1> QED  BY <1>1, <1>2, PTL DEF Spec

-----------------------------------------------------------------------------
(* A step of one thread that neither ends its call nor touches the slot     *)
(* keeps SlotIsHeld; the steps that do either are below, one by one.        *)
LEMMA SlotStep ==
    ASSUME TypeOK, SlotIsHeld, [Next]_vars
    PROVE  SlotIsHeld'
<1> USE DEF TypeOK, SlotIsHeld, InFlight, IsOpen, breakerVars, requestVars, Goto
<1>1. CASE Tick \/ UNCHANGED vars
    BY <1>1 DEF Tick, vars
<1>2. ASSUME NEW r \in Requests, Step(r)
      PROVE  SlotIsHeld'
    <2>1. CASE AllowedAsProbe(r)
        BY <2>1, SMT DEF AllowedAsProbe, TakeSlot, Cooled
    <2>2. CASE ProviderAnswers(r)
        BY <2>2, SMT DEF ProviderAnswers, record_success
    <2>3. CASE FailureCounted(r)
        BY <2>3, SMT DEF FailureCounted, Trips, CountFailure
    <2>4. CASE FailureReadsClock(r)
        BY <2>4, SMT DEF FailureReadsClock, CountFailure
    <2>5. CASE FailureOpens(r)
        BY <2>5, SMT DEF FailureOpens, OpenAt
    <2>6. CASE RetrievalFails(r) \/ Health(r) \/ AllowOnClosed(r)
               \/ RefusedAtOnce(r) \/ AllowReadsClock(r)
               \/ RefusedWhileCooling(r) \/ Reject(r)
        <3>1. UNCHANGED breakerVars
            BY <2>6, Zenon
            DEF RetrievalFails, Health, AllowOnClosed, RefusedAtOnce,
                AllowReadsClock, RefusedWhileCooling, Reject, RejectedOnClosed,
                RejectedReadsClock, RetryAfter, Crashes
        <3>2. InFlight \subseteq InFlight'
            BY <2>6, SMT
            DEF RetrievalFails, Health, AllowOnClosed, RefusedAtOnce,
                AllowReadsClock, RefusedWhileCooling, Reject, RejectedOnClosed,
                RejectedReadsClock, RetryAfter, Crashes
        <3> QED  BY <3>1, <3>2
    <2>7. CASE Crashes(r, "allow_clock") \/ LogState(r) \/ ReplyState(r)
        <3>1. UNCHANGED breakerVars
            BY <2>7, Zenon DEF Crashes, LogState, ReplyState, StateAtOnce,
                               StateReadsClock, StateAfterClock
        <3>2. InFlight \subseteq InFlight'
            BY <2>7, SMT DEF Crashes, LogState, ReplyState, StateAtOnce,
                             StateReadsClock, StateAfterClock
        <3> QED  BY <3>1, <3>2
    <2> QED  BY <1>2, <2>1, <2>2, <2>3, <2>4, <2>5, <2>6, <2>7
             DEF Step, Allow, Call
<1> QED  BY <1>1, <1>2 DEF Next

(* The half-open slot is never left taken by nobody, however many threads   *)
(* race for it and whatever the threshold and the cooldown are.             *)
THEOREM SlotAlwaysHeld == Spec => []SlotIsHeld
<1>1. Init => SlotIsHeld
    BY DEF Init, BreakerInit, SlotIsHeld
<1>2. TypeOK /\ SlotIsHeld /\ [Next]_vars => SlotIsHeld'
    BY SlotStep
<1> QED  BY <1>1, <1>2, TypeCorrect, PTL DEF Spec

-----------------------------------------------------------------------------
(* While the circuit is open and cooling, no step lets a request through:   *)
(* the reading a probe was admitted on is not later than the clock.         *)
LEMMA AdmissionStep ==
    ASSUME TypeOK, [Next]_vars, NEW q \in Requests,
           pc[q] # "calling", pc'[q] = "calling"
    PROVE  ~IsOpen \/ CooldownOver
<1> USE BreakerAssumption
        DEF TypeOK, BreakerTypeOK, IsOpen, CooldownOver, requestVars, Goto
<1>1. CASE Tick \/ UNCHANGED vars
    BY <1>1, SMT DEF Tick, vars
<1>2. ASSUME NEW r \in Requests, Step(r)
      PROVE  ~IsOpen \/ CooldownOver
    <2>1. CASE AllowOnClosed(r)
        BY <2>1, SMT DEF AllowOnClosed
    <2>2. CASE AllowedAsProbe(r)
        BY <2>2, SMT DEF AllowedAsProbe, TakeSlot, Cooled
    <2>3. CASE RetrievalFails(r) \/ Health(r) \/ RefusedAtOnce(r)
               \/ AllowReadsClock(r) \/ RefusedWhileCooling(r)
               \/ Crashes(r, "allow_clock") \/ Reject(r)
        BY <2>3, SMT DEF RetrievalFails, Health, RefusedAtOnce,
               AllowReadsClock, RefusedWhileCooling, Crashes, Reject,
               RejectedOnClosed, RejectedReadsClock, RetryAfter
    <2>4. CASE Call(r) \/ LogState(r) \/ ReplyState(r)
        BY <2>4, SMT DEF Call, ProviderAnswers, FailureCounted,
               FailureReadsClock, FailureOpens, LogState, ReplyState,
               StateAtOnce, StateReadsClock, StateAfterClock, Crashes
    <2> QED  BY <1>2, <2>1, <2>2, <2>3, <2>4 DEF Step, Allow
<1> QED  BY <1>1, <1>2 DEF Next

(* allow() admits nobody to an open circuit whose cooldown is not over.     *)
THEOREM AdmissionSafe == Spec => OpenAdmitsNobody
<1>1. TypeOK /\ [Next]_vars =>
        [\A r \in Requests :
          pc[r] # "calling" /\ pc'[r] = "calling" => ~IsOpen \/ CooldownOver]_vars
    BY AdmissionStep
<1> QED  BY <1>1, TypeCorrect, PTL DEF Spec, OpenAdmitsNobody

-----------------------------------------------------------------------------
(* The count of failures and the failures that happened.                    *)
LEMMA FailedIsFinite ==
    /\ IsFiniteSet(Failed) /\ Cardinality(Failed) \in Nat
    /\ IsFiniteSet(Failed)' /\ Cardinality(Failed)' \in Nat
<1>1. Failed \in SUBSET Requests /\ Failed' \in SUBSET Requests
    BY DEF Failed
<1> QED  BY <1>1, FS_Subset, FS_CardinalityType, AskAssumption

(* No step gives an outcome to a request that is not accounted for. *)
LEMMA UndecidedStep ==
    ASSUME TypeOK, UndecidedHasNone, [Next]_vars
    PROVE  UndecidedHasNone'
<1> USE DEF TypeOK, UndecidedHasNone, Undecided, requestVars, Goto
<1>1. CASE Tick \/ UNCHANGED vars
    BY <1>1 DEF Tick, vars
<1>2. ASSUME NEW r \in Requests, Step(r)
      PROVE  UndecidedHasNone'
    <2>1. CASE RetrievalFails(r) \/ Health(r) \/ Allow(r)
        BY <2>1, SMT DEF RetrievalFails, Health, Allow, AllowOnClosed,
               RefusedAtOnce, AllowReadsClock, AllowedAsProbe,
               RefusedWhileCooling, Crashes
    <2>2. CASE Reject(r) \/ Call(r)
        BY <2>2, SMT DEF Reject, RejectedOnClosed, RejectedReadsClock,
               RetryAfter, Crashes, Call, ProviderAnswers, FailureCounted,
               FailureReadsClock, FailureOpens, Count
    <2>3. CASE LogState(r) \/ ReplyState(r)
        BY <2>3, SMT DEF LogState, ReplyState, StateAtOnce, StateReadsClock,
               StateAfterClock, Crashes
    <2> QED  BY <1>2, <2>1, <2>2, <2>3 DEF Step
<1> QED  BY <1>1, <1>2 DEF Next

(* A failure is never forgotten, and one that is counted is a new one. *)
LEMMA FailedGrows ==
    ASSUME TypeOK, UndecidedHasNone, [Next]_vars
    PROVE  /\ Failed \subseteq Failed'
           /\ \A r \in Requests : FailureCounted(r) \/ FailureReadsClock(r)
                 => Failed' = Failed \cup {r} /\ r \notin Failed
<1> USE AskAssumption
        DEF TypeOK, UndecidedHasNone, Undecided, Outcomes, Failed,
            requestVars, Goto
<1>1. CASE Tick \/ UNCHANGED vars
    BY <1>1, SMT DEF Tick, vars, FailureCounted, FailureReadsClock
<1>2. ASSUME NEW r \in Requests, Step(r)
      PROVE  Failed \subseteq Failed'
    <2>1. CASE RetrievalFails(r) \/ Health(r) \/ Allow(r)
        BY <2>1, SMT DEF RetrievalFails, Health, Allow, AllowOnClosed,
               RefusedAtOnce, AllowReadsClock, AllowedAsProbe,
               RefusedWhileCooling, Crashes
    <2>2. CASE Reject(r) \/ Call(r)
        BY <2>2, SMT DEF Reject, RejectedOnClosed, RejectedReadsClock,
               RetryAfter, Crashes, Call, ProviderAnswers, FailureCounted,
               FailureReadsClock, FailureOpens, Count
    <2>3. CASE LogState(r) \/ ReplyState(r)
        BY <2>3, SMT DEF LogState, ReplyState, StateAtOnce, StateReadsClock,
               StateAfterClock, Crashes
    <2> QED  BY <1>2, <2>1, <2>2, <2>3 DEF Step
<1>3. ASSUME NEW r \in Requests, FailureCounted(r) \/ FailureReadsClock(r)
      PROVE  Failed' = Failed \cup {r} /\ r \notin Failed
    BY <1>3, SMT DEF FailureCounted, FailureReadsClock, Count
<1> QED  BY <1>1, <1>2, <1>3 DEF Next

(* The step of the threshold invariant: a thread that opens the circuit has *)
(* just added its own failure to those the count was earned by.             *)
LEMMA ThresholdStep ==
    ASSUME TypeOK, SlotIsHeld, Strengthening, [Next]_vars
    PROVE  Strengthening'
<1>1. UndecidedHasNone'
    BY UndecidedStep DEF Strengthening
<1>2. /\ Failed \subseteq Failed'
      /\ Cardinality(Failed) <= Cardinality(Failed')
    BY FailedGrows, FailedIsFinite, FS_Subset DEF Strengthening
<1>3. \A r \in Requests : FailureCounted(r) \/ FailureReadsClock(r)
        => Cardinality(Failed') = Cardinality(Failed) + 1
    BY FailedGrows, FailedIsFinite, FS_AddElement DEF Strengthening
<1> DEFINE
      Opening == \E r \in Requests : pc[r] = "fail_clock"
      Goal == /\ consecutive_failures' <= Cardinality(Failed')
              /\ IsOpen' \/ Opening' => \/ IsOpen \/ Opening
                                       \/ Cardinality(Failed') >= failure_threshold
<1>4. Goal
    <2> USE <1>2, <1>3, FailedIsFinite, BreakerAssumption
            DEF Strengthening, CountIsEarned, TypeOK, BreakerTypeOK,
                breakerVars, requestVars, IsOpen, Goto
    <2>1. CASE Tick \/ UNCHANGED vars
        BY <2>1, SMT DEF Tick, vars
    <2>2. ASSUME NEW r \in Requests, Step(r)
          PROVE  Goal
        <3>1. CASE ProviderAnswers(r)
            BY <3>1, SMT DEF ProviderAnswers, record_success
        <3>2. CASE FailureCounted(r)
            <4>1. Cardinality(Failed') = Cardinality(Failed) + 1
                BY <3>2, <1>3
            <4> HIDE <1>3
            <4> QED  BY <3>2, <4>1, SMT DEF FailureCounted, CountFailure
        <3>3. CASE FailureReadsClock(r)
            <4>1. Cardinality(Failed') = Cardinality(Failed) + 1
                BY <3>3, <1>3
            <4> HIDE <1>3
            <4> QED  BY <3>3, <4>1, SMT
                     DEF FailureReadsClock, CountFailure, Trips, SlotIsHeld,
                         OpensAfterThreshold
        <3>4. CASE FailureOpens(r)
            BY <3>4, SMT DEF FailureOpens, OpenAt
        <3>5. CASE RetrievalFails(r) \/ Health(r) \/ Allow(r)
            BY <3>5, SMT DEF RetrievalFails, Health, Allow, AllowOnClosed,
                   RefusedAtOnce, AllowReadsClock, AllowedAsProbe, TakeSlot,
                   RefusedWhileCooling, Crashes
        <3>6. CASE Reject(r) \/ LogState(r) \/ ReplyState(r)
            BY <3>6, SMT DEF Reject, RejectedOnClosed, RejectedReadsClock,
                   RetryAfter, Crashes, LogState, ReplyState, StateAtOnce,
                   StateReadsClock, StateAfterClock
        <3> QED  BY <2>2, <3>1, <3>2, <3>3, <3>4, <3>5, <3>6 DEF Step, Call
    <2> QED  BY <2>1, <2>2 DEF Next
<1>5. CountIsEarned'
    BY <1>4 DEF CountIsEarned
<1>6. OpensAfterThreshold'
    BY <1>2, <1>4, FailedIsFinite, BreakerAssumption, SMT
    DEF Strengthening, OpensAfterThreshold
<1> QED  BY <1>1, <1>5, <1>6 DEF Strengthening

(* The circuit opens only after failure_threshold calls have failed.        *)
THEOREM OpensLateEnough == Spec => []OpensAfterThreshold
<1>1. Init => Strengthening
  <2> SUFFICES ASSUME Init PROVE Strengthening
      OBVIOUS
  <2>1. UndecidedHasNone /\ OpensAfterThreshold
      BY DEF Init, BreakerInit, UndecidedHasNone, OpensAfterThreshold, IsOpen
  <2>2. CountIsEarned
      BY FailedIsFinite DEF Init, BreakerInit, CountIsEarned
  <2> QED  BY <2>1, <2>2 DEF Strengthening
<1>2. TypeOK /\ SlotIsHeld /\ Strengthening /\ [Next]_vars => Strengthening'
    BY ThresholdStep
<1>3. Strengthening => OpensAfterThreshold
    BY DEF Strengthening
<1> QED  BY <1>1, <1>2, <1>3, TypeCorrect, SlotAlwaysHeld, PTL DEF Spec

-----------------------------------------------------------------------------
(* Refinement: every step of the threads is a step of the contract or none. *)

(* A step that touches neither breaker nor clock nor the calls in flight.   *)
LEMMA Stutter ==
    ASSUME UNCHANGED <<clock, breakerVars>>, InFlight' = InFlight
    PROVE  UNCHANGED Contract!contractVars
BY DEF Contract!contractVars, IsOpen, CooldownOver, breakerVars

(* Every step of the threads is a step of the contract, or none. *)
LEMMA ContractStep ==
    ASSUME TypeOK, SlotIsHeld, [Next]_vars
    PROVE  [Contract!Next]_(Contract!contractVars)
<1> USE BreakerAssumption
        DEF TypeOK, BreakerTypeOK, InFlight, breakerVars, requestVars, Goto,
            IsOpen, CooldownOver, Contract!contractVars
<1>1. CASE UNCHANGED vars
    BY <1>1 DEF vars
<1>2. CASE Tick
    <2>1. InFlight' = InFlight
        BY <1>2 DEF Tick
    <2>2. CASE ~IsOpen
        BY <1>2, <2>1, <2>2 DEF Tick
    <2>3. CASE CooldownOver' = CooldownOver
        BY <1>2, <2>1, <2>3 DEF Tick
    <2>4. CASE IsOpen /\ ~CooldownOver /\ CooldownOver'
        BY <1>2, <2>1, <2>4 DEF Tick, Contract!Next, Contract!CoolDown
    <2>5. CooldownOver => CooldownOver'
        BY <1>2, SMT DEF Tick
    <2> QED  BY <2>2, <2>3, <2>4, <2>5
<1>3. ASSUME NEW r \in Requests, Step(r)
      PROVE  [Contract!Next]_(Contract!contractVars)
    <2>1. CASE AllowOnClosed(r)
        <3>1. r \notin InFlight /\ InFlight' = InFlight \cup {r}
            BY <2>1, SMT DEF AllowOnClosed
        <3> QED  BY <2>1, <3>1
                 DEF AllowOnClosed, Contract!Next, Contract!CallWhileClosed
    <2>2. CASE AllowedAsProbe(r)
        <3>1. r \notin InFlight /\ InFlight' = InFlight \cup {r}
            BY <2>2, SMT DEF AllowedAsProbe
        <3>2. CooldownOver
            BY <2>2, SMT DEF AllowedAsProbe, TakeSlot, Cooled
        <3>3. probing' = TRUE /\ UNCHANGED <<clock, opened_at>>
            BY <2>2 DEF AllowedAsProbe, TakeSlot
        <3> QED  BY <3>1, <3>2, <3>3 DEF Contract!Next, Contract!CallAsProbe
    <2>3. CASE ProviderAnswers(r)
        <3>1. r \in InFlight /\ InFlight' = InFlight \ {r}
            BY <2>3, SMT DEF ProviderAnswers
        <3> QED  BY <2>3, <3>1
                 DEF ProviderAnswers, record_success, Contract!Next, Contract!Answered
    <2>4. CASE FailureCounted(r)
        <3>1. r \in InFlight /\ InFlight' = InFlight \ {r}
            BY <2>4, SMT DEF FailureCounted
        <3> QED  BY <2>4, <3>1
                 DEF FailureCounted, CountFailure, Trips,
                     Contract!Next, Contract!FailedQuietly
    <2>5. CASE FailureReadsClock(r)
        <3>1. InFlight' = InFlight
            BY <2>5, SMT DEF FailureReadsClock
        <3> QED  BY <2>5, <3>1 DEF FailureReadsClock, CountFailure
    <2>6. CASE FailureOpens(r)
        <3>1. r \in InFlight /\ InFlight' = InFlight \ {r}
            BY <2>6, SMT DEF FailureOpens
        <3>2. IsOpen' /\ CooldownOver' \in BOOLEAN
            BY <2>6, SMT DEF FailureOpens, OpenAt
        <3> QED  BY <2>6, <3>1, <3>2
                 DEF FailureOpens, OpenAt, Contract!Next, Contract!FailedAndOpened
    <2>7. CASE RetrievalFails(r) \/ Health(r) \/ RefusedAtOnce(r)
               \/ AllowReadsClock(r) \/ RefusedWhileCooling(r)
               \/ Crashes(r, "allow_clock") \/ Reject(r)
        <3> USE DEF RetrievalFails, Health, RefusedAtOnce, AllowReadsClock,
                    RefusedWhileCooling, Crashes, Reject, RejectedOnClosed,
                    RejectedReadsClock, RetryAfter
        <3>1. UNCHANGED <<clock, breakerVars>>
            BY <2>7, Zenon
        <3>2. InFlight' = InFlight
            BY <2>7, SMT
        <3> QED  BY <3>1, <3>2, Stutter
    <2>8. CASE LogState(r) \/ ReplyState(r)
        <3> USE DEF LogState, ReplyState, StateAtOnce, StateReadsClock,
                    StateAfterClock, Crashes
        <3>1. UNCHANGED <<clock, breakerVars>>
            BY <2>8, Zenon
        <3>2. InFlight' = InFlight
            BY <2>8, SMT
        <3> QED  BY <3>1, <3>2, Stutter
    <2> QED  BY <1>3, <2>1, <2>2, <2>3, <2>4, <2>5, <2>6, <2>7, <2>8
             DEF Step, Allow, Call
<1> QED  BY <1>1, <1>2, <1>3 DEF Next

(* The threads of PolicyAsk implement CircuitContract.                      *)
THEOREM ImplementsCircuitContract == Spec => ImplementsContract
<1>1. Init => Contract!Init
    BY DEF Init, BreakerInit, Contract!Init, IsOpen, CooldownOver, InFlight
<1>2. TypeOK /\ SlotIsHeld /\ [Next]_vars
        => [Contract!Next]_(Contract!contractVars)
    BY ContractStep
<1> QED  BY <1>1, <1>2, TypeCorrect, SlotAlwaysHeld, PTL
         DEF Spec, ImplementsContract, Contract!Spec
=============================================================================
