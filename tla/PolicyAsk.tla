------------------------------ MODULE PolicyAsk ------------------------------
(***************************************************************************)
(* gateway/policy_qa.py, guarded_ask: concurrent /ask and /health requests *)
(* over one ProviderBreaker.  Each request is served by one thread of the  *)
(* pool and runs once.  An action is the code between two points at which  *)
(* another thread can run (see ProviderBreaker).  REGISTRY.inc, under its  *)
(* own lock and read by nobody here, is part of the action it follows.     *)
(***************************************************************************)
EXTENDS ProviderBreaker, FiniteSets

CONSTANTS
    Requests,   \* the requests ever made
    Horizon,    \* bound: the clock stops here
    MaxSuspension   \* bound: ticks a thread may spend between a clock call
                    \* and the use of its result

VARIABLES
    pc,         \* where each request is
    reading,    \* the clock reading a request holds across a switch
    outcome,    \* the outcome label ledgerlens_ask_total was incremented with
    probes      \* history: requests let through as probes, not yet recorded

requestVars == <<pc, reading, outcome, probes>>
vars == <<clock, breakerVars, requestVars>>

Outcomes == {"answered", "degraded", "rejected"}

ASSUME AskAssumption ==
    /\ IsFiniteSet(Requests)
    /\ Horizon \in Nat
    /\ MaxSuspension \in Nat
    /\ None \notin Outcomes

Running == {"new", "allow_clock", "refused", "retry_clock", "calling",
            "fail_clock", "log", "log_clock", "state", "state_clock"}
Finished == {"replied", "retrieval_failed", "crashed"}

HoldsReading == {"allow_clock", "retry_clock", "fail_clock", "log_clock",
                 "state_clock"}

Init ==
    /\ BreakerInit
    /\ clock = 0
    /\ pc = [r \in Requests |-> "new"]
    /\ reading = [r \in Requests |-> 0]
    /\ outcome = [r \in Requests |-> None]
    /\ probes = {}

Goto(r, from, to) ==
    /\ pc[r] = from
    /\ pc' = [pc EXCEPT ![r] = to]

ReadClock(r) == reading' = [reading EXCEPT ![r] = clock]
DropReading(r) == reading' = [reading EXCEPT ![r] = 0]
Count(r, o) == outcome' = [outcome EXCEPT ![r] = o]

-----------------------------------------------------------------------------
(* Retrieval comes before allow(): its failures never reach the breaker.    *)

RetrievalFails_after_allow(r) ==
    /\ Goto(r, "calling", "retrieval_failed")
    /\ UNCHANGED <<clock, breakerVars, reading, outcome, probes>>

RetrievalFails(r) ==
    /\ Goto(r, "new", "retrieval_failed")
    /\ UNCHANGED <<clock, breakerVars, reading, outcome, probes>>

(* breaker.allow() up to the clock *)
AllowOnClosed(r) ==
    /\ ~IsOpen
    /\ Goto(r, "new", "calling")
    /\ UNCHANGED <<clock, breakerVars, reading, outcome, probes>>

RefusedAtOnce(r) ==
    /\ SlotTaken
    /\ Goto(r, "new", "refused")
    /\ UNCHANGED <<clock, breakerVars, reading, outcome, probes>>

AllowReadsClock(r) ==
    /\ MustReadClock
    /\ Goto(r, "new", "allow_clock")
    /\ ReadClock(r)
    /\ UNCHANGED <<clock, breakerVars, outcome, probes>>

(* breaker.allow() after the clock *)
AllowedAsProbe(r) ==
    /\ TakeSlot(reading[r])
    /\ Goto(r, "allow_clock", "calling")
    /\ DropReading(r)
    /\ probes' = probes \cup {r}
    /\ UNCHANGED <<clock, outcome>>

RefusedWhileCooling(r) ==
    /\ IsOpen /\ ~Cooled(reading[r])
    /\ Goto(r, "allow_clock", "refused")
    /\ DropReading(r)
    /\ UNCHANGED <<clock, breakerVars, outcome, probes>>

(* A method subtracts opened_at after another thread has set it to None. *)
Crashes(r, at) ==
    /\ SubtractsNone
    /\ Goto(r, at, "crashed")
    /\ DropReading(r)
    /\ UNCHANGED <<clock, breakerVars, outcome, probes>>

-----------------------------------------------------------------------------
(* The rejected branch: count, then retry_after_s() for the reason.         *)

RejectedOnClosed(r) ==
    /\ ~IsOpen
    /\ Goto(r, "refused", "state")
    /\ Count(r, "rejected")
    /\ UNCHANGED <<clock, breakerVars, reading, probes>>

RejectedReadsClock(r) ==
    /\ IsOpen
    /\ Goto(r, "refused", "retry_clock")
    /\ Count(r, "rejected")
    /\ ReadClock(r)
    /\ UNCHANGED <<clock, breakerVars, probes>>

RetryAfter(r) ==
    /\ IsOpen
    /\ Goto(r, "retry_clock", "state")
    /\ DropReading(r)
    /\ UNCHANGED <<clock, breakerVars, outcome, probes>>

-----------------------------------------------------------------------------
(* The provider call and its report.                                        *)

ProviderAnswers(r) ==
    /\ Goto(r, "calling", "state")
    /\ record_success
    /\ Count(r, "answered")
    /\ probes' = probes \ {r}
    /\ UNCHANGED <<clock, reading>>

FailureCounted(r) ==
    /\ ~Trips
    /\ Goto(r, "calling", "log")
    /\ CountFailure
    /\ Count(r, "degraded")
    /\ probes' = probes \ {r}
    /\ UNCHANGED <<clock, reading>>

FailureReadsClock(r) ==
    /\ Trips
    /\ Goto(r, "calling", "fail_clock")
    /\ CountFailure
    /\ ReadClock(r)
    /\ UNCHANGED <<clock, outcome, probes>>

FailureOpens(r) ==
    /\ Goto(r, "fail_clock", "log")
    /\ OpenAt(reading[r])
    /\ Count(r, "degraded")
    /\ DropReading(r)
    /\ probes' = probes \ {r}
    /\ UNCHANGED clock

-----------------------------------------------------------------------------
(* breaker.state, read for the log line, for the reply, and by /health.     *)

StateAtOnce(r, at, to) ==
    /\ ~MustReadClock
    /\ Goto(r, at, to)
    /\ UNCHANGED <<clock, breakerVars, reading, outcome, probes>>

StateReadsClock(r, at, waiting) ==
    /\ MustReadClock
    /\ Goto(r, at, waiting)
    /\ ReadClock(r)
    /\ UNCHANGED <<clock, breakerVars, outcome, probes>>

StateAfterClock(r, waiting, to) ==
    /\ IsOpen
    /\ Goto(r, waiting, to)
    /\ DropReading(r)
    /\ UNCHANGED <<clock, breakerVars, outcome, probes>>

(* GET /health of this provider: a request that only reads the state. *)
Health(r) ==
    /\ Goto(r, "new", "state")
    /\ UNCHANGED <<clock, breakerVars, reading, outcome, probes>>

Tick ==
    /\ clock < Horizon
    /\ \A r \in Requests :
          pc[r] \in HoldsReading => clock - reading[r] < MaxSuspension
    /\ clock' = clock + 1
    /\ UNCHANGED <<breakerVars, requestVars>>

-----------------------------------------------------------------------------
(* What the thread of a request does once the request has arrived. *)
Allow(r) ==
    \/ AllowOnClosed(r) \/ RefusedAtOnce(r) \/ AllowReadsClock(r)
    \/ AllowedAsProbe(r) \/ RefusedWhileCooling(r) \/ Crashes(r, "allow_clock")

Reject(r) ==
    \/ RejectedOnClosed(r) \/ RejectedReadsClock(r)
    \/ RetryAfter(r) \/ Crashes(r, "retry_clock")

Call(r) ==
    \/ ProviderAnswers(r) \/ FailureCounted(r)
    \/ FailureReadsClock(r) \/ FailureOpens(r)

LogState(r) ==
    \/ StateAtOnce(r, "log", "state") \/ StateReadsClock(r, "log", "log_clock")
    \/ StateAfterClock(r, "log_clock", "state") \/ Crashes(r, "log_clock")

ReplyState(r) ==
    \/ StateAtOnce(r, "state", "replied")
    \/ StateReadsClock(r, "state", "state_clock")
    \/ StateAfterClock(r, "state_clock", "replied")
    \/ Crashes(r, "state_clock")

Step(r) ==
    \/ RetrievalFails(r) \/ Health(r)
    \/ Allow(r) \/ Reject(r) \/ Call(r) \/ LogState(r) \/ ReplyState(r)

Next == Tick \/ \E r \in Requests : Step(r)

Spec == Init /\ [][Next]_vars

(***************************************************************************)
(* A thread that can run is scheduled, and a provider call ends: the HTTP  *)
(* client times out (llm/ollama.py, timeout=300).  Nothing is assumed of   *)
(* the arrival of requests nor of the clock.                               *)
(***************************************************************************)
Report(r) == pc[r] # "new" /\ Step(r)

FairSpec == Spec /\ \A r \in Requests : WF_vars(Report(r))

-----------------------------------------------------------------------------
(***************************************************************************)
(* Properties.                                                             *)
(***************************************************************************)

InFlight == {r \in Requests : pc[r] \in {"calling", "fail_clock"}}

(* Requests whose provider call has raised. *)
Failed == {r \in Requests : pc[r] = "fail_clock" \/ outcome[r] = "degraded"}

(* Every variable has its type, and only a request that is between a clock  *)
(* call and its use holds a reading, never one from the future.             *)
TypeOK ==
    /\ BreakerTypeOK
    /\ pc \in [Requests -> Running \cup Finished]
    /\ reading \in [Requests -> Nat]
    /\ \A r \in Requests :
          /\ reading[r] <= clock
          /\ pc[r] \notin HoldsReading => reading[r] = 0
    /\ outcome \in [Requests -> Outcomes \cup {None}]
    /\ probes \subseteq InFlight
    /\ opened_at # None => opened_at <= clock

(* The half-open slot is never left taken by nobody: allow() refuses every  *)
(* caller while probing is set, so a slot without a call in flight would    *)
(* shut the provider out until the process restarts.  It holds although     *)
(* several threads test, set and clear the flag without a lock.             *)
SlotIsHeld == probing => IsOpen /\ InFlight # {}

(* The circuit is open, or about to be opened by a thread in                *)
(* record_failure(), only after failure_threshold calls have failed: no     *)
(* interleaving of counting, resetting and late opening trips it early.     *)
OpensAfterThreshold ==
    IsOpen \/ (\E r \in Requests : pc[r] = "fail_clock")
        => Cardinality(Failed) >= failure_threshold

(* The cooldown of an open circuit is over now. *)
CooldownOver == IsOpen /\ clock - opened_at >= cooldown_s

(* allow() lets nobody through to the provider while the circuit is open    *)
(* and its cooldown, at the time of the step, is not over, even when the    *)
(* circuit was re-opened between the caller's clock reading and its use.    *)
OpenAdmitsNobody ==
    [][\A r \in Requests :
          pc[r] # "calling" /\ pc'[r] = "calling" => ~IsOpen \/ CooldownOver]_vars

(* The threads implement the contract of a circuit: the slot is the flag,   *)
(* a call is in flight until its result is recorded.                        *)
Contract == INSTANCE CircuitContract WITH
    Callers  <- Requests,
    open     <- IsOpen,
    cooled   <- CooldownOver,
    busy     <- probing,
    inflight <- InFlight

ImplementsContract == Contract!Spec

(* A taken slot is freed again: a half-open circuit always leaves that      *)
(* state, because every call in flight ends and every end frees the slot.   *)
ProbeResolves == probing ~> ~probing

(***************************************************************************)
(* What comments and tests of the repository say, and the threads break.   *)
(***************************************************************************)

(* circuit.py, allow(): in half-open, exactly one probe until it reports.   *)
OneProbe == Cardinality(probes) <= 1

(* policy_qa.py: a caller still receives the excerpts, flagged as degraded, *)
(* instead of a stack trace.                                                *)
NoStackTrace == \A r \in Requests : pc[r] # "crashed"
=============================================================================
