--------------------------- MODULE ProviderBreaker ---------------------------
(***************************************************************************)
(* gateway/circuit.py: the circuit breaker in front of one LLM provider.   *)
(*                                                                         *)
(* The class has no lock, and /ask and /health are served by a pool of     *)
(* threads that share one breaker.  In the interpreter this project        *)
(* requires (CPython 3.12) another thread can run only when a function is  *)
(* entered or a C function such as time.monotonic has just returned.  A    *)
(* method that calls self.clock() is therefore two operators here: what it *)
(* does up to the call, and what it does with the reading t afterwards,    *)
(* when opened_at may no longer be what it was.  A method that does not    *)
(* call the clock is one operator.                                         *)
(***************************************************************************)
EXTENDS Integers

CONSTANTS
    failure_threshold,  \* consecutive failures that open the circuit
    cooldown_s,         \* clock ticks before a probe is let through
    None                \* Python's None

ASSUME BreakerAssumption ==
    /\ failure_threshold \in Nat \ {0}
    /\ cooldown_s \in Nat
    /\ None \notin Int

VARIABLES
    clock,                  \* what time.monotonic() returns now
    consecutive_failures,   \* failures recorded since the last success
    opened_at,              \* clock reading at which the circuit opened, or None
    probing                 \* the half-open slot is taken

breakerVars == <<consecutive_failures, opened_at, probing>>

BreakerInit ==
    /\ consecutive_failures = 0
    /\ opened_at = None
    /\ probing = FALSE

IsOpen == opened_at # None

(***************************************************************************)
(* allow(), state and retry_after_s() all return at once on a closed       *)
(* circuit; allow() and state also return at once on a taken slot.  In the *)
(* other cases they read the clock and go on with the reading.             *)
(***************************************************************************)
SlotTaken == IsOpen /\ probing
MustReadClock == IsOpen /\ ~probing

(***************************************************************************)
(* After the reading: clock() - None raises TypeError when a success has   *)
(* closed the circuit in between.                                          *)
(***************************************************************************)
SubtractsNone == ~IsOpen

Cooled_EarlyByOne(t) == IsOpen /\ t - opened_at >= cooldown_s - 1

Cooled(t) == IsOpen /\ t - opened_at >= cooldown_s

(***************************************************************************)
(* allow() with the reading t, cooldown elapsed: the caller becomes the    *)
(* probe.  The flag is not tested again, so a second caller that passed    *)
(* MustReadClock before this step takes the slot as well.                  *)
(***************************************************************************)
TakeSlot(t) ==
    /\ Cooled(t)
    /\ probing' = TRUE
    /\ UNCHANGED <<consecutive_failures, opened_at>>

record_success_decays ==
    /\ consecutive_failures' = consecutive_failures - 1
    /\ opened_at' = None
    /\ probing' = FALSE

record_success_keeps_slot ==
    /\ consecutive_failures' = 0
    /\ opened_at' = None
    /\ UNCHANGED probing

record_success ==
    /\ consecutive_failures' = 0
    /\ opened_at' = None
    /\ probing' = FALSE

(***************************************************************************)
(* record_failure() up to the clock: count, then decide whether to open.   *)
(***************************************************************************)
CountFailure ==
    /\ consecutive_failures' = consecutive_failures + 1
    /\ UNCHANGED <<opened_at, probing>>

Trips_OneEarly == probing \/ consecutive_failures + 2 >= failure_threshold

Trips == probing \/ consecutive_failures + 1 >= failure_threshold

(***************************************************************************)
(* record_failure() with the reading t: open, and free the probe slot.     *)
(***************************************************************************)
OpenAt_keeps_slot(t) ==
    /\ opened_at' = t
    /\ UNCHANGED <<consecutive_failures, probing>>

OpenAt(t) ==
    /\ opened_at' = t
    /\ probing' = FALSE
    /\ UNCHANGED consecutive_failures

BreakerTypeOK ==
    /\ clock \in Nat
    /\ consecutive_failures \in Nat
    /\ opened_at \in Nat \cup {None}
    /\ probing \in BOOLEAN
==============================================================================
