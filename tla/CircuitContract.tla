--------------------------- MODULE CircuitContract ---------------------------
(***************************************************************************)
(* What a circuit in front of an LLM provider promises, whatever the       *)
(* threads behind it do, without counters, clock readings or methods:      *)
(*                                                                         *)
(*   - while the circuit is open nobody calls the provider until the       *)
(*     cooldown is over;                                                   *)
(*   - only an answer of the provider closes it, only a failure opens it;  *)
(*   - the half-open slot is taken by a caller whose call is in flight,    *)
(*     and whoever leaves, leaves the slot free.                           *)
(*                                                                         *)
(* It does not promise that the slot has a single holder: the code does    *)
(* not keep that promise (see OneProbe in PolicyAsk).                      *)
(***************************************************************************)
CONSTANT Callers

VARIABLES
    open,       \* calls are being refused
    cooled,     \* the cooldown of the open circuit is over
    busy,       \* the half-open slot is taken
    inflight    \* callers let through whose result is not recorded

contractVars == <<open, cooled, busy, inflight>>

Init ==
    /\ open = FALSE
    /\ cooled = FALSE
    /\ busy = FALSE
    /\ inflight = {}

CallWhileClosed(c) ==
    /\ ~open
    /\ c \notin inflight
    /\ inflight' = inflight \cup {c}
    /\ UNCHANGED <<open, cooled, busy>>

CoolDown ==
    /\ open
    /\ cooled' = TRUE
    /\ UNCHANGED <<open, busy, inflight>>

CallAsProbe(c) ==
    /\ open /\ cooled
    /\ c \notin inflight
    /\ busy' = TRUE
    /\ inflight' = inflight \cup {c}
    /\ UNCHANGED <<open, cooled>>

Answered(c) ==
    /\ c \in inflight
    /\ open' = FALSE
    /\ cooled' = FALSE
    /\ busy' = FALSE
    /\ inflight' = inflight \ {c}

(* A failure that does not open the circuit is possible on a free slot only. *)
FailedQuietly(c) ==
    /\ c \in inflight
    /\ ~busy
    /\ inflight' = inflight \ {c}
    /\ UNCHANGED <<open, cooled, busy>>

(* The clock may have advanced past the cooldown since the failure was timed. *)
FailedAndOpened(c) ==
    /\ c \in inflight
    /\ open' = TRUE
    /\ cooled' \in BOOLEAN
    /\ busy' = FALSE
    /\ inflight' = inflight \ {c}

Next ==
    \/ CoolDown
    \/ \E c \in Callers :
          \/ CallWhileClosed(c)
          \/ CallAsProbe(c)
          \/ Answered(c)
          \/ FailedQuietly(c)
          \/ FailedAndOpened(c)

Spec == Init /\ [][Next]_contractVars

(***************************************************************************)
(* A taken slot belongs to an open circuit and to a call in flight: the    *)
(* circuit cannot be stuck half-open with nobody left to report.           *)
(***************************************************************************)
SlotIsHeld == busy => open /\ inflight # {}
==============================================================================
