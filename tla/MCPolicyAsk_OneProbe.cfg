\* Two failures open the circuit. MaxSuspension = 0: the clock does not advance
\* while a thread is between its clock call and the use of the result, so the
\* trace needs no long suspension.
CONSTANTS
    failure_threshold = 2
    cooldown_s = 2
    Horizon = 3
    MaxSuspension = 0
    None = None
    Requests = {r1, r2, r3, r4}

SPECIFICATION Spec

INVARIANT OneProbe

\* Every request has been answered and the clock is at its bound.
CHECK_DEADLOCK FALSE
