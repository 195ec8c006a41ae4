\* Four requests, two failures to open: one caller admitted on the closed
\* circuit can outlive an opening, a cooldown and a probe.
CONSTANTS
    failure_threshold = 2
    cooldown_s = 2
    Horizon = 3
    MaxSuspension = 3
    None = None
    Requests = {r1, r2, r3, r4}

SPECIFICATION Spec
SYMMETRY Symmetry

INVARIANTS
    TypeOK
    SlotIsHeld
    OpensAfterThreshold

\* Every request has been answered and the clock is at its bound.
CHECK_DEADLOCK FALSE
