\* Every failure opens the circuit, so three requests reach re-openings,
\* second probes and late reports; time for three cooldowns.
CONSTANTS
    failure_threshold = 1
    cooldown_s = 1
    Horizon = 3
    MaxSuspension = 3
    None = None
    Requests = {r1, r2, r3}

SPECIFICATION FairSpec

PROPERTIES
    OpenAdmitsNobody
    ImplementsContract
    ProbeResolves

\* Every request has been answered and the clock is at its bound.
CHECK_DEADLOCK FALSE
