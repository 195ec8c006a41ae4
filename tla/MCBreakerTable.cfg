\* Four requests: two that race to make a breaker, and two more that find one of
\* them, for any of the three providers, one of which has two spellings, and
\* any setting; two failures open a circuit.
CONSTANTS
    None = None
    Requests = {r1, r2, r3, r4}
    Names <- MCNames
    Lower <- MCLower
    failure_threshold = 2

SPECIFICATION Spec

INVARIANTS
    TypeOK
    FailuresStayWithProvider
    OnlyFirstCallersStray

SYMMETRY MCSymmetry

\* The service waits for more requests when all have ended.
CHECK_DEADLOCK FALSE
