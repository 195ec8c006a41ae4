\* Two threads searching while the four documents are written, edited in one
\* clause, left half-written or killed; or the whole evaluation script.
CONSTANTS
    None = None
    Absent = Absent
    Callers = {c1, c2}
    Dropped = {"dispute"}
    amount_tolerance = 2
    max_tax_rate = 30
    due_days_approval = 60
    due_days_max = 120

SPECIFICATION Spec

INVARIANTS
    IndexTypeOK
    IndexIsRegular
    CoverageIsRight
    ScriptSearchesWhatItWrote

PROPERTY IndexSettles

CHECK_DEADLOCK FALSE
