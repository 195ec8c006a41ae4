CONSTANTS
    None = None
    NaN = NaN
    amount_tolerance = 2
    max_tax_rate = 30
    due_days_approval = 60
    due_days_max = 120
    Values = {0, 30, 33, 100, 102, 130}
    Trees <- MCTrees
    Reads <- MCReads

SPECIFICATION Spec

INVARIANTS
    TypeOK
    EnginesAgree
    NoneShortCircuits

CONSTRAINT TwoFields

\* evaluate() returns.
CHECK_DEADLOCK FALSE
