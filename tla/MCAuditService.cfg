CONSTANTS
    None = None
    Unreadable = Unreadable
    Uploads = {u1, u2}
    Pages <- MCPages
    Indexes <- MCIndexes
    amount_tolerance = 2
    max_tax_rate = 30
    due_days_approval = 60
    due_days_max = 120
    min_confidence_flag = 60

SPECIFICATION Spec

INVARIANTS
    TypeOK
    TempFilesRemoved
    MetricsReflectAudits
    CitationsGovern

PROPERTY EveryUploadEnds

\* The service waits for more requests when all have ended.
CHECK_DEADLOCK FALSE
