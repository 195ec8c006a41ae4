\* Three invoices: a duplicate, its original and one in between. A vendor
\* without tax and one with 8.25 percent, whose tax is rounded; a crazy tax of
\* half a cent more than a whole one, rounded either way; the largest and the
\* smallest shift of a total, every kind of error.
CONSTANTS
    None = None
    Torn = Torn
    limit = 2
    n_invoices = 3
    Subtotals = {1010}
    Rates <- MCRates
    Terms = {60}
    TotalShifts <- MCTotalShifts
    SubtotalShifts = {300}
    CrazyRates <- MCCrazyRates
    amount_tolerance = 2
    max_tax_rate = 30
    due_days_approval = 60
    due_days_max = 120
    min_confidence_flag = 60

SPECIFICATION ServedSpec

INVARIANT UnreadTotalGoesToReview
