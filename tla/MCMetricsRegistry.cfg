\* Two threads add to a metric with two label sets and to one with one of them,
\* and one reader asks for pages; the registry is reset once.
CONSTANTS
    l1 = l1
    l2 = l2
    Threads = {t1, t2}
    Scrapers = {r1}
    n_names = 2
    Labels = {l1, l2}
    Amounts = {1}
    MaxTotal <- MCMaxTotal
    MaxResets = 1
    NoOne = NoOne
    NoPage = NoPage

SPECIFICATION Spec

INVARIANTS TypeOK NoLostUpdate ScrapeNeverFalls

PROPERTY ImplementsCounters
