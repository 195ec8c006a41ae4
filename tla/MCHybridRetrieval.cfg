\* One chunk, or four, in every order of the embeddings and with every BM25 score:
\* one hit, where the lists are cut off at three, and two, where they are not.
CONSTANTS
    Sizes = {1, 4}
    TopKs = {1, 2}
    Scores <- MCScores
    RRF_K = 60
    MARGIN_MIN = 2

SPECIFICATION Spec

INVARIANTS
    TypeOK
    HitsAreBest
    AheadInBothIsAhead
    AgreeMeansConsensus
    MarginMeansLead

CHECK_DEADLOCK FALSE
