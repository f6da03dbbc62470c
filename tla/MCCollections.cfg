SPECIFICATION Spec
CONSTANTS
    Collections = {c1, c2}
    Sweeps = {c1, c2}
    MaxRuns = 2
    MaxDue = 1
    MaxAsked = 2
    Tickers = {t1, t2}
    Requesters = {q1}
    MayStall = {}
SYMMETRY Symmetric
INVARIANTS CollectionsSound
PROPERTIES SuccessStands
CHECK_DEADLOCK FALSE
