SPECIFICATION FairSpec
CONSTANTS
    Collections = {c1}
    Sweeps = {c1}
    MaxRuns = 3
    MaxDue = 2
    MaxAsked = 1
    Tickers = {t1}
    Requesters = {q1}
    MayStall = {t1, q1}
PROPERTIES OutcomeOutlivesProcess DueIsClaimedUnlessWedged
CHECK_DEADLOCK FALSE
