SPECIFICATION LiveSpec
CONSTANTS
    Devices = {d1}
    Sweeps = {s1}
    Webhooks = {w1}
    Refreshes = {r1}
    ReEmits = {e1}
    Narrow = {w1}
    Aperture <- Scopes
    Names = {a, b}
    Apps = {"x"}
    FirstDates = {0, 1}
    FirstName = a
    FirstRecords <- Enrolled
    MaxClock = 2
    MaxVer = 2
    MaxRuns = 1
    Blank = Blank
    Nobody = Nobody
    NoRow = NoRow
INVARIANTS LedgerSound
PROPERTIES LedgerMoves CatchesUp
