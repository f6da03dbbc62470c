SPECIFICATION Spec
CONSTANTS
    Workers = {w1, w2}
    RunIds = {r1, r2}
    Locks = {sweep, hook}
    ExclusiveLocks = {sweep}
    HeartbeatLocks = {sweep}
    StaleAfter = 1
    MaxSaves = 1
    MayHang = {w1, w2}
    NoRun = NoRun
    NoLock = NoLock
INVARIANTS RunsSound
PROPERTIES VerdictStands SoleWriter ImplementsRunLock
