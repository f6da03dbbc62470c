SPECIFICATION FairStores
CONSTANTS
    t1 = t1
    t2 = t2
    p1 = p1
    p2 = p2
    a1 = a1
    b1 = b1
    b2 = b2
    f1 = f1
    r1 = r1
    r2 = r2
    e1 = e1
    s1 = s1
    hourly = hourly
    sync = sync
    refresh = refresh
    Releases = {r1, r2}
    NoRelease = None
    LibraryTenants = {t1}
    LibraryProcesses = {p1}
    Exchanges = {e1}
    Ingests = {s1}
    TaskHome <- OneProcess
    Macs = {d1, d2}
    LibraryBuilds = {b1}
    Lists <- ListsOne
    Settings = {FALSE, TRUE}
    MaxDays = 1
    MaxMoves = 1
    MaxCorpusFaults = 1
    MaxPrunes = 1
    Grace = 0
    NoTenant = None
    Tenants = {t1, t2}
    PatchMacs = {d1}
    Processes = {p1, p2}
    Order <- InTurn
    Jobs = {hourly, sync, refresh}
    KindOf <- Kinds
    JobHome <- Homes
    Caller = t1
    MaxRevisions = 1
    MaxPresses = 1
    MaxJobFaults = 1
    Nothing = None
    Builds = {b1, b2}
    AppOf <- OneApp
    Ids = {f1}
    Listed <- CutForOne
    Selections = {FALSE, TRUE}
    TailTime = 1
    MaxReads = 2
    MaxEdits = 2
    NoDevice = NoRow
    NoPass = NoPass
INVARIANTS CorpusSound  TrackedSound
PROPERTIES ClosesAreTrue  AnswersConverge FindingsConverge
CHECK_DEADLOCK FALSE
