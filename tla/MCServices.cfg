SPECIFICATION Spec
CONSTANTS
    None = None
    Nobody = Nobody

    Requesters = {w1}
    MaxHeld = 2
    MaxRetries = 1
    Settings <- Rotated
    Lifetimes = {TRUE}

    Procs = {p1, p2}
    Images = {1, 3}
    Oldest <- Stamps
    SiemWebhook = TRUE
    EnvAdmin = {p1}
    MaxCrashes = 1
    MaxDeploys = 1
    MaxDestinationEdits = 1

    Interactive = {i1, i2}
    Background = {b1, b2}
    Direct = {d1}
    WireSlots = 1

    Clerks = {k1, k2}
    MaxCases = 2
    MaxKeys = 3
    MaxClicks = 3
    MaxCaseFaults = 2

    Processes = {w1, w2}
    MaxSecrets = 2
    MaxPresses = 3
    MaxAccessFaults = 1
    MaxAccessDays = 1

    Identities = {"app"}
    Versions = {1, 2}
    Assessments = {"covered"}
    Scalars = {"os"}
    Fields = {"version"}
    Values = {1, 2}
    Definitions = {}
    Labels = {}
    NoFacts = NoFacts
    Devices = {d1, d2}
    Readings <- Upgraded
    HeldFacts <- Installed
    Malformed = Malformed
    Summarizers = {w1, w2}
    Collectors = {c1}
    MayStall = {}
    MaxEvents = 2
    MaxTime = 1
    MaxEdits = 1
    MaxConfigs = 2
    Ttl = 2
    Lease = 2
    CallTime = 1
    Backoff = 1
    MaxAttempts = 2
    MaxPending = 2

    Facts = {1, 2}
    Criteria <- Alternatives
    MaxMoments = 6

    Runs = {sweeping, other}
    Sweeps = {sweeping}
    Builds = {1}
    MaxDay = 1
    MaxMoves = 1

    Tries = 2
    MaxDays = 1
    MaxSends = 1
    MaxChanges = 2
    MaxFaults = 1

    Main = home
    Roles = {admin}
    Admin = admin
    Requests = {r1, r2}
    Life = 1
    MaxAccountChanges = 2
    BreakGlass = {a2}
    Enrolled = {a2}
    Homebodies = {a1, a2}
    MaxHomeCreds = 2
    Travellers = {a1}
    Visits = {r1}
    Tenants = {home, abroad}
    Minters = {admin}
    GuestRoles = {admin}
    MaxCreds = 3
    MaxTravelChanges = 2
INVARIANTS StartupSound LaneSound SubmissionsSound AccessSound SummariesSound CauseIsTold ClosingSound ExchangeSound SessionsSound
PROPERTIES SignInsStand ForwardOnly
CHECK_DEADLOCK FALSE
