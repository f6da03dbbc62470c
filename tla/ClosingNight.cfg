SPECIFICATION Spec
CONSTANTS
    Runs = {s, w}
    Sweeps = {s}
    Builds = {1, 2}
    MaxDay = 1
    MaxMoves = 1
INVARIANTS QuietNightIsWritten
CHECK_DEADLOCK FALSE
