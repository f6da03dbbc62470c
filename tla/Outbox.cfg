SPECIFICATION Spec
CONSTANTS
    Events = {1, 2}
    Destinations = {d1}
    Workers = {w1, w2}
    Wanted <- Pairs
    MaxAttempts = 2
    TickLimit = 2
    MaxOld = 2
    NoWorker = NoWorker
INVARIANTS OutboxSound
PROPERTIES SteadyRowsSurvivePurge
