SPECIFICATION FairSpec
CONSTANTS
    w1 = w1
    w2 = w2
    r1 = r1
    r2 = r2
    sweeping = sweeping
    d1 = d1
    d2 = d2
    NoRun = NoRun
    NoLock = NoLock
    NoWorker = NoWorker
PROPERTIES WorkEnds
