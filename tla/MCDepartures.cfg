SPECIFICATION LiveSpec
CONSTANTS
    Macs = {m1, m2}
    m1 = m1
    m2 = m2
    FirstMacs <- TwoMacs
    MaxId = 3
    MaxEdits = 2
    MaxMishaps = 1
    PageSize = 1
    Width = 2
    TailDays = 2
    MinPopulation = 2
INVARIANTS DeparturesSound
PROPERTIES DeparturesEarned FleetSettles
