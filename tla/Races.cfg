SPECIFICATION RaceSpec
CONSTANTS
    c1 = c1
    c2 = c2
    v1 = v1
    v2 = v2
    Values <- MCValues
    Seed = v1
    MaxMs = 2
    Unset = Unset
    NoDoc = NoDoc
    NoPatch = NoPatch
    NoAccount = NoAccount
    Calls <- MCCalls
    Workloads <- Races
    Deployed <- Either
    MaxFaults = 0
SYMMETRY CallSymmetry
INVARIANTS UniqueLogin RefIntegrity TypeInv
PROPERTIES CreatedAsAnswered SeededOnce
