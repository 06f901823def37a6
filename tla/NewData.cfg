SPECIFICATION Spec
CONSTANTS
    c1 = c1
    c2 = c2
    v1 = v1
    v2 = v2
    Values <- MCValues
    Seed = v1
    MaxMs = 1
    Unset = Unset
    NoDoc = NoDoc
    NoPatch = NoPatch
    NoAccount = NoAccount
    Calls <- OneCall
    Workloads <- Renaming
    Deployed <- Seeded
    MaxFaults = 0
INVARIANTS AnswerIsNewData
