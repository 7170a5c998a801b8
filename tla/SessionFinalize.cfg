\* Nothing is left to do when every session is cleaned and no process restarts.
CHECK_DEADLOCK FALSE
SPECIFICATION FairSpec
CONSTANTS
    Sessions = {s1}
    RuntimeJobs = {r1, r2}
    CliJobs = {c1}
    MaxFaults = 2
INVARIANTS
    NoSettlementLost
    CleanedMeansErased
    UnnamedIsUnfinished
PROPERTIES
    UnfinishedKeepsEverything
    EventuallyCleaned
