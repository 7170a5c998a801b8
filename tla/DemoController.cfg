SPECIFICATION FairSpec
CONSTANTS
    MaxFaults = 2
    MaxRepeats = 2
INVARIANTS TypeOK CommandsAccepted ReadyIsAnnounced AmountKnown ShownIsIndexed FinalizedWhenFinal
PROPERTY EndsOnScreen
CHECK_DEADLOCK FALSE
