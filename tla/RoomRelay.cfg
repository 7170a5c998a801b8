SPECIFICATION FairSpec
CONSTANTS
    Sessions = {sA, sB}
    MaxJoins = 2
    MaxSent = 2
    MaxFaults = 1
    MaxTrouble = 2
INVARIANTS TypeOK AcceptedWithoutGap ChannelsAgree NoPacketRefused
PROPERTY KeyedOrTold
CHECK_DEADLOCK FALSE
