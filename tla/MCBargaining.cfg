\* A negotiation stops after its outcome.
CHECK_DEADLOCK FALSE
SPECIFICATION FairSpec
CONSTANTS
    Prices = {10, 20, 30}
    BuyerLimits = {5, 15, 20, 35}
    SellerLimits = {10, 20, 25, 35}
    MaxRounds = 3
INVARIANTS
    LimitsRespected
PROPERTIES
    Ends
