\* A finished session, and one that lost its relay link, may stop.
CHECK_DEADLOCK FALSE
SPECIFICATION FairSpec
CONSTANTS
    Prices = {2, 3, 4}
    BuyerLimits = {1, 2, 3, 4}
    SellerLimits = {2, 3, 4}
    MaxRounds = 4
    MaxPrice = 4
    MaxFaults = 2
INVARIANTS
    TypeOK
    OneMoveOutstanding
    AgreementConsistent
    SettledAsAgreed
PROPERTIES
    ImplementsBargaining
    EndsAsBargained
