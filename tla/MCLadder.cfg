SPECIFICATION Spec
CONSTANTS
    MaxKrw = 30000
    References = {250, 375, 500, 1000, 1400, 8400, 9100, 10000, 26000, 29999}
    ProviderReferences = {9100}
    BuyerLimits = {200, 300, 600, 1000, 8250, 9100, 9250, 10000, 10250, 10300, 12000, 26250, 30000}
    SellerLimits = {1, 400, 1000, 8700, 9200, 9250, 9750, 10000, 10100, 10500, 26000, 26600}
    ProviderPrices = {8250, 9000, 9750}
INVARIANTS
    MeetsAtShiftedReference
    FallbackOfferHidesLimit
    MockMatchesFallback
PROPERTIES
    ConcessionsMonotone
    TurnsRunOut
    IsBargaining
