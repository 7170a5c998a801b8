SPECIFICATION Spec
CONSTANTS
    MaxKrw = 20000
    References = {10000}
    ProviderReferences = {}
    BuyerLimits = {9100, 10000}
    SellerLimits = {9900}
    ProviderPrices = {8500, 9000, 9250}
INVARIANTS
    ProviderOfferHidesLimit
