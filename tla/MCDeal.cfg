\* A settled deal accepts no call: the contract may stop there.
CHECK_DEADLOCK FALSE
SPECIFICATION DealSpec
CONSTANTS
    DealIds = {d1, d2}
    Secrets = {buyer, seller, stranger}
    Randomness = {r1, r2}
    MaxPrice = 2
INVARIANTS
    SettledWithinLimits
PROPERTIES
    CommitmentsBind
