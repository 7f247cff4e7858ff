CONSTANTS
    Quarter = 4
    Code = WICC
    Codes <- MCCodes
    NoCode = empty
    MaxPrecision = 2
    Radix = 2
    IntMax = 3
    NoRow = NoRow
    Accounts = {bank, alice, pool}
    Registered = {bank, pool}
    Contracts = {pool}
    maintainer = bank
    Quantities <- MCQuantities
    MaxMessages = 2
SPECIFICATION Spec
INVARIANTS
    TypeOK
    SupplyIsBalances
    StatsValid
    BalancesValid
    OnlyAuthorised
    BalancesReadBack
