CONSTANTS
    accounts = accounts
    markets = markets
    p1 = p1
    p2 = p2
    k1 = k1
    k2 = k2
    k3 = k3
    Tables <- MCTables
    Stem <- MCStem
    Indices = {0, 1}
    PrimaryKeys = {p1, p2}
    SecondaryKeys = {k1, k2, k3}
    None = none
    ChecksKeys = TRUE
    DeletesStored = TRUE

SPECIFICATION Spec

INVARIANTS
    TypeOK
    IndexSound
    IndexComplete

PROPERTY OtherLookupsKept
