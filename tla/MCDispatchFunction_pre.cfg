CONSTANTS
    Pre = {TRUE, FALSE}
    Contracts <- MCContracts
    Star = star
    CodeOrder <- MCCodeOrder
    Receiver <- MCReceiver
    Codes <- MCCodes
    Actions = {"transfer", "issue", "retire"}
    IndexRange = 8

SPECIFICATION Spec

INVARIANTS
    BodyClosed

CHECK_DEADLOCK FALSE
