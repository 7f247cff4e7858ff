CONSTANTS
    Pre = {TRUE, FALSE}
    Contracts <- MCContracts
    Star = star
    CodeOrder <- MCCodeOrder
    Receiver <- MCReceiver
    Codes <- MCCodes
    Actions = {"transfer", "issue", "retire"}
    IndexRange = 8
    Group = 4
    Word = 8
    Members = {"transfer", "issue"}
    Params <- MCParams
    Arguments <- MCArguments
    Data <- MCData
    max_stack_buffer_size = 4
    Results <- MCResults
    pack_args <- PackArgs
    unpack_args <- UnpackArgs

SPECIFICATION CallSpec

INVARIANTS
    PostAfterAction

CHECK_DEADLOCK FALSE
