CONSTANTS
    p1 = p1
    p2 = p2
    p3 = p3
    Procs = {p1, p2, p3}
    Commands <- MCCommands
    Types <- MCTypes
    Decls <- MCDecls
    Clauses <- MCClauses
    Killable = {p1}
    FileName <- MCFileName
    Library <- MCLibrary
    Absent = Absent

SPECIFICATION Spec

INVARIANTS
    SuccessMeansBuilt
    TempsRemoved
    AbiDescribes
    AbiClosed
    ConflictsRefused
    ActionsHaveStubs

CHECK_DEADLOCK FALSE
