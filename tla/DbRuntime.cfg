SPECIFICATION Spec
CONSTANTS
    Master = Master
    World = World
    Delayer = Delayer
    Callers = {Master, World}
    Keys = {k1, k2}
    NoThread = NoThread
    None = None
    Uses <- RuntimeUses
    CallbackUses <- DelayingUses
    MaxOps = 3
    MaxStmts = 2
    MaxFails = 2
SYMMETRY RowSymmetry
INVARIANTS
    TypeOK
    TransactionIsolated
    AnswersSeeOwnWrites
PROPERTIES
    ImplementsSerial
