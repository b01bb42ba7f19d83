SPECIFICATION FairSpec
CONSTANTS
    Master = Master
    World = World
    Delayer = Delayer
    Callers = {Master, World}
    Keys = {k1}
    NoThread = NoThread
    None = None
    Uses <- AllUses
    CallbackUses <- DelayingUses
    MaxOps = 3
    MaxStmts = 1
    MaxFails = 1
INVARIANTS
    Inductive
    HaltLosesNothing
PROPERTIES
    DelayedRequestsServed
