SPECIFICATION Spec
CONSTANTS
    alice = alice
    bob = bob
    x1 = x1
    x2 = x2
    x3 = x3
    y1 = y1
    y2 = y2
    Players = {alice, bob}
    Items = {x1, x2, y1}
    None = None
    Gone = Gone
    NumSlots = 2
    MaxMoney = 1
    Capacity <- Places
    Kind <- Kinds
    MaxCount <- NoMaxCount
    MaxEvents = 1
SYMMETRY ItemSymmetry
INVARIANTS
    TypeOK
    TradesPaired
    AcceptanceIsCurrent
PROPERTIES
    ExchangeIsWhole
