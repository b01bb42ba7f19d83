SPECIFICATION Spec
CONSTANTS
    alice = alice
    bob = bob
    x1 = x1
    x2 = x2
    x3 = x3
    y1 = y1
    y2 = y2
    Players = {alice, bob}
    Items = {x1, x2, x3, y1, y2}
    None = None
    Gone = Gone
    NumSlots = 3
    MaxMoney = 0
    Capacity <- Places
    Kind <- Kinds
    MaxCount <- TwoOfX
    MaxEvents = 0
SYMMETRY ItemSymmetry
PROPERTIES
    ItemsAreKept
