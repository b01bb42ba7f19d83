SPECIFICATION Spec
CONSTANTS
    a1 = a1
    a2 = a2
    h1 = h1
    Players = {a1, h1}
    TeamOf <- Sides
    Parties <- Alone
    MinPerTeam = 1
    MaxPerTeam = 1
    CountMod = 8
    MaxJoins <- Joins
    MaxLogouts = 1
    MaxPending = 2
CHECK_DEADLOCK FALSE
INVARIANTS
    TypeOK
    PortFindsInstance
    CountsAgree
    PlayersAgree
PROPERTIES
    WithdrawnOnlyWhenDue
