SPECIFICATION FairSpec
CONSTANTS
    Workers = {w1, w2}
    Main = Main
    Maps = {m1, m2}
    NoMap = NoMap
    MaxTicks = 3
    MaxPosts = 2
INVARIANTS
    TypeOK
    UpdatesExclusive
    NoNullRequest
    MessagesInOrder
    PendingCounts
PROPERTIES
    ImplementsTicks
    UpdateEnds
    HaltEnds
