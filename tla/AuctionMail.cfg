SPECIFICATION Spec
CONSTANTS
    ann = ann
    bea = bea
    cid = cid
    ring = ring
    crown = crown
    Players = {ann, bea, cid}
    Items = {ring, crown}
    MaxMails = 3
    None = None
    Starts <- Fortunes
    Half = 7
    Postage = 4
    Deposit <- Deposits1
    CutShare = 2
    StartBids = {1}
    Buyouts = {0, 2}
    Amounts = {0, 1, 13}
    Prices = {0, 1}
    MaxQueue = 0
    MaxEvents = 2
SYMMETRY Others
INVARIANTS
    TypeOK
    ItemsInOnePlace
    MemoryIsSaved
    CrashLeavesOneHand
    LoginIsCurrent
PROPERTIES
    ImplementsMarket
CHECK_DEADLOCK FALSE
