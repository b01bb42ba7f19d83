SPECIFICATION Spec
CONSTANTS
    s1 = s1
    s2 = s2
    s3 = s3
    alice = alice
    bob = bob
    gm = gm
    Sockets = {s1, s3}
    Accounts = {alice, gm}
    Staff = {gm}
    AccountOf <- OneEach
    None = None
    Limits = {1}
    MaxLogins = 0
    MaxKicks = 0
    MaxChanges = 0
INVARIANTS
    OnlyPlayersFillTheRealm
