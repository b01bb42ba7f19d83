SPECIFICATION Spec
CONSTANTS
    s1 = s1
    s2 = s2
    s3 = s3
    alice = alice
    bob = bob
    gm = gm
    Sockets = {s1, s2}
    Accounts = {alice}
    Staff = {}
    AccountOf <- OnePlayer
    None = None
    Limits = {0}
    MaxLogins = 2
    MaxKicks = 0
    MaxChanges = 0
INVARIANTS
    OneCharacter
