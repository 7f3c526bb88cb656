SPECIFICATION GuardSpec
CONSTANTS
    Boss = Boss
    Wallets = {Alice, Boss}
    Mints = {M}
    KeyAccounts = {K}
    Lookalikes = {}
    NoOne = NoOne
    Absent = Absent
    MetaSeed = MetaSeed
    MaxU64 = 2
    FullRate = 2
    MaxRoom = 2
    InitialLamports = 12
    MetadataMintLen = 3
    SolToll = 3
    MaxSources = 2
    Amounts = {0, 1, 2}
INVARIANTS
    TypeOK
    RentPaid
PROPERTIES
    DebitsSigned
    GuardHolds
    MemoHonoured
