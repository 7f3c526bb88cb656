SPECIFICATION FeeSpec
CONSTANTS
    Boss = Boss
    Wallets = {Alice, Boss}
    Mints = {M}
    KeyAccounts = {K}
    Lookalikes = {Other}
    NoOne = NoOne
    Absent = Absent
    MetaSeed = MetaSeed
    MaxU64 = 4
    FullRate = 2
    MaxRoom = 0
    InitialLamports = 8
    MetadataMintLen = 3
    SolToll = 1
    MaxSources = 2
    Rates = {1, 2}
    MaxFees = {2}
    Amounts = {1, 3}
INVARIANTS
    Conserved
    CreditsFit
PROPERTIES
    FeesGoToAuthority
