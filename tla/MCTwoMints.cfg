SPECIFICATION TwoMintsSpec
CONSTANTS
    Boss = Boss
    Wallets = {Alice, Boss}
    Mints = {M, N}
    KeyAccounts = {}
    Lookalikes = {Other}
    NoOne = NoOne
    Absent = Absent
    MetaSeed = MetaSeed
    MaxU64 = 3
    FullRate = 2
    MaxRoom = 0
    InitialLamports = 16
    MetadataMintLen = 3
    SolToll = 1
    MaxSources = 3
    Amounts = {1, 2}
PROPERTIES
    OneMintAtATime
    FeesGoToAuthority
