SPECIFICATION FeeClientSpec
CONSTANTS
    Boss = Boss
    Wallets = {Alice, Boss}
    Mints = {M}
    KeyAccounts = {K}
    Lookalikes = {}
    NoOne = NoOne
    Absent = Absent
    MetaSeed = MetaSeed
    FeeMint = M
    FeeOwner = Alice
    Collectors = {collector}
    Harvesters = {harvester}
    MaxU64 = 3
    FullRate = 2
    MaxRoom = 0
    InitialLamports = 8
    MetadataMintLen = 3
    SolToll = 1
    MaxSources = 2
    Amounts = {1, 2}
INVARIANTS
    StaleListsAccepted
    ListsStayValid
PROPERTIES
    ListsGatheredInFull
