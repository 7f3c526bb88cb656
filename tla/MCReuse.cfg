SPECIFICATION ReuseSpec
CONSTANTS
    Boss = Boss
    Wallets = {Alice, Boss}
    Mints = {M}
    KeyAccounts = {K}
    Lookalikes = {Other}
    NoOne = NoOne
    Absent = Absent
    MetaSeed = MetaSeed
    MaxU64 = 2
    FullRate = 2
    MaxRoom = 0
    InitialLamports = 12
    MetadataMintLen = 3
    SolToll = 1
    MaxSources = 2
    Amounts = {1, 2}
\* the wallet that pays can run out of SOL
CHECK_DEADLOCK FALSE
INVARIANTS
    LedgerInv
    ClosedMintsHollow
    FeesHarvestable
    RentPaid
PROPERTIES
    IsTokenLedger
