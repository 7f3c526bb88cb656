SPECIFICATION FewCallsSpec
CONSTANTS
    Boss = Boss
    Wallets = {Alice, Boss}
    Mints = {M}
    KeyAccounts = {K}
    Lookalikes = {}
    NoOne = NoOne
    Absent = Absent
    MetaSeed = MetaSeed
    Idle = Idle
    MaxU64 = 1
    FullRate = 2
    MaxRoom = 2
    InitialLamports = 8
    MetadataMintLen = 3
    SolToll = 3
    MaxSources = 1
    Lengths = {0, 1, 2}
    MintKinds = {"default_account_state", "permanent_delegate"}
    Amounts = {1}
INVARIANTS
    NothingHalfInitialised
    CpiInv
PROPERTIES
    HandlersAreAtomic
    RefusedForCause
