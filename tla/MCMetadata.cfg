SPECIFICATION GrowingSpec
CONSTANTS
    Boss = Boss
    Wallets = {Alice, Boss}
    Mints = {M}
    KeyAccounts = {}
    Lookalikes = {}
    NoOne = NoOne
    Absent = Absent
    MetaSeed = MetaSeed
    MaxU64 = 1
    FullRate = 2
    MaxRoom = 0
    InitialLamports = 17
    MetadataMintLen = 6
    SolToll = 1
    MaxSources = 1
    UserKeys = {k1, k2}
    TextLengths = {0, 1, 2}
    Overhead = 1
    Amounts = {1}
INVARIANTS
    TextsPaid
