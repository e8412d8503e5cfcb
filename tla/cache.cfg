SPECIFICATION Spec
CONSTANTS
    k1 = k1
    k2 = k2
    k3 = k3
    k4 = k4
    NoKey = NoKey
    Key = {k1, k2, k3, k4}
    Hash <- MCHash
    HashSize = 2
    MaxItems = 4
    Blocks = 4
    ByteSize = 3
    MaxTime = 3
    Reader = {r1, r2}
    CacheConfigs <- MCCaches
SYMMETRY Symmetry
INVARIANTS
    ItemsAreSound
    BlocksAreSound
    ExpiryIsRemembered
