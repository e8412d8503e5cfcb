SPECIFICATION PagesSpec
CONSTANTS
    ann = ann  bob = bob
    r1 = r1  r2 = r2  r3 = r3
    Nil = Nil
    Names = {ann, bob}
    Skus = {1, 2}
    Requests = {r1, r2, r3}
    PageRequests = {r1, r2, r3}
    Others = 4
    Keep = 2
    MaxPage = 7
    Customers = {ann}
    InitTables <- MCTables
SYMMETRY RequestSymmetry
CHECK_DEADLOCK FALSE
INVARIANTS
    AccountsAreSound
    OneDefaultAddress
    HistoryIsRecent
    ListPagesExist
    CacheIsSound
    PageStaleOnlyByEarlyRead
PROPERTIES
    KeptUntilPushedOut
