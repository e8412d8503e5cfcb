SPECIFICATION ShopSpec
CONSTANTS
    u1 = u1
    apple = apple
    r1 = r1  r2 = r2
    c1 = c1  c2 = c2
    Nil = Nil
    Users = {u1}
    Skus = {apple}
    LiveSkus = {apple}
    Requests = {r1, r2}
    CartRequests = {c1, c2}
    SkuLists <- MCLists
    InitSku <- MCSku
    InitCart <- MCCart
    MaxNow = 1
    AddCounts <- MCAddCounts
    UpdateCounts <- MCUpdateCounts
SYMMETRY TabSymmetry
INVARIANTS
    Ledger
    LinesWereInCart
