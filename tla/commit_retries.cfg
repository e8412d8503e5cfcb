SPECIFICATION Spec
CONSTANTS
    u1 = u1  u2 = u2  u3 = u3
    apple = apple  pear = pear  gone = gone
    r1 = r1  r2 = r2  r3 = r3
    Nil = Nil
    Users = {u1, u2, u3}
    Skus = {apple}
    LiveSkus = {apple}
    Requests = {r1, r2, r3}
    SkuLists <- RaceLists
    InitSku <- RaceSku
    InitCart <- RaceCart
    MaxNow = 1
SYMMETRY RequestSymmetry
INVARIANT OrderComplete
