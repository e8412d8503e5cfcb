SPECIFICATION FairSpec
CONSTANTS
    u1 = u1  u2 = u2  u3 = u3
    apple = apple  pear = pear  gone = gone
    r1 = r1  r2 = r2  r3 = r3
    Nil = Nil
    Users = {u1, u2}
    Skus = {apple, pear, gone}
    LiveSkus = {apple, pear}
    Requests = {r1, r2}
    SkuLists <- PairLists
    InitSku <- PairSku
    InitCart <- PairCart
    MaxNow = 1
PROPERTIES
    EveryRequestAnswered
    AtomicOrders
