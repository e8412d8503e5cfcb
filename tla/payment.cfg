SPECIFICATION FairSpec
CONSTANTS
    o1 = o1  cod = cod
    l1 = l1  l2 = l2
    r1 = r1  r2 = r2  r3 = r3
    Nil = Nil
    Orders = {o1, cod}
    AlipayOrders = {o1}
    Lines = {l1, l2}
    Requests = {r1, r2, r3}
INVARIANTS
    SettledMeansPaid
    FinishedMeansCommented
    ReopenedOnlyByLateCheck
    IndInv
PROPERTIES
    DecidedIsAnswered
