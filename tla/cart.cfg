SPECIFICATION AdminSpec
CONSTANTS
    u1 = u1
    apple = apple  gone = gone
    r1 = r1  r2 = r2  r3 = r3
    Nil = Nil
    Users = {u1}
    Skus = {apple, gone}
    Requests = {r1, r2, r3}
    AddCounts <- MCAddCounts
    UpdateCounts <- MCUpdateCounts
    MaxSold = 1
    InitStock <- MCStock
    InitCart <- MCCart
SYMMETRY RequestSymmetry
INVARIANTS
    EntriesAreSound
    AddsLostOnlyByRace
    UnitsReturnOnlyByStaleForm
    OrphansStayInCart
