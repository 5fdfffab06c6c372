SPECIFICATION Spec
CONSTANTS
    a = a
    b = b
    susp = susp
    x = x
    r1 = r1
    r2 = r2
    r3 = r3
    k1 = k1
    k2 = k2
    Wallets = {a, b}
    Suspense = susp
    ClientTxIDs = {x, r1, r2, r3}
    Calls <- MCCalls
    InitAccounts = {a, susp}
    Opening <- MCOpening
    Requests = {r1, r2, r3}
    Keys = {k1, k2}
    KeyOf <- MCKeyOf
    NoRequest = NoRequest
    Absent = Absent
    Marker = Marker
    Intents <- MCIntents
    NoId = NoId
    NoIntent = NoIntent
SYMMETRY SameKeySymmetry
INVARIANT IInv
INVARIANT SuccessMeansPosted
INVARIANT DoublePostingNeedsLoss
INVARIANT NotifiedOncePosted
 
