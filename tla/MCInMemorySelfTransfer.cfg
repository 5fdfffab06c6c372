SPECIFICATION Spec
CONSTANTS
    a = a
    b = b
    susp = susp
    x = x
    y = y
    r1 = r1
    r2 = r2
    r3 = r3
    r4 = r4
    Wallets = {a, b}
    Suspense = susp
    ClientTxIDs = {x, y}
    Requests = {r1, r2, r3, r4}
    NoCall = NoCall
    Calls <- SelfTransfers
    InitAccounts = {a, susp}
    Opening <- MCOpening
    MaxInt64 = 5
SYMMETRY RequestSymmetry
INVARIANT BalancesToZero
