SPECIFICATION FairSpec
CONSTANTS
    a = a
    b = b
    susp = susp
    x = x
    r1 = r1
    r2 = r2
    k = k
    Wallets = {a, b}
    Suspense = susp
    ClientTxIDs = {x, r1, r2}
    Calls <- MCCalls
    InitAccounts = {a, b}
    Opening <- MCOpening
    Requests = {r1, r2}
    Keys = {k}
    KeyOf <- MCKeyOf
    NoRequest = NoRequest
    Absent = Absent
    Marker = Marker
    Intents <- MCIntents
    NoId = NoId
    NoIntent = NoIntent
    MaxInt64 = 3
    PoolSizes = {1, 2}
INVARIANT IInv
INVARIANT OrderlyShutdownAnswers
INVARIANT OnlyKillsAbandon
PROPERTY ImplementsPayments
PROPERTY EveryRequestEnds
PROPERTY ShutdownEnds
