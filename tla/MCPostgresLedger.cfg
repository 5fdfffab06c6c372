SPECIFICATION FairSpec
CONSTANTS
    a = a
    b = b
    susp = susp
    x = x
    y = y
    r1 = r1
    r2 = r2
    r3 = r3
    Wallets = {a, b}
    Suspense = susp
    ClientTxIDs = {x, y}
    Requests = {r1, r2, r3}
    NoRequest = NoRequest
    NoCall = NoCall
    Calls <- MixedCalls
    InitAccounts = {a, susp}
    Opening <- MCOpening
    MaxInt64 = 3
INVARIANT IInv
INVARIANT NoOverdraft
INVARIANT AtMostOncePerKey
INVARIANT AnswersMatchLedger
INVARIANT CardsNeverDeadlock
INVARIANT ConflictOnlyAcrossAccounts
INVARIANT BooksBalance
INVARIANT SomebodyCanMove
PROPERTY ImplementsContract
PROPERTY EveryCallReturns
