SPECIFICATION FairLimitSpec
CONSTANTS
    r1 = r1
    r2 = r2
    r3 = r3
    r4 = r4
    Logins = {r1, r2, r3, r4}
    MaxPerMin = 2
 
INVARIANT AtMostMaxPerWindow
PROPERTY CounterExpiresUnlessLost
