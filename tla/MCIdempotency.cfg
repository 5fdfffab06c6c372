SPECIFICATION FairSpec
CONSTANTS
    r1 = r1
    r2 = r2
    r3 = r3
    key = key
    Requests = {r1, r2, r3}
    Keys = {key}
    KeyOf <- MCKeyOf
    NoRequest = NoRequest
    Absent = Absent
    Marker = Marker
INVARIANT IInv
INVARIANT ReplaysAreResponses
INVARIANT OwnAnswersNeedRaceOrExpiry
PROPERTY SettledUntilExpiry
PROPERTY ReservationEnds
