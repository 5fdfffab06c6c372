SPECIFICATION Spec
CONSTANTS
    r1 = r1
    r2 = r2
    r3 = r3
    r4 = r4
    p = p
    q = q
    Requests = {r1, r2, r3, r4}
    Phones = {p, q}
    NoPhone = NoPhone
    NoWallet = NoWallet
SYMMETRY RequestSymmetry
INVARIANT IInv
INVARIANT OneWalletPerPhone
INVARIANT WalletsAreComplete
INVARIANT AnnouncedWalletsWork
