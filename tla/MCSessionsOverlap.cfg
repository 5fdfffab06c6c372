SPECIFICATION Spec
CONSTANTS
    r1 = r1
    r2 = r2
    r3 = r3
    r4 = r4
    r5 = r5
    phone = phone
    tablet = tablet
    Requests = {r1, r2, r3, r4}
    Devices = {phone, tablet}
    NoDevice = NoDevice
SYMMETRY RequestSymmetry
INVARIANT LogoutRevokes
