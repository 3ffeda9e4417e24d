SPECIFICATION Spec
CONSTANTS
    ra = ra
    rb = rb
    rc = rc
    a1 = a1
    a2 = a2
    b1 = b1
    b2 = b2
    Hosts = {ra, rb, rc}
    Addresses = {a1, a2, b1, b2}
    Asns = {1, 2}
    Outside = Outside
    Unknown = Unknown
    Estates <- MCEstates
INVARIANT PairsPointBack
CHECK_DEADLOCK FALSE
