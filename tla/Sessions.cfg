SPECIFICATION Spec
CONSTANTS
    a = a
    b = b
    c = c
    Faults = 2
    Nodes = {a, b, c}
    Networks <- SmallNetworks
    Conns = {c1, c2, c3}
    NoConn = NoConn
    BoostTries = 1
CHECK_DEADLOCK FALSE
INVARIANTS
    ActiveIsOwned
    KeysAgree

    
