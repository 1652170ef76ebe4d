SPECIFICATION Spec
CONSTANTS
    Conns = {c1}
    Plugins = {p1}
    Owner <- OnePlugin
    Calls = {m1}
    Kind <- OneSub
    Enders = {e1}
    NoConn = noconn
    MaxEndpoints = 2
    MaxGen = 1
    p1 = p1
    m1 = m1
    m2 = m2
INVARIANTS RevokeWithdraws
CHECK_DEADLOCK FALSE
