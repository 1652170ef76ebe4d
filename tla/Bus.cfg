SPECIFICATION BusSpec
CONSTANTS
    Conns = {c1}
    Plugins = {p1}
    Owner <- OnePlugin
    Calls = {m1, m2}
    Kind <- ServiceAndConsumer
    Enders = {e1, e2}
    NoConn = noconn
    MaxEndpoints = 2
    MaxGen = 1
    p1 = p1
    m1 = m1
    m2 = m2
SYMMETRY Symmetry
INVARIANTS RestartIsClean NoOrphans EndIsComplete RefusedLeavesNothing
PROPERTIES StreamsSound
CHECK_DEADLOCK FALSE
