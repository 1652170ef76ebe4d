SPECIFICATION Spec
CONSTANTS
    Publishers = {p1, p2}
    Drainers = {d1}
    Runner = runner
    Host = host
    Limit = 1
    MaxSent = 2
INVARIANTS OverflowIsLoud
CHECK_DEADLOCK FALSE
