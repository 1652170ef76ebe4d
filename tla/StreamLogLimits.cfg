SPECIFICATION Spec
CONSTANTS
    Streams = {s1}
    Subjects = {a, b, c}
    Covers <- Everything
    Sizes = {1, 2}
    MsgIDs = {i}
    NoID = noid
    TTLs = {0, 1}
    Expects = {0}
    MaxAge = 2
    MaxBytes = 3
    MaxMsgs = 2
    MaxMsgsPerSubject = 1
    Dedupe = 1
    NoSubject = none
    MaxSeq = 3
    MaxTime = 3
    b = b
    s1 = s1
    s2 = s2
SYMMETRY Symmetry
INVARIANTS WithinLimits StoredOnce
PROPERTIES OldestFirst ImplementsLog
CHECK_DEADLOCK FALSE
