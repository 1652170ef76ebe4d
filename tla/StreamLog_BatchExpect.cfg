SPECIFICATION Spec
CONSTANTS
    Streams = {s1}
    Subjects = {a}
    Covers <- Everything
    Sizes = {1}
    MsgIDs = {i}
    NoID = noid
    TTLs = {0}
    Expects = {0, 1, 2}
    MaxAge = 1
    MaxBytes = 4
    MaxMsgs = 3
    MaxMsgsPerSubject = 2
    Dedupe = 1
    NoSubject = none
    MaxSeq = 4
    MaxTime = 2
    b = b
    s1 = s1
    s2 = s2
INVARIANTS ExpectHolds
CHECK_DEADLOCK FALSE
