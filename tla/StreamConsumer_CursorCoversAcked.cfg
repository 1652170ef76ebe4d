SPECIFICATION Spec
CONSTANTS
    Subjects = {a}
    Filter = {a}
    AckPolicy = "explicit"
    MaxDeliver = 0
    MaxAckPending = 0
    StartPolicies = {"all"}
    NoSubject = none
    MaxSeq = 2
    MaxHanded = 2
    MaxCursors = 1
INVARIANTS CursorCoversAcked
CHECK_DEADLOCK FALSE
