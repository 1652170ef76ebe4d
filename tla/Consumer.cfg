SPECIFICATION ModeSpec
CONSTANTS
    Subjects = {a, b}
    Filter = {a}
    AckPolicy = "explicit"
    MaxDeliver = 2
    MaxAckPending = 1
    StartPolicies = {"all", "new"}
    NoSubject = none
    MaxSeq = 2
    MaxHanded = 2
    MaxCursors = 1
INVARIANTS NothingSkipped FloorSound CursorSound AckClears
PROPERTIES NoEarlyRedelivery SettledInTheEnd
CHECK_DEADLOCK FALSE
