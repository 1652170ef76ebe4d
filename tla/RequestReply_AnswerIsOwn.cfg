SPECIFICATION CallsSpec
CONSTANTS
    Callers = {a1, a2}
    Conns = {c1, c2}
    ConnOf <- OneCallerEach
    PluginOf <- OnePlugin
    Endpoints <- OneEndpoint
    Groups <- NoGroups
    NoGroup = none
    Faulty = {}
    PendingLimit = 2
    MaxCalls = 1
    MaxAnswers = 1
    MaxGen = 0
    a1 = a1
    a2 = a2
    c1 = c1
    c2 = c2
    p1 = p1
    e1 = e1
INVARIANTS AnswerIsOwn
CHECK_DEADLOCK FALSE
