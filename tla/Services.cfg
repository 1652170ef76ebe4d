SPECIFICATION ServicesSpec
CONSTANTS
    Publishers = {p1, p2}
    Drainers = {d1}
    Runner = runner
    Host = host
    Limit = 2
    MaxSent = 2
    a1 = a1
    a2 = a2
    Callers = {a1, a2}
    Conns = {"c1"}
    ConnOf <- OneConn
    PluginOf <- OnePlugin
    Endpoints <- TwoEndpoints
    Groups <- GroupOrNone
    NoGroup = "none"
    Faulty = {"e2"}
    PendingLimit = 1
    MaxCalls = 1
    MaxAnswers = 1
    MaxGen = 1
    Generations = {"g1", "g2"}
    Workers = {"w"}
    Substrate = {"kv"}
    Patterns = {"a", "b"}
    Hashes = {"", "h1", "h2"}
    Codes = {"conflict"}
    Works = {"s1", "e1", "e2"}
    IsEvery <- OnlyFirstSubscribes
    Envelopes <- BareAndFull
    Sender = "p"
    Tokens = {"a", "b"}
    Reserved = {"$S"}
    MaxTokens = 3
    Plugins = {"p1", "p2"}
    Leases <- LeaseOfOne
    Denies <- DenyLists
    PublishGrants <- MayPublish
    SubscribeGrants <- MaySubscribe
    RawSubjects <- SubjectsTried
    RawPatterns <- PatternsTried
    Forged <- HeadersTried
    Known <- SubjectsOfThree
SYMMETRY Symmetry
INVARIANTS NoSilentLoss HandedInOrder DrainedMeansEmpty CallsAnswered GrantedAndTrue TypesNeverMix BindingIsWhole AdapterReleases
PROPERTIES DoneIsFinal
CHECK_DEADLOCK FALSE
