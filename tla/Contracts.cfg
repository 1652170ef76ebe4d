SPECIFICATION ContractsSpec
CONSTANTS
    Records = {r1, r2}
    MaxVersion = 2
    MaxMigrations = 2
    OperationIds = {"o1", "o2"}
    Operation <- ConnectorOperation
    Offered <- ConnectorOffered
    Policies <- ConnectorPolicies
    Authorized <- ConnectorAuthorized
    Agents = {"a1", "a2"}
    Resources = {"r1", "r2"}
    Requests <- WriteRequests
    MaxRevision = 3
    MaxFence = 2
    Catalogs <- SessionCatalogs
    PreferenceSets <- SessionPreferences
    SessionIds = {"s1", "s2"}
    Mine = "s1"
    Payloads <- SessionPayloads
    MaxEvents = 2
    MaxPage = 2
    MaxPrompts = 2
    MaxTasks = 2
    Bodies <- MessageBodies
    Participants <- MessageParticipants
    MetadataKeys <- MessageKeys
    Conversations = {"c1", "c2"}
    Width = 2
    MaxEnvelope = 3
    MaxListResult = 2
    MaxListItems = 1
    RetentionDays = 2
    Lives = {1, 2}
    MaxMessages = 2
    MaxDays = 2
    MaxUpdates = 3
    MaxPages = 2
    MaxDelivered = 1
    MaxChanges = 1
    MaxAnswers = 1
    MaxClock = 1
    MaxAttempts = 2
    Numbers <- JsonNumbers
    MaxText = 7
    MaxExponent = 3
    Batch <- QuestionBatch
    Answers <- ProviderAnswers
    LevelId <- Itoa
    One = 10
    Tolerance = 1
    MaxQuestions = 2
    MaxOptions = 3
    MaxScoreLevels = 3
    MaxReplies = 1
INVARIANTS  WritesDoneOnce WritesByRight DecisionsExact SessionsFollowed
 
CHECK_DEADLOCK FALSE
