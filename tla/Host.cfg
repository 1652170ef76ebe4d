SPECIFICATION HostSpec
CONSTANTS
    Clients = {c1, c2}
    Keys <- OneKey
    Filter = {"k1"}
    History = 2
    TTL = TRUE
    MaxBuckets = 2
    MaxWrites = 3
    PublisherKeys = {"k1", "k2"}
    Ids = {"p1", "p2"}
    Digests = {"d1", "d2"}
    StoreKeys = {"s1", "s2"}
    Roots = {{}, {"s1"}}
    MaxManifests = 2
    Manifests <- DocumentManifests
    Bad = {"", ".."}
    Inexact = {"", "*"}
    Pathnames <- DocumentPathnames
    Requests <- DocumentRequests
    Tokens <- AuthorityTokens
    Reserved = {"$SYS", "_INBOX"}
    MaxTokens = 6
    Mesh = "bd"
    Ineligible <- Denied
    Providers <- OneProvider
    Catalog <- TwoCapabilities
    Vocabulary = {"n1"}
    Candidates <- AuthorityManifests
    BusSubjects <- AuthoritySubjects
    PackManifests <- PackageManifests
    Trees <- PackageTrees
    Classes <- PackageClasses
    Required <- PackageRequired
    Forbidden <- ForbiddenGlobs
    Ignored <- IgnoredGlobs
    MaxFiles = 5
    MaxBytes = 8
    MaxImageBytes = 2
    Images = {"i.svg"}
    Options <- Gates
INVARIANTS BucketIsFaithful AuthorityIsEligible RoutesAreDeclared OnlyWholeShips NothingForged 
CHECK_DEADLOCK FALSE
