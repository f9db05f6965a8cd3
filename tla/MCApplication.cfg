CONSTANTS
    Events = {"a"}
    Conditions = {"k"}
    w1 = w1
    w2 = w2
    Waiters = {w1, w2}
    Declared <- MCDeclared
    Added <- MCAdded
    Awaited <- MCAwaited
    Sent <- MCSent
    MaxCalls = 2
    MaxSignals = 3
    Apps = {"a"}
    Bps = {"b1", "b2"}
    Items <- MCItems
    Attributes <- MCAttributes
    Paths <- MCPaths
    Versions = {4}
    MaxMounts = 2
    Declarations <- MCDeclarations
    Early <- MCEarly
    Asked <- MCAsked
    Functions <- MCFunctions
    ErrorHandlers <- MCErrorHandlers
    OwnMRO <- MCOwnMRO
    MaxRequests = 2
    MaxFailures = 1
    StaticOptions <- MCStaticOptions
    Sizes <- MCSizes
    ChunkSize = 2
    Threshold = 4
    Ranges <- MCRanges
    MaxAsked = 2
    CookieNames = {"a"}
    CookiePaths = {"/", "/x"}
    MaxSaid = 3
    Requests <- MCRequests
    Replacements <- MCReplacements
    Raisable = {"Exception", "Unauthorized"}
    ErrorFormats <- MCErrorFormats
    ProxiesCount = 1
    MaxRead = 2
    MaxReplaced = 1
    MaxSize = 1
    MaxChunks = 2
    MaxResponses = 4
    MaxWire = 5
    MayCatchCancel = TRUE
    Values = {"v", "x"}
    Bad = {"x"}
    MaxLen = 2
    MaxChanges = 3
SPECIFICATION ApplicationSpec
INVARIANTS TypesOK Dispatched    OneResponse AnsweredAtEnd ServedAsSaid KeptUpToDate LastWordRead 
CHECK_DEADLOCK FALSE
