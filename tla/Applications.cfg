SPECIFICATION ApplicationsSpec
CONSTANTS
    Off = Off
    None = None
    Bad = Bad
    Nothing = Nothing
    a = a
    earlier = earlier
    Unknown = Unknown
    Semi = Semi
    CR = CR
    LF = LF
    Stale = Stale
    SegMax = 3
    Ports <- KnownPorts
    HistoryMax = 2
    CookieMax = 3
    HeaderMax = 12
    BodyMax = 14
    SourceMax = 20
    Site <- WebSite
    Disk <- FilesOnDisk
    NotFound <- NoPage
    Starts <- FirstPages
    Typed <- TypedAddresses
    Values <- TypedValues
    Letters <- PageLetters
    Lower <- LowerCase
    Tokens <- BearerTokens
    MaxCommands = 4
    t = t
    NoTcp = NoTcp
    AllocFailed = AllocFailed
    Timeout = Timeout
    Errors <- TlsErrors
    Request <- TlsRequest
    Sizes <- ContextSizes
    HandshakeLoops = 2
    CloseLoops = 2
    IdleLoops = 2
    MaxSessions = 2
    NoFile = NoFile
    Closed = Closed
    FreeStream = FreeStream
CHECK_DEADLOCK FALSE
INVARIANTS
    SavedIsWhole BrowserAgrees RequestIsAsked BackRetraces CookiesAreLatest LinksAsMeant
    AddressIsAnswered SessionIsClean BytesKept
