SPECIFICATION FairSpec
CONSTANTS
    Conns = {"c1", "c2"}
    MaxQueries = 1
    Signals = {"SIGINT", "SIGTERM"}
    MaxErrors = 2
    HardExit = TRUE
    ServiceList <- MCServiceList
    PrefixesOf <- MCPrefixesOf
    AliasesOf <- MCAliasesOf
    UrlsBelow <- MCUrlsBelow
    NoService = "none"
    Ids <- MCIds
    Guest = ""
    NoId = "undefined"
    DetectorLists <- MCDetectorLists
    Transform <- MCTransform
    Aliases <- MCAliases
    FileIds = {"alice", "?"}
    Profiles <- MCProfiles
    NoTarget = "no target"
    Permits <- MCPermits
INVARIANTS
    WebTypeOK
    QuitScheduledOnce
    ErrorLimitIsReported
PROPERTIES
    LostOnlyIfToldTwice
    CheckedForNamedUser
    SignalsEndIt
    ErrorLimitEndsIt
    HandlersEnd
CHECK_DEADLOCK FALSE
