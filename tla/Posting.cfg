SPECIFICATION Spec
CONSTANTS
    none = none
    r1 = r1
    r2 = r2
    r3 = r3
    BaseIds = {"b1"}
    MaxVersNum = 3
    Users <- MCUsers
    Fields = {"creator", "body"}
    Values <- MCValues
    Absent = none
    SubjectLinks = {"page1", "page2"}
    ReplyLinks = {"note1", "note2"}
    DbUser = "postgres"
    Reqs = {r1, r2}
    Grants <- MCGrants
    Identities <- MCIdentities
    KnownUsers <- MCKnownUsers
    Anonymous = "anonymous"
    Trusted = {"mod"}
    AutoDoi = FALSE
    Posters = {"alice", "mod"}
    Drafts <- AlicesDrafts
    LinkSets <- OneTarget
    Stampers = {}
    PatchStamps = {}
    Readers = {}
    Roles = {""}
    Unreadable <- NoTargetDenied
    Searches = {}
    TargetSpecs = {}
    MatchedBy <- MatchesNothing
    SearchStamps = {}
    Times = {1}
    AskedLimits = {0}
    MaxFeedItems = 1
    Faulty = TRUE
SYMMETRY ReqSymmetry
INVARIANTS
    TypeOK
    VersionsContiguous
    NoLostUpdate
PROPERTIES
    ImplementsVersionLog
