SPECIFICATION Spec
CONSTANTS
    none = none
    r1 = r1
    r2 = r2
    r3 = r3
    BaseIds = {"b1"}
    MaxVersNum = 1
    Users <- MCUsers
    Fields = {"creator", "body"}
    Values <- MCValues
    Absent = none
    SubjectLinks = {"page1"}
    ReplyLinks = {}
    DbUser = "postgres"
    Reqs = {r1}
    Grants <- OwnerGrants
    Identities <- MCIdentities
    KnownUsers <- MCKnownUsers
    Anonymous = "anonymous"
    Trusted = {"mod"}
    AutoDoi = FALSE
    Posters = {"alice"}
    Drafts <- AlicesDrafts
    LinkSets <- OneTarget
    Stampers = {"alice", "mod"}
    PatchStamps <- Decisions
    Readers = {}
    Roles = {"", "approver"}
    Unreadable <- NoTargetDenied
    Searches = {}
    TargetSpecs = {}
    MatchedBy <- MatchesNothing
    SearchStamps = {}
    Times = {1}
    AskedLimits = {0}
    MaxFeedItems = 1
    Faulty = FALSE
SYMMETRY ReqSymmetry
PROPERTIES
    OwnStampIsEnough
