SPECIFICATION FairSpec
CONSTANTS
    none = none
    r1 = r1
    r2 = r2
    r3 = r3
    BaseIds = {"b1"}
    MaxVersNum = 2
    Users <- MCUsers
    Fields = {"creator", "body"}
    Values <- MCValues
    Absent = none
    SubjectLinks = {"page1"}
    ReplyLinks = {}
    DbUser = "postgres"
    Reqs = {r1, r2}
    Grants <- MCGrants
    Identities <- MCIdentities
    KnownUsers <- MCKnownUsers
    Anonymous = "anonymous"
    Trusted = {"alice", "mod"}
    AutoDoi = TRUE
    Posters = {"alice"}
    Drafts <- AlicesDrafts
    LinkSets <- OneTarget
    Stampers = {"mod", "bot"}
    PatchStamps <- DoiStamps
    Readers = {}
    Roles = {""}
    Unreadable <- NoTargetDenied
    Searches = {}
    TargetSpecs = {}
    MatchedBy <- MatchesNothing
    SearchStamps = {}
    Times = {1}
    AskedLimits = {0}
    MaxFeedItems = 1
    Faulty = FALSE
PROPERTIES
    EveryRequestAnswered
    DoiRequestHonoured
