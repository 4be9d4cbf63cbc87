SPECIFICATION Spec
CONSTANTS
    none = none
    r1 = r1
    r2 = r2
    r3 = r3
    BaseIds = {"b1"}
    MaxVersNum = 2
    Users <- MCUsers
    Fields = {"creator", "body"}
    Values <- MCValues
    Absent = none
    SubjectLinks = {"page1", "page2"}
    ReplyLinks = {}
    DbUser = "postgres"
    Reqs = {r1, r2}
    Grants <- MCGrants
    Identities <- MCIdentities
    KnownUsers <- MCKnownUsers
    Anonymous = "anonymous"
    Trusted = {"mod"}
    AutoDoi = FALSE
    Posters = {"alice"}
    Drafts <- OneDraft
    LinkSets <- SomeTargets
    Stampers = {"mod"}
    PatchStamps <- Decisions
    Readers = {}
    Roles = {"approver"}
    Unreadable <- NoTargetDenied
    Searches = {}
    TargetSpecs = {"page1", "pages/*"}
    MatchedBy <- PageMatches
    SearchStamps = {}
    Times = {1}
    AskedLimits = {0}
    MaxFeedItems = 1
    Faulty = TRUE
SYMMETRY ReqSymmetry
INVARIANTS
    SunsetComplete
    SearchesShowApproved
PROPERTIES
    DisclosedOnlyByApproval
    CreatedIsComplete
    FoundStaysFound
    AcceptanceIsFinal
