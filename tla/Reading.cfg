SPECIFICATION Spec
CONSTANTS
    none = none
    r1 = r1
    r2 = r2
    r3 = r3
    BaseIds = {b1, b2}
    MaxVersNum = 2
    Users <- MCUsers
    Fields = {"creator", "body"}
    Values <- MCValues
    Absent = none
    SubjectLinks = {"page1", "page2"}
    ReplyLinks = {}
    DbUser = "postgres"
    Reqs = {r1, r2}
    Grants <- MCGrants
    Identities <- MCIdentities
    KnownUsers <- MCKnownUsers
    Anonymous = "anonymous"
    Trusted = {"mod"}
    AutoDoi = FALSE
    Posters = {"alice"}
    Drafts <- OneDraft
    LinkSets <- SomeTargets
    Stampers = {"mod"}
    PatchStamps <- Decisions
    Readers = {"anonymous", "alice", "mod"}
    Roles = {"", "author", "approver"}
    Unreadable <- PrivatePage
    Searches = {"list", "byTarget", "byStamp", "latestFeed", "approvalFeed"}
    TargetSpecs = {"pages/*"}
    MatchedBy <- PrefixMatches
    SearchStamps = {"as:deleted"}
    Times = {1, 2}
    AskedLimits = {0}
    MaxFeedItems = 1
    Faulty = FALSE
SYMMETRY ReqBaseSymmetry
CONSTRAINTS
    OneReader
    ClockTicks
    TwoAnnosInFeed
INVARIANTS
    HeldOncePosted
    AcceptedIsDisclosed
    SearchMissesNothing
PROPERTIES
    FirstComeFirstServed
    PublicReadsAreApproved
    SearchesShowReadable
    SearchFailsOnlyDuringPost
    ListNamesWorkingCopy
    ListAgreesWithLookup
