------------------------------- MODULE RequestMeta -------------------------------
(***************************************************************************)
(* What the ACL checks of a request are told about it: the user, whom the  *)
(* identity detectors name, and the services of its targets.  The checks   *)
(* of all targets run at the same time and share a cache that lives as     *)
(* long as the request.                                                    *)
(***************************************************************************)
EXTENDS Services, ServerLifecycle

CONSTANTS
    Ids,            \* user IDs, as the upstream sources name them or local
    Guest,          \* the empty user ID
    NoId,           \* no identity, because no source names one
    DetectorLists,  \* lists of identity sources, sorted by their names
    Transform,      \* Transform[i]: i after all upstream_userid_transforms,
                    \* or Guest if nothing is left of it, which is an error
    Aliases,        \* upstreamUserIdAliases, from IDs to local users
    FileIds,        \* what may be in the file of the debug detector
    Profiles,       \* requests: [header, cookie, urls]
    NoTarget,       \* stands for the target of checks that have none
    Permits         \* <<user, service>> for which the ACL chains say allow

Sources == {"headers", "cookie", "static_from_file", "guest_access_only"}

Detected == Ids \cup {Guest, NoId}

ASSUME RequestMetaAssumption ==
    /\ DetectorLists \subseteq Seq(Sources)
    /\ Guest \notin Ids /\ NoId \notin Ids
    /\ Transform \in [Ids -> Ids \cup {Guest}]
    /\ DOMAIN Aliases \subseteq Ids
    /\ \A i \in DOMAIN Aliases : Aliases[i] \in Ids
    /\ FileIds \subseteq Detected
    /\ \A p \in Profiles : p.header \in Ids \cup {NoId} /\ p.cookie \in Detected

ServiceOf == [u \in UNION {p.urls : p \in Profiles} |-> FindServiceByTargetUrl(u)]

VARIABLES
    detectors,      \* acl.identityDetectors
    whoami,         \* the ID in the file of the debug detector
    asked,          \* asked[c]: the profile of the request
    checks,         \* checks[c][url]: progress of that target's check
    cachedUser      \* cachedUser[c]: publicMeta.userId, NoId if undefined

metaVars == <<detectors, whoami, asked, checks, cachedUser>>

NoProfile == [header |-> NoId, cookie |-> NoId, urls |-> {}]

NoChecks == [u \in {} |-> "begin"]

Check == {"begin", "reading", "granted", "denied", "failed"}

MetaInit ==
    /\ detectors \in DetectorLists
    /\ whoami = NoId
    /\ asked = [c \in Conns |-> NoProfile]
    /\ checks = [c \in Conns |-> NoChecks]
    /\ cachedUser = [c \in Conns |-> NoId]

StartChecks(c, p) ==
    /\ asked' = [asked EXCEPT ![c] = p]
    /\ checks' = [checks EXCEPT ![c] = [u \in p.urls |-> "begin"]]
    /\ cachedUser' = [cachedUser EXCEPT ![c] = NoId]
    /\ UNCHANGED <<detectors, whoami>>

(* The request is over, or needs no more checks.                           *)
Forget(C) ==
    /\ asked' = [c \in Conns |-> IF c \in C THEN NoProfile ELSE asked[c]]
    /\ checks' = [c \in Conns |-> IF c \in C THEN NoChecks ELSE checks[c]]
    /\ cachedUser' = [c \in Conns |-> IF c \in C THEN NoId ELSE cachedUser[c]]
    /\ UNCHANGED <<detectors, whoami>>

-------------------------------------------------------------------------------
(* dummyDetectIdentityGuestAccessOnly() hands out a function instead of a  *)
(* session, which passes for one without a userId, that is, for a guest's. *)
DummyGuestSession == Guest

(* What a source says of a request.                                        *)
Answer(source, p) ==
    CASE source = "headers"           -> p.header
      [] source = "cookie"            -> p.cookie   \* Guest if it is "-"
      [] source = "static_from_file"  -> whoami
      [] source = "guest_access_only" -> DummyGuestSession

AliasOrSelf(i) == IF i \in DOMAIN Aliases THEN Aliases[i] ELSE i

(* The transformations, then the alias; without an ID there is nothing to  *)
(* do.                                                                     *)
ResolvedUser(i) ==
    IF i \notin Ids \/ Transform[i] = Guest THEN Guest
    ELSE AliasOrSelf(Transform[i])

TransformFails(i) == i \in Ids /\ Transform[i] = Guest

(* Places of the sources that name somebody, the user or a guest.          *)
Naming(p) == {k \in 1..Len(detectors) : Answer(detectors[k], p) # NoId}

FilesAt == {k \in 1..Len(detectors) : detectors[k] = "static_from_file"}

(* The first source that names somebody is believed (tryOneDetector).      *)
FirstNamed(p) ==
    IF Naming(p) = {} THEN NoId
    ELSE Answer(detectors[CHOOSE k \in Naming(p) : \A j \in Naming(p) : k <= j], p)

(* No source before the file names anybody.                                *)
NeedsFile(p) == \E f \in FilesAt : \A k \in Naming(p) \ FilesAt : f < k

SetCheck(c, u, result) == checks' = [checks EXCEPT ![c][u] = result]

(* The ACL chains decide; without a target they know of no service.        *)
Conclude(c, u, user) ==
    SetCheck(c, u, IF <<user, ServiceOf[u]>> \in Permits
                   THEN "granted" ELSE "denied")

(* The check that has detected the user puts it into the cache, whatever   *)
(* another check of the request has put there in the meantime.             *)
Detect(c, u) ==
    LET found == FirstNamed(asked[c])
    IN  IF TransformFails(found)
        THEN SetCheck(c, u, "failed") /\ UNCHANGED cachedUser
        ELSE /\ cachedUser' = [cachedUser EXCEPT ![c] = ResolvedUser(found)]
             /\ Conclude(c, u, ResolvedUser(found))

(* whyDeny(): a target without a service is denied at once; the user is    *)
(* taken from the cache if some check has put it there.  Of all that is    *)
(* awaited here, only the file makes other requests come between.          *)
BeginCheck(c, u) ==
    /\ checks[c][u] = "begin"
    /\ \/ /\ u # NoTarget /\ ServiceOf[u] = NoService
          /\ SetCheck(c, u, "denied")
          /\ UNCHANGED cachedUser
       \/ /\ u = NoTarget \/ ServiceOf[u] # NoService
          /\ \/ /\ cachedUser[c] # NoId
                /\ Conclude(c, u, cachedUser[c])
                /\ UNCHANGED cachedUser
             \/ /\ cachedUser[c] = NoId /\ NeedsFile(asked[c])
                /\ SetCheck(c, u, "reading")
                /\ UNCHANGED cachedUser
             \/ /\ cachedUser[c] = NoId /\ ~NeedsFile(asked[c])
                /\ Detect(c, u)
    /\ UNCHANGED <<detectors, whoami, asked>>

(* The file has been read.  A debug file that cannot be read is left out.  *)
FileRead(c, u) ==
    /\ checks[c][u] = "reading"
    /\ Detect(c, u)
    /\ UNCHANGED <<detectors, whoami, asked>>

CheckTarget(c) ==
    \E u \in DOMAIN checks[c] : BeginCheck(c, u) \/ FileRead(c, u)

(* Somebody edits the file of the debug detector.                          *)
EditFile ==
    /\ FilesAt # {}
    /\ \E i \in FileIds : whoami' = i
    /\ UNCHANGED <<detectors, asked, checks, cachedUser>>

(* A seeded bug: one granted target is enough.                             *)
SomeGranted(c) == \E u \in DOMAIN checks[c] : checks[c][u] = "granted"

(* requirePermForAllTargetUrls() waits for all checks, or for one that     *)
(* throws.                                                                 *)
AllGranted(c) == \A u \in DOMAIN checks[c] : checks[c][u] = "granted"

(* A seeded bug: detectors that throw are not noticed.                     *)
SomeDenied(c) == \E u \in DOMAIN checks[c] : checks[c][u] = "denied"

SomeFailed(c) == \E u \in DOMAIN checks[c] : checks[c][u] \in {"denied", "failed"}
===============================================================================
