------------------------------ MODULE AnnoRequest ------------------------------
(***************************************************************************)
(* Requests in flight.  Node.js runs one handler at a time, and a handler  *)
(* gives way only where it awaits something.  The only awaited calls whose *)
(* answer another request can change are the database queries, so a        *)
(* request is a record whose `pc` names the query it is about to send and  *)
(* whose other fields are the handler's local variables at that point.     *)
(*                                                                         *)
(* The configuration (users, ACL chains, services) is read at start-up and *)
(* does not change; an ACL check is a lookup in the constant Grants.       *)
(***************************************************************************)
EXTENDS AnnoDb, FiniteSets

CONSTANTS
    Reqs,           \* slots for requests in flight at the same time
    Grants,         \* Grants[u]: privileges the ACL chains allow to u
    Identities,     \* Identities[u]: agent IDs configured for user u
    KnownUsers,     \* users that lusrmgr has author identities of
    Anonymous,      \* the user of a request without a session
    Trusted,        \* users whose posts get no approvalRequiredBy
    AutoDoi,        \* service flag autoRequestNextVersionDoi
    Posters,        \* users that send POST requests, ...
    Drafts,         \* ... the properties they submit, ...
    LinkSets,       \* ... and the targets they submit
    Times,          \* what the clock says when a POST is about to insert
    Stampers,       \* users that send PATCH requests, ...
    PatchStamps,    \* ... and the stamp types they ask for
    Readers,        \* users that send GET requests
    Roles,          \* role names in the URLs, "" if there is none
    Unreadable,     \* Unreadable[u]: target URLs of which the chains deny
                    \* `read` to u
    Searches,       \* kinds of searches that are sent, ...
    TargetSpecs,    \* ... the subject targets searched for, URLs or prefixes,
    MatchedBy,      \* ... the URLs that MatchedBy[s] selects,
    SearchStamps,   \* ... the stamp types searched for, and
    AskedLimits,    \* the limits in the URLs, 0 if there is none
    MaxFeedItems    \* fmtAnnosAsRssFeed.defaultMaxItems

ASSUME TrafficAssumption ==
    /\ Anonymous \in Users
    /\ Posters \subseteq Users
    /\ Stampers \subseteq Users
    /\ Readers \subseteq Users
    /\ Drafts \subseteq Details
    /\ LinkSets \subseteq SUBSET Links
    /\ \A L \in LinkSets : L \cap SubjectLinks # {} \* 'Found no subject target'
    /\ PatchStamps \subseteq StampTypes
    /\ AutoDoi \in BOOLEAN
    /\ MatchedBy \in [TargetSpecs -> SUBSET SubjectLinks]
    /\ SearchStamps \subseteq StampTypes
    /\ Times \subseteq Nat
    /\ AskedLimits \subseteq Nat
    /\ MaxFeedItems \in Nat

VARIABLE reqs

vars == <<annoData, annoStamps, annoLinks, heldLate, reqs>>

-------------------------------------------------------------------------------
QueryPcs ==
    {"findLatest", "lookupDetails", "lookupStamps", "search",
     "insertData", "insertStamps", "insertLinks",
     "prepareAdd", "addStamp", "cleanupAfterAdd"}

Pcs == QueryPcs \cup {"idle", "respond"}

SearchOps == {"list", "byTarget", "byStamp", "latestFeed", "approvalFeed"}

Codes == {0, 200, 201, 302, 400, 403, 404, 405, 409, 410, 500, 503}

Request == [
    pc: Pcs,
    op: {"", "post", "patch", "get"} \cup SearchOps,
    user: Users \cup {Absent},
    role: Roles \cup {"", "approver"},
    base: BaseIds \cup {Absent},
    vernum: 0..(MaxVersNum + 1),   \* idParts.versNum
    draft: Details \cup {Absent},
    links: SUBSET Links,
    edited: SUBSET Fields,
    stamp: StampTypes \cup {Absent},
    stampsTodo: SUBSET StampTypes, \* stampRecs not inserted yet
    linksTodo: SUBSET Links,       \* relRecs not inserted yet
    time: Nat,                     \* anno.created
    dupe: BOOLEAN,                 \* ctx.hadDupeError
    spec: TargetSpecs \cup {Absent}, \* subjTgtSpec
    titles: BOOLEAN,               \* content mode justTitles
    limit: Nat,                    \* ctx.rowsLimit, 0 if there is none
    oldest: BOOLEAN,               \* orderByTimeDirection is ASC
    found: SUBSET VersIds,         \* rows a search has found
    code: Codes]                   \* HTTP status of the response

NoReq == [
    pc |-> "idle", op |-> "", user |-> Absent, role |-> "", base |-> Absent,
    vernum |-> 0, draft |-> Absent, links |-> {}, edited |-> {},
    stamp |-> Absent, stampsTodo |-> {}, linksTodo |-> {}, time |-> 0,
    dupe |-> FALSE, spec |-> Absent, titles |-> FALSE, limit |-> 0,
    oldest |-> TRUE, found |-> {}, code |-> 0]

ReqInit == reqs = [r \in Reqs |-> NoReq]

VersId(q) == <<q.base, q.vernum>>

(* The handler awaits the query `pc` next; q holds its local variables.    *)
Await(r, pc, q) == reqs' = [reqs EXCEPT ![r] = [q EXCEPT !.pc = pc]]

(* The handler returns or throws: the response is sent.                    *)
Respond(r, code) ==
    reqs' = [reqs EXCEPT ![r] = [NoReq EXCEPT !.pc = "respond", !.code = code]]

(* ... with a Location header that names a version number.                 *)
Redirect(r, n) ==
    reqs' = [reqs EXCEPT ![r] =
        [NoReq EXCEPT !.pc = "respond", !.code = 302, !.vernum = n]]

(* ... with the versions in F, and the number of the working copy if the   *)
(* response is a list of versions.                                         *)
RespondFound(r, F, n) ==
    reqs' = [reqs EXCEPT ![r] =
        [NoReq EXCEPT !.pc = "respond", !.code = 200, !.vernum = n, !.found = F]]

(* The response is out and the slot is free for another request.           *)
Delivered(r) ==
    /\ reqs[r].pc = "respond"
    /\ reqs' = [reqs EXCEPT ![r] = NoReq]
    /\ UNCHANGED dbVars

-------------------------------------------------------------------------------
(* Privileges are tuples: <<"read">>, <<"revise_own", "body">>,            *)
(* <<"stamp_any_add", "as:deleted">>.                                      *)

Allowed(u, privilege) == privilege \in Grants[u]

(* requirePermForAllTargetUrls(): `read` on each of these targets.         *)
MayReadTargets(u, urls) ==
    Allowed(u, <<"read">>) /\ urls \cap Unreadable[u] = {}

(* The targets of an annotation can be checked only by those who may look  *)
(* them up; the ACL check of an unknown target is denied.                  *)
MayRead(u, row) ==
    /\ Allowed(u, <<"lookupAnnoTargets">>)
    /\ MayReadTargets(u, row.links \cap SubjectLinks)

(* decideAuthorIdentity(): is the submitted creator one of u's identities? *)
Authorized(u, details) ==
    u \in KnownUsers /\ details["creator"] \in Identities[u]
===============================================================================
