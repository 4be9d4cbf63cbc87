------------------------------- MODULE AnnoServer -------------------------------
(***************************************************************************)
(* The annotation server: POST, PATCH and GET requests interleave at every *)
(* query, a query may fail, and the process may die between any two.       *)
(***************************************************************************)
EXTENDS PostAnno, PatchAnno, GetAnno, SearchAnnos

CONSTANT Faulty     \* whether queries fail and the process crashes

ASSUME FaultyAssumption == Faulty \in BOOLEAN

Init == DbInit /\ ReqInit

Receive(r) ==
    ReceivePost(r) \/ ReceivePatch(r) \/ ReceiveGet(r) \/ ReceiveSearch(r)

(* Steps of a handler once the request is in.                              *)
Handle(r) ==
    \/ LookupDetails(r) \/ LookupRefused(r)
    \/ FindLatestForRevision(r) \/ ReviseChecked(r)
    \/ InsertAnnoData(r) \/ InsertStamps(r) \/ InsertLinks(r)
    \/ StampChecked(r) \/ PrepareAdd(r) \/ AddStamp(r) \/ CleanupAfterAdd(r)
    \/ RedirToLatestVersion(r) \/ ServeExactVersion(r)
    \/ RunSearch(r) \/ NameWorkingCopy(r)
    \/ Delivered(r)

(* The query is not executed; the handler throws.                          *)
QueryFails(r) ==
    /\ Faulty
    /\ reqs[r].pc \in QueryPcs
    /\ \E code \in {500, 503} : Respond(r, code)
    /\ UNCHANGED dbVars

(* The process ends and is started again.  Requests in flight are lost; a  *)
(* shutdown by signal does the same to them, as it closes the database     *)
(* pool without waiting for the handlers.                                  *)
Crash ==
    /\ Faulty
    /\ reqs' = [r \in Reqs |-> NoReq]
    /\ UNCHANGED dbVars

Next == (\E r \in Reqs : Receive(r) \/ Handle(r) \/ QueryFails(r)) \/ Crash

Spec == Init /\ [][Next]_vars

(* The event loop runs every handler whose query has been answered, and a  *)
(* pool without faults answers every query.                                *)
FairSpec == Spec /\ \A r \in Reqs : WF_vars(Handle(r))

-------------------------------------------------------------------------------
(* Every variable keeps its type: the tables only hold version numbers the *)
(* column can hold, and a request's local variables are what the handlers  *)
(* put there.                                                              *)
TypeOK ==
    /\ DbTypeOK
    /\ reqs \in [Reqs -> Request]

(* There are no gaps in the version numbers of an annotation: the handlers *)
(* compute the number of the replaced version instead of looking it up     *)
(* (redundantGenericAnnoMeta), also after requests that raced or died.     *)
VersionsContiguous ==
    \A b \in BaseIds : \A n \in VersNums(b) : 1..n \subseteq VersNums(b)

(* No lost update: a version says the same as its predecessor in every     *)
(* property that its author did not edit, whoever revised in between       *)
(* (the dc:replaces check and the primary key of anno_data).               *)
NoLostUpdate ==
    \A b \in BaseIds, n \in 2..MaxVersNum :
        Stored(<<b, n>>) /\ Stored(<<b, n - 1>>) =>
            \A f \in Fields \ annoData[<<b, n>>].edited :
                annoData[<<b, n>>].details[f] = annoData[<<b, n - 1>>].details[f]

(* A POST that is answered with 201 has stored what the client sent, all   *)
(* of its links, and, where an approval is required, the stamp that holds  *)
(* it, unless an approver has been faster.                                 *)
CreatedIsComplete ==
    [][\A r \in Reqs :
        LET q == reqs[r] IN
        q.pc = "insertLinks" /\ reqs'[r].pc = "respond" /\ reqs'[r].code = 201 =>
            /\ annoData[VersId(q)] = NewRow(q)
            /\ annoLinks'[VersId(q)] = q.links
            /\ q.user \notin Trusted =>
                 {Unapproved, Accepted} \cap annoStamps[VersId(q)] # {}]_vars

(* A version that waits for approval stops waiting only when it has been   *)
(* accepted: no other handler, and no failure of one, discloses it.        *)
DisclosedOnlyByApproval ==
    [][\A v \in VersIds :
        Unapproved \in annoStamps[v] /\ Unapproved \notin annoStamps'[v]
            => Accepted \in annoStamps[v]]_vars

(* Whoever raced whom, a stored version is one that its poster may post on *)
(* top of its predecessor: first versions are signed with an identity of   *)
(* the poster's own, a later one differs from the version before it only   *)
(* where the poster has the privilege for it, and no version moves to      *)
(* another thread.                                                         *)
ClaimsOwnership(row) == Authorized(row.author, row.details)

RevisionIsAuthorized(old, new) ==
    LET whose == IF ClaimsOwnership(new) THEN "revise_own" ELSE "revise_any"
        Has(p) == Allowed(new.author, p)
    IN  /\ Has(<<whose>>)
        /\ new.details["creator"] # old.details["creator"]
             => Has(<<whose, "creator">>)
        /\ new.details["body"] # old.details["body"] => Has(<<whose, "body">>)
        /\ ~(SubjectsOf(new.links) \subseteq SubjectsOf(old.links))
             => Has(<<whose, "target_add">>)
        /\ ~(SubjectsOf(old.links) \subseteq SubjectsOf(new.links))
             => Has(<<whose, "target_del">>)
        /\ RepliesOf(new.links) = RepliesOf(old.links)

VersionsAreAuthorized ==
    \A b \in BaseIds :
        /\ Stored(<<b, 1>>) => ClaimsOwnership(annoData[<<b, 1>>])
        /\ \A n \in 2..MaxVersNum :
             Stored(<<b, n>>) =>
                RevisionIsAuthorized(annoData[<<b, n - 1>>], annoData[<<b, n>>])

(* The author of the replaced version decides whether a revision needs     *)
(* revise_own or revise_any (privileges.md).                               *)
ReviseOwnMeansOwn ==
    \A b \in BaseIds, n \in 2..MaxVersNum :
        Stored(<<b, n>>) =>
            LET u == annoData[<<b, n>>].author IN
            \/ Authorized(u, annoData[<<b, n - 1>>].details)
            \/ Allowed(u, <<"revise_any">>)

(* Whoever has the `own` privilege for a stamp may put it on a version of  *)
(* their own, once they may look at it in the role that stamping takes     *)
(* (privileges.md).                                                        *)
OwnStampIsEnough ==
    [][\A r \in Reqs :
        LET q == reqs[r] IN
        /\ q.pc = "lookupStamps" /\ q.op = "patch"
        /\ MayRead(q.user, annoData[VersId(q)])
        /\ Allowed(q.user, <<"stamp_any_add", Accepted>>)
        /\ Authorized(q.user, annoData[VersId(q)].details)
        /\ Allowed(q.user, <<"stamp_own_add", q.stamp>>)
        => reqs'[r].code # 403]_vars

(* Approving a version leaves no earlier version undecided: each one that  *)
(* waited when the approved one was stored is sunset before the approval   *)
(* is recorded, even if the handler dies in between.                       *)
SunsetComplete ==
    \A b \in BaseIds, m, n \in 1..MaxVersNum :
        /\ m < n
        /\ Accepted \in annoStamps[<<b, n>>]
        /\ Unapproved \in annoStamps[<<b, m>>]
        => Deleted \in annoStamps[<<b, m>>] \/ <<b, m>> \in heldLate

(* p is the POST that has stored v and is about to hold it.                *)
AboutToHold(p, v) ==
    /\ reqs[p].pc = "insertStamps"
    /\ VersId(reqs[p]) = v
    /\ Unapproved \in reqs[p].stampsTodo

(* Without faults, an untrusted author's version is held once its POST has *)
(* got past the stamps, and until it is accepted.                          *)
HeldOncePosted ==
    \A v \in DOMAIN annoData :
        \/ annoData[v].author \in Trusted
        \/ {Unapproved, Accepted} \cap annoStamps[v] # {}
        \/ \E p \in Reqs : AboutToHold(p, v)

(* The public gets a version: the answer to the lookup's second query.     *)
ServesPublic(r) ==
    /\ reqs[r].pc = "lookupStamps" /\ reqs[r].op = "get" /\ reqs[r].role = ""
    /\ reqs'[r].pc = "respond" /\ reqs'[r].code = 200

(* Without faults and without a DOI bot, the public gets an untrusted      *)
(* author's version only when it has been accepted, or in the moment       *)
(* before its own POST holds it.  (A third stamp may hide the unapproved   *)
(* one from the lookup, which reads two.)                                  *)
PublicReadsAreApproved ==
    [][\A r \in Reqs :
        LET v == VersId(reqs[r]) IN
            /\ ServesPublic(r)
            /\ annoData[v].author \notin Trusted
            => \/ Accepted \in annoStamps[v]
               \/ \E p \in Reqs : AboutToHold(p, v)]_vars

(* What a reader of the configuration's comments expects: new annotations  *)
(* are held until approved, from the start (approvalRequiredBy).           *)
HeldUntilApproved ==
    [][\A r \in Reqs :
        LET v == VersId(reqs[r]) IN
        ServesPublic(r) /\ annoData[v].author \notin Trusted
            => Accepted \in annoStamps[v]]_vars

(* A version that has been retracted is not served any more, whatever      *)
(* other stamps it carries.                                                *)
RetractedIsGone ==
    [][\A r \in Reqs :
        ServesPublic(r) => Deleted \notin annoStamps[VersId(reqs[r])]]_vars

(* Without faults, an accepted version does not stay hidden after the      *)
(* PATCH that accepted it, unless its own POST held it only afterwards.    *)
AcceptedIsDisclosed ==
    \A v \in DOMAIN annoData :
        {Unapproved, Accepted} \subseteq annoStamps[v] =>
            \/ v \in heldLate
            \/ \E r \in Reqs : /\ reqs[r].pc = "cleanupAfterAdd"
                               /\ VersId(reqs[r]) = v

(* Who is told that a version is accepted, or had been accepted already,   *)
(* can rely on it being disclosed, whatever had failed or died before: a   *)
(* PATCH that finds the stamp of one that was lost between the insert and  *)
(* the cleanup does the cleanup for it, before it answers 409.             *)
AcceptanceIsFinal ==
    [][\A r \in Reqs :
        LET q == reqs[r] IN
        /\ q.op = "patch" /\ q.stamp = Accepted /\ q.pc \in QueryPcs
        /\ reqs'[r].pc = "respond" /\ reqs'[r].code \in {200, 409}
        => /\ Accepted \in annoStamps'[VersId(q)]
           /\ Unapproved \notin annoStamps'[VersId(q)]]_vars

-------------------------------------------------------------------------------
(* What the public finds at a target in a search without a limit.          *)
PublicFinds(s) == Found([NoReq EXCEPT !.op = "byTarget", !.spec = s])

(* v, or a later version of the same annotation.                           *)
Represented(v, F) == \E w \in F : w[1] = v[1] /\ w[2] >= v[2]

IsAbout(v, s) == annoData[v].links \cap MatchedBy[s] # {}

(* A POST is still inserting what belongs to its version, or to v.         *)
Inserting(q) == q.pc \in {"insertStamps", "insertLinks"}

BeingPosted(v) ==
    \E p \in Reqs : Inserting(reqs[p]) /\ VersId(reqs[p]) = v

(* The public finds an untrusted author's version by its target only when  *)
(* it has been accepted, even while its POST is going on or after that has *)
(* died: unlike the exact look-up, a search by target finds links, and     *)
(* those are inserted after the stamps.                                    *)
SearchesShowApproved ==
    \A s \in TargetSpecs : \A v \in PublicFinds(s) :
        annoData[v].author \in Trusted \/ Accepted \in annoStamps[v]

(* What the public has found at a target stays there, or gives way to a    *)
(* later version: a held revision, a retraction or a failing POST does not *)
(* make it disappear from searches.                                        *)
FoundStaysFound ==
    [][\A s \in TargetSpecs : \A v \in PublicFinds(s) :
        Represented(v, PublicFinds(s)')]_vars

(* First come, first served: without faults, the approvers' feed announces *)
(* every version that waits for a decision and whose POST has been         *)
(* answered, or a later one of the same annotation.  If the feed is full,  *)
(* it may leave out those whose latest undecided version is not older than *)
(* any that it announces.                                                  *)
Awaiting(v, s) ==
    /\ IsAbout(v, s) /\ ~BeingPosted(v)
    /\ annoData[v].author \notin Trusted
    /\ {Accepted, Deleted} \cap annoStamps[v] = {}

CameBeforeAnno(F, v) ==
    \E w \in DOMAIN annoData :
        /\ w[1] = v[1] /\ w[2] >= v[2] /\ IsUndecided(w)
        /\ \A x \in F : annoData[x].time <= annoData[w].time

FirstComeFirstServed ==
    [][\A r \in Reqs :
        LET q == reqs[r]
            F == reqs'[r].found
        IN  /\ q.pc = "search" /\ q.op = "approvalFeed"
            /\ reqs'[r].code = 200
            => \A v \in DOMAIN annoData :
                 Awaiting(v, q.spec) =>
                    \/ Represented(v, F)
                    \/ Cardinality(F) = q.limit /\ CameBeforeAnno(F, v)]_vars

(* Without faults, the query of a search by target without a limit misses  *)
(* no version that the public may read, whichever of its targets is asked  *)
(* for.                                                                    *)
SearchMissesNothing ==
    \A v \in DOMAIN annoData, s \in TargetSpecs :
        IsAbout(v, s) /\ Unapproved \notin annoStamps[v]
        => Represented(v, PublicFinds(s)) \/ BeingPosted(v)

(* A search that is answered shows only versions of which the reader may   *)
(* read all targets, except that a feed may be too early: it knows only    *)
(* those targets whose links have been inserted.                           *)
SearchesShowReadable ==
    [][\A r \in Reqs :
        LET q == reqs[r] IN
        q.pc = "search" /\ (reqs'[r].code = 200 \/ reqs'[r].pc = "findLatest")
        => \A v \in reqs'[r].found :
             \/ MayReadTargets(q.user, annoData[v].links \cap SubjectLinks)
             \/ q.titles /\ BeingPosted(v)]_vars

(* Without faults, a search fails only while a POST is about to insert the *)
(* first link of one of its results, which has no known target yet.        *)
SearchFailsOnlyDuringPost ==
    [][\A r \in Reqs :
        reqs[r].pc = "search" /\ reqs'[r].code = 500
        => \E v \in DOMAIN annoData : BeingPosted(v) /\ annoLinks[v] = {}]_vars

(* The two queries of the list of versions see different tables, but the   *)
(* working copy it names is never older than a version that it lists.      *)
ListNamesWorkingCopy ==
    [][\A r \in Reqs :
        LET q == reqs[r] IN
        q.pc = "findLatest" /\ q.op = "list" /\ reqs'[r].pc = "respond"
        => \A v \in q.found :
             reqs'[r].vernum >= v[2] /\ Stored(<<q.base, reqs'[r].vernum>>)]_vars

(* The list of versions (SQL) and the look-up of a version (JavaScript)    *)
(* decide alike who may see what, whichever two stamps the look-up gets to *)
(* see: what is listed can be opened or has been retracted, and what can   *)
(* be opened is listed.                                                    *)
ListAgreesWithLookup ==
    [][\A r \in Reqs :
        LET q == reqs[r]
            Verdicts(v) ==
                {LookupVerdict([q EXCEPT !.op = "get", !.vernum = v[2]], seen) :
                    seen \in StampsLimit2(v)}
            servable == {v \in DOMAIN annoData :
                           v[1] = q.base /\ 200 \in Verdicts(v)}
        IN  q.pc = "search" /\ q.op = "list" /\ reqs'[r].pc = "findLatest"
            => /\ servable \subseteq reqs'[r].found
               /\ \A v \in reqs'[r].found : Verdicts(v) \subseteq {200, 410}]_vars

-------------------------------------------------------------------------------
(* The tables, read as the log of each annotation, implement VersionLog:   *)
(* concurrent, failing and dying POST requests included.                   *)
VersionLogOfTables ==
    [b \in BaseIds |-> [n \in VersNums(b) |-> annoData[<<b, n>>]]]

Log == INSTANCE VersionLog WITH log <- VersionLogOfTables, Rows <- AnnoRow

ImplementsVersionLog == Log!LogSpec

-------------------------------------------------------------------------------
(* Without faults, every request is answered, whatever the others do.      *)
EveryRequestAnswered ==
    \A r \in Reqs : reqs[r].pc \in QueryPcs ~> reqs[r].pc = "idle"

(* Without faults, a request for a DOI that has been taken off the DOI     *)
(* bot's list is replaced by the DOI in the end (deleteDoiRequestStamp     *)
(* runs before the identifier's insert).                                   *)
DoiRequestHonoured ==
    \A v \in VersIds :
        (\E r \in Reqs : /\ reqs[r].pc = "addStamp"
                         /\ reqs[r].stamp = Doi
                         /\ VersId(reqs[r]) = v)
        ~> Doi \in annoStamps[v]
-------------------------------------------------------------------------------
(* What the safety proofs need to know of a request in flight.             *)

PostPcs  == {"insertData", "insertStamps", "insertLinks"}
PatchPcs == {"prepareAdd", "addStamp", "cleanupAfterAdd"}

(* The handler's local variables are what its query needs, what has been   *)
(* checked holds on, and a version that the handler has found or inserted  *)
(* is there.                                                               *)
RequestOK(q) ==
    /\ q.pc \in QueryPcs =>
         /\ q.user \in Users
         /\ q.op = "post" => q.draft \in Details /\ SubjectsOf(q.links) # {}
         /\ q.op = "patch" => q.stamp \in PatchStamps
    /\ q.pc \in QueryPcs /\ (q.pc = "search" => q.op = "list") =>
         q.base \in BaseIds
    /\ q.pc = "search" =>
         /\ q.op \in SearchOps /\ q.code = 0
         /\ Allowed(q.user, <<"discover">>)
         /\ q.role \in {"", "approver", "author"}
         /\ q.op = "list" => q.spec = Absent /\ ~q.titles /\ q.limit = 0
         /\ q.op = "approvalFeed" => q.oldest
    /\ q.pc = "findLatest" /\ q.op = "list" =>
         \A v \in q.found : Stored(v) /\ v[1] = q.base
    /\ q.pc \in PostPcs => q.op = "post" /\ q.vernum >= 1
    /\ q.pc \in PatchPcs => q.op = "patch" /\ Allowed(q.user, StampPrivilege(q))
    /\ q.pc \in {"lookupStamps", "insertStamps", "insertLinks"} \cup PatchPcs =>
         Stored(VersId(q))

(* The draft keeps what its author did not edit, with respect to the       *)
(* version it replaces, and that version is there when the next one is     *)
(* about to be inserted.                                                   *)
Keeps(q, row) ==
    \A f \in Fields \ q.edited : q.draft[f] = row.details[f]

ReplacementOK(q) ==
    /\ /\ q.op = "post"
       /\ q.pc \in {"findLatest", "lookupDetails", "lookupStamps"}
       => IF Stored(VersId(q)) THEN Keeps(q, annoData[VersId(q)])
          ELSE q.edited = Fields
    /\ q.pc = "insertData" /\ q.vernum > 1 =>
         /\ Stored(<<q.base, q.vernum - 1>>)
         /\ Keeps(q, annoData[<<q.base, q.vernum - 1>>])

(* Between the sunset and the insert of dc:dateAccepted.                   *)
SunsetUpTo(b, n) ==
    \A m \in 1..MaxVersNum :
        m < n /\ Unapproved \in annoStamps[<<b, m>>] =>
            Deleted \in annoStamps[<<b, m>>] \/ <<b, m>> \in heldLate

SunsetOK(q) ==
    q.pc = "addStamp" /\ q.stamp = Accepted => SunsetUpTo(q.base, q.vernum)

(* The cleanup comes after the insert of dc:dateAccepted.                  *)
CleanupOK(q) ==
    q.pc = "cleanupAfterAdd" => Accepted \in annoStamps[VersId(q)]

(* Stamps are given to stored versions only.                               *)
StampsOK == \A v \in VersIds : annoStamps[v] # {} => Stored(v)

(* A version that waits for no approval, or is waiting, or has got it.     *)
Held(v) ==
    annoData[v].author \in Trusted
    \/ {Unapproved, Accepted} \cap annoStamps[v] # {}

(* A POST that has passed its checks and inserted nothing yet, ...         *)
Fresh(q) ==
    /\ q.linksTodo = q.links
    /\ q.user \in Trusted \/ Unapproved \in q.stampsTodo
    /\ q.stampsTodo \subseteq {Unapproved, DoiRequest}
    /\ ~AutoDoi => q.stampsTodo \subseteq {Unapproved}

(* ... and what it has inserted later.                                     *)
PostingOK(q) ==
    /\ q.pc = "insertData" => Fresh(q)
    /\ q.pc = "insertStamps" /\ ~AutoDoi => q.stampsTodo = {Unapproved}
    /\ Inserting(q) =>
         /\ annoData[VersId(q)] = NewRow(q)
         /\ annoLinks[VersId(q)] = q.links \ q.linksTodo
         /\ q.linksTodo \subseteq q.links
         /\ \/ Held(VersId(q))
            \/ q.pc = "insertStamps" /\ Unapproved \in q.stampsTodo

(* No two requests are inserting what belongs to the same version.         *)
PostsApart ==
    \A p, r \in Reqs :
        p # r /\ Inserting(reqs[p]) /\ Inserting(reqs[r])
        => VersId(reqs[p]) # VersId(reqs[r])

(* Links come after what holds the version.                                *)
LinksOK == \A v \in VersIds : annoLinks[v] # {} => Stored(v) /\ Held(v)

(* What a revising POST has been allowed before its look-ups.              *)
MayRevise(q) ==
    /\ q.draft["creator"] # Absent
    /\ Allowed(q.user, <<RevisePrivilege(q)>>)

(* A POST that is inserting stamps has some to insert, and all of its      *)
(* links.                                                                  *)
StampingOK(q) ==
    q.pc = "insertStamps" =>
        /\ q.stampsTodo # {}
        /\ q.stampsTodo \subseteq {Unapproved, DoiRequest}
        /\ q.linksTodo = q.links

(* The subject targets come first, and every annotation has one.           *)
SubjectsFirst ==
    \A v \in VersIds : annoLinks[v] # {} => SubjectsOf(annoLinks[v]) # {}

RowsHaveSubjects ==
    \A v \in DOMAIN annoData : SubjectsOf(annoData[v].links) # {}

(* Among any versions there is a latest one of each annotation.            *)
LatestExists ==
    \A S \in SUBSET DOMAIN annoData : \A v \in S : Represented(v, LatestOnly(S))

(* Without faults, and if no PATCH gives away the stamps that a POST is    *)
(* about to insert, those inserts succeed, and in the end all links of a   *)
(* version are there.                                                      *)
StampsAreFree(q) ==
    q.pc = "insertStamps" => q.stampsTodo \cap annoStamps[VersId(q)] = {}

LinksComplete ==
    \A v \in DOMAIN annoData :
        annoLinks[v] = annoData[v].links \/ BeingPosted(v)

TypeInv   == TypeOK /\ \A r \in Reqs : RequestOK(reqs[r])
LogInv    == VersionsContiguous /\ NoLostUpdate
             /\ \A r \in Reqs : ReplacementOK(reqs[r])
ApprovalInv == SunsetComplete /\ StampsOK
               /\ \A r \in Reqs : SunsetOK(reqs[r]) /\ CleanupOK(reqs[r])
SearchInv == SubjectsFirst /\ RowsHaveSubjects /\ LatestExists
             /\ \A r \in Reqs : StampingOK(reqs[r])
PostsSucceed == LinksComplete /\ \A r \in Reqs : StampsAreFree(reqs[r])
HoldInv == LinksOK /\ PostsApart /\ \A r \in Reqs : PostingOK(reqs[r])
===============================================================================
