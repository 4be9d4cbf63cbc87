------------------------------ MODULE SearchAnnos ------------------------------
(***************************************************************************)
(* Searches: the list of an annotation's versions, /anno/by/subject_target,*)
(* /anno/by/has_stamp, and the RSS feeds of the latest and of the undecided*)
(* annotations.  All of them are multiSearch() with other options: checks  *)
(* of the criterion, one large query, then checks of what was found.       *)
(***************************************************************************)
EXTENDS ExactLookup

Feeds == {"latestFeed", "approvalFeed"}

Formats == {"full", "justTitles", "rss"}

(* processLimitAndRssOptionsInplace: in the RSS format, a limit that is    *)
(* asked for counts only if it is less than the usual one.                 *)
RowsLimit(format, asked) ==
    IF format = "rss" /\ (asked = 0 \/ asked > MaxFeedItems) THEN MaxFeedItems
    ELSE asked

(* A seeded bug: the feed for approvers is in the order of any other.      *)
FormattedNewestFirst(q, format, asked, oldestFirst) ==
    LET limit == RowsLimit(format, asked) IN
    [q EXCEPT !.titles = format # "full", !.limit = limit,
              !.oldest = oldestFirst \/ limit = 0]

(* The search q in some format, with a limit and an order.  The newest     *)
(* come first only if there is a limit; the feed for approvers has its own *)
(* order: first come, first served.                                        *)
Formatted(q, format, asked, oldestFirst) ==
    LET limit == RowsLimit(format, asked) IN
    [q EXCEPT !.titles = format # "full", !.limit = limit,
              !.oldest = oldestFirst \/ limit = 0 \/ q.op = "approvalFeed"]

ApproverPrivilege == <<"stamp_any_add", Accepted>>

(* The checks before the query: 0, or the status of the refusal.  Without  *)
(* a target there is nothing yet to check the approver's privilege on.     *)
SearchRefusal(q) ==
    IF \/ ~Allowed(q.user, <<"discover">>)
       \/ q.op = "byStamp" /\ ~Allowed(q.user, <<"search_hasStamp", q.stamp>>)
       \/ /\ q.role = "approver"
          /\ q.spec # Absent
          /\ ~Allowed(q.user, ApproverPrivilege)
    THEN 403
    ELSE IF q.role \notin {"", "approver", "author"} THEN 404
    ELSE 0

(* A search that the instance asks for comes in.                           *)
StartSearch(r, q) ==
    /\ q.op \in Searches
    /\ reqs[r].pc = "idle"
    /\ IF SearchRefusal(q) = 0
       THEN Await(r, "search", q)
       ELSE Respond(r, SearchRefusal(q))
    /\ UNCHANGED dbVars

(* listVersions() builds the list from the full content, ...               *)
ReceiveListVersions(r) ==
    \E u \in Readers, role \in Roles, b \in BaseIds :
        StartSearch(r, [NoReq EXCEPT !.op = "list", !.user = u, !.role = role,
                                     !.base = b])

(* ... a search by target or by stamp delivers that, or just the titles,   *)
(* in the RSS format for example,                                          *)
ReceiveTargetSearch(r) ==
    \E u \in Readers, role \in Roles, s \in TargetSpecs,
       format \in Formats, asked \in AskedLimits, oldestFirst \in BOOLEAN :
        LET q == [NoReq EXCEPT !.op = "byTarget", !.user = u, !.role = role,
                               !.spec = s]
        IN  StartSearch(r, Formatted(q, format, asked, oldestFirst))

ReceiveStampSearch(r) ==
    \E u \in Readers, role \in Roles, type \in SearchStamps,
       format \in Formats, asked \in AskedLimits, oldestFirst \in BOOLEAN :
        LET q == [NoReq EXCEPT !.op = "byStamp", !.user = u, !.role = role,
                               !.stamp = type]
        IN  StartSearch(r, Formatted(q, format, asked, oldestFirst))

(* ... and a feed, which is asked for with its key and knows no roles,     *)
(* always just the titles.                                                 *)
ReceiveFeedRequest(r) ==
    \E op \in Feeds, u \in Readers, s \in TargetSpecs,
       asked \in AskedLimits, oldestFirst \in BOOLEAN :
        LET q == [NoReq EXCEPT !.op = op, !.user = u, !.spec = s]
        IN  StartSearch(r, Formatted(q, "rss", asked, oldestFirst))

ReceiveSearch(r) ==
    \/ ReceiveListVersions(r) \/ ReceiveTargetSearch(r)
    \/ ReceiveStampSearch(r) \/ ReceiveFeedRequest(r)

-------------------------------------------------------------------------------
(* The query.                                                              *)

(* criteria_filter: the versions that the inquiry is about.                *)
MeetsCriterion(q, v) ==
    CASE q.op = "list"    -> v[1] = q.base
      [] q.op = "byStamp" -> q.stamp \in annoStamps[v]
      [] OTHER            -> annoLinks[v] \cap MatchedBy[q.spec] # {}

(* A seeded bug: what has been retracted is not public any more.           *)
IsPublicNow(v) == {Unapproved, Deleted} \cap annoStamps[v] = {}

IsOrWasPublic(v) == Unapproved \notin annoStamps[v]
IsUndecided(v)   == Unapproved \in annoStamps[v] /\ Deleted \notin annoStamps[v]

(* visibilityWhere                                                         *)
IsVisible(q, v) ==
    IF q.op = "approvalFeed" THEN IsUndecided(v)
    ELSE \/ q.role = "approver"
         \/ IsOrWasPublic(v)
         \/ /\ q.role = "author"
            /\ q.user # Anonymous
            /\ q.user = annoData[v].author

(* latestVersionOnly: SELECT DISTINCT ON (base_id).                        *)
LatestOnly(S) == {v \in S : \A w \in S : w[1] = v[1] => w[2] <= v[2]}

(* A seeded bug: the latest version is looked for before the visible ones. *)
VisibleOfLatest(q) ==
    LET asked == {v \in DOMAIN annoData : MeetsCriterion(q, v)}
    IN  {v \in IF q.op = "list" THEN asked ELSE LatestOnly(asked) :
            IsVisible(q, v)}

Found(q) ==
    LET visible ==
            {v \in DOMAIN annoData : MeetsCriterion(q, v) /\ IsVisible(q, v)}
    IN  IF q.op = "list" THEN visible ELSE LatestOnly(visible)

ComesBefore(q, v, w) ==
    IF q.oldest THEN annoData[v].time < annoData[w].time
    ELSE annoData[w].time < annoData[v].time

(* orderedSearch: the results the query may have, the first ones of those  *)
(* found if there is a limit.  Random base IDs decide between equal times. *)
OrderedSearch(q) ==
    IF q.limit = 0 THEN {Found(q)}
    ELSE {F \in SUBSET Found(q) :
            /\ \/ Cardinality(F) = q.limit
               \/ Cardinality(F) < q.limit /\ F = Found(q)
            /\ \A v \in F, w \in Found(q) \ F : ~ComesBefore(q, w, v)}

-------------------------------------------------------------------------------
(* With titles only, the subject targets come from anno_links, otherwise   *)
(* from the details of the annotation.                                     *)
ResultSubjects(q, v) ==
    SubjectLinks \cap (IF q.titles THEN annoLinks[v] ELSE annoData[v].links)

SpecUrls(q) == {q.spec} \ {Absent}

(* A seeded bug: the targets of the results are not checked.               *)
VerdictOnSpecOnly(q, F) ==
    IF SpecUrls(q) # {} /\ ~MayReadTargets(q.user, SpecUrls(q)) THEN 403
    ELSE 200

(* checkSubjTgtAcl(): a result without a known target fails the search, an *)
(* unreadable one denies it, and without any target nothing is checked.    *)
SearchVerdict(q, F) ==
    LET urls == SpecUrls(q) \cup UNION {ResultSubjects(q, v) : v \in F}
        denied ==
            \/ ~MayReadTargets(q.user, urls)
            \/ /\ q.role = "approver"
               /\ q.spec = Absent
               /\ ~Allowed(q.user, ApproverPrivilege)
    IN  IF \E v \in F : ResultSubjects(q, v) = {} THEN 500
        ELSE IF urls # {} /\ denied THEN 403
        ELSE IF q.op = "list" /\ F = {} THEN 404
        ELSE 200

(* The list asks for the number of the working copy in a query of its own. *)
RunSearch(r) ==
    LET q == reqs[r] IN
    /\ q.pc = "search"
    /\ \E F \in OrderedSearch(q) :
         \/ /\ SearchVerdict(q, F) # 200
            /\ Respond(r, SearchVerdict(q, F))
         \/ /\ SearchVerdict(q, F) = 200
            /\ q.op = "list"
            /\ Await(r, "findLatest", [q EXCEPT !.found = F])
         \/ /\ SearchVerdict(q, F) = 200
            /\ q.op # "list"
            /\ RespondFound(r, F, 0)
    /\ UNCHANGED dbVars

(* A seeded bug: the greatest number that is disclosed.                    *)
NameDisclosedCopy(r) ==
    LET q == reqs[r] IN
    /\ q.pc = "findLatest"
    /\ q.op = "list"
    /\ \E n \in 0..MaxVersNum :
         /\ IsSqlMax(n, Disclosed(q.base))
         /\ RespondFound(r, q.found, n)
    /\ UNCHANGED dbVars

NameWorkingCopy(r) ==
    LET q == reqs[r] IN
    /\ q.pc = "findLatest"
    /\ q.op = "list"
    /\ \E n \in VersNums(q.base) :
         /\ IsSqlMax(n, VersNums(q.base))
         /\ RespondFound(r, q.found, n)
    /\ UNCHANGED dbVars
===============================================================================
