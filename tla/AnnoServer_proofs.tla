---------------------------- MODULE AnnoServer_proofs ----------------------------
(***************************************************************************)
(* Safety of AnnoServer for every set of users, requests, annotations and  *)
(* privileges, and every width of the version number.                      *)
(***************************************************************************)
EXTENDS AnnoServer, TLAPS

(* What Await and Respond do to the table of requests.                     *)
LEMMA AwaitEffect ==
    ASSUME NEW r \in Reqs, NEW pc \in Pcs, NEW q \in Request,
           reqs \in [Reqs -> Request], Await(r, pc, q)
    PROVE  /\ reqs' \in [Reqs -> Request]
           /\ reqs'[r] = [q EXCEPT !.pc = pc]
           /\ \A p \in Reqs \ {r} : reqs'[p] = reqs[p]
<1>1. [q EXCEPT !.pc = pc] \in Request
  BY DEF Request
<1>. QED  BY <1>1 DEF Await

LEMMA NoReqType == NoReq \in Request
BY MaxVersNumAssumption DEF NoReq, Request, Pcs, Codes

LEMMA RespondEffect ==
    ASSUME NEW r \in Reqs, NEW code \in Codes,
           reqs \in [Reqs -> Request], Respond(r, code)
    PROVE  /\ reqs' \in [Reqs -> Request]
           /\ reqs'[r].pc = "respond"
           /\ \A p \in Reqs \ {r} : reqs'[p] = reqs[p]
<1>1. [NoReq EXCEPT !.pc = "respond", !.code = code] \in Request
  BY NoReqType DEF Request, Pcs
<1>2. [NoReq EXCEPT !.pc = "respond", !.code = code].pc = "respond"
  BY DEF NoReq
<1>. QED  BY <1>1, <1>2 DEF Respond

LEMMA RedirectEffect ==
    ASSUME NEW r \in Reqs, NEW n \in 1..MaxVersNum,
           reqs \in [Reqs -> Request], Redirect(r, n)
    PROVE  /\ reqs' \in [Reqs -> Request]
           /\ reqs'[r].pc = "respond"
           /\ \A p \in Reqs \ {r} : reqs'[p] = reqs[p]
<1>1. [NoReq EXCEPT !.pc = "respond", !.code = 302, !.vernum = n] \in Request
  <2>1. n \in 0..(MaxVersNum + 1)
    BY MaxVersNumAssumption
  <2>2. ASSUME NEW q \in Request
        PROVE  [q EXCEPT !.vernum = n] \in Request
    BY <2>1 DEF Request
  <2>3. 302 \in Codes
    BY DEF Codes
  <2>4. ASSUME NEW code \in Codes
        PROVE  [NoReq EXCEPT !.pc = "respond", !.code = code] \in Request
    BY NoReqType DEF Request, Pcs
  <2>. QED  BY <2>2, <2>3, <2>4, Zenon
<1>2. [NoReq EXCEPT !.pc = "respond", !.code = 302, !.vernum = n].pc = "respond"
  BY DEF NoReq
<1>. QED  BY <1>1, <1>2 DEF Redirect

LEMMA RespondFoundEffect ==
    ASSUME NEW r \in Reqs, NEW F \in SUBSET VersIds, NEW n \in 0..MaxVersNum,
           reqs \in [Reqs -> Request], RespondFound(r, F, n)
    PROVE  /\ reqs' \in [Reqs -> Request]
           /\ reqs'[r].pc = "respond"
           /\ \A p \in Reqs \ {r} : reqs'[p] = reqs[p]
<1>1. PICK x \in Request : x = [NoReq EXCEPT !.pc = "respond", !.code = 200]
  <2>1. 200 \in Codes /\ "respond" \in Pcs
    BY DEF Codes, Pcs
  <2>2. ASSUME NEW code \in Codes
        PROVE  [NoReq EXCEPT !.pc = "respond", !.code = code] \in Request
    BY <2>1, NoReqType DEF Request
  <2>. QED  BY <2>1, <2>2, Zenon
<1>2. PICK y : y = [x EXCEPT !.vernum = n, !.found = F]
  OBVIOUS
<1>3. y \in Request
  <2>1. n \in 0..(MaxVersNum + 1)
    BY MaxVersNumAssumption
  <2>. QED  BY <1>2, <2>1 DEF Request
<1>4. y.pc = "respond"
  BY <1>1, <1>2, NoReqType DEF Request
<1>5. y = [NoReq EXCEPT !.pc = "respond", !.code = 200, !.vernum = n,
                        !.found = F]
  BY <1>1, <1>2, Zenon
<1>. QED  BY <1>3, <1>4, <1>5 DEF RespondFound
-------------------------------------------------------------------------------
(* Type correctness.                                                       *)

(* A request is finished, or another step of it does not lose a version.   *)
(* A request that does not move keeps what is known of its variables.      *)
LEMMA RequestKept ==
    ASSUME NEW p \in Reqs, RequestOK(reqs[p]), reqs'[p] = reqs[p],
           DOMAIN annoData \subseteq DOMAIN annoData'
    PROVE  RequestOK(reqs[p])'
<1>1. PICK x : x = reqs[p]
  OBVIOUS
<1>2. reqs'[p] = x
  BY <1>1
<1>3. \A v : Stored(v) => Stored(v)'
  BY DEF Stored
<1>4. x.pc \in {"lookupStamps", "insertStamps", "insertLinks"} \cup PatchPcs
      => Stored(VersId(x))'
  BY <1>1, <1>3 DEF RequestOK
<1>5. x.pc = "findLatest" /\ x.op = "list" =>
        \A v \in x.found : Stored(v)' /\ v[1] = x.base
  BY <1>1, <1>3 DEF RequestOK
<1>. HIDE DEF Stored
<1>. QED  BY <1>1, <1>2, <1>4, <1>5 DEF RequestOK

LEMMA AnsweredOK ==
    ASSUME NEW r \in Reqs, TypeInv,
           reqs' \in [Reqs -> Request],
           reqs'[r].pc \in {"idle", "respond"},
           \A p \in Reqs \ {r} : reqs'[p] = reqs[p],
           DOMAIN annoData \subseteq DOMAIN annoData'
    PROVE  \A p \in Reqs : RequestOK(reqs[p])'
<1>1. RequestOK(reqs[r])'
  BY DEF RequestOK, QueryPcs, PostPcs, PatchPcs
<1>2. ASSUME NEW p \in Reqs \ {r}
      PROVE  RequestOK(reqs[p])'
  BY RequestKept DEF TypeInv
<1>. QED  BY <1>1, <1>2

LEMMA AwaitedOK ==
    ASSUME NEW r \in Reqs, NEW pc \in Pcs, NEW q \in Request, TypeInv,
           Await(r, pc, q),
           RequestOK([q EXCEPT !.pc = pc])',
           DOMAIN annoData \subseteq DOMAIN annoData'
    PROVE  /\ reqs' \in [Reqs -> Request]
           /\ \A p \in Reqs : RequestOK(reqs[p])'
<1>1. /\ reqs' \in [Reqs -> Request]
      /\ reqs'[r] = [q EXCEPT !.pc = pc]
      /\ \A p \in Reqs \ {r} : reqs'[p] = reqs[p]
  BY AwaitEffect DEF TypeInv, TypeOK
<1>2. RequestOK(reqs[r])'
  BY <1>1
<1>3. ASSUME NEW p \in Reqs \ {r}
      PROVE  RequestOK(reqs[p])'
  BY <1>1, RequestKept DEF TypeInv
<1>. QED  BY <1>1, <1>2, <1>3

LEMMA RespondedOK ==
    ASSUME NEW r \in Reqs, NEW code \in Codes, TypeInv, Respond(r, code),
           DOMAIN annoData \subseteq DOMAIN annoData'
    PROVE  /\ reqs' \in [Reqs -> Request]
           /\ \A p \in Reqs : RequestOK(reqs[p])'
<1>1. /\ reqs' \in [Reqs -> Request]
      /\ reqs'[r].pc = "respond"
      /\ \A p \in Reqs \ {r} : reqs'[p] = reqs[p]
  BY RespondEffect DEF TypeInv, TypeOK
<1>. QED  BY <1>1, AnsweredOK

(* A handler that only reads.                                              *)
LEMMA DbUnchanged ==
    ASSUME TypeOK, UNCHANGED dbVars
    PROVE  DbTypeOK' /\ DOMAIN annoData \subseteq DOMAIN annoData'
BY DEF TypeOK, DbTypeOK, dbVars
-------------------------------------------------------------------------------
(* What a request that comes in, and a revision that has been checked,     *)
(* leave in the request's slot.                                            *)
IsPost(q) ==
    /\ q \in Request
    /\ q.op = "post"
    /\ q.user \in Users
    /\ q.base \in BaseIds
    /\ q.draft \in Details
    /\ SubjectsOf(q.links) # {}

LEMMA PostReceived ==
    ASSUME NEW r \in Reqs, ReceivePost(r)
    PROVE  \/ \E code \in Codes : Respond(r, code)
           \/ \E q : /\ IsPost(q) /\ q.vernum = 1 /\ Await(r, "insertData", q)
                    /\ Fresh(q) /\ Authorized(q.user, q.draft)
           \/ \E q : /\ IsPost(q) /\ Await(r, "findLatest", q)
                    /\ q.edited = EditedFields(q.base, q.vernum, q.draft)
                    /\ MayRevise(q)
<1>1. PICK u \in Posters, d \in Drafts, L \in LinkSets, b \in BaseIds,
           n \in 0..MaxVersNum :
        LET q == [NoReq EXCEPT !.op = "post", !.user = u, !.draft = d,
                               !.links = L, !.base = b, !.vernum = n,
                               !.edited = EditedFields(b, n, d)]
            verdict == PostVerdict(q, n)
        IN  \/ verdict # 0 /\ Respond(r, verdict)
            \/ verdict = 0 /\ n = 0 /\ AwaitInsertData(r, q, 1, {})
            \/ verdict = 0 /\ n > 0 /\ Await(r, "findLatest", q)
  BY DEF ReceivePost
<1>2. PICK q :
        /\ q = [NoReq EXCEPT !.op = "post", !.user = u, !.draft = d,
                             !.links = L, !.base = b, !.vernum = n,
                             !.edited = EditedFields(b, n, d)]
        /\ \/ Respond(r, PostVerdict(q, n))
           \/ PostVerdict(q, n) = 0 /\ n = 0 /\ AwaitInsertData(r, q, 1, {})
           \/ PostVerdict(q, n) = 0 /\ n > 0 /\ Await(r, "findLatest", q)
  BY <1>1
<1>3. IsPost(q) /\ q.edited = EditedFields(q.base, q.vernum, q.draft)
  <2>1. /\ u \in Users /\ d \in Details /\ L \in SUBSET Links
        /\ n \in 0..(MaxVersNum + 1) /\ EditedFields(b, n, d) \in SUBSET Fields
        /\ SubjectsOf(L) # {}
    BY TrafficAssumption, MaxVersNumAssumption DEF EditedFields, SubjectsOf
  <2>2. /\ q.user = u /\ q.base = b /\ q.draft = d /\ q.op = "post"
        /\ q.vernum = n /\ q.edited = EditedFields(b, n, d) /\ q.links = L
    BY <1>2 DEF NoReq
  <2>3. q \in Request
    BY <1>2, <2>1, NoReqType DEF Request
  <2>. QED  BY <2>1, <2>2, <2>3 DEF IsPost
<1>4. PostVerdict(q, n) \in Codes
  BY DEF PostVerdict, Codes
<1>5. ASSUME AwaitInsertData(r, q, 1, {}), PostVerdict(q, n) = 0, n = 0
      PROVE  \E x : /\ IsPost(x) /\ x.vernum = 1 /\ Await(r, "insertData", x)
                    /\ Fresh(x) /\ Authorized(x.user, x.draft)
  <2>0. PICK now \in Times :
          Await(r, "insertData",
                [q EXCEPT !.vernum = 1, !.stampsTodo = StampRecs(q, {}),
                          !.linksTodo = q.links, !.time = now])
    BY <1>5 DEF AwaitInsertData
  <2>1. PICK x : x = [q EXCEPT !.vernum = 1, !.stampsTodo = StampRecs(q, {}),
                               !.linksTodo = q.links, !.time = now]
    OBVIOUS
  <2>2. /\ 1 \in 0..(MaxVersNum + 1) /\ StampRecs(q, {}) \in SUBSET StampTypes
        /\ now \in Nat
    BY MaxVersNumAssumption, TrafficAssumption DEF StampRecs, StampTypes
  <2>3. IsPost(x) /\ x.vernum = 1
    BY <1>3, <2>1, <2>2 DEF IsPost, Request
  <2>4. Await(r, "insertData", x)
    BY <2>0, <2>1
  <2>5. /\ x.user = q.user /\ x.draft = q.draft /\ x.linksTodo = x.links
        /\ x.stampsTodo = StampRecs(q, {})
    BY <1>3, <2>1 DEF IsPost, Request
  <2>6. Fresh(x)
    BY <2>5 DEF Fresh, StampRecs
  <2>7. Authorized(x.user, x.draft)
    BY <1>5, <2>5 DEF PostVerdict
  <2>. QED  BY <2>3, <2>4, <2>6, <2>7
<1>6. ASSUME PostVerdict(q, n) = 0, n > 0
      PROVE  MayRevise(q)
  BY <1>6 DEF PostVerdict, PostActionPrivName, MayRevise
<1>. QED  BY <1>2, <1>3, <1>4, <1>5, <1>6

LEMMA PatchReceived ==
    ASSUME NEW r \in Reqs, ReceivePatch(r)
    PROVE  \E q \in Request :
              /\ Await(r, "lookupDetails", q)
              /\ q.op = "patch" /\ q.user \in Users /\ q.base \in BaseIds
              /\ q.stamp \in PatchStamps
<1>1. PICK u \in Stampers, role \in Roles, type \in PatchStamps,
           b \in BaseIds, n \in 1..MaxVersNum :
        Await(r, "lookupDetails",
              [NoReq EXCEPT !.op = "patch", !.user = u, !.base = b,
                            !.vernum = n, !.stamp = type,
                            !.role = RoleForStamp(type, role)])
  BY DEF ReceivePatch
<1>2. PICK q :
        q = [NoReq EXCEPT !.op = "patch", !.user = u, !.base = b,
                          !.vernum = n, !.stamp = type,
                          !.role = RoleForStamp(type, role)]
  OBVIOUS
<1>3. RoleForStamp(type, role) \in Roles \cup {"", "approver"}
  BY DEF RoleForStamp
<1>4. n \in 0..(MaxVersNum + 1)
  BY MaxVersNumAssumption
<1>5. u \in Users /\ type \in StampTypes
  BY TrafficAssumption
<1>6. q \in Request
  BY <1>2, <1>3, <1>4, <1>5, NoReqType DEF Request
<1>7. q.op = "patch" /\ q.user = u /\ q.base = b /\ q.stamp = type
  BY <1>2 DEF NoReq
<1>. QED  BY <1>1, <1>2, <1>5, <1>6, <1>7

LEMMA GetReceived ==
    ASSUME NEW r \in Reqs, ReceiveGet(r)
    PROVE  \E q \in Request, pc \in {"findLatest", "lookupDetails"} :
              /\ Await(r, pc, q)
              /\ q.op = "get" /\ q.user \in Users /\ q.base \in BaseIds
<1>1. PICK u \in Readers, role \in Roles, b \in BaseIds, n \in 0..MaxVersNum :
        Await(r, IF n = 0 THEN "findLatest" ELSE "lookupDetails",
              [NoReq EXCEPT !.op = "get", !.user = u, !.role = role,
                            !.base = b, !.vernum = n])
  BY DEF ReceiveGet
<1>2. PICK q : q = [NoReq EXCEPT !.op = "get", !.user = u, !.role = role,
                                 !.base = b, !.vernum = n]
  OBVIOUS
<1>3. u \in Users /\ n \in 0..(MaxVersNum + 1)
  BY TrafficAssumption, MaxVersNumAssumption
<1>4. q \in Request
  BY <1>2, <1>3, NoReqType DEF Request
<1>5. q.op = "get" /\ q.user = u /\ q.base = b
  BY <1>2 DEF NoReq
<1>6. PICK pc : /\ pc = IF n = 0 THEN "findLatest" ELSE "lookupDetails"
                /\ pc \in {"findLatest", "lookupDetails"}
  OBVIOUS
<1>. QED  BY <1>1, <1>2, <1>3, <1>4, <1>5, <1>6

IsSearch(q) ==
    /\ q \in Request
    /\ q.op \in SearchOps
    /\ q.user \in Users
    /\ SearchRefusal(q) = 0 /\ q.code = 0
    /\ q.op = "list" => /\ q.base \in BaseIds /\ q.spec = Absent
                        /\ ~q.titles /\ q.limit = 0
    /\ q.op = "approvalFeed" => q.oldest

AsksFor(q) ==
    /\ q \in Request
    /\ q.op \in SearchOps
    /\ q.user \in Users /\ q.code = 0
    /\ q.op = "list" => /\ q.base \in BaseIds /\ q.spec = Absent
                        /\ ~q.titles /\ q.limit = 0
    /\ q.op = "approvalFeed" => q.oldest

(* A request stays one when the format, the limit or the order of the answer *)
(* is entered in it.                                                         *)
LEMMA FormatOfARequest ==
    ASSUME NEW q \in Request
    PROVE  /\ \A t \in BOOLEAN : [q EXCEPT !.titles = t] \in Request
           /\ \A n \in Nat : [q EXCEPT !.limit = n] \in Request
           /\ \A t \in BOOLEAN : [q EXCEPT !.oldest = t] \in Request
<1>1. ASSUME NEW t \in BOOLEAN  PROVE  [q EXCEPT !.titles = t] \in Request
  BY ONLY q \in Request, t \in BOOLEAN DEF Request
<1>2. ASSUME NEW n \in Nat  PROVE  [q EXCEPT !.limit = n] \in Request
  BY ONLY q \in Request, n \in Nat DEF Request
<1>3. ASSUME NEW t \in BOOLEAN  PROVE  [q EXCEPT !.oldest = t] \in Request
  BY ONLY q \in Request, t \in BOOLEAN DEF Request
<1>. QED  BY <1>1, <1>2, <1>3

LEMMA FormattedSearch ==
    ASSUME NEW q \in Request, q.op \in SearchOps, q.op # "list",
           q.user \in Users, q.code = 0,
           NEW format, NEW asked \in AskedLimits, NEW oldestFirst \in BOOLEAN
    PROVE  AsksFor(Formatted(q, format, asked, oldestFirst))
<1>1. PICK limit : limit = RowsLimit(format, asked)
  OBVIOUS
<1>2. limit \in Nat
  BY <1>1, TrafficAssumption DEF RowsLimit
<1>3. PICK titles \in BOOLEAN, oldest \in BOOLEAN :
        /\ titles = (format # "full")
        /\ oldest = (oldestFirst \/ limit = 0 \/ q.op = "approvalFeed")
  OBVIOUS
<1>4. PICK x : x = [q EXCEPT !.titles = titles, !.limit = limit, !.oldest = oldest]
  OBVIOUS
<1>5. x = Formatted(q, format, asked, oldestFirst)
  BY <1>1, <1>3, <1>4 DEF Formatted
<1>6. x \in Request
  <2>1. PICK y \in Request : y = [q EXCEPT !.titles = titles]
    BY FormatOfARequest
  <2>2. PICK z \in Request : z = [y EXCEPT !.limit = limit]
    BY <1>2, FormatOfARequest
  <2>3. PICK w \in Request : w = [z EXCEPT !.oldest = oldest]
    BY FormatOfARequest
  <2>4. w = x
    BY <1>4, <2>1, <2>2, <2>3, Zenon
  <2>. QED  BY <2>3, <2>4
<1>8. x.op = q.op /\ x.user = q.user /\ x.code = 0 /\ x.oldest = oldest
  BY ONLY <1>4, q \in Request, q.code = 0 DEF Request
<1>7. AsksFor(x)
  BY <1>3, <1>6, <1>8 DEF AsksFor
<1>. QED  BY <1>5, <1>7

LEMMA SearchReceived ==
    ASSUME NEW r \in Reqs, ReceiveSearch(r)
    PROVE  /\ UNCHANGED dbVars
           /\ \/ \E code \in Codes : Respond(r, code)
              \/ \E q : IsSearch(q) /\ Await(r, "search", q)
<1>1. ASSUME NEW q, AsksFor(q), StartSearch(r, q)
      PROVE  /\ UNCHANGED dbVars
             /\ \/ \E code \in Codes : Respond(r, code)
                \/ \E x : IsSearch(x) /\ Await(r, "search", x)
  <2>1. SearchRefusal(q) \in Codes
    BY DEF SearchRefusal, Codes
  <2>2. CASE SearchRefusal(q) = 0 /\ Await(r, "search", q)
    BY <1>1, <2>2 DEF StartSearch, AsksFor, IsSearch
  <2>. QED  BY <1>1, <2>1, <2>2 DEF StartSearch
<1>2. CASE ReceiveListVersions(r)
  <2>1. PICK u \in Readers, role \in Roles, b \in BaseIds :
          StartSearch(r, [NoReq EXCEPT !.op = "list", !.user = u,
                                 !.role = role, !.base = b])
    BY <1>2 DEF ReceiveListVersions
  <2>2. PICK q : q = [NoReq EXCEPT !.op = "list", !.user = u,
                                 !.role = role, !.base = b]
    OBVIOUS
  <2>3. /\ q.op = "list" /\ q.user = u /\ q.base = b
        /\ q.spec = Absent /\ q.titles = FALSE /\ q.code = 0 /\ q.limit = 0
    BY <2>2 DEF NoReq
  <2>4. u \in Users /\ "list" \in SearchOps
    BY TrafficAssumption DEF SearchOps, Feeds
  <2>5. q \in Request
    BY <2>2, <2>4, NoReqType DEF Request
  <2>6. AsksFor(q)
    BY <2>3, <2>4, <2>5 DEF AsksFor
  <2>. QED  BY <1>1, <2>1, <2>2, <2>6
<1>3. CASE ReceiveTargetSearch(r)
  <2>1. PICK u \in Readers, role \in Roles, s \in TargetSpecs,
             format \in Formats, asked \in AskedLimits, oldestFirst \in BOOLEAN :
          StartSearch(r, Formatted([NoReq EXCEPT !.op = "byTarget", !.user = u,
                                                 !.role = role, !.spec = s],
                                   format, asked, oldestFirst))
    BY <1>3 DEF ReceiveTargetSearch
  <2>2. PICK q : q = [NoReq EXCEPT !.op = "byTarget", !.user = u,
                                   !.role = role, !.spec = s]
    OBVIOUS
  <2>3. q.op = "byTarget" /\ q.user = u /\ q.code = 0
    BY <2>2 DEF NoReq
  <2>4. u \in Users /\ "byTarget" \in SearchOps
    BY TrafficAssumption DEF SearchOps
  <2>5. q \in Request
    BY <2>2, <2>4, NoReqType DEF Request
  <2>6. AsksFor(Formatted(q, format, asked, oldestFirst))
    BY <2>3, <2>4, <2>5, FormattedSearch
  <2>. QED  BY <1>1, <2>1, <2>2, <2>6
<1>4. CASE ReceiveStampSearch(r)
  <2>1. PICK u \in Readers, role \in Roles, type \in SearchStamps,
             format \in Formats, asked \in AskedLimits, oldestFirst \in BOOLEAN :
          StartSearch(r, Formatted([NoReq EXCEPT !.op = "byStamp", !.user = u,
                                                 !.role = role, !.stamp = type],
                                   format, asked, oldestFirst))
    BY <1>4 DEF ReceiveStampSearch
  <2>2. PICK q : q = [NoReq EXCEPT !.op = "byStamp", !.user = u,
                                   !.role = role, !.stamp = type]
    OBVIOUS
  <2>3. q.op = "byStamp" /\ q.user = u /\ q.code = 0
    BY <2>2 DEF NoReq
  <2>4. u \in Users /\ "byStamp" \in SearchOps /\ type \in StampTypes
    BY TrafficAssumption DEF SearchOps
  <2>5. q \in Request
    BY <2>2, <2>4, NoReqType DEF Request
  <2>6. AsksFor(Formatted(q, format, asked, oldestFirst))
    BY <2>3, <2>4, <2>5, FormattedSearch
  <2>. QED  BY <1>1, <2>1, <2>2, <2>6
<1>5. CASE ReceiveFeedRequest(r)
  <2>1. PICK op \in Feeds, u \in Readers, s \in TargetSpecs,
             asked \in AskedLimits, oldestFirst \in BOOLEAN :
          StartSearch(r, Formatted([NoReq EXCEPT !.op = op, !.user = u,
                                                 !.spec = s],
                                   "rss", asked, oldestFirst))
    BY <1>5 DEF ReceiveFeedRequest
  <2>2. PICK q : q = [NoReq EXCEPT !.op = op, !.user = u, !.spec = s]
    OBVIOUS
  <2>3. q.op = op /\ q.user = u /\ q.code = 0
    BY <2>2 DEF NoReq
  <2>4. u \in Users /\ op \in SearchOps /\ op # "list"
    BY TrafficAssumption DEF SearchOps, Feeds
  <2>5. q \in Request
    BY <2>2, <2>4, NoReqType DEF Request
  <2>6. AsksFor(Formatted(q, "rss", asked, oldestFirst))
    BY <2>3, <2>4, <2>5, FormattedSearch
  <2>. QED  BY <1>1, <2>1, <2>2, <2>6
<1>. QED  BY <1>2, <1>3, <1>4, <1>5 DEF ReceiveSearch

(* Only a free slot takes a request.                                       *)
LEMMA ReceiveIdle ==
    ASSUME NEW r \in Reqs, Receive(r)
    PROVE  reqs[r].pc = "idle"
<1>1. ASSUME NEW q, StartSearch(r, q)
      PROVE  reqs[r].pc = "idle"
  BY <1>1 DEF StartSearch
<1>2. ReceiveSearch(r) => reqs[r].pc = "idle"
  <2>1. ReceiveListVersions(r) => \E q : StartSearch(r, q)
    BY Zenon DEF ReceiveListVersions
  <2>2. ReceiveTargetSearch(r) => \E q : StartSearch(r, q)
    BY Zenon DEF ReceiveTargetSearch
  <2>3. ReceiveStampSearch(r) => \E q : StartSearch(r, q)
    BY Zenon DEF ReceiveStampSearch
  <2>4. ReceiveFeedRequest(r) => \E q : StartSearch(r, q)
    BY Zenon DEF ReceiveFeedRequest
  <2>. QED  BY <1>1, <2>1, <2>2, <2>3, <2>4 DEF ReceiveSearch
<1>3. ReceivePost(r) \/ ReceivePatch(r) \/ ReceiveGet(r) => reqs[r].pc = "idle"
  BY DEF ReceivePost, ReceivePatch, ReceiveGet
<1>. QED  BY <1>2, <1>3 DEF Receive

LEMMA RevisionAwaits ==
    ASSUME NEW r \in Reqs, TypeInv, ReviseChecked(r),
           NEW q \in Request, q = reqs[r]
    PROVE  \/ \E code \in Codes : Respond(r, code)
           \/ \E x : /\ IsPost(x) /\ Await(r, "insertData", x)
                    /\ q.pc = "lookupStamps" /\ q.op = "post"
                    /\ q.vernum \in 1..MaxVersNum
                    /\ Stored(VersId(q))
                    /\ x.base = q.base /\ x.vernum = q.vernum + 1
                    /\ x.edited = q.edited /\ Fresh(x)
                    /\ x.user = q.user /\ x.links = q.links
                    /\ RevisionVerdict(q, annoData[VersId(q)]) = 0
                    /\ x.draft = MergedDetails(q, annoData[VersId(q)])
<1>. USE DEF TypeInv, TypeOK
<1>1. /\ q.op = "post" /\ q.pc = "lookupStamps" /\ IsPost(q)
      /\ VersId(q) \in VersIds /\ Stored(VersId(q))
      /\ annoData[VersId(q)] \in AnnoRow
  <2>1. q.op = "post" /\ q.pc = "lookupStamps" /\ RequestOK(q)
    BY DEF ReviseChecked, LookupServes
  <2>2. IsPost(q) /\ Stored(VersId(q))
    BY <2>1 DEF RequestOK, QueryPcs, IsPost
  <2>. QED  BY <2>1, <2>2 DEF DbTypeOK, Stored
<1>2. q.vernum \in 1..MaxVersNum
  BY <1>1 DEF VersId, VersIds
<1>3. PICK old : old = annoData[VersId(q)]
  OBVIOUS
<1>4. PICK seen \in SUBSET StampTypes :
        \/ Respond(r, RevisionVerdict(q, old))
        \/ /\ RevisionVerdict(q, old) = 0
           /\ AwaitInsertData(r, [q EXCEPT !.draft = MergedDetails(q, old)],
                              q.vernum + 1, seen)
  BY <1>3 DEF ReviseChecked
<1>5. RevisionVerdict(q, old) \in Codes
  BY DEF RevisionVerdict, Codes
<1>6. CASE /\ RevisionVerdict(q, old) = 0
           /\ AwaitInsertData(r, [q EXCEPT !.draft = MergedDetails(q, old)],
                              q.vernum + 1, seen)
  <2>1. PICK m : m = [q EXCEPT !.draft = MergedDetails(q, old)]
    OBVIOUS
  <2>2. MergedDetails(q, old) \in Details
    BY <1>1, <1>3 DEF MergedDetails, Details, AnnoRow, IsPost
  <2>3. IsPost(m) /\ m.base = q.base /\ m.edited = q.edited
        /\ m.draft = MergedDetails(q, old)
        /\ m.user = q.user /\ m.links = q.links
    BY <1>1, <2>1, <2>2 DEF Request, IsPost
  <2>0. PICK now \in Times :
          Await(r, "insertData", [m EXCEPT !.vernum = q.vernum + 1,
                                           !.stampsTodo = StampRecs(m, seen),
                                           !.linksTodo = m.links, !.time = now])
    BY <1>6, <2>1 DEF AwaitInsertData
  <2>4. PICK x : x = [m EXCEPT !.vernum = q.vernum + 1,
                               !.stampsTodo = StampRecs(m, seen),
                               !.linksTodo = m.links, !.time = now]
    OBVIOUS
  <2>5. q.vernum + 1 \in 0..(MaxVersNum + 1) /\ now \in Nat
    BY <1>2, MaxVersNumAssumption, TrafficAssumption
  <2>6. StampRecs(m, seen) \in SUBSET StampTypes
    BY DEF StampRecs, StampTypes
  <2>7. /\ IsPost(x) /\ x.base = m.base /\ x.edited = m.edited
        /\ x.draft = m.draft /\ x.vernum = q.vernum + 1
    BY <2>3, <2>4, <2>5, <2>6 DEF Request, IsPost
  <2>8. Await(r, "insertData", x)
    BY <2>0, <2>4
  <2>9. /\ x.user = m.user /\ x.links = m.links /\ x.linksTodo = x.links
        /\ x.stampsTodo = StampRecs(m, seen)
    BY <2>3, <2>4 DEF Request, IsPost
  <2>10. Fresh(x)
    BY <2>9 DEF Fresh, StampRecs
  <2>. QED  BY <1>1, <1>2, <1>3, <1>6, <2>3, <2>7, <2>8, <2>9, <2>10
<1>. QED  BY <1>4, <1>5, <1>6

LEMMA PostAwaitsOK ==
    ASSUME NEW q, IsPost(q), NEW pc \in {"findLatest", "insertData"},
           pc = "insertData" => q.vernum >= 1
    PROVE  RequestOK([q EXCEPT !.pc = pc])'
<1>1. PICK y : y = [q EXCEPT !.pc = pc]
  OBVIOUS
<1>2. /\ y.pc = pc /\ y.op = "post" /\ y.vernum = q.vernum
      /\ y.user \in Users /\ y.base \in BaseIds /\ y.draft \in Details
      /\ SubjectsOf(y.links) # {}
  BY <1>1 DEF Request, IsPost
<1>3. RequestOK(y)'
  BY <1>2 DEF RequestOK, PostPcs, PatchPcs, QueryPcs, SubjectsOf
<1>. QED  BY <1>1, <1>3
-------------------------------------------------------------------------------
LEMMA TypeReceive ==
    ASSUME NEW r \in Reqs, TypeInv, Receive(r)
    PROVE  TypeInv'
<1>. USE DEF TypeInv, TypeOK
<1>1. DbTypeOK' /\ DOMAIN annoData \subseteq DOMAIN annoData'
  BY DbUnchanged, SearchReceived DEF Receive, ReceivePost, ReceivePatch, ReceiveGet
<1>2. ASSUME NEW code \in Codes, Respond(r, code)
      PROVE  TypeInv'
  BY <1>1, <1>2, RespondedOK
<1>3. ASSUME NEW q, IsPost(q), NEW pc \in {"findLatest", "insertData"},
             pc = "insertData" => q.vernum >= 1,
             Await(r, pc, q)
      PROVE  TypeInv'
  <2>1. RequestOK([q EXCEPT !.pc = pc])'
    BY <1>3, PostAwaitsOK
  <2>. QED  BY <1>1, <1>3, <2>1, AwaitedOK DEF IsPost, Pcs, QueryPcs
<1>4. ASSUME NEW q \in Request, NEW pc \in {"findLatest", "lookupDetails"},
             Await(r, pc, q),
             q.user \in Users, q.base \in BaseIds,
             q.op \in {"get", "patch"},
             q.op = "patch" => q.stamp \in PatchStamps
      PROVE  TypeInv'
  <2>1. RequestOK([q EXCEPT !.pc = pc])'
    BY <1>4 DEF RequestOK, Request, PostPcs, PatchPcs, QueryPcs
  <2>. QED  BY <1>1, <1>4, <2>1, AwaitedOK DEF Pcs, QueryPcs
<1>5. CASE ReceivePost(r)
  BY <1>2, <1>3, <1>5, PostReceived
<1>6. CASE ReceivePatch(r)
  BY <1>4, <1>6, PatchReceived
<1>7. CASE ReceiveGet(r)
  <2>1. PICK q \in Request, pc \in {"findLatest", "lookupDetails"} :
          /\ Await(r, pc, q)
          /\ q.op = "get" /\ q.user \in Users /\ q.base \in BaseIds
    BY <1>7, GetReceived
  <2>2. q.op \in {"get", "patch"} /\ q.op # "patch"
    BY <2>1
  <2>. QED  BY <1>4, <2>1, <2>2
<1>8. CASE ReceiveSearch(r)
  <2>1. ASSUME NEW q, IsSearch(q), Await(r, "search", q)
        PROVE  TypeInv'
    <3>1. PICK y : y = [q EXCEPT !.pc = "search"]
      OBVIOUS
    <3>2. /\ y.pc = "search" /\ y.op = q.op /\ y.user = q.user
          /\ y.base = q.base /\ y.role = q.role /\ y.spec = q.spec
          /\ y.titles = q.titles /\ y.code = q.code
          /\ y.limit = q.limit /\ y.oldest = q.oldest
      BY <2>1, <3>1 DEF Request, IsSearch
    <3>3. Allowed(q.user, <<"discover">>) /\ q.role \in {"", "approver", "author"}
      <4>1. SearchRefusal(q) \notin {403, 404}
        BY <2>1 DEF IsSearch
      <4>2. ~Allowed(q.user, <<"discover">>) => SearchRefusal(q) = 403
        BY DEF SearchRefusal
      <4>3. ASSUME q.role \notin {"", "approver", "author"}
            PROVE  SearchRefusal(q) = 403 \/ SearchRefusal(q) = 404
        <5>. DEFINE Denied ==
               \/ ~Allowed(q.user, <<"discover">>)
               \/ q.op = "byStamp" /\ ~Allowed(q.user, <<"search_hasStamp", q.stamp>>)
               \/ /\ q.role = "approver"
                  /\ q.spec # Absent
                  /\ ~Allowed(q.user, ApproverPrivilege)
        <5>1. SearchRefusal(q) = IF Denied THEN 403 ELSE 404
          BY <4>3, Zenon DEF SearchRefusal
        <5>. QED  BY <5>1
      <4>. QED  BY <4>1, <4>2, <4>3
    <3>4. RequestOK(y)'
      BY <2>1, <3>2, <3>3
      DEF IsSearch, RequestOK, PostPcs, PatchPcs, QueryPcs, SearchOps, Allowed
    <3>. QED  BY <1>1, <2>1, <3>1, <3>4, AwaitedOK DEF IsSearch, Pcs, QueryPcs
  <2>. QED  BY <1>2, <1>8, <2>1, SearchReceived
<1>. QED  BY <1>5, <1>6, <1>7, <1>8 DEF Receive

(* A handler goes on to another query, its local variables unchanged.      *)
StoredPcs == {"lookupStamps", "insertStamps", "insertLinks"} \cup PatchPcs

LEMMA MovedOK ==
    ASSUME NEW r \in Reqs, NEW pc \in QueryPcs, TypeInv,
           reqs[r].pc \in QueryPcs, "search" \notin {pc, reqs[r].pc},
           Await(r, pc, reqs[r]),
           pc \in PostPcs => reqs[r].op = "post" /\ reqs[r].vernum >= 1,
           pc = "findLatest" => reqs[r].op # "list",
           pc \in PatchPcs => /\ reqs[r].op = "patch"
                              /\ Allowed(reqs[r].user, StampPrivilege(reqs[r])),
           pc \in StoredPcs => VersId(reqs[r]) \in DOMAIN annoData,
           DOMAIN annoData \subseteq DOMAIN annoData'
    PROVE  /\ reqs' \in [Reqs -> Request]
           /\ \A p \in Reqs : RequestOK(reqs[p])'
<1>1. reqs[r] \in Request /\ RequestOK(reqs[r])
  BY DEF TypeInv, TypeOK
<1>2. PICK q \in Request : q = reqs[r]
  BY <1>1
<1>3. PICK y : y = [q EXCEPT !.pc = pc]
  OBVIOUS
<1>4. /\ y.pc = pc /\ y.op = q.op /\ y.vernum = q.vernum /\ y.base = q.base
      /\ y.user = q.user /\ y.draft = q.draft /\ y.stamp = q.stamp
      /\ y.links = q.links
  BY <1>3 DEF Request
<1>5. RequestOK(y)'
  BY <1>1, <1>2, <1>4
  DEF RequestOK, StoredPcs, Stored, VersId, SubjectsOf, Allowed, StampPrivilege
<1>. QED  BY <1>2, <1>3, <1>5, AwaitedOK DEF Pcs

LEMMA TypeLookup ==
    ASSUME NEW r \in Reqs, TypeInv, LookupDetails(r) \/ LookupRefused(r)
    PROVE  TypeInv'
<1>. USE DEF TypeInv, TypeOK
<1>1. DbTypeOK' /\ DOMAIN annoData \subseteq DOMAIN annoData'
  BY DbUnchanged DEF LookupDetails, LookupRefused
<1>2. CASE LookupDetails(r)
  <2>1. CASE Stored(VersId(reqs[r])) /\ Await(r, "lookupStamps", reqs[r])
    BY <1>1, <1>2, <2>1, MovedOK
    DEF LookupDetails, Stored, QueryPcs, PostPcs, PatchPcs
  <2>2. CASE \E code \in {404, 500} : Respond(r, code)
    BY <1>1, <2>2, RespondedOK DEF Codes
  <2>. QED  BY <1>2, <2>1, <2>2 DEF LookupDetails
<1>3. CASE LookupRefused(r)
  <2>1. PICK seen : /\ LookupVerdict(reqs[r], seen) # 200
                    /\ Respond(r, LookupVerdict(reqs[r], seen))
    BY <1>3 DEF LookupRefused
  <2>2. LookupVerdict(reqs[r], seen) \in Codes
    BY DEF LookupVerdict, Codes
  <2>. QED  BY <1>1, <2>1, <2>2, RespondedOK
<1>. QED  BY <1>2, <1>3

LEMMA TypeGet ==
    ASSUME NEW r \in Reqs, TypeInv,
           RedirToLatestVersion(r) \/ ServeExactVersion(r)
    PROVE  TypeInv'
<1>. USE DEF TypeInv, TypeOK
<1>1. DbTypeOK' /\ DOMAIN annoData \subseteq DOMAIN annoData'
  BY DbUnchanged DEF RedirToLatestVersion, ServeExactVersion
<1>2. CASE Respond(r, 404) \/ Respond(r, 200)
  BY <1>1, <1>2, RespondedOK DEF Codes
<1>3. ASSUME NEW n \in RedirectChoice(reqs[r]), Redirect(r, n)
      PROVE  TypeInv'
  <2>1. n \in 1..MaxVersNum
    BY DEF RedirectChoice, Disclosed, Own, VersNums
  <2>2. /\ reqs' \in [Reqs -> Request]
        /\ reqs'[r].pc = "respond"
        /\ \A p \in Reqs \ {r} : reqs'[p] = reqs[p]
    BY <1>3, <2>1, RedirectEffect
  <2>. QED  BY <1>1, <2>2, AnsweredOK
<1>. QED  BY <1>2, <1>3 DEF RedirToLatestVersion, ServeExactVersion

(* What the query of a search finds, and what the handler makes of it.     *)
SearchEnds(r, q, F, code) ==
    /\ F \in OrderedSearch(q) /\ F \subseteq Found(q) /\ F \in SUBSET VersIds
    /\ code \in Codes /\ code = SearchVerdict(q, F)
    /\ \/ code # 200 /\ Respond(r, code)
       \/ /\ code = 200 /\ q.op = "list"
          /\ Await(r, "findLatest", [q EXCEPT !.found = F])
       \/ code = 200 /\ q.op # "list" /\ RespondFound(r, F, 0)

LEMMA SearchTaken ==
    ASSUME TypeInv, NEW r \in Reqs, RunSearch(r),
           NEW q \in Request, q = reqs[r]
    PROVE  \E F, code : SearchEnds(r, q, F, code)
<1>0. PICK F \in OrderedSearch(reqs[r]) :
        \/ /\ SearchVerdict(reqs[r], F) # 200
           /\ Respond(r, SearchVerdict(reqs[r], F))
        \/ /\ SearchVerdict(reqs[r], F) = 200 /\ reqs[r].op = "list"
           /\ Await(r, "findLatest", [reqs[r] EXCEPT !.found = F])
        \/ /\ SearchVerdict(reqs[r], F) = 200 /\ reqs[r].op # "list"
           /\ RespondFound(r, F, 0)
  BY Zenon DEF RunSearch
<1>1. PICK code :
        /\ code = SearchVerdict(q, F)
        /\ \/ code # 200 /\ Respond(r, code)
           \/ /\ code = 200 /\ q.op = "list"
              /\ Await(r, "findLatest", [q EXCEPT !.found = F])
           \/ code = 200 /\ q.op # "list" /\ RespondFound(r, F, 0)
  BY <1>0, Zenon
<1>2. F \subseteq Found(q)
  BY DEF OrderedSearch
<1>3. Found(q) \in SUBSET VersIds
  BY DEF Found, LatestOnly, TypeInv, TypeOK, DbTypeOK
<1>4. code \in Codes
  BY <1>1 DEF SearchVerdict, Codes
<1>5. F \in OrderedSearch(q) /\ F \in SUBSET VersIds
  BY <1>2, <1>3
<1>6. SearchEnds(r, q, F, code)
  BY <1>1, <1>2, <1>4, <1>5, Zenon DEF SearchEnds
<1>. QED  BY <1>6

LEMMA TypeSearch ==
    ASSUME NEW r \in Reqs, TypeInv, RunSearch(r) \/ NameWorkingCopy(r)
    PROVE  TypeInv'
<1>. USE DEF TypeInv, TypeOK
<1>1. DbTypeOK' /\ DOMAIN annoData \subseteq DOMAIN annoData'
  BY DbUnchanged DEF RunSearch, NameWorkingCopy
<1>2. PICK q \in Request : q = reqs[r]
  OBVIOUS
<1>4. ASSUME NEW F \in SUBSET VersIds, NEW n \in 0..MaxVersNum,
             RespondFound(r, F, n)
      PROVE  TypeInv'
  BY <1>1, <1>4, RespondFoundEffect, AnsweredOK
<1>5. CASE RunSearch(r)
  <2>0. PICK F, code : SearchEnds(r, q, F, code)
    BY <1>2, <1>5, SearchTaken
  <2>1. /\ code \in Codes /\ F \subseteq Found(q) /\ F \in SUBSET VersIds
        /\ \/ Respond(r, code)
           \/ /\ q.op = "list"
              /\ Await(r, "findLatest", [q EXCEPT !.found = F])
           \/ RespondFound(r, F, 0)
    BY <2>0, Zenon DEF SearchEnds
  <2>2. CASE Respond(r, code)
    BY <1>1, <2>1, <2>2, RespondedOK
  <2>3. CASE q.op = "list" /\ Await(r, "findLatest", [q EXCEPT !.found = F])
    <3>1. q.user \in Users /\ q.base \in BaseIds
      BY <1>2, <1>5, <2>3 DEF RunSearch, RequestOK, QueryPcs
    <3>2. PICK x : x = [q EXCEPT !.found = F]
      OBVIOUS
    <3>3. x \in Request
      BY <2>1, <3>2 DEF Request
    <3>4. PICK y : y = [x EXCEPT !.pc = "findLatest"]
      OBVIOUS
    <3>5. /\ y.pc = "findLatest" /\ y.op = "list" /\ y.user \in Users
          /\ y.base \in BaseIds /\ y.base = q.base /\ y.found = F
      BY <2>1, <2>3, <3>1, <3>2, <3>4 DEF Request
    <3>6. \A v \in Found(q) : v \in DOMAIN annoData' /\ v[1] = q.base
      BY <1>1, <2>3 DEF Found, MeetsCriterion
    <3>7. \A v \in y.found : v \in DOMAIN annoData' /\ v[1] = y.base
      BY <2>1, <3>5, <3>6
    <3>8. RequestOK(y)'
      BY <3>5, <3>7 DEF RequestOK, PostPcs, PatchPcs, QueryPcs, Stored
    <3>. QED  BY <1>1, <2>3, <3>2, <3>3, <3>4, <3>8, AwaitedOK DEF Pcs, QueryPcs
  <2>4. CASE RespondFound(r, F, 0)
    BY <2>1, <1>4, <2>4, MaxVersNumAssumption
  <2>. QED  BY <2>1, <2>2, <2>3, <2>4
<1>6. CASE NameWorkingCopy(r)
  <2>1. PICK n \in VersNums(q.base) : RespondFound(r, q.found, n)
    BY <1>2, <1>6 DEF NameWorkingCopy
  <2>2. n \in 0..MaxVersNum
    BY MaxVersNumAssumption DEF VersNums
  <2>3. q.found \in SUBSET VersIds
    BY DEF Request
  <2>. QED  BY <1>4, <2>1, <2>2, <2>3
<1>. QED  BY <1>5, <1>6

(* A search changes nothing but its own slot.                              *)
LEMMA SearchStep ==
    ASSUME NEW r \in Reqs, TypeInv, RunSearch(r) \/ NameWorkingCopy(r)
    PROVE  /\ UNCHANGED dbVars
           /\ \/ reqs'[r].pc = "respond"
              \/ reqs'[r].pc = "findLatest" /\ reqs'[r].op = "list"
           /\ \A p \in Reqs \ {r} : reqs'[p] = reqs[p]
<1>. USE DEF TypeInv, TypeOK
<1>1. UNCHANGED dbVars
  BY DEF RunSearch, NameWorkingCopy
<1>2. PICK q \in Request : q = reqs[r]
  OBVIOUS
<1>3. q.found \in SUBSET VersIds
  BY DEF Request
<1>6. ASSUME NEW F \in SUBSET VersIds, NEW n \in 0..MaxVersNum,
             RespondFound(r, F, n)
      PROVE  /\ reqs'[r].pc = "respond"
             /\ \A p \in Reqs \ {r} : reqs'[p] = reqs[p]
  BY <1>6, RespondFoundEffect
<1>7. CASE RunSearch(r)
  <2>0. PICK F, code : SearchEnds(r, q, F, code)
    BY <1>2, <1>7, SearchTaken
  <2>1. /\ F \in SUBSET VersIds /\ code \in Codes
        /\ \/ Respond(r, code)
           \/ q.op = "list" /\ Await(r, "findLatest", [q EXCEPT !.found = F])
           \/ RespondFound(r, F, 0)
    BY <2>0, Zenon DEF SearchEnds
  <2>2. CASE Respond(r, code)
    BY <1>1, <2>1, <2>2, RespondEffect
  <2>3. CASE q.op = "list" /\ Await(r, "findLatest", [q EXCEPT !.found = F])
    <3>1. PICK x : x = [q EXCEPT !.found = F]
      OBVIOUS
    <3>2. x \in Request /\ x.op = "list"
      BY <2>1, <2>3, <3>1 DEF Request
    <3>3. /\ reqs'[r] = [x EXCEPT !.pc = "findLatest"]
          /\ \A p \in Reqs \ {r} : reqs'[p] = reqs[p]
      BY <2>3, <3>1, <3>2, AwaitEffect DEF Pcs, QueryPcs
    <3>4. reqs'[r].pc = "findLatest" /\ reqs'[r].op = "list"
      BY <3>2, <3>3 DEF Request
    <3>. QED  BY <1>1, <3>3, <3>4
  <2>4. CASE RespondFound(r, F, 0)
    <3>1. 0 \in 0..MaxVersNum
      BY MaxVersNumAssumption
    <3>. QED  BY <1>1, <1>6, <2>1, <2>4, <3>1
  <2>. QED  BY <2>1, <2>2, <2>3, <2>4
<1>8. CASE NameWorkingCopy(r)
  <2>1. PICK n \in VersNums(q.base) : RespondFound(r, q.found, n)
    BY <1>2, <1>8 DEF NameWorkingCopy
  <2>2. n \in 0..MaxVersNum
    BY MaxVersNumAssumption DEF VersNums
  <2>. QED  BY <1>1, <1>3, <1>6, <2>1, <2>2
<1>. QED  BY <1>7, <1>8

LEMMA TypeFindLatest ==
    ASSUME NEW r \in Reqs, TypeInv, FindLatestForRevision(r)
    PROVE  TypeInv'
<1>. USE DEF TypeInv, TypeOK
<1>1. DbTypeOK' /\ DOMAIN annoData \subseteq DOMAIN annoData'
  BY DbUnchanged DEF FindLatestForRevision
<1>2. CASE Respond(r, 404) \/ Respond(r, 400)
  BY <1>1, <1>2, RespondedOK DEF Codes
<1>3. CASE reqs[r].pc = "findLatest" /\ Await(r, "lookupDetails", reqs[r])
  BY <1>1, <1>3, MovedOK DEF QueryPcs, PostPcs, PatchPcs, StoredPcs
<1>. QED  BY <1>2, <1>3 DEF FindLatestForRevision

LEMMA TypeReviseChecked ==
    ASSUME NEW r \in Reqs, TypeInv, ReviseChecked(r)
    PROVE  TypeInv'
<1>. USE DEF TypeInv, TypeOK
<1>1. DbTypeOK' /\ DOMAIN annoData \subseteq DOMAIN annoData'
  BY DbUnchanged DEF ReviseChecked
<1>2. PICK q \in Request : q = reqs[r]
  OBVIOUS
<1>3. ASSUME NEW code \in Codes, Respond(r, code)
      PROVE  TypeInv'
  BY <1>1, <1>3, RespondedOK
<1>4. ASSUME NEW x, IsPost(x), Await(r, "insertData", x),
             q.vernum \in 1..MaxVersNum, x.vernum = q.vernum + 1
      PROVE  TypeInv'
  <2>1. x.vernum >= 1
    BY <1>4, MaxVersNumAssumption
  <2>2. RequestOK([x EXCEPT !.pc = "insertData"])'
    BY <1>4, <2>1, PostAwaitsOK
  <2>. QED  BY <1>1, <1>4, <2>2, AwaitedOK DEF IsPost, Pcs, QueryPcs
<1>. QED  BY <1>2, <1>3, <1>4, RevisionAwaits

LEMMA TypeInsertAnnoData ==
    ASSUME NEW r \in Reqs, TypeInv, InsertAnnoData(r)
    PROVE  TypeInv'
<1>. USE DEF TypeInv, TypeOK
<1>1. PICK q \in Request : q = reqs[r]
  OBVIOUS
<1>2. /\ q.pc = "insertData" /\ q.op = "post" /\ q.vernum >= 1
      /\ q.user \in Users /\ q.base \in BaseIds /\ q.draft \in Details
      /\ SubjectsOf(q.links) # {}
  BY <1>1 DEF InsertAnnoData, RequestOK, PostPcs, QueryPcs
<1>3. CASE Respond(r, 500) /\ UNCHANGED annoData
  <2>1. DbTypeOK' /\ DOMAIN annoData \subseteq DOMAIN annoData'
    BY <1>3, DbUnchanged DEF InsertAnnoData, dbVars
  <2>. QED  BY <1>3, <2>1, RespondedOK DEF Codes
<1>4. CASE /\ ~RefusedByTable(q)
           /\ InsertData(VersId(q), NewRow(q))
           /\ Await(r, IF q.stampsTodo = {} THEN "insertLinks"
                       ELSE "insertStamps", q)
  <2>1. VersId(q) \in VersIds
    <3>0. q.vernum \in 0..(MaxVersNum + 1)
      BY DEF Request
    <3>1. q.vernum \in 1..MaxVersNum
      BY <1>2, <1>4, <3>0, MaxVersNumAssumption DEF RefusedByTable
    <3>. QED  BY <1>2, <3>1 DEF VersId, VersIds
  <2>2. NewRow(q) \in AnnoRow
    BY <1>2 DEF NewRow, AnnoRow, Request
  <2>3. /\ DOMAIN annoData' = DOMAIN annoData \cup {VersId(q)}
        /\ annoData' \in [DOMAIN annoData' -> AnnoRow]
    BY <1>4, <2>2 DEF InsertData, DbTypeOK
  <2>4. DbTypeOK'
    <3>1. DOMAIN annoData' \subseteq VersIds
      BY <2>1, <2>3 DEF DbTypeOK
    <3>2. UNCHANGED <<annoStamps, annoLinks, heldLate>>
      BY DEF InsertAnnoData
    <3>. QED  BY <2>3, <3>1, <3>2 DEF DbTypeOK
  <2>5. PICK pc : /\ pc = IF q.stampsTodo = {} THEN "insertLinks"
                          ELSE "insertStamps"
                  /\ pc \in {"insertLinks", "insertStamps"}
    OBVIOUS
  <2>6. RequestOK([q EXCEPT !.pc = pc])'
    <3>1. PICK y : y = [q EXCEPT !.pc = pc]
      OBVIOUS
    <3>2. /\ y.pc = pc /\ y.op = "post" /\ y.vernum = q.vernum
          /\ y.user \in Users /\ y.base = q.base /\ y.draft \in Details
          /\ y.base \in BaseIds /\ y.links = q.links
      BY <1>2, <3>1 DEF Request
    <3>3. RequestOK(y)'
      BY <1>2, <2>3, <2>5, <3>2
      DEF RequestOK, PostPcs, PatchPcs, QueryPcs, Stored, VersId, SubjectsOf
    <3>. QED  BY <3>1, <3>3
  <2>. QED  BY <1>4, <2>3, <2>4, <2>5, <2>6, AwaitedOK DEF Pcs, QueryPcs
<1>. QED  BY <1>1, <1>3, <1>4 DEF InsertAnnoData

(* Stamps of a stored version, and their late holds.                       *)
LEMMA StampEffect ==
    ASSUME DbTypeOK, NEW v \in VersIds, NEW t \in StampTypes,
           \/ InsertStamp(v, t)
           \/ DeleteStamp(v, t) /\ UNCHANGED heldLate
    PROVE  /\ annoStamps' \in [VersIds -> SUBSET StampTypes]
           /\ heldLate' \subseteq VersIds
BY DEF DbTypeOK, InsertStamp, DeleteStamp

LEMMA TypeInsertStamps ==
    ASSUME NEW r \in Reqs, TypeInv, InsertStamps(r)
    PROVE  TypeInv'
<1>. USE DEF TypeInv, TypeOK
<1>1. PICK q \in Request : q = reqs[r]
  OBVIOUS
<1>2. /\ q.pc = "insertStamps" /\ q.op = "post" /\ q.vernum >= 1
      /\ q.user \in Users /\ q.base \in BaseIds /\ q.draft \in Details
      /\ VersId(q) \in DOMAIN annoData /\ SubjectsOf(q.links) # {}
  BY <1>1 DEF InsertStamps, RequestOK, PostPcs, QueryPcs, Stored
<1>3. VersId(q) \in VersIds
  BY <1>2 DEF DbTypeOK
<1>4. NextStampRec(q) \in StampTypes
  BY DEF NextStampRec, StampTypes
<1>5. CASE Respond(r, 500) /\ UNCHANGED <<annoStamps, heldLate>>
  <2>1. DbTypeOK' /\ DOMAIN annoData \subseteq DOMAIN annoData'
    BY <1>5, DbUnchanged DEF InsertStamps, dbVars
  <2>. QED  BY <1>5, <2>1, RespondedOK DEF Codes
<1>6. ASSUME NEW rest \in SUBSET StampTypes,
             InsertStamp(VersId(q), NextStampRec(q)),
             Await(r, IF rest = {} THEN "insertLinks" ELSE "insertStamps",
                   [q EXCEPT !.stampsTodo = rest])
      PROVE  TypeInv'
  <2>1. DbTypeOK' /\ DOMAIN annoData \subseteq DOMAIN annoData'
    BY <1>3, <1>4, <1>6, StampEffect DEF InsertStamps, DbTypeOK
  <2>2. PICK x : x = [q EXCEPT !.stampsTodo = rest]
    OBVIOUS
  <2>3. x \in Request
    BY <2>2 DEF Request
  <2>4. PICK pc : /\ pc = IF rest = {} THEN "insertLinks" ELSE "insertStamps"
                  /\ pc \in {"insertLinks", "insertStamps"}
    OBVIOUS
  <2>5. RequestOK([x EXCEPT !.pc = pc])'
    <3>1. PICK y : y = [x EXCEPT !.pc = pc]
      OBVIOUS
    <3>2. /\ y.pc = pc /\ y.op = "post" /\ y.vernum = q.vernum
          /\ y.user \in Users /\ y.base = q.base /\ y.draft \in Details
          /\ y.base \in BaseIds /\ y.links = q.links
      BY <1>2, <2>2, <2>3, <3>1 DEF Request
    <3>3. RequestOK(y)'
      BY <1>2, <2>1, <2>4, <3>2
      DEF RequestOK, PostPcs, PatchPcs, QueryPcs, Stored, VersId, SubjectsOf
    <3>. QED  BY <3>1, <3>3
  <2>. QED  BY <1>6, <2>1, <2>2, <2>3, <2>4, <2>5, AwaitedOK DEF Pcs, QueryPcs
<1>7. q.stampsTodo \ {NextStampRec(q)} \in SUBSET StampTypes
  BY DEF Request
<1>. QED  BY <1>1, <1>5, <1>6, <1>7 DEF InsertStamps

LEMMA TypeInsertLinks ==
    ASSUME NEW r \in Reqs, TypeInv, InsertLinks(r)
    PROVE  TypeInv'
<1>. USE DEF TypeInv, TypeOK
<1>1. PICK q \in Request : q = reqs[r]
  OBVIOUS
<1>2. /\ q.pc = "insertLinks" /\ q.op = "post" /\ q.vernum >= 1
      /\ q.user \in Users /\ q.base \in BaseIds /\ q.draft \in Details
      /\ VersId(q) \in DOMAIN annoData /\ SubjectsOf(q.links) # {}
  BY <1>1 DEF InsertLinks, RequestOK, PostPcs, QueryPcs, Stored
<1>3. PICK l \in q.linksTodo :
        /\ InsertLink(VersId(q), l)
        /\ IF q.linksTodo = {l}
           THEN Respond(r, 201)
           ELSE Await(r, "insertLinks", [q EXCEPT !.linksTodo = @ \ {l}])
  BY <1>1 DEF InsertLinks
<1>4. DbTypeOK' /\ DOMAIN annoData \subseteq DOMAIN annoData'
  <2>1. l \in Links /\ VersId(q) \in VersIds
    BY <1>2 DEF Request, DbTypeOK
  <2>2. annoLinks' \in [VersIds -> SUBSET Links]
    BY <1>3, <2>1 DEF InsertLink, DbTypeOK
  <2>. QED  BY <2>2 DEF DbTypeOK, InsertLinks
<1>5. CASE Respond(r, 201)
  BY <1>4, <1>5, RespondedOK DEF Codes
<1>6. CASE Await(r, "insertLinks", [q EXCEPT !.linksTodo = @ \ {l}])
  <2>1. PICK x : x = [q EXCEPT !.linksTodo = @ \ {l}]
    OBVIOUS
  <2>2. x \in Request
    BY <2>1 DEF Request
  <2>3. RequestOK([x EXCEPT !.pc = "insertLinks"])'
    <3>1. PICK y : y = [x EXCEPT !.pc = "insertLinks"]
      OBVIOUS
    <3>2. /\ y.pc = "insertLinks" /\ y.op = "post" /\ y.vernum = q.vernum
          /\ y.user \in Users /\ y.base = q.base /\ y.draft \in Details
          /\ y.base \in BaseIds /\ y.links = q.links
      BY <1>2, <2>1, <2>2, <3>1 DEF Request
    <3>3. RequestOK(y)'
      BY <1>2, <1>4, <3>2
      DEF RequestOK, PostPcs, PatchPcs, QueryPcs, Stored, VersId, SubjectsOf
    <3>. QED  BY <3>1, <3>3
  <2>. QED  BY <1>4, <1>6, <2>1, <2>2, <2>3, AwaitedOK DEF Pcs, QueryPcs
<1>. QED  BY <1>3, <1>5, <1>6

LEMMA AddStampAwaits ==
    ASSUME NEW r \in Reqs, AddStamp(r), NEW q, q = reqs[r]
    PROVE  \E dupe \in BOOLEAN :
              \/ /\ q.stamp = Accepted
                 /\ Await(r, "cleanupAfterAdd", [q EXCEPT !.dupe = dupe])
              \/ q.stamp # Accepted /\ Respond(r, AnswerCode(dupe))
<1>1. PICK dupe \in BOOLEAN : dupe = (q.stamp \in annoStamps[VersId(q)])
  <2>1. CASE q.stamp \in annoStamps[VersId(q)]
    BY <2>1, TRUE = (q.stamp \in annoStamps[VersId(q)]), Zenon
  <2>2. CASE q.stamp \notin annoStamps[VersId(q)]
    BY <2>2, FALSE = (q.stamp \in annoStamps[VersId(q)]), Zenon
  <2>. QED  BY <2>1, <2>2
<1>. QED  BY <1>1, Zenon DEF AddStamp

LEMMA TypePatch ==
    ASSUME NEW r \in Reqs, TypeInv,
           StampChecked(r) \/ PrepareAdd(r) \/ AddStamp(r) \/ CleanupAfterAdd(r)
    PROVE  TypeInv'
<1>. USE DEF TypeInv, TypeOK
<1>1. CASE StampChecked(r)
  <2>1. DbTypeOK' /\ DOMAIN annoData \subseteq DOMAIN annoData'
    BY <1>1, DbUnchanged DEF StampChecked
  <2>2. CASE Respond(r, 403)
    BY <2>1, <2>2, RespondedOK DEF Codes
  <2>3. ASSUME NEW pc \in {"prepareAdd", "addStamp"}, Await(r, pc, reqs[r]),
               Allowed(reqs[r].user, StampPrivilege(reqs[r]))
        PROVE  TypeInv'
    <3>1. reqs[r].op = "patch" /\ reqs[r].pc = "lookupStamps"
      BY <1>1 DEF StampChecked, LookupServes
    <3>2. VersId(reqs[r]) \in DOMAIN annoData
      BY <3>1 DEF RequestOK, Stored
    <3>. QED  BY <2>1, <2>3, <3>1, <3>2, MovedOK
              DEF QueryPcs, PostPcs, PatchPcs, StoredPcs
  <2>. QED  BY <1>1, <2>2, <2>3 DEF StampChecked
<1>2. ASSUME reqs[r].pc \in PatchPcs
      PROVE  /\ VersId(reqs[r]) \in DOMAIN annoData
             /\ VersId(reqs[r]) \in VersIds
             /\ reqs[r].op = "patch" /\ reqs[r].stamp \in PatchStamps
             /\ Allowed(reqs[r].user, StampPrivilege(reqs[r]))
  BY <1>2 DEF RequestOK, Stored, DbTypeOK, PatchPcs, QueryPcs
<1>3. CASE PrepareAdd(r)
  <2>1. annoStamps' \in [VersIds -> SUBSET StampTypes]
    BY <1>3 DEF PrepareAdd, DeleteStamp, SunsetUndecidedEarlierVersions,
                DbTypeOK, StampTypes
  <2>2. DbTypeOK' /\ DOMAIN annoData \subseteq DOMAIN annoData'
    BY <1>3, <2>1 DEF PrepareAdd, DbTypeOK
  <2>3. reqs[r].pc = "prepareAdd" /\ Await(r, "addStamp", reqs[r])
    BY <1>3 DEF PrepareAdd
  <2>. QED  BY <1>2, <2>2, <2>3, MovedOK
            DEF QueryPcs, PostPcs, PatchPcs, StoredPcs
<1>4. CASE AddStamp(r)
  <2>1. PICK q \in Request : q = reqs[r]
    OBVIOUS
  <2>2. /\ q.pc = "addStamp" /\ VersId(q) \in DOMAIN annoData
        /\ VersId(q) \in VersIds /\ q.op = "patch" /\ q.stamp \in PatchStamps
        /\ q.user \in Users /\ q.base \in BaseIds
        /\ Allowed(q.user, StampPrivilege(q))
    BY <1>2, <1>4, <2>1 DEF AddStamp, PatchPcs, RequestOK, QueryPcs
  <2>3. PICK dupe \in BOOLEAN :
          \/ Await(r, "cleanupAfterAdd", [q EXCEPT !.dupe = dupe])
          \/ Respond(r, AnswerCode(dupe))
    BY <1>4, <2>1, AddStampAwaits
  <2>4. DbTypeOK' /\ DOMAIN annoData \subseteq DOMAIN annoData'
    BY <1>4, <2>1, <2>2, StampEffect, TrafficAssumption DEF AddStamp, DbTypeOK
  <2>5. CASE Respond(r, AnswerCode(dupe))
    BY <2>4, <2>5, RespondedOK DEF Codes, AnswerCode
  <2>6. CASE Await(r, "cleanupAfterAdd", [q EXCEPT !.dupe = dupe])
    <3>1. PICK x : x = [q EXCEPT !.dupe = dupe]
      OBVIOUS
    <3>2. x \in Request
      BY <3>1 DEF Request
    <3>3. RequestOK([x EXCEPT !.pc = "cleanupAfterAdd"])'
      <4>1. PICK y : y = [x EXCEPT !.pc = "cleanupAfterAdd"]
        OBVIOUS
      <4>2. /\ y.pc = "cleanupAfterAdd" /\ y.op = "patch"
            /\ y.vernum = q.vernum /\ y.base = q.base
            /\ y.user \in Users /\ y.base \in BaseIds
            /\ y.stamp \in PatchStamps /\ y.user = q.user /\ y.stamp = q.stamp
        BY <2>2, <3>1, <3>2, <4>1 DEF Request
      <4>3. RequestOK(y)'
        BY <2>2, <2>4, <4>2
        DEF RequestOK, PostPcs, PatchPcs, QueryPcs, Stored, VersId, Allowed,
            StampPrivilege
      <4>. QED  BY <4>1, <4>3
    <3>. QED  BY <2>4, <2>6, <3>1, <3>2, <3>3, AwaitedOK DEF Pcs, QueryPcs
  <2>. QED  BY <2>3, <2>5, <2>6
<1>5. CASE CleanupAfterAdd(r)
  <2>1. annoStamps' \in [VersIds -> SUBSET StampTypes]
    BY <1>5 DEF CleanupAfterAdd, DeleteStamp, DbTypeOK
  <2>2. DbTypeOK' /\ DOMAIN annoData \subseteq DOMAIN annoData'
    BY <1>5, <2>1 DEF CleanupAfterAdd, DbTypeOK
  <2>3. AnswerCode(reqs[r].dupe) \in Codes
    BY DEF AnswerCode, Codes
  <2>. QED  BY <1>5, <2>2, <2>3, RespondedOK DEF CleanupAfterAdd
<1>. QED  BY <1>1, <1>3, <1>4, <1>5

LEMMA TypeEnd ==
    ASSUME TypeInv,
           \/ \E r \in Reqs : Delivered(r) \/ QueryFails(r)
           \/ Crash
           \/ UNCHANGED vars
    PROVE  TypeInv'
<1>. USE DEF TypeInv, TypeOK
<1>1. DbTypeOK' /\ DOMAIN annoData \subseteq DOMAIN annoData'
  BY DbUnchanged DEF Delivered, QueryFails, Crash, vars, dbVars
<1>2. ASSUME NEW r \in Reqs, Delivered(r)
      PROVE  TypeInv'
  <2>1. /\ reqs' \in [Reqs -> Request]
        /\ reqs'[r].pc = "idle"
        /\ \A p \in Reqs \ {r} : reqs'[p] = reqs[p]
    <3>1. NoReq.pc = "idle"
      BY DEF NoReq
    <3>. QED  BY <1>2, <3>1, NoReqType DEF Delivered
  <2>. QED  BY <1>1, <2>1, AnsweredOK
<1>3. ASSUME NEW r \in Reqs, QueryFails(r)
      PROVE  TypeInv'
  BY <1>1, <1>3, RespondedOK DEF QueryFails, Codes
<1>4. CASE Crash
  <2>1. NoReq.pc = "idle"
    BY DEF NoReq
  <2>2. \A p \in Reqs : RequestOK(reqs[p])'
    BY <1>4, <2>1 DEF Crash, RequestOK, QueryPcs, PostPcs, PatchPcs
  <2>. QED  BY <1>1, <1>4, <2>2, NoReqType DEF Crash
<1>5. CASE UNCHANGED vars
  BY <1>1, <1>5
  DEF vars, RequestOK, Stored, VersId, SubjectsOf, Allowed, StampPrivilege
<1>. QED  BY <1>2, <1>3, <1>4, <1>5

LEMMA TypeNext == TypeInv /\ [Next]_vars => TypeInv'
<1>. SUFFICES ASSUME TypeInv, [Next]_vars
              PROVE  TypeInv'
  OBVIOUS
<1>1. ASSUME NEW r \in Reqs, Receive(r)
      PROVE  TypeInv'
  BY <1>1, TypeReceive
<1>2. ASSUME NEW r \in Reqs, Handle(r)
      PROVE  TypeInv'
  <2>1. CASE LookupDetails(r) \/ LookupRefused(r)
    BY <2>1, TypeLookup
  <2>2. CASE RedirToLatestVersion(r) \/ ServeExactVersion(r)
    BY <2>2, TypeGet
  <2>3. CASE FindLatestForRevision(r)
    BY <2>3, TypeFindLatest
  <2>4. CASE ReviseChecked(r)
    BY <2>4, TypeReviseChecked
  <2>5. CASE InsertAnnoData(r)
    BY <2>5, TypeInsertAnnoData
  <2>6. CASE InsertStamps(r)
    BY <2>6, TypeInsertStamps
  <2>7. CASE InsertLinks(r)
    BY <2>7, TypeInsertLinks
  <2>8. CASE \/ StampChecked(r) \/ PrepareAdd(r)
             \/ AddStamp(r) \/ CleanupAfterAdd(r)
    BY <2>8, TypePatch
  <2>9. CASE Delivered(r)
    BY <2>9, TypeEnd
  <2>10. CASE RunSearch(r) \/ NameWorkingCopy(r)
    BY <2>10, TypeSearch
  <2>. QED  BY <1>2, <2>1, <2>2, <2>3, <2>4, <2>5, <2>6, <2>7, <2>8, <2>9,
               <2>10
            DEF Handle
<1>3. CASE \/ \E r \in Reqs : QueryFails(r)
           \/ Crash
           \/ UNCHANGED vars
  BY <1>3, TypeEnd
<1>. QED  BY <1>1, <1>2, <1>3 DEF Next

LEMMA TypeInit == Init => TypeInv
<1>1. NoReq.pc = "idle"
  BY DEF NoReq
<1>. QED  BY <1>1, NoReqType
          DEF Init, DbInit, ReqInit, TypeInv, TypeOK, DbTypeOK, AnnoRow,
              RequestOK, QueryPcs, PostPcs, PatchPcs, VersIds

LEMMA TypeInvariant == Spec => []TypeInv
BY TypeInit, TypeNext, PTL DEF Spec

(* The tables and the local variables of every handler keep their types:   *)
(* no handler numbers a version beyond the column, or goes on to stamp or  *)
(* link a version that is not stored.                                      *)
THEOREM TypeCorrect == Spec => []TypeOK
<1>1. TypeInv => TypeOK
  BY DEF TypeInv
<1>. QED  BY <1>1, TypeInvariant, PTL
===============================================================================
