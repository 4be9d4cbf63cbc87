----------------------------- MODULE AnnoLog_proofs -----------------------------
(***************************************************************************)
(* The versions of an annotation form a log without gaps and without lost  *)
(* updates, for any number of concurrent, failing and dying requests, and  *)
(* every version is one that its poster was allowed to put on top of the   *)
(* version before it.                                                      *)
(***************************************************************************)
EXTENDS AnnoHold_proofs

(* The program counters at which ReplacementOK says something.             *)
RevisingPcs == {"findLatest", "lookupDetails", "lookupStamps", "insertData"}

(* Steps that leave anno_data alone.                                       *)
LEMMA LogStep ==
    ASSUME NEW r \in Reqs, LogInv, UNCHANGED annoData,
           \A p \in Reqs \ {r} : reqs'[p] = reqs[p],
           ReplacementOK(reqs[r])'
    PROVE  LogInv'
<1>1. /\ VersionsContiguous'
      /\ NoLostUpdate'
  BY DEF LogInv, VersionsContiguous, NoLostUpdate, VersNums, Stored
<1>2. ASSUME NEW p \in Reqs \ {r}
      PROVE  ReplacementOK(reqs[p])'
  BY DEF LogInv, ReplacementOK, Stored, Keeps, VersId
<1>. QED  BY <1>1, <1>2 DEF LogInv

LEMMA LogResponded ==
    ASSUME NEW r \in Reqs, NEW code \in Codes, TypeInv, LogInv,
           UNCHANGED annoData, Respond(r, code)
    PROVE  LogInv'
<1>1. /\ reqs'[r].pc = "respond"
      /\ \A p \in Reqs \ {r} : reqs'[p] = reqs[p]
  BY RespondEffect DEF TypeInv, TypeOK
<1>2. ReplacementOK(reqs[r])'
  BY <1>1 DEF ReplacementOK
<1>. QED  BY <1>1, <1>2, LogStep

(* The request does not revise, or not any more.                           *)
LEMMA LogAwaited ==
    ASSUME NEW r \in Reqs, NEW pc \in Pcs, NEW q \in Request, TypeInv, LogInv,
           UNCHANGED annoData, Await(r, pc, q),
           pc \notin RevisingPcs \/ (pc # "insertData" /\ q.op # "post")
    PROVE  LogInv'
<1>1. /\ reqs'[r] = [q EXCEPT !.pc = pc]
      /\ \A p \in Reqs \ {r} : reqs'[p] = reqs[p]
  BY AwaitEffect DEF TypeInv, TypeOK
<1>2. reqs'[r].pc = pc /\ reqs'[r].op = q.op
  BY <1>1 DEF Request
<1>3. ReplacementOK(reqs[r])'
  BY <1>2 DEF ReplacementOK, RevisingPcs
<1>. QED  BY <1>1, <1>3, LogStep

(* The request goes on revising the version it says it replaces.           *)
LEMMA LogKeptOn ==
    ASSUME NEW r \in Reqs, NEW pc \in {"lookupDetails", "lookupStamps"},
           TypeInv, LogInv, UNCHANGED annoData,
           reqs[r].pc \in {"findLatest", "lookupDetails"},
           Await(r, pc, reqs[r])
    PROVE  LogInv'
<1>1. PICK q \in Request : q = reqs[r]
  BY DEF TypeInv, TypeOK
<1>2. /\ reqs'[r] = [q EXCEPT !.pc = pc]
      /\ \A p \in Reqs \ {r} : reqs'[p] = reqs[p]
  BY <1>1, AwaitEffect DEF TypeInv, TypeOK, Pcs, QueryPcs
<1>3. /\ reqs'[r].pc = pc /\ reqs'[r].op = q.op
      /\ reqs'[r].base = q.base /\ reqs'[r].vernum = q.vernum
      /\ reqs'[r].draft = q.draft /\ reqs'[r].edited = q.edited
  BY <1>2 DEF Request
<1>4. ReplacementOK(q)
  BY <1>1 DEF LogInv
<1>5. q.op = "post" =>
        IF Stored(VersId(q)) THEN Keeps(q, annoData[VersId(q)])
        ELSE q.edited = Fields
  BY <1>1, <1>4 DEF ReplacementOK
<1>6. ReplacementOK(reqs[r])'
  BY <1>3, <1>5 DEF ReplacementOK, Stored, Keeps, VersId
<1>. QED  BY <1>2, <1>6, LogStep
-------------------------------------------------------------------------------
(* A submission comes in.                                                  *)
LEMMA LogReceive ==
    ASSUME NEW r \in Reqs, TypeInv, LogInv, Receive(r)
    PROVE  LogInv'
<1>1. UNCHANGED annoData
  BY SearchReceived DEF Receive, ReceivePost, ReceivePatch, ReceiveGet, dbVars
<1>2. ASSUME NEW q, IsPost(q), q.vernum = 1, Await(r, "insertData", q)
      PROVE  LogInv'
  <2>1. /\ reqs'[r] = [q EXCEPT !.pc = "insertData"]
        /\ \A p \in Reqs \ {r} : reqs'[p] = reqs[p]
    BY <1>2, AwaitEffect DEF TypeInv, TypeOK, IsPost, Pcs, QueryPcs
  <2>2. reqs'[r].pc = "insertData" /\ reqs'[r].vernum = 1
    BY <1>2, <2>1 DEF Request, IsPost
  <2>3. ReplacementOK(reqs[r])'
    BY <2>2 DEF ReplacementOK
  <2>. QED  BY <1>1, <2>1, <2>3, LogStep
<1>3. ASSUME NEW q, IsPost(q), Await(r, "findLatest", q),
             q.edited = EditedFields(q.base, q.vernum, q.draft)
      PROVE  LogInv'
  <2>1. /\ reqs'[r] = [q EXCEPT !.pc = "findLatest"]
        /\ \A p \in Reqs \ {r} : reqs'[p] = reqs[p]
    BY <1>3, AwaitEffect DEF TypeInv, TypeOK, IsPost, Pcs, QueryPcs
  <2>2. /\ reqs'[r].pc = "findLatest" /\ reqs'[r].draft = q.draft
        /\ reqs'[r].base = q.base /\ reqs'[r].vernum = q.vernum
        /\ reqs'[r].edited = q.edited
    BY <1>3, <2>1 DEF Request, IsPost
  <2>3. IF Stored(VersId(q)) THEN Keeps(q, annoData[VersId(q)])
        ELSE q.edited = Fields
    BY <1>3 DEF EditedFields, Keeps, VersId
  <2>4. ReplacementOK(reqs[r])'
    BY <1>1, <2>2, <2>3 DEF ReplacementOK, Stored, Keeps, VersId
  <2>. QED  BY <1>1, <2>1, <2>4, LogStep
<1>4. CASE ReceivePost(r)
  BY <1>1, <1>2, <1>3, <1>4, PostReceived, LogResponded
<1>5. CASE ReceivePatch(r)
  BY <1>1, <1>5, PatchReceived, LogAwaited DEF Pcs, QueryPcs
<1>6. CASE ReceiveGet(r)
  <2>1. PICK q \in Request, pc \in {"findLatest", "lookupDetails"} :
          Await(r, pc, q) /\ q.op = "get"
    BY <1>6, GetReceived
  <2>. QED  BY <1>1, <2>1, LogAwaited DEF Pcs, QueryPcs
<1>7. CASE ReceiveSearch(r)
  <2>1. ASSUME NEW q, IsSearch(q), Await(r, "search", q)
        PROVE  LogInv'
    BY <1>1, <2>1, LogAwaited DEF IsSearch, Pcs, QueryPcs, RevisingPcs
  <2>. QED  BY <1>1, <1>7, <2>1, SearchReceived, LogResponded
<1>. QED  BY <1>4, <1>5, <1>6, <1>7 DEF Receive

(* The submission has been checked against the version it replaces.        *)
LEMMA LogReviseChecked ==
    ASSUME NEW r \in Reqs, TypeInv, LogInv, ReviseChecked(r)
    PROVE  LogInv'
<1>1. UNCHANGED annoData
  BY DEF ReviseChecked, dbVars
<1>2. PICK q \in Request : q = reqs[r]
  BY DEF TypeInv, TypeOK
<1>3. ASSUME NEW x, IsPost(x), Await(r, "insertData", x),
             q.pc = "lookupStamps", q.op = "post",
             q.vernum \in 1..MaxVersNum, Stored(VersId(q)),
             x.base = q.base, x.vernum = q.vernum + 1, x.edited = q.edited,
             x.draft = MergedDetails(q, annoData[VersId(q)])
      PROVE  LogInv'
  <2>1. /\ reqs'[r] = [x EXCEPT !.pc = "insertData"]
        /\ \A p \in Reqs \ {r} : reqs'[p] = reqs[p]
    BY <1>3, AwaitEffect DEF TypeInv, TypeOK, IsPost, Pcs, QueryPcs
  <2>2. /\ reqs'[r].pc = "insertData" /\ reqs'[r].draft = x.draft
        /\ reqs'[r].base = q.base /\ reqs'[r].vernum = x.vernum
        /\ reqs'[r].edited = q.edited
    BY <1>3, <2>1 DEF Request, IsPost
  <2>3. x.vernum - 1 = q.vernum
    BY <1>3, MaxVersNumAssumption
  <2>4. Keeps(q, annoData[VersId(q)])
    BY <1>2, <1>3 DEF LogInv, ReplacementOK
  <2>5. \A f \in Fields \ q.edited :
          x.draft[f] = annoData[VersId(q)].details[f]
    BY <1>3, <2>4 DEF Keeps, MergedDetails, ChangedFields
  <2>6. ReplacementOK(reqs[r])'
    BY <1>1, <1>3, <2>2, <2>3, <2>5 DEF ReplacementOK, Stored, Keeps, VersId
  <2>. QED  BY <1>1, <2>1, <2>6, LogStep
<1>. QED  BY <1>1, <1>2, <1>3, RevisionAwaits, LogResponded

(* The only step that changes the table: the version after the replaced    *)
(* one, which is the last one because the primary key is free.             *)
LEMMA LogInsertAnnoData ==
    ASSUME NEW r \in Reqs, TypeInv, LogInv, InsertAnnoData(r)
    PROVE  LogInv'
<1>. USE DEF TypeInv, TypeOK
<1>1. PICK q \in Request : q = reqs[r]
  OBVIOUS
<1>2. /\ q.pc = "insertData" /\ q.op = "post" /\ q.vernum >= 1
      /\ q.base \in BaseIds
  BY <1>1 DEF InsertAnnoData, RequestOK, PostPcs, QueryPcs
<1>3. CASE Respond(r, 500) /\ UNCHANGED annoData
  BY <1>3, LogResponded DEF Codes
<1>4. CASE /\ ~RefusedByTable(q)
           /\ InsertData(VersId(q), NewRow(q))
           /\ Await(r, IF q.stampsTodo = {} THEN "insertLinks"
                       ELSE "insertStamps", q)
  <2>1. q.vernum \in 1..MaxVersNum /\ ~Stored(VersId(q))
    <3>1. q.vernum \in 0..(MaxVersNum + 1)
      BY DEF Request
    <3>. QED  BY <1>2, <1>4, <3>1, MaxVersNumAssumption DEF RefusedByTable
  <2>2. PICK pc : /\ pc = IF q.stampsTodo = {} THEN "insertLinks"
                          ELSE "insertStamps"
                  /\ pc \in {"insertLinks", "insertStamps"}
    OBVIOUS
  <2>3. /\ reqs'[r].pc \in {"insertLinks", "insertStamps"}
        /\ \A p \in Reqs \ {r} : reqs'[p] = reqs[p]
    <3>1. /\ reqs'[r] = [q EXCEPT !.pc = pc]
          /\ \A p \in Reqs \ {r} : reqs'[p] = reqs[p]
      BY <1>4, <2>2, AwaitEffect DEF Pcs, QueryPcs
    <3>. QED  BY <2>2, <3>1 DEF Request
  <2>4. /\ annoData'[VersId(q)] = NewRow(q)
        /\ \A v : Stored(v)' <=> Stored(v) \/ v = VersId(q)
        /\ \A v : Stored(v) => annoData'[v] = annoData[v]
    BY <1>4, <2>1 DEF InsertData, Stored
  <2>. DEFINE b == q.base
              n == q.vernum
  <2>5. n > 1 => /\ Stored(<<b, n - 1>>)
                 /\ Keeps(q, annoData[<<b, n - 1>>])
    BY <1>1, <1>2 DEF LogInv, ReplacementOK
  <2>6. VersionsContiguous'
    <3>1. ASSUME NEW c \in BaseIds, NEW m \in VersNums(c)', NEW k \in 1..m
          PROVE  k \in VersNums(c)'
      <4>1. m \in 1..MaxVersNum /\ k \in 1..MaxVersNum
        BY <3>1, MaxVersNumAssumption DEF VersNums
      <4>2. CASE Stored(<<c, m>>)
        <5>1. Stored(<<c, k>>)
          BY <4>1, <4>2 DEF LogInv, VersionsContiguous, VersNums
        <5>. QED  BY <2>4, <4>1, <5>1 DEF VersNums
      <4>3. CASE c = b /\ m = n
        <5>1. CASE k = n
          BY <2>4, <4>1, <4>3, <5>1 DEF VersNums, VersId
        <5>2. CASE k < n
          <6>1. n - 1 \in 1..MaxVersNum /\ k \in 1..(n - 1) /\ n > 1
            BY <2>1, <4>1, <5>2, MaxVersNumAssumption
          <6>2. Stored(<<c, k>>)
            BY <1>2, <2>5, <4>3, <6>1 DEF LogInv, VersionsContiguous, VersNums
          <6>. QED  BY <2>4, <4>1, <6>2 DEF VersNums
        <5>. QED  BY <2>1, <4>1, <4>3, <5>1, <5>2, MaxVersNumAssumption
      <4>4. Stored(<<c, m>>) \/ (c = b /\ m = n)
        <5>1. Stored(<<c, m>>)'
          BY <3>1 DEF VersNums
        <5>2. Stored(<<c, m>>) \/ <<c, m>> = VersId(q)
          BY <2>4, <5>1, Zenon
        <5>. QED  BY <5>2 DEF VersId
      <4>. QED  BY <4>2, <4>3, <4>4
    <3>. QED  BY <3>1 DEF VersionsContiguous
  <2>7. NoLostUpdate'
    <3>1. ASSUME NEW c \in BaseIds, NEW m \in 2..MaxVersNum,
                 Stored(<<c, m>>)', Stored(<<c, m - 1>>)',
                 NEW f \in Fields \ annoData'[<<c, m>>].edited
          PROVE  annoData'[<<c, m>>].details[f]
                 = annoData'[<<c, m - 1>>].details[f]
      <4>1. CASE c = b /\ m = n
        <5>1. f \notin q.edited /\ annoData'[<<c, m>>].details[f] = q.draft[f]
          BY <2>4, <3>1, <4>1 DEF NewRow, VersId
        <5>2. Stored(<<b, n - 1>>) /\ q.draft[f] = annoData[<<b, n - 1>>].details[f]
          BY <2>5, <3>1, <4>1, <5>1 DEF Keeps
        <5>. QED  BY <2>4, <4>1, <5>1, <5>2
      <4>2. CASE c = b /\ m - 1 = n
        <5>1. m \in VersNums(c) /\ n \in 1..m
          BY <2>1, <2>4, <3>1, <4>2, MaxVersNumAssumption DEF VersNums, VersId
        <5>2. Stored(<<b, n>>)
          BY <4>2, <5>1 DEF LogInv, VersionsContiguous, VersNums
        <5>. QED  BY <2>1, <5>2 DEF VersId
      <4>3. CASE <<c, m>> # <<b, n>> /\ <<c, m - 1>> # <<b, n>>
        <5>1. Stored(<<c, m>>) /\ Stored(<<c, m - 1>>)
          BY <2>4, <3>1, <4>3 DEF VersId
        <5>. QED  BY <2>4, <3>1, <5>1 DEF LogInv, NoLostUpdate
      <4>. QED  BY <4>1, <4>2, <4>3
    <3>. QED  BY <3>1 DEF NoLostUpdate
  <2>8. ASSUME NEW p \in Reqs
        PROVE  ReplacementOK(reqs[p])'
    <3>1. CASE p = r
      BY <2>3, <3>1 DEF ReplacementOK
    <3>2. CASE p # r
      BY <2>3, <2>4, <3>2 DEF LogInv, ReplacementOK, Keeps
    <3>. QED  BY <3>1, <3>2
  <2>. QED  BY <2>6, <2>7, <2>8 DEF LogInv
<1>. QED  BY <1>1, <1>3, <1>4 DEF InsertAnnoData

LEMMA LogNextStep == TypeInv /\ LogInv /\ [Next]_vars => LogInv'
<1>. SUFFICES ASSUME TypeInv, LogInv, [Next]_vars
              PROVE  LogInv'
  OBVIOUS
<1>1. ASSUME NEW r \in Reqs, Receive(r)
      PROVE  LogInv'
  BY <1>1, LogReceive
<1>2. ASSUME NEW r \in Reqs, Handle(r)
      PROVE  LogInv'
  <2>0. PICK q \in Request : q = reqs[r]
    BY DEF TypeInv, TypeOK
  <2>1. CASE LookupDetails(r)
    <3>1. UNCHANGED annoData
      BY <2>1 DEF LookupDetails, dbVars
    <3>2. CASE reqs[r].pc = "lookupDetails" /\ Await(r, "lookupStamps", reqs[r])
      BY <3>1, <3>2, LogKeptOn
    <3>3. CASE \E code \in {404, 500} : Respond(r, code)
      BY <3>1, <3>3, LogResponded DEF Codes
    <3>. QED  BY <2>1, <3>2, <3>3 DEF LookupDetails
  <2>2. CASE LookupRefused(r)
    <3>1. PICK seen : Respond(r, LookupVerdict(reqs[r], seen))
      BY <2>2 DEF LookupRefused
    <3>2. LookupVerdict(reqs[r], seen) \in Codes
      BY DEF LookupVerdict, Codes
    <3>3. UNCHANGED annoData
      BY <2>2 DEF LookupRefused, dbVars
    <3>. QED  BY <3>1, <3>2, <3>3, LogResponded
  <2>3. CASE RedirToLatestVersion(r) \/ ServeExactVersion(r)
    <3>1. UNCHANGED annoData
      BY <2>3 DEF RedirToLatestVersion, ServeExactVersion, dbVars
    <3>2. CASE Respond(r, 404) \/ Respond(r, 200)
      BY <3>1, <3>2, LogResponded DEF Codes
    <3>3. ASSUME NEW n \in RedirectChoice(reqs[r]), Redirect(r, n)
          PROVE  LogInv'
      <4>1. n \in 1..MaxVersNum
        BY DEF RedirectChoice, Disclosed, Own, VersNums
      <4>2. /\ reqs'[r].pc = "respond"
            /\ \A p \in Reqs \ {r} : reqs'[p] = reqs[p]
        BY <3>3, <4>1, RedirectEffect DEF TypeInv, TypeOK
      <4>3. ReplacementOK(reqs[r])'
        BY <4>2 DEF ReplacementOK
      <4>. QED  BY <3>1, <4>2, <4>3, LogStep
    <3>. QED  BY <2>3, <3>2, <3>3 DEF RedirToLatestVersion, ServeExactVersion
  <2>4. CASE FindLatestForRevision(r)
    <3>1. UNCHANGED annoData
      BY <2>4 DEF FindLatestForRevision, dbVars
    <3>2. CASE Respond(r, 404) \/ Respond(r, 400)
      BY <3>1, <3>2, LogResponded DEF Codes
    <3>3. CASE reqs[r].pc = "findLatest" /\ Await(r, "lookupDetails", reqs[r])
      BY <3>1, <3>3, LogKeptOn
    <3>. QED  BY <2>4, <3>2, <3>3 DEF FindLatestForRevision
  <2>5. CASE ReviseChecked(r)
    BY <2>5, LogReviseChecked
  <2>6. CASE InsertAnnoData(r)
    BY <2>6, LogInsertAnnoData
  <2>7. ASSUME NEW pc \in Pcs \ RevisingPcs, NEW x \in Request,
               UNCHANGED annoData, Await(r, pc, x)
        PROVE  LogInv'
    BY <2>7, LogAwaited
  <2>8. CASE InsertStamps(r) \/ InsertLinks(r)
    <3>1. UNCHANGED annoData
      BY <2>8 DEF InsertStamps, InsertLinks
    <3>2. CASE Respond(r, 500) \/ Respond(r, 201)
      BY <3>1, <3>2, LogResponded DEF Codes
    <3>3. ASSUME NEW rest \in SUBSET StampTypes,
                 Await(r, IF rest = {} THEN "insertLinks" ELSE "insertStamps",
                       [q EXCEPT !.stampsTodo = rest])
          PROVE  LogInv'
      <4>1. [q EXCEPT !.stampsTodo = rest] \in Request
        BY DEF Request
      <4>2. (IF rest = {} THEN "insertLinks" ELSE "insertStamps")
              \in Pcs \ RevisingPcs
        BY DEF Pcs, QueryPcs, RevisingPcs
      <4>. QED  BY <2>7, <3>1, <3>3, <4>1, <4>2
    <3>4. ASSUME NEW l,
                 Await(r, "insertLinks", [q EXCEPT !.linksTodo = @ \ {l}])
          PROVE  LogInv'
      <4>1. [q EXCEPT !.linksTodo = @ \ {l}] \in Request
        BY DEF Request
      <4>. QED  BY <2>7, <3>1, <3>4, <4>1 DEF Pcs, QueryPcs, RevisingPcs
    <3>5. q.stampsTodo \ {NextStampRec(q)} \in SUBSET StampTypes
      BY DEF Request
    <3>6. CASE InsertStamps(r)
      BY <2>0, <3>2, <3>3, <3>5, <3>6 DEF InsertStamps
    <3>7. CASE InsertLinks(r)
      BY <2>0, <3>2, <3>4, <3>7 DEF InsertLinks
    <3>. QED  BY <2>8, <3>6, <3>7
  <2>9. CASE StampChecked(r) \/ PrepareAdd(r) \/ AddStamp(r) \/ CleanupAfterAdd(r)
    <3>1. UNCHANGED annoData
      BY <2>9 DEF StampChecked, PrepareAdd, AddStamp, CleanupAfterAdd, dbVars
    <3>2. ASSUME NEW dupe, Respond(r, AnswerCode(dupe))
          PROVE  LogInv'
      BY <3>1, <3>2, LogResponded DEF AnswerCode, Codes
    <3>3. ASSUME NEW pc \in PatchPcs, NEW x \in Request, Await(r, pc, x)
          PROVE  LogInv'
      BY <2>7, <3>1, <3>3 DEF PatchPcs, Pcs, QueryPcs, RevisingPcs
    <3>4. CASE StampChecked(r)
      BY <2>0, <3>1, <3>3, <3>4, LogResponded DEF StampChecked, PatchPcs, Codes
    <3>5. CASE PrepareAdd(r)
      BY <2>0, <3>3, <3>5 DEF PrepareAdd, PatchPcs
    <3>6. CASE AddStamp(r)
      <4>1. PICK dupe \in BOOLEAN :
              \/ Await(r, "cleanupAfterAdd", [q EXCEPT !.dupe = dupe])
              \/ Respond(r, AnswerCode(dupe))
        BY <2>0, <3>6, AddStampAwaits
      <4>2. [q EXCEPT !.dupe = dupe] \in Request
        BY DEF Request
      <4>. QED  BY <3>2, <3>3, <4>1, <4>2 DEF PatchPcs
    <3>7. CASE CleanupAfterAdd(r)
      BY <3>2, <3>7 DEF CleanupAfterAdd
    <3>. QED  BY <2>9, <3>4, <3>5, <3>6, <3>7
  <2>10. CASE Delivered(r)
    <3>1. /\ reqs'[r].pc = "idle"
          /\ \A p \in Reqs \ {r} : reqs'[p] = reqs[p]
      BY <2>10 DEF Delivered, NoReq, TypeInv, TypeOK
    <3>2. ReplacementOK(reqs[r])'
      BY <3>1 DEF ReplacementOK
    <3>. QED  BY <2>10, <3>1, <3>2, LogStep DEF Delivered, dbVars
  <2>11. CASE RunSearch(r) \/ NameWorkingCopy(r)
    <3>1. ReplacementOK(reqs[r])'
      BY <2>11, SearchStep DEF ReplacementOK
    <3>. QED  BY <2>11, <3>1, SearchStep, LogStep DEF dbVars
  <2>. QED  BY <1>2, <2>1, <2>2, <2>3, <2>4, <2>5, <2>6, <2>8, <2>9, <2>10,
               <2>11
            DEF Handle
<1>3. ASSUME NEW r \in Reqs, QueryFails(r)
      PROVE  LogInv'
  BY <1>3, LogResponded DEF QueryFails, Codes, dbVars
<1>4. CASE Crash
  <2>1. \A p \in Reqs : reqs'[p].pc = "idle"
    BY <1>4 DEF Crash, NoReq
  <2>2. \A p \in Reqs : ReplacementOK(reqs[p])'
    BY <2>1 DEF ReplacementOK
  <2>. QED  BY <1>4, <2>2
            DEF Crash, dbVars, LogInv, VersionsContiguous, NoLostUpdate,
                VersNums, Stored
<1>5. CASE UNCHANGED vars
  BY <1>5 DEF vars, LogInv, VersionsContiguous, NoLostUpdate, ReplacementOK,
              VersNums, Stored, Keeps, VersId
<1>. QED  BY <1>1, <1>2, <1>3, <1>4, <1>5 DEF Next

LEMMA LogInitially == Init => LogInv
<1>1. NoReq.pc = "idle"
  BY DEF NoReq
<1>. QED  BY <1>1
          DEF Init, DbInit, ReqInit, LogInv, VersionsContiguous, NoLostUpdate,
              ReplacementOK, VersNums, Stored

LEMMA LogInvariant == Spec => [](TypeInv /\ LogInv)
<1>1. TypeInv /\ LogInv /\ [Next]_vars => (TypeInv /\ LogInv)'
  BY TypeNext, LogNextStep
<1>. QED  BY TypeInit, LogInitially, <1>1, PTL DEF Spec
-------------------------------------------------------------------------------
(* There are no gaps in the version numbers of an annotation: the numbers  *)
(* that the POST handlers compute, and the primary key, see to it.         *)
THEOREM NumbersHaveNoGaps == Spec => []VersionsContiguous
<1>1. LogInv => VersionsContiguous
  BY DEF LogInv
<1>. QED  BY <1>1, LogInvariant, PTL

(* A version inherits from its predecessor all that its author did not     *)
(* edit: the dc:replaces check is made without a transaction, but no       *)
(* revision that raced it is lost.                                         *)
THEOREM NoUpdateIsLost == Spec => []NoLostUpdate
<1>1. LogInv => NoLostUpdate
  BY DEF LogInv
<1>. QED  BY <1>1, LogInvariant, PTL
-------------------------------------------------------------------------------
(* Refinement of VersionLog.                                               *)

LEMMA OnlyPostsWriteData ==
    ASSUME [Next]_vars, ~UNCHANGED annoData
    PROVE  \E r \in Reqs : InsertAnnoData(r)
BY SearchReceived
   DEF Next, Receive, Handle, vars, dbVars, ReceivePost, ReceivePatch,
       ReceiveGet, RunSearch, NameWorkingCopy, LookupDetails, LookupRefused, FindLatestForRevision,
       ReviseChecked, InsertStamps, InsertLinks, StampChecked, PrepareAdd,
       AddStamp, CleanupAfterAdd, RedirToLatestVersion, ServeExactVersion,
       Delivered, QueryFails, Crash

LEMMA LogUnchanged ==
    ASSUME UNCHANGED annoData
    PROVE  UNCHANGED VersionLogOfTables
BY DEF VersionLogOfTables, VersNums, Stored

(* The insert appends to the log of its annotation.                        *)
LEMMA InsertAppends ==
    ASSUME NEW r \in Reqs, TypeInv, LogInv, InsertAnnoData(r),
           ~UNCHANGED annoData
    PROVE  Log!LogNext
<1>. USE DEF TypeInv, TypeOK
<1>1. PICK q \in Request : q = reqs[r]
  OBVIOUS
<1>2. /\ q.pc = "insertData" /\ q.vernum >= 1
      /\ q.base \in BaseIds /\ q.user \in Users /\ q.draft \in Details
  BY <1>1 DEF InsertAnnoData, RequestOK, PostPcs, QueryPcs
<1>3. ~RefusedByTable(q) /\ InsertData(VersId(q), NewRow(q))
  BY <1>1 DEF InsertAnnoData
<1>4. q.vernum \in 1..MaxVersNum /\ ~Stored(VersId(q))
  <2>1. q.vernum \in 0..(MaxVersNum + 1)
    BY DEF Request
  <2>. QED  BY <1>2, <1>3, <2>1, MaxVersNumAssumption DEF RefusedByTable
<1>5. /\ annoData'[VersId(q)] = NewRow(q)
      /\ \A v : Stored(v)' <=> Stored(v) \/ v = VersId(q)
      /\ \A v : Stored(v) => annoData'[v] = annoData[v]
  BY <1>3, <1>4 DEF InsertData, Stored
<1>. DEFINE b == q.base
            n == q.vernum
            k == n - 1
<1>6. k \in Nat /\ k + 1 = n /\ k <= MaxVersNum /\ n \in Nat
  BY <1>4, MaxVersNumAssumption
<1>7. VersNums(b) = 1..k
  <2>1. ASSUME NEW m \in VersNums(b)
        PROVE  m \in 1..k
    <3>1. m \in 1..MaxVersNum
      BY DEF VersNums
    <3>2. CASE n <= m
      <4>1. n \in 1..m
        BY <1>4, <3>1, <3>2, MaxVersNumAssumption
      <4>2. n \in VersNums(b)
        BY <1>2, <4>1 DEF LogInv, VersionsContiguous
      <4>. QED  BY <1>4, <4>2 DEF VersNums, VersId
    <3>. QED  BY <1>6, <3>1, <3>2, MaxVersNumAssumption
  <2>2. ASSUME NEW m \in 1..k
        PROVE  m \in VersNums(b)
    <3>1. n > 1 /\ k \in 1..MaxVersNum
      BY <1>4, <1>6, MaxVersNumAssumption
    <3>2. k \in VersNums(b)
      BY <1>1, <1>2, <3>1 DEF LogInv, ReplacementOK, VersNums
    <3>. QED  BY <1>2, <3>2 DEF LogInv, VersionsContiguous
  <2>. QED  BY <2>1, <2>2
<1>8. /\ VersNums(b)' = VersNums(b) \cup {n}
      /\ \A c \in BaseIds \ {b} : VersNums(c)' = VersNums(c)
  <2>1. ASSUME NEW c, NEW m
        PROVE  Stored(<<c, m>>)' <=> Stored(<<c, m>>) \/ (c = b /\ m = n)
    <3>1. <<c, m>> = VersId(q) <=> (c = b /\ m = n)
      BY DEF VersId
    <3>. QED  BY <1>5, <3>1, Zenon
  <2>. QED  BY <1>4, <2>1 DEF VersNums
<1>9. VersNums(b)' = 1..(k + 1)
  BY <1>6, <1>7, <1>8
<1>10. NewRow(q) \in AnnoRow
  BY <1>2 DEF NewRow, AnnoRow, Request
<1>11. Log!Appended(b, k)
  <2>1. VersionLogOfTables[b] = [m \in VersNums(b) |-> annoData[<<b, m>>]]
    BY <1>2 DEF VersionLogOfTables
  <2>2. VersionLogOfTables'[b]
          = [m \in VersNums(b)' |-> annoData'[<<b, m>>]]
    BY <1>2 DEF VersionLogOfTables
  <2>3. VersionLogOfTables'[b][k + 1] = NewRow(q)
    BY <1>5, <1>6, <1>9, <2>2 DEF VersId
  <2>4. ASSUME NEW m \in 1..k
        PROVE  VersionLogOfTables'[b][m] = VersionLogOfTables[b][m]
    <3>1. m \in VersNums(b) /\ m \in VersNums(b)'
      BY <1>7, <1>8
    <3>2. annoData'[<<b, m>>] = annoData[<<b, m>>]
      BY <1>5, <3>1 DEF VersNums
    <3>. QED  BY <2>1, <2>2, <3>1, <3>2
  <2>5. ASSUME NEW c \in BaseIds \ {b}
        PROVE  VersionLogOfTables'[c] = VersionLogOfTables[c]
    <3>1. /\ VersionLogOfTables[c] = [m \in VersNums(c) |-> annoData[<<c, m>>]]
          /\ VersionLogOfTables'[c]
                = [m \in VersNums(c)' |-> annoData'[<<c, m>>]]
      BY DEF VersionLogOfTables
    <3>2. VersNums(c)' = VersNums(c)
      BY <1>8
    <3>3. \A m \in VersNums(c) : annoData'[<<c, m>>] = annoData[<<c, m>>]
      BY <1>5 DEF VersNums
    <3>. QED  BY <3>1, <3>2, <3>3
  <2>. QED  BY <1>7, <1>9, <1>10, <2>1, <2>2, <2>3, <2>4, <2>5
            DEF Log!Appended
<1>12. CASE k = 0
  BY <1>2, <1>11, <1>12 DEF Log!LogNext, Log!Create
<1>13. CASE k # 0
  <2>1. k \in DOMAIN VersionLogOfTables[b]
    BY <1>2, <1>6, <1>7, <1>13 DEF VersionLogOfTables
  <2>2. /\ VersionLogOfTables'[b][k + 1] = NewRow(q)
        /\ VersionLogOfTables[b][k] = annoData[<<b, k>>]
    BY <1>2, <1>5, <1>6, <1>7, <1>9, <2>1 DEF VersionLogOfTables, VersId
  <2>3. n > 1
    BY <1>6, <1>13
  <2>4. Keeps(q, annoData[<<b, k>>])
    BY <1>1, <1>2, <2>3 DEF LogInv, ReplacementOK
  <2>5. Log!Revise(b, k)
    BY <1>11, <2>2, <2>4 DEF Log!Revise, Keeps, NewRow
  <2>. QED  BY <1>2, <2>1, <2>5 DEF Log!LogNext
<1>. QED  BY <1>12, <1>13

(* The tables implement the log of versions that authors are promised,     *)
(* whatever POST requests race, fail or die.                               *)
THEOREM TablesImplementVersionLog == Spec => ImplementsVersionLog
<1>1. Init => Log!LogInit
  BY DEF Init, DbInit, Log!LogInit, VersionLogOfTables, VersNums, Stored
<1>2. TypeInv /\ LogInv /\ [Next]_vars => [Log!LogNext]_VersionLogOfTables
  BY OnlyPostsWriteData, LogUnchanged, InsertAppends
<1>. QED  BY <1>1, <1>2, LogInvariant, PTL
          DEF Spec, ImplementsVersionLog, Log!LogSpec

-------------------------------------------------------------------------------
(* Authorship.                                                             *)

(* A revision that the checks let pass differs from the version that it    *)
(* replaces only where the poster has the privilege for it.                *)
LEMMA CheckedRevision ==
    ASSUME NEW q \in Request, NEW old \in AnnoRow, NEW x \in Request,
           q.draft \in Details, MayRevise(q), RevisionVerdict(q, old) = 0,
           x.user = q.user, x.links = q.links, x.draft = MergedDetails(q, old)
    PROVE  RevisionIsAuthorized(old, NewRow(x))
<1>1. PICK whose : whose = RevisePrivilege(q)
  OBVIOUS
<1>2. PICK new : new = NewRow(x)
  OBVIOUS
<1>3. new.author = q.user /\ new.links = q.links /\ new.details = x.draft
  BY <1>2 DEF NewRow
<1>4. \A f \in Fields : /\ f \in ChangedFields(q, old) => x.draft[f] = q.draft[f]
                        /\ f \notin ChangedFields(q, old)
                             => x.draft[f] = old.details[f]
  BY DEF MergedDetails
<1>5. x.draft["creator"] = q.draft["creator"]
  BY <1>4, FieldsAssumption DEF ChangedFields, MayRevise
<1>6. whose = IF ClaimsOwnership(new) THEN "revise_own" ELSE "revise_any"
  BY <1>1, <1>3, <1>5 DEF RevisePrivilege, ClaimsOwnership, Authorized
<1>7. Allowed(q.user, <<whose>>)
  BY <1>1 DEF MayRevise
<1>8. /\ \A p \in PrivilegesForChange(q, old) : Allowed(q.user, p)
      /\ RepliesOf(q.links) = RepliesOf(old.links)
  BY DEF RevisionVerdict
<1>9. ASSUME NEW f \in {"creator", "body"}, new.details[f] # old.details[f]
      PROVE  Allowed(q.user, <<whose, f>>)
  <2>1. f \in ChangedFields(q, old) \cap DOMAIN PermOfField /\ PermOfField[f] = f
    BY <1>3, <1>4, <1>9, FieldsAssumption DEF PermOfField
  <2>2. <<whose, f>> \in PrivilegesForChange(q, old)
    BY <1>1, <2>1 DEF PrivilegesForChange
  <2>. QED  BY <1>8, <2>2
<1>10. ASSUME ~(SubjectsOf(q.links) \subseteq SubjectsOf(old.links))
       PROVE  Allowed(q.user, <<whose, "target_add">>)
  <2>1. <<whose, "target_add">> \in PrivilegesForChange(q, old)
    BY <1>1, <1>10 DEF PrivilegesForChange
  <2>. QED  BY <1>8, <2>1
<1>11. ASSUME ~(SubjectsOf(old.links) \subseteq SubjectsOf(q.links))
       PROVE  Allowed(q.user, <<whose, "target_del">>)
  <2>1. <<whose, "target_del">> \in PrivilegesForChange(q, old)
    BY <1>1, <1>11 DEF PrivilegesForChange
  <2>. QED  BY <1>8, <2>1
<1>. QED  BY <1>2, <1>3, <1>6, <1>7, <1>8, <1>9, <1>10, <1>11
          DEF RevisionIsAuthorized
-------------------------------------------------------------------------------
(* A revision that is still being looked up has been allowed to revise.    *)
LookupPcs == {"findLatest", "lookupDetails", "lookupStamps"}

Asked(q) == q.op = "post" /\ q.pc \in LookupPcs => MayRevise(q)

AllAsked == \A p \in Reqs : Asked(reqs[p])

LEMMA AskedAwait ==
    ASSUME NEW r \in Reqs, NEW pc \in Pcs, NEW q \in Request, TypeInv, AllAsked,
           Await(r, pc, q),
           pc \notin LookupPcs \/ q.op # "post" \/ MayRevise(q)
    PROVE  AllAsked'
<1>1. /\ reqs'[r] = [q EXCEPT !.pc = pc]
      /\ \A p \in Reqs \ {r} : reqs'[p] = reqs[p]
  BY AwaitEffect DEF TypeInv, TypeOK
<1>2. PICK y : y = reqs'[r]
  OBVIOUS
<1>3. /\ y.pc = pc /\ y.op = q.op /\ y.draft = q.draft /\ y.user = q.user
  BY <1>1, <1>2 DEF Request
<1>4. Asked(y)
  BY <1>3 DEF Asked, MayRevise, RevisePrivilege
<1>5. \A p \in Reqs : Asked(reqs'[p])
  BY <1>1, <1>2, <1>4 DEF AllAsked
<1>. QED  BY <1>5 DEF AllAsked, Asked, MayRevise, RevisePrivilege

LEMMA AskedAnswer ==
    ASSUME NEW r \in Reqs, NEW code \in Codes, TypeInv, AllAsked,
           Respond(r, code)
    PROVE  AllAsked'
<1>1. \A p \in Reqs : reqs'[p] = reqs[p] \/ reqs'[p].pc = "respond"
  BY RespondEffect DEF TypeInv, TypeOK
<1>. QED  BY <1>1 DEF AllAsked, Asked, LookupPcs, MayRevise, RevisePrivilege

LEMMA AskedChecks ==
    ASSUME NEW r \in Reqs, TypeInv, AllAsked,
           \/ Receive(r) \/ LookupDetails(r) \/ LookupRefused(r)
           \/ FindLatestForRevision(r) \/ ReviseChecked(r) \/ StampChecked(r)
    PROVE  AllAsked'
<1>1. PICK q \in Request : q = reqs[r]
  BY DEF TypeInv, TypeOK
<1>2. ASSUME NEW code \in Codes, Respond(r, code)
      PROVE  AllAsked'
  BY <1>2, AskedAnswer
<1>3. ASSUME NEW pc \in LookupPcs, q.pc \in LookupPcs, Await(r, pc, q)
      PROVE  AllAsked'
  <2>1. pc \in Pcs /\ (q.op # "post" \/ MayRevise(q))
    BY <1>1, <1>3 DEF AllAsked, Asked, LookupPcs, Pcs, QueryPcs
  <2>. QED  BY <1>3, <2>1, AskedAwait
<1>4. ASSUME NEW pc \in {"search", "insertData", "prepareAdd", "addStamp"},
             NEW x \in Request, Await(r, pc, x)
      PROVE  AllAsked'
  BY <1>4, AskedAwait DEF LookupPcs, Pcs, QueryPcs
<1>5. ASSUME NEW pc \in {"findLatest", "lookupDetails"}, NEW x \in Request,
             Await(r, pc, x), x.op # "post" \/ MayRevise(x)
      PROVE  AllAsked'
  BY <1>5, AskedAwait DEF Pcs, QueryPcs
<1>6. CASE ReceivePost(r)
  BY <1>2, <1>4, <1>5, <1>6, PostReceived DEF IsPost
<1>7. CASE ReceivePatch(r)
  BY <1>5, <1>7, PatchReceived
<1>8. CASE ReceiveGet(r)
  BY <1>5, <1>8, GetReceived
<1>9. CASE ReceiveSearch(r)
  BY <1>2, <1>4, <1>9, SearchReceived DEF IsSearch
<1>10. CASE LookupDetails(r)
  BY <1>1, <1>2, <1>3, <1>10 DEF LookupDetails, LookupPcs, Codes
<1>11. CASE LookupRefused(r)
  <2>1. PICK seen : Respond(r, LookupVerdict(reqs[r], seen))
    BY <1>11 DEF LookupRefused
  <2>2. LookupVerdict(reqs[r], seen) \in Codes
    BY DEF LookupVerdict, Codes
  <2>. QED  BY <1>2, <2>1, <2>2
<1>12. CASE FindLatestForRevision(r)
  BY <1>1, <1>2, <1>3, <1>12 DEF FindLatestForRevision, LookupPcs, Codes
<1>13. CASE ReviseChecked(r)
  BY <1>1, <1>2, <1>4, <1>13, RevisionAwaits DEF IsPost
<1>14. CASE StampChecked(r)
  <2>1. CASE Respond(r, 403)
    BY <1>2, <2>1 DEF Codes
  <2>2. CASE Await(r, IF HasPreparation(q.stamp) THEN "prepareAdd"
                      ELSE "addStamp", q)
    BY <1>4, <2>2
  <2>. QED  BY <1>1, <1>14, <2>1, <2>2 DEF StampChecked
<1>. QED  BY <1>6, <1>7, <1>8, <1>9, <1>10, <1>11, <1>12, <1>13, <1>14
          DEF Receive

LEMMA AskedWrites ==
    ASSUME NEW r \in Reqs, TypeInv, AllAsked,
           \/ InsertAnnoData(r) \/ InsertStamps(r) \/ InsertLinks(r)
           \/ PrepareAdd(r) \/ AddStamp(r) \/ CleanupAfterAdd(r)
    PROVE  AllAsked'
<1>1. PICK q \in Request : q = reqs[r]
  BY DEF TypeInv, TypeOK
<1>2. ASSUME NEW code \in Codes, Respond(r, code)
      PROVE  AllAsked'
  BY <1>2, AskedAnswer
<1>3. ASSUME NEW x \in Request, Await(r, "insertLinks", x)
                                \/ Await(r, "insertStamps", x)
                                \/ Await(r, "addStamp", x)
                                \/ Await(r, "cleanupAfterAdd", x)
      PROVE  AllAsked'
  BY <1>3, AskedAwait DEF LookupPcs, Pcs, QueryPcs
<1>4. ASSUME NEW dupe \in BOOLEAN, Respond(r, AnswerCode(dupe))
      PROVE  AllAsked'
  <2>1. AnswerCode(dupe) \in Codes
    BY DEF AnswerCode, Codes
  <2>. QED  BY <1>2, <1>4, <2>1
<1>5. CASE InsertAnnoData(r)
  BY <1>1, <1>2, <1>3, <1>5 DEF InsertAnnoData, Codes
<1>6. CASE InsertStamps(r)
  <2>1. [q EXCEPT !.stampsTodo = q.stampsTodo \ {NextStampRec(q)}] \in Request
    BY DEF Request
  <2>. QED  BY <1>1, <1>2, <1>3, <1>6, <2>1 DEF InsertStamps, Codes
<1>7. CASE InsertLinks(r)
  <2>1. \A l : [q EXCEPT !.linksTodo = q.linksTodo \ {l}] \in Request
    BY DEF Request
  <2>. QED  BY <1>1, <1>2, <1>3, <1>7, <2>1 DEF InsertLinks, Codes
<1>8. CASE PrepareAdd(r)
  BY <1>1, <1>3, <1>8 DEF PrepareAdd
<1>9. CASE AddStamp(r)
  <2>1. PICK dupe \in BOOLEAN :
          \/ Await(r, "cleanupAfterAdd", [q EXCEPT !.dupe = dupe])
          \/ Respond(r, AnswerCode(dupe))
    BY <1>1, <1>9, AddStampAwaits
  <2>2. [q EXCEPT !.dupe = dupe] \in Request
    BY DEF Request
  <2>. QED  BY <1>3, <1>4, <2>1, <2>2
<1>10. CASE CleanupAfterAdd(r)
  <2>1. q.dupe \in BOOLEAN
    BY DEF Request
  <2>. QED  BY <1>1, <1>4, <1>10, <2>1 DEF CleanupAfterAdd
<1>. QED  BY <1>5, <1>6, <1>7, <1>8, <1>9, <1>10

LEMMA AskedNext ==
    ASSUME TypeInv, AllAsked, [Next]_vars
    PROVE  AllAsked'
<1>1. ASSUME NEW r \in Reqs, Respond(r, 200) \/ Respond(r, 404)
                             \/ Respond(r, 500) \/ Respond(r, 503)
      PROVE  AllAsked'
  BY <1>1, AskedAnswer DEF Codes
<1>2. ASSUME \A p \in Reqs : \/ reqs'[p] = reqs[p]
                             \/ reqs'[p].pc \in {"respond", "idle"}
                             \/ reqs'[p].op # "post"
      PROVE  AllAsked'
  BY <1>2 DEF AllAsked, Asked, LookupPcs, MayRevise, RevisePrivilege
<1>3. NoReq.pc = "idle"
  BY DEF NoReq
<1>4. ASSUME NEW r \in Reqs, Delivered(r)
      PROVE  AllAsked'
  BY <1>2, <1>3, <1>4 DEF Delivered, TypeInv, TypeOK
<1>5. ASSUME NEW r \in Reqs, RunSearch(r) \/ NameWorkingCopy(r)
      PROVE  AllAsked'
  BY <1>2, <1>5, SearchStep
<1>6. ASSUME NEW r \in Reqs, RedirToLatestVersion(r)
      PROVE  AllAsked'
  <2>1. ASSUME NEW n \in RedirectChoice(reqs[r]), Redirect(r, n)
        PROVE  AllAsked'
    <3>1. n \in 1..MaxVersNum
      BY DEF RedirectChoice, Disclosed, Own, VersNums
    <3>. QED  BY <1>2, <2>1, <3>1, RedirectEffect DEF TypeInv, TypeOK
  <2>2. \/ Respond(r, 404)
        \/ \E n \in RedirectChoice(reqs[r]) : Redirect(r, n)
    BY <1>6 DEF RedirToLatestVersion
  <2>. QED  BY <1>1, <2>1, <2>2
<1>7. ASSUME NEW r \in Reqs, ServeExactVersion(r) \/ QueryFails(r)
      PROVE  AllAsked'
  BY <1>1, <1>7 DEF ServeExactVersion, QueryFails
<1>8. CASE Crash \/ UNCHANGED vars
  BY <1>2, <1>3, <1>8 DEF Crash, vars
<1>. QED  BY <1>4, <1>5, <1>6, <1>7, <1>8, AskedChecks, AskedWrites
          DEF Next, Handle
-------------------------------------------------------------------------------
(* A POST that is about to insert its version may do so.                   *)
ReadyOK(q) ==
    q.pc = "insertData" =>
        IF q.vernum = 1 THEN ClaimsOwnership(NewRow(q))
        ELSE RevisionIsAuthorized(annoData[<<q.base, q.vernum - 1>>], NewRow(q))

AllReady == \A p \in Reqs : ReadyOK(reqs[p])

(* One that does not move may still do so: the version that it builds on   *)
(* stays as it is.                                                         *)
LEMMA ReadyKept ==
    ASSUME TypeInv, LogInv, AllReady, RowsStay,
           NEW p \in Reqs, reqs'[p] = reqs[p]
    PROVE  ReadyOK(reqs[p])'
<1>1. PICK q \in Request : q = reqs[p]
  BY DEF TypeInv, TypeOK
<1>2. ASSUME q.pc = "insertData", q.vernum # 1
      PROVE  annoData'[<<q.base, q.vernum - 1>>] = annoData[<<q.base, q.vernum - 1>>]
  <2>1. q.vernum >= 1 /\ q.vernum \in 0..(MaxVersNum + 1)
    BY <1>1, <1>2 DEF TypeInv, RequestOK, PostPcs, Request
  <2>2. q.vernum > 1
    BY <1>2, <2>1, MaxVersNumAssumption
  <2>3. Stored(<<q.base, q.vernum - 1>>)
    BY <1>1, <1>2, <2>2 DEF LogInv, ReplacementOK
  <2>. QED  BY <2>3 DEF RowsStay, Stored
<1>3. ReadyOK(q)
  BY <1>1 DEF AllReady
<1>4. q.pc = "insertData" /\ q.vernum # 1 =>
        RevisionIsAuthorized(annoData'[<<q.base, q.vernum - 1>>], NewRow(q))
  BY <1>2, <1>3 DEF ReadyOK
<1>5. q.pc = "insertData" /\ q.vernum = 1 => ClaimsOwnership(NewRow(q))
  BY <1>3 DEF ReadyOK
<1>6. reqs'[p] = q
  BY <1>1
<1>7. ReadyOK(q)'
  BY <1>4, <1>5 DEF ReadyOK, NewRow, ClaimsOwnership, RevisionIsAuthorized
<1>. QED  BY <1>6, <1>7 DEF ReadyOK, NewRow, ClaimsOwnership, RevisionIsAuthorized

LEMMA ReadyElse ==
    ASSUME NEW p \in Reqs, reqs'[p].pc # "insertData"
    PROVE  ReadyOK(reqs[p])'
BY DEF ReadyOK

LEMMA ReadyStartsPost ==
    ASSUME TypeInv, LogInv, AllAsked, AllReady, NEW r \in Reqs, StartsPost(r)
    PROVE  AllReady'
<1>. USE DEF TypeInv, TypeOK
<1>1. PICK x : /\ IsPost(x) /\ Await(r, "insertData", x)
               /\ \/ x.vernum = 1 /\ Authorized(x.user, x.draft)
                  \/ Revises(x, reqs[r])
  BY DEF StartsPost
<1>2. UNCHANGED annoData /\ RowsStay
  BY DEF StartsPost, dbVars, RowsStay
<1>3. /\ reqs'[r] = [x EXCEPT !.pc = "insertData"]
      /\ \A p \in Reqs \ {r} : reqs'[p] = reqs[p]
  BY <1>1, AwaitEffect DEF IsPost, Pcs, QueryPcs
<1>4. PICK y : y = reqs'[r]
  OBVIOUS
<1>5. /\ y.vernum = x.vernum /\ y.base = x.base /\ NewRow(y) = NewRow(x)
  BY <1>1, <1>3, <1>4 DEF IsPost, Request, NewRow
<1>6. ReadyOK(y)
  <2>1. CASE x.vernum = 1 /\ Authorized(x.user, x.draft)
    BY <1>5, <2>1 DEF ReadyOK, ClaimsOwnership, NewRow
  <2>2. CASE Revises(x, reqs[r])
    <3>1. PICK q \in Request : q = reqs[r]
      OBVIOUS
    <3>2. /\ q.pc = "lookupStamps" /\ q.op = "post"
          /\ q.vernum \in 1..MaxVersNum /\ Stored(VersId(q))
          /\ x.base = q.base /\ x.vernum = q.vernum + 1
      BY <2>2, <3>1 DEF Revises
    <3>3. MayRevise(q) /\ q.draft \in Details
      BY <3>1, <3>2 DEF AllAsked, Asked, LookupPcs, RequestOK, QueryPcs
    <3>4. annoData[VersId(q)] \in AnnoRow
      BY <3>2 DEF Stored, DbTypeOK
    <3>5. RevisionIsAuthorized(annoData[VersId(q)], NewRow(x))
      BY <1>1, <2>2, <3>1, <3>3, <3>4, CheckedRevision DEF Revises, IsPost
    <3>6. x.vernum # 1 /\ VersId(q) = <<x.base, x.vernum - 1>>
      BY <3>2, MaxVersNumAssumption DEF VersId
    <3>. QED  BY <1>5, <3>5, <3>6 DEF ReadyOK
  <2>. QED  BY <1>1, <2>1, <2>2
<1>7. ReadyOK(reqs[r])'
  BY <1>2, <1>4, <1>6 DEF ReadyOK, NewRow, ClaimsOwnership, RevisionIsAuthorized
<1>8. \A p \in Reqs : ReadyOK(reqs[p])'
  BY <1>2, <1>3, <1>7, ReadyKept
<1>. QED  BY <1>8 DEF AllReady, ReadyOK, NewRow, ClaimsOwnership, RevisionIsAuthorized

LEMMA RowsAfterInsert ==
    ASSUME NEW r \in Reqs, InsertAnnoData(r)
    PROVE  \A v \in DOMAIN annoData' :
              \/ Stored(v) /\ annoData'[v] = annoData[v]
              \/ v = VersId(reqs[r]) /\ annoData'[v] = NewRow(reqs[r])
<1>1. CASE UNCHANGED annoData
  BY <1>1 DEF Stored
<1>2. CASE InsertData(VersId(reqs[r]), NewRow(reqs[r]))
  BY <1>2 DEF InsertData, Stored
<1>. QED  BY <1>1, <1>2 DEF InsertAnnoData

(* The only step that adds a version: its checks were made against the     *)
(* version before it, which has not changed since.                         *)
LEMMA AuthorizedInsert ==
    ASSUME TypeInv, LogInv, VersionsAreAuthorized, AllReady, RowsStay,
           NEW r \in Reqs, InsertAnnoData(r)
    PROVE  VersionsAreAuthorized' /\ AllReady'
<1>. USE DEF TypeInv, TypeOK
<1>1. PICK q \in Request : q = reqs[r]
  OBVIOUS
<1>2. q.pc = "insertData" /\ ReadyOK(q) /\ ReplacementOK(q)
  BY <1>1 DEF InsertAnnoData, AllReady, LogInv
<1>3. /\ reqs'[r].pc # "insertData"
      /\ \A p \in Reqs \ {r} : reqs'[p] = reqs[p]
  <2>1. CASE Respond(r, 500)
    BY <2>1, RespondEffect DEF Codes
  <2>2. CASE Await(r, IF q.stampsTodo = {} THEN "insertLinks"
                      ELSE "insertStamps", q)
    <3>1. PICK pc \in {"insertLinks", "insertStamps"} : Await(r, pc, q)
      BY <2>2
    <3>2. /\ reqs'[r] = [q EXCEPT !.pc = pc]
          /\ \A p \in Reqs \ {r} : reqs'[p] = reqs[p]
      BY <3>1, AwaitEffect DEF Pcs, QueryPcs
    <3>. QED  BY <3>2 DEF Request
  <2>. QED  BY <1>1, <2>1, <2>2 DEF InsertAnnoData
<1>4. \A p \in Reqs : ReadyOK(reqs[p])'
  BY <1>3, ReadyKept, ReadyElse
<1>5. AllReady'
  BY <1>4 DEF AllReady, ReadyOK, NewRow, ClaimsOwnership, RevisionIsAuthorized
<1>6. \A v \in DOMAIN annoData' :
        \/ Stored(v) /\ annoData'[v] = annoData[v]
        \/ v = VersId(q) /\ annoData'[v] = NewRow(q)
  BY <1>1, RowsAfterInsert
<1>7. ASSUME NEW b \in BaseIds, Stored(<<b, 1>>)'
      PROVE  ClaimsOwnership(annoData'[<<b, 1>>])
  <2>1. CASE Stored(<<b, 1>>) /\ annoData'[<<b, 1>>] = annoData[<<b, 1>>]
    BY <2>1 DEF VersionsAreAuthorized
  <2>2. CASE <<b, 1>> = VersId(q) /\ annoData'[<<b, 1>>] = NewRow(q)
    BY <1>2, <2>2 DEF VersId, ReadyOK
  <2>. QED  BY <1>6, <1>7, <2>1, <2>2 DEF Stored
<1>8. ASSUME NEW b \in BaseIds, NEW n \in 2..MaxVersNum, Stored(<<b, n>>)'
      PROVE  RevisionIsAuthorized(annoData'[<<b, n - 1>>], annoData'[<<b, n>>])
  <2>1. n > 1 /\ n - 1 \in 1..n /\ n \in 1..MaxVersNum
    BY MaxVersNumAssumption
  <2>2. CASE Stored(<<b, n>>) /\ annoData'[<<b, n>>] = annoData[<<b, n>>]
    <3>1. n - 1 \in VersNums(b)
      BY <2>1, <2>2 DEF LogInv, VersionsContiguous, VersNums
    <3>2. annoData'[<<b, n - 1>>] = annoData[<<b, n - 1>>]
      BY <3>1 DEF VersNums, RowsStay, Stored
    <3>. QED  BY <2>2, <3>2 DEF VersionsAreAuthorized
  <2>3. CASE <<b, n>> = VersId(q) /\ annoData'[<<b, n>>] = NewRow(q)
    <3>1. q.base = b /\ q.vernum = n
      BY <2>3 DEF VersId
    <3>2. Stored(<<b, n - 1>>)
      BY <1>2, <2>1, <3>1 DEF ReplacementOK
    <3>3. annoData'[<<b, n - 1>>] = annoData[<<b, n - 1>>]
      BY <3>2 DEF RowsStay, Stored
    <3>. QED  BY <1>2, <2>1, <2>3, <3>1, <3>3 DEF ReadyOK
  <2>. QED  BY <1>6, <1>8, <2>2, <2>3 DEF Stored
<1>. QED  BY <1>5, <1>7, <1>8
          DEF VersionsAreAuthorized, ClaimsOwnership, RevisionIsAuthorized

LEMMA AuthorizedNext ==
    ASSUME TypeInv, LogInv, VersionsAreAuthorized, AllAsked, AllReady,
           [Next]_vars
    PROVE  VersionsAreAuthorized' /\ AllReady'
<1>1. ASSUME UNCHANGED annoData
      PROVE  VersionsAreAuthorized'
  <2>1. ASSUME NEW b \in BaseIds
        PROVE  /\ Stored(<<b, 1>>)' => ClaimsOwnership(annoData'[<<b, 1>>])
               /\ \A n \in 2..MaxVersNum : Stored(<<b, n>>)' =>
                    RevisionIsAuthorized(annoData'[<<b, n - 1>>],
                                         annoData'[<<b, n>>])
    BY <1>1 DEF VersionsAreAuthorized, Stored
  <2>. QED  BY <2>1
            DEF VersionsAreAuthorized, ClaimsOwnership, RevisionIsAuthorized
<1>2. RowsStay
  BY RowsComeByPosts
<1>3. ASSUME \A p \in Reqs : \/ reqs'[p] = reqs[p]
                             \/ reqs'[p].pc # "insertData"
      PROVE  AllReady'
  <2>1. \A p \in Reqs : ReadyOK(reqs[p])'
    BY <1>2, <1>3, ReadyKept, ReadyElse
  <2>. QED  BY <2>1
            DEF AllReady, ReadyOK, NewRow, ClaimsOwnership, RevisionIsAuthorized
<1>4. CASE UNCHANGED <<annoData, annoLinks>> /\ NoPostMoves
  BY <1>1, <1>3, <1>4 DEF NoPostMoves, PostPcs
<1>5. ASSUME NEW r \in Reqs, StartsPost(r)
      PROVE  VersionsAreAuthorized' /\ AllReady'
  BY <1>1, <1>5, ReadyStartsPost DEF StartsPost, dbVars
<1>6. ASSUME NEW r \in Reqs, InsertStamps(r) \/ InsertLinks(r)
      PROVE  VersionsAreAuthorized' /\ AllReady'
  <2>1. PICK q \in Request : q = reqs[r]
    BY DEF TypeInv, TypeOK
  <2>2. ASSUME NEW pc \in {"insertLinks", "insertStamps"}, NEW x \in Request,
               Await(r, pc, x)
        PROVE  AllReady'
    <3>1. /\ reqs'[r] = [x EXCEPT !.pc = pc]
          /\ \A p \in Reqs \ {r} : reqs'[p] = reqs[p]
      BY <2>2, AwaitEffect DEF TypeInv, TypeOK, Pcs, QueryPcs
    <3>2. reqs'[r].pc # "insertData"
      BY <3>1 DEF Request
    <3>. QED  BY <1>3, <3>1, <3>2
  <2>3. ASSUME Respond(r, 500) \/ Respond(r, 201)
        PROVE  AllReady'
    BY <1>3, <2>3, RespondEffect DEF TypeInv, TypeOK, Codes
  <2>4. CASE InsertStamps(r)
    <3>1. [q EXCEPT !.stampsTodo = q.stampsTodo \ {NextStampRec(q)}] \in Request
      BY DEF Request
    <3>. QED  BY <1>1, <2>1, <2>2, <2>3, <2>4, <3>1 DEF InsertStamps
  <2>5. CASE InsertLinks(r)
    <3>1. \A l : [q EXCEPT !.linksTodo = q.linksTodo \ {l}] \in Request
      BY DEF Request
    <3>. QED  BY <1>1, <2>1, <2>2, <2>3, <2>5, <3>1 DEF InsertLinks
  <2>. QED  BY <1>6, <2>4, <2>5
<1>. QED  BY <1>2, <1>4, <1>5, <1>6, PostSteps, AuthorizedInsert

LEMMA AuthorizedInit == Init => VersionsAreAuthorized /\ AllAsked /\ AllReady
<1>1. NoReq.pc = "idle"
  BY DEF NoReq
<1>. QED  BY <1>1
          DEF Init, DbInit, ReqInit, VersionsAreAuthorized, Stored, AllAsked,
              Asked, LookupPcs, AllReady, ReadyOK

(* Whoever raced whom, a stored version is one that its poster may post on *)
(* top of its predecessor: the privileges were checked before the insert   *)
(* and against the version that is the predecessor in the end.             *)
THEOREM VersionsStayAuthorized == Spec => []VersionsAreAuthorized
<1>1. /\ TypeInv /\ LogInv
      /\ VersionsAreAuthorized /\ AllAsked /\ AllReady
      /\ [Next]_vars
      => (VersionsAreAuthorized /\ AllAsked /\ AllReady)'
  BY AskedNext, AuthorizedNext
<1>. QED  BY AuthorizedInit, LogInvariant, <1>1, PTL DEF Spec

(* With revise_own_creator, an author may sign the revision of somebody    *)
(* else's version with a name of their own, and then needs no revise_any:  *)
(* that is the one way past the author of the replaced version.            *)
NobodySignsAnew == \A u \in Users : ~Allowed(u, <<"revise_own", "creator">>)

THEOREM OwnVersionsArePosters ==
    ASSUME NobodySignsAnew
    PROVE  Spec => []ReviseOwnMeansOwn
<1>1. ASSUME TypeInv, VersionsAreAuthorized,
             NEW b \in BaseIds, NEW n \in 2..MaxVersNum, Stored(<<b, n>>)
      PROVE  LET u == annoData[<<b, n>>].author IN
             \/ Authorized(u, annoData[<<b, n - 1>>].details)
             \/ Allowed(u, <<"revise_any">>)
  <2>1. PICK old, new : old = annoData[<<b, n - 1>>] /\ new = annoData[<<b, n>>]
    OBVIOUS
  <2>2. RevisionIsAuthorized(old, new)
    BY <1>1, <2>1 DEF VersionsAreAuthorized
  <2>3. new.author \in Users
    BY <1>1, <2>1 DEF TypeInv, TypeOK, DbTypeOK, Stored, AnnoRow
  <2>4. CASE ~ClaimsOwnership(new)
    BY <2>1, <2>2, <2>4 DEF RevisionIsAuthorized
  <2>5. CASE ClaimsOwnership(new)
    <3>1. new.details["creator"] = old.details["creator"]
      BY <2>2, <2>3, <2>5 DEF RevisionIsAuthorized, NobodySignsAnew
    <3>. QED  BY <2>1, <2>5, <3>1 DEF ClaimsOwnership, Authorized
  <2>. QED  BY <2>4, <2>5
<1>2. TypeInv /\ VersionsAreAuthorized => ReviseOwnMeansOwn
  BY <1>1 DEF ReviseOwnMeansOwn
<1>. QED  BY <1>2, LogInvariant, VersionsStayAuthorized, PTL
===============================================================================
