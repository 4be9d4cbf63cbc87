------------------------------ MODULE AnnoHold_proofs ------------------------------
(***************************************************************************)
(* Holding: for any number of concurrent, failing and dying requests, what *)
(* an untrusted author posts is held before anybody can find it, and a     *)
(* POST that is answered with 201 has stored everything.  Without faults,  *)
(* it stays held until it is accepted, and no longer.                      *)
(***************************************************************************)
EXTENDS AnnoStamps_proofs

(* Nobody gets to the inserts of a POST, or goes on there.                 *)
NoPostMoves ==
    \A p \in Reqs : reqs'[p] = reqs[p] \/ reqs'[p].pc \notin PostPcs

LEMMA AnswerMovesNoPost ==
    ASSUME NEW r \in Reqs, NEW code \in Codes, TypeInv, Respond(r, code)
    PROVE  NoPostMoves
BY RespondEffect DEF TypeInv, TypeOK, NoPostMoves, PostPcs

LEMMA AwaitMovesNoPost ==
    ASSUME NEW r \in Reqs, NEW pc \in Pcs \ PostPcs, NEW q \in Request, TypeInv,
           Await(r, pc, q)
    PROVE  NoPostMoves
<1>1. /\ reqs'[r] = [q EXCEPT !.pc = pc]
      /\ \A p \in Reqs \ {r} : reqs'[p] = reqs[p]
  BY AwaitEffect DEF TypeInv, TypeOK
<1>2. reqs'[r].pc = pc
  BY <1>1 DEF Request
<1>. QED  BY <1>1, <1>2 DEF NoPostMoves

(* x is what the checks have made of the revision q.                       *)
Revises(x, q) ==
    /\ q.pc = "lookupStamps" /\ q.op = "post"
    /\ q.vernum \in 1..MaxVersNum
    /\ Stored(VersId(q))
    /\ x.base = q.base /\ x.vernum = q.vernum + 1
    /\ x.user = q.user /\ x.links = q.links
    /\ RevisionVerdict(q, annoData[VersId(q)]) = 0
    /\ x.draft = MergedDetails(q, annoData[VersId(q)])

(* A POST has passed its checks.                                           *)
StartsPost(r) ==
    /\ UNCHANGED dbVars
    /\ \E x : /\ IsPost(x) /\ Fresh(x) /\ Await(r, "insertData", x)
             /\ \/ x.vernum = 1 /\ Authorized(x.user, x.draft)
                \/ Revises(x, reqs[r])

LEMMA ChecksMoveNoPost ==
    ASSUME NEW r \in Reqs, TypeInv,
           \/ Receive(r) \/ LookupDetails(r) \/ LookupRefused(r)
           \/ FindLatestForRevision(r) \/ ReviseChecked(r) \/ StampChecked(r)
    PROVE  UNCHANGED dbVars /\ (NoPostMoves \/ StartsPost(r))
<1>1. UNCHANGED dbVars
  BY SearchReceived
     DEF Receive, ReceivePost, ReceivePatch, ReceiveGet, LookupDetails,
         LookupRefused, FindLatestForRevision, ReviseChecked, StampChecked
<1>. SUFFICES NoPostMoves \/ StartsPost(r)
  BY <1>1
<1>2. PICK q \in Request : q = reqs[r]
  BY DEF TypeInv, TypeOK
<1>3. ASSUME NEW x \in Request, NEW pc \in QueryPcs \ PostPcs, Await(r, pc, x)
      PROVE  NoPostMoves
  BY <1>3, AwaitMovesNoPost DEF Pcs
<1>4. ASSUME NEW code \in Codes, Respond(r, code)
      PROVE  NoPostMoves
  BY <1>4, AnswerMovesNoPost
<1>5. {"findLatest", "lookupDetails", "lookupStamps", "search", "prepareAdd",
       "addStamp"} \subseteq QueryPcs \ PostPcs
  BY DEF QueryPcs, PostPcs
<1>6. CASE ReceivePost(r)
  BY <1>1, <1>3, <1>4, <1>5, <1>6, PostReceived DEF IsPost, StartsPost
<1>7. CASE ReceivePatch(r)
  BY <1>3, <1>5, <1>7, PatchReceived
<1>8. CASE ReceiveGet(r)
  BY <1>3, <1>5, <1>8, GetReceived
<1>9. CASE ReceiveSearch(r)
  BY <1>3, <1>4, <1>5, <1>9, SearchReceived DEF IsSearch
<1>10. CASE LookupDetails(r)
  BY <1>2, <1>3, <1>4, <1>5, <1>10 DEF LookupDetails, Codes
<1>11. CASE LookupRefused(r)
  <2>1. PICK seen : Respond(r, LookupVerdict(reqs[r], seen))
    BY <1>11 DEF LookupRefused
  <2>2. LookupVerdict(reqs[r], seen) \in Codes
    BY DEF LookupVerdict, Codes
  <2>. QED  BY <1>4, <2>1, <2>2
<1>12. CASE FindLatestForRevision(r)
  BY <1>2, <1>3, <1>4, <1>5, <1>12 DEF FindLatestForRevision, Codes
<1>13. CASE ReviseChecked(r)
  BY <1>1, <1>2, <1>4, <1>13, RevisionAwaits DEF StartsPost, Revises
<1>14. CASE StampChecked(r)
  <2>1. CASE Respond(r, 403)
    BY <1>4, <2>1 DEF Codes
  <2>2. CASE Await(r, IF HasPreparation(q.stamp) THEN "prepareAdd"
                      ELSE "addStamp", q)
    BY <1>3, <1>5, <2>2
  <2>. QED  BY <1>2, <1>14, <2>1, <2>2 DEF StampChecked
<1>. QED  BY <1>6, <1>7, <1>8, <1>9, <1>10, <1>11, <1>12, <1>13, <1>14
          DEF Receive

LEMMA PatchesMoveNoPost ==
    ASSUME NEW r \in Reqs, TypeInv,
           PrepareAdd(r) \/ AddStamp(r) \/ CleanupAfterAdd(r)
    PROVE  UNCHANGED <<annoData, annoLinks>> /\ NoPostMoves
<1>1. UNCHANGED <<annoData, annoLinks>>
  BY DEF PrepareAdd, AddStamp, CleanupAfterAdd
<1>. SUFFICES NoPostMoves
  BY <1>1
<1>2. PICK q \in Request : q = reqs[r]
  BY DEF TypeInv, TypeOK
<1>3. {"addStamp", "cleanupAfterAdd"} \subseteq Pcs \ PostPcs
  BY DEF Pcs, QueryPcs, PostPcs
<1>4. ASSUME NEW dupe \in BOOLEAN, Respond(r, AnswerCode(dupe))
      PROVE  NoPostMoves
  <2>1. AnswerCode(dupe) \in Codes
    BY DEF AnswerCode, Codes
  <2>. QED  BY <1>4, <2>1, AnswerMovesNoPost
<1>5. CASE PrepareAdd(r)
  BY <1>2, <1>3, <1>5, AwaitMovesNoPost DEF PrepareAdd
<1>6. CASE AddStamp(r)
  <2>1. PICK dupe \in BOOLEAN :
          \/ Await(r, "cleanupAfterAdd", [q EXCEPT !.dupe = dupe])
          \/ Respond(r, AnswerCode(dupe))
    BY <1>2, <1>6, AddStampAwaits
  <2>2. [q EXCEPT !.dupe = dupe] \in Request
    BY DEF Request
  <2>. QED  BY <1>3, <1>4, <2>1, <2>2, AwaitMovesNoPost
<1>7. CASE CleanupAfterAdd(r)
  <2>1. q.dupe \in BOOLEAN
    BY DEF Request
  <2>. QED  BY <1>2, <1>4, <1>7, <2>1 DEF CleanupAfterAdd
<1>. QED  BY <1>5, <1>6, <1>7

LEMMA EndsMoveNoPost ==
    ASSUME NEW r \in Reqs, TypeInv,
           \/ RedirToLatestVersion(r) \/ ServeExactVersion(r)
           \/ RunSearch(r) \/ NameWorkingCopy(r)
           \/ Delivered(r) \/ QueryFails(r)
    PROVE  UNCHANGED dbVars /\ NoPostMoves
<1>1. UNCHANGED dbVars
  BY SearchStep DEF RedirToLatestVersion, ServeExactVersion, Delivered, QueryFails
<1>. SUFFICES NoPostMoves
  BY <1>1
<1>2. ASSUME NEW code \in Codes, Respond(r, code)
      PROVE  NoPostMoves
  BY <1>2, AnswerMovesNoPost
<1>3. CASE Delivered(r)
  <2>1. NoReq.pc \notin PostPcs
    BY DEF NoReq, PostPcs
  <2>2. \A p \in Reqs : reqs'[p] = reqs[p] \/ reqs'[p] = NoReq
    BY <1>3 DEF Delivered, TypeInv, TypeOK
  <2>. QED  BY <2>1, <2>2 DEF NoPostMoves
<1>4. CASE RedirToLatestVersion(r)
  <2>1. ASSUME NEW n \in RedirectChoice(reqs[r]), Redirect(r, n)
        PROVE  NoPostMoves
    <3>1. n \in 1..MaxVersNum
      BY DEF RedirectChoice, Disclosed, Own, VersNums
    <3>. QED  BY <2>1, <3>1, RedirectEffect
              DEF TypeInv, TypeOK, NoPostMoves, PostPcs
  <2>2. CASE Respond(r, 404)
    BY <1>2, <2>2 DEF Codes
  <2>. QED  BY <1>4, <2>1, <2>2 DEF RedirToLatestVersion
<1>5. CASE RunSearch(r) \/ NameWorkingCopy(r)
  BY <1>5, SearchStep DEF NoPostMoves, PostPcs
<1>6. CASE ServeExactVersion(r) \/ QueryFails(r)
  BY <1>2, <1>6 DEF ServeExactVersion, QueryFails, Codes
<1>. QED  BY <1>3, <1>4, <1>5, <1>6

(* What a step is to the POSTs in progress.                                *)
LEMMA PostSteps ==
    ASSUME TypeInv, [Next]_vars
    PROVE  \/ UNCHANGED <<annoData, annoLinks>> /\ NoPostMoves
           \/ \E r \in Reqs : \/ StartsPost(r) \/ InsertAnnoData(r)
                              \/ InsertStamps(r) \/ InsertLinks(r)
<1>1. ASSUME NEW r \in Reqs, Receive(r) \/ Handle(r) \/ QueryFails(r)
      PROVE  \/ UNCHANGED <<annoData, annoLinks>> /\ NoPostMoves
             \/ StartsPost(r) \/ InsertAnnoData(r)
             \/ InsertStamps(r) \/ InsertLinks(r)
  BY <1>1, ChecksMoveNoPost, PatchesMoveNoPost, EndsMoveNoPost
     DEF Handle, dbVars
<1>2. CASE Crash
  <2>1. NoReq.pc \notin PostPcs
    BY DEF NoReq, PostPcs
  <2>. QED  BY <1>2, <2>1 DEF Crash, NoPostMoves, dbVars
<1>3. CASE UNCHANGED vars
  BY <1>3 DEF vars, NoPostMoves
<1>. QED  BY <1>1, <1>2, <1>3 DEF Next
-------------------------------------------------------------------------------
(* What is stored stays as it is, and no step takes both of the stamps     *)
(* away that hold a version or say that it has been accepted.              *)
StillHeld(v) ==
    {Unapproved, Accepted} \cap annoStamps[v] # {}
        => {Unapproved, Accepted} \cap annoStamps'[v] # {}

LEMMA HoldsStay ==
    ASSUME TypeInv, ApprovalInv, [Next]_vars
    PROVE  \A v \in VersIds : StillHeld(v)
<1>. USE DEF StillHeld
<1>0. annoStamps \in [VersIds -> SUBSET StampTypes]
  BY DEF TypeInv, TypeOK, DbTypeOK
<1>1. ASSUME \A v \in VersIds :
               annoStamps[v] \ {DoiRequest} \subseteq annoStamps'[v]
      PROVE  \A v \in VersIds : StillHeld(v)
  BY <1>1 DEF DoiRequest, Unapproved, Accepted
<1>2. CASE QuietStep
  BY <1>1, <1>2 DEF QuietStep
<1>3. ASSUME NEW v, NEW t, InsertStamp(v, t)
      PROVE  \A w \in VersIds : StillHeld(w)
  BY <1>0, <1>1, <1>3 DEF InsertStamp
<1>4. ASSUME NEW r \in Reqs, InsertStamps(r) \/ AddStamp(r)
      PROVE  \A v \in VersIds : StillHeld(v)
  BY <1>1, <1>3, <1>4 DEF InsertStamps, AddStamp
<1>5. ASSUME NEW r \in Reqs, PrepareAdd(r)
      PROVE  \A v \in VersIds : StillHeld(v)
  <2>1. \/ DeleteStamp(VersId(reqs[r]), DoiRequest)
        \/ SunsetUndecidedEarlierVersions(reqs[r].base, reqs[r].vernum)
    BY <1>5 DEF PrepareAdd
  <2>. QED  BY <1>0, <1>1, <2>1 DEF SunsetUndecidedEarlierVersions, DeleteStamp
<1>6. ASSUME NEW r \in Reqs, CleanupAfterAdd(r)
      PROVE  \A v \in VersIds : StillHeld(v)
  <2>1. Accepted \in annoStamps[VersId(reqs[r])]
    BY <1>6 DEF CleanupAfterAdd, ApprovalInv, CleanupOK
  <2>2. DeleteStamp(VersId(reqs[r]), Unapproved)
    BY <1>6 DEF CleanupAfterAdd
  <2>3. Accepted # Unapproved
    BY DEF Accepted, Unapproved
  <2>. QED  BY <1>0, <2>1, <2>2, <2>3 DEF DeleteStamp
<1>. QED  BY <1>2, <1>4, <1>5, <1>6, QuietOrStamps DEF StampStep

RowsStay ==
    \A v \in DOMAIN annoData :
        v \in DOMAIN annoData' /\ annoData'[v] = annoData[v]

LEMMA InsertedRow ==
    ASSUME NEW r \in Reqs, InsertAnnoData(r)
    PROVE  RowsStay
<1>1. CASE UNCHANGED annoData
  BY <1>1 DEF RowsStay
<1>2. CASE ~RefusedByTable(reqs[r]) /\ InsertData(VersId(reqs[r]), NewRow(reqs[r]))
  BY <1>2 DEF RowsStay, InsertData, RefusedByTable, Stored
<1>. QED  BY <1>1, <1>2 DEF InsertAnnoData

LEMMA HeldStays ==
    ASSUME TypeInv, ApprovalInv, [Next]_vars, RowsStay,
           NEW v \in DOMAIN annoData, Held(v)
    PROVE  Held(v)'
<1>1. v \in VersIds
  BY DEF TypeInv, TypeOK, DbTypeOK
<1>2. StillHeld(v)
  BY <1>1, HoldsStay
<1>. QED  BY <1>2 DEF Held, StillHeld, RowsStay

(* A POST in progress that does not move.                                  *)
LEMMA PostKept ==
    ASSUME TypeInv, ApprovalInv, HoldInv, [Next]_vars, RowsStay,
           NEW p \in Reqs, reqs'[p] = reqs[p],
           Inserting(reqs[p]) =>
               annoLinks'[VersId(reqs[p])] = annoLinks[VersId(reqs[p])]
    PROVE  PostingOK(reqs[p])'
<1>1. PostingOK(reqs[p])
  BY DEF HoldInv
<1>2. ASSUME Inserting(reqs[p])
      PROVE  /\ VersId(reqs[p]) \in DOMAIN annoData
             /\ annoData'[VersId(reqs[p])] = annoData[VersId(reqs[p])]
             /\ Held(VersId(reqs[p])) => Held(VersId(reqs[p]))'
  <2>1. VersId(reqs[p]) \in DOMAIN annoData
    BY <1>2 DEF TypeInv, RequestOK, Stored, Inserting
  <2>2. ASSUME NEW v \in DOMAIN annoData, v = VersId(reqs[p]), Held(v)
        PROVE  Held(VersId(reqs[p]))'
    <3>1. Held(v)'
      BY <2>2, HeldStays
    <3>2. VersId(reqs[p])' = v
      BY <2>2 DEF VersId
    <3>. QED  BY <3>1, <3>2 DEF Held
  <2>. QED  BY <2>1, <2>2 DEF RowsStay
<1>. QED  BY <1>1, <1>2 DEF PostingOK, VersId, NewRow, Fresh, Inserting

LEMMA LinksKept ==
    ASSUME TypeInv, ApprovalInv, HoldInv, [Next]_vars, RowsStay,
           UNCHANGED annoLinks
    PROVE  LinksOK'
<1>1. ASSUME NEW v \in VersIds, annoLinks[v] # {}
      PROVE  Stored(v)' /\ Held(v)'
  <2>1. v \in DOMAIN annoData /\ Held(v)
    BY <1>1 DEF HoldInv, LinksOK, Stored
  <2>. QED  BY <2>1, HeldStays DEF RowsStay, Stored
<1>. QED  BY <1>1 DEF LinksOK

LEMMA ApartKept ==
    ASSUME HoldInv,
           \A p \in Reqs : Inserting(reqs'[p]) =>
               Inserting(reqs[p]) /\ VersId(reqs'[p]) = VersId(reqs[p])
    PROVE  PostsApart'
BY DEF HoldInv, PostsApart, VersId, Inserting

LEMMA HoldQuiet ==
    ASSUME TypeInv, ApprovalInv, HoldInv, [Next]_vars, RowsStay,
           UNCHANGED annoLinks, NoPostMoves
    PROVE  HoldInv'
<1>1. ASSUME NEW p \in Reqs, reqs'[p].pc \notin PostPcs
      PROVE  ~Inserting(reqs'[p]) /\ PostingOK(reqs[p])'
  BY <1>1 DEF PostPcs, PostingOK, Inserting
<1>2. \A p \in Reqs : PostingOK(reqs[p])'
  BY <1>1, PostKept DEF NoPostMoves
<1>3. PostsApart'
  BY <1>1, ApartKept DEF NoPostMoves
<1>. QED  BY <1>2, <1>3, LinksKept DEF HoldInv

LEMMA HoldStartsPost ==
    ASSUME TypeInv, ApprovalInv, HoldInv, [Next]_vars,
           NEW r \in Reqs, StartsPost(r)
    PROVE  HoldInv'
<1>1. PICK x \in Request : Fresh(x) /\ Await(r, "insertData", x)
  BY DEF StartsPost, IsPost
<1>2. UNCHANGED annoLinks /\ RowsStay
  BY DEF StartsPost, dbVars, RowsStay
<1>3. /\ reqs'[r] = [x EXCEPT !.pc = "insertData"]
      /\ \A p \in Reqs \ {r} : reqs'[p] = reqs[p]
  BY <1>1, AwaitEffect DEF TypeInv, TypeOK, Pcs, QueryPcs
<1>4. PICK y : y = reqs'[r]
  OBVIOUS
<1>5. /\ y.pc = "insertData" /\ y.linksTodo = x.linksTodo /\ y.links = x.links
      /\ y.user = x.user /\ y.stampsTodo = x.stampsTodo
  BY <1>3, <1>4 DEF Request
<1>6. PostingOK(reqs[r])' /\ ~Inserting(reqs'[r])
  BY <1>1, <1>4, <1>5 DEF PostingOK, Fresh, Inserting
<1>7. \A p \in Reqs : PostingOK(reqs[p])'
  BY <1>2, <1>3, <1>6, PostKept
<1>8. PostsApart'
  BY <1>3, <1>6, ApartKept
<1>. QED  BY <1>2, <1>7, <1>8, LinksKept DEF HoldInv

LEMMA HoldInsertAnnoData ==
    ASSUME TypeInv, ApprovalInv, HoldInv, [Next]_vars,
           NEW r \in Reqs, InsertAnnoData(r)
    PROVE  HoldInv'
<1>. USE DEF TypeInv, TypeOK
<1>1. PICK q \in Request : q = reqs[r]
  OBVIOUS
<1>2. UNCHANGED annoLinks /\ RowsStay
  BY InsertedRow DEF InsertAnnoData
<1>3. CASE Respond(r, 500)
  <2>1. NoPostMoves
    BY <1>3, AnswerMovesNoPost DEF Codes
  <2>. QED  BY <1>2, <2>1, HoldQuiet
<1>4. CASE /\ ~RefusedByTable(q)
           /\ InsertData(VersId(q), NewRow(q))
           /\ Await(r, IF q.stampsTodo = {} THEN "insertLinks"
                       ELSE "insertStamps", q)
  <2>1. q.pc = "insertData" /\ Fresh(q)
    BY <1>1 DEF InsertAnnoData, HoldInv, PostingOK
  <2>2. PICK pc \in {"insertLinks", "insertStamps"} :
          /\ pc = IF q.stampsTodo = {} THEN "insertLinks" ELSE "insertStamps"
          /\ Await(r, pc, q)
    BY <1>4
  <2>3. /\ reqs'[r] = [q EXCEPT !.pc = pc]
        /\ \A p \in Reqs \ {r} : reqs'[p] = reqs[p]
    BY <2>2, AwaitEffect DEF Pcs, QueryPcs
  <2>4. PICK y : y = reqs'[r]
    OBVIOUS
  <2>5. /\ y.pc = pc /\ VersId(y) = VersId(q) /\ NewRow(y) = NewRow(q)
        /\ y.links = q.links /\ y.linksTodo = q.linksTodo
        /\ y.stampsTodo = q.stampsTodo
    BY <2>3, <2>4 DEF Request, VersId, NewRow
  <2>6. PICK v : v = VersId(q)
    OBVIOUS
  <2>7. ~Stored(v) /\ v \in VersIds
    <3>1. q.base \in BaseIds /\ q.vernum >= 1 /\ q.vernum \in 0..(MaxVersNum + 1)
      BY <1>1, <2>1 DEF RequestOK, PostPcs, QueryPcs, Request
    <3>2. q.vernum \in 1..MaxVersNum
      BY <1>4, <3>1, MaxVersNumAssumption DEF RefusedByTable
    <3>. QED  BY <1>4, <2>6, <3>1, <3>2 DEF RefusedByTable, VersId, VersIds
  <2>8. annoData'[v] = NewRow(q) /\ annoLinks'[v] = {}
    BY <1>2, <1>4, <2>6, <2>7 DEF InsertData, HoldInv, LinksOK
  <2>9. Held(v)' \/ (pc = "insertStamps" /\ Unapproved \in q.stampsTodo)
    BY <2>1, <2>2, <2>8 DEF Fresh, Held, NewRow
  <2>10. PostingOK(y)'
    <3>1. q.linksTodo = q.links
      BY <2>1 DEF Fresh
    <3>2. VersId(y)' = v /\ NewRow(y)' = NewRow(q)
      BY <2>5, <2>6 DEF VersId, NewRow
    <3>3. y.links \ y.linksTodo = {}
      BY <2>5, <3>1
    <3>4. Held(v)' => Held(VersId(y))'
      BY <3>2 DEF Held
    <3>5. y.pc = "insertStamps" /\ ~AutoDoi => y.stampsTodo = {Unapproved}
      BY <2>1, <2>2, <2>5 DEF Fresh
    <3>. QED  BY <2>2, <2>5, <2>8, <2>9, <3>1, <3>2, <3>3, <3>4, <3>5
              DEF PostingOK, Inserting
  <2>11. PostsApart'
    <3>1. ASSUME NEW p \in Reqs \ {r}, Inserting(reqs[p])
          PROVE  VersId(reqs[p]) # v
      BY <2>7, <3>1 DEF RequestOK, Inserting
    <3>2. ASSUME NEW p \in Reqs, NEW s \in Reqs, p # s,
                 Inserting(reqs'[p]), Inserting(reqs'[s])
          PROVE  VersId(reqs'[p]) # VersId(reqs'[s])
      <4>1. CASE p = r
        BY <2>3, <2>4, <2>5, <2>6, <3>1, <3>2, <4>1
      <4>2. CASE s = r
        BY <2>3, <2>4, <2>5, <2>6, <3>1, <3>2, <4>2
      <4>3. CASE p # r /\ s # r
        BY <2>3, <3>2, <4>3 DEF HoldInv, PostsApart
      <4>. QED  BY <4>1, <4>2, <4>3
    <3>. QED  BY <3>2 DEF PostsApart, VersId, Inserting
  <2>12. \A p \in Reqs : PostingOK(reqs[p])'
    BY <1>2, <2>3, <2>4, <2>10, PostKept DEF PostingOK, VersId, NewRow, Fresh, Held
  <2>. QED  BY <1>2, <2>11, <2>12, LinksKept DEF HoldInv
<1>. QED  BY <1>1, <1>3, <1>4 DEF InsertAnnoData

LEMMA HoldInsertStamps ==
    ASSUME TypeInv, ApprovalInv, HoldInv, [Next]_vars,
           NEW r \in Reqs, InsertStamps(r)
    PROVE  HoldInv'
<1>. USE DEF TypeInv, TypeOK
<1>1. PICK q \in Request : q = reqs[r]
  OBVIOUS
<1>2. UNCHANGED annoLinks /\ RowsStay
  BY DEF InsertStamps, RowsStay
<1>3. CASE Respond(r, 500)
  <2>1. NoPostMoves
    BY <1>3, AnswerMovesNoPost DEF Codes
  <2>. QED  BY <1>2, <2>1, HoldQuiet
<1>4. ASSUME InsertStamp(VersId(q), NextStampRec(q)),
             NEW rest \in SUBSET StampTypes,
             rest = q.stampsTodo \ {NextStampRec(q)},
             Await(r, IF rest = {} THEN "insertLinks" ELSE "insertStamps",
                   [q EXCEPT !.stampsTodo = rest])
      PROVE  HoldInv'
  <2>1. PICK x \in Request : x = [q EXCEPT !.stampsTodo = rest]
    BY DEF Request
  <2>2. PICK pc \in {"insertLinks", "insertStamps"} :
          /\ pc = IF rest = {} THEN "insertLinks" ELSE "insertStamps"
          /\ Await(r, pc, x)
    BY <1>4, <2>1
  <2>3. /\ reqs'[r] = [x EXCEPT !.pc = pc]
        /\ \A p \in Reqs \ {r} : reqs'[p] = reqs[p]
    BY <2>2, AwaitEffect DEF Pcs, QueryPcs
  <2>4. PICK y : y = reqs'[r]
    OBVIOUS
  <2>5. /\ y.pc = pc /\ VersId(y) = VersId(q) /\ NewRow(y) = NewRow(q)
        /\ y.links = q.links /\ y.linksTodo = q.linksTodo
        /\ y.stampsTodo = rest
    BY <2>1, <2>3, <2>4 DEF Request, VersId, NewRow
  <2>6. q.pc = "insertStamps" /\ Inserting(q) /\ PostingOK(q)
    BY <1>1 DEF InsertStamps, HoldInv, Inserting
  <2>7. PICK v \in VersIds : v = VersId(q) /\ v \in DOMAIN annoData
    BY <1>1, <2>6 DEF RequestOK, Stored, Inserting, DbTypeOK
  <2>8. Held(v)'
    <3>1. CASE Held(v)
      BY <1>2, <2>7, <3>1, HeldStays
    <3>2. CASE Unapproved \in q.stampsTodo
      <4>1. Unapproved \in annoStamps'[v]
        BY <1>4, <2>7, <3>2 DEF NextStampRec, InsertStamp, DbTypeOK
      <4>. QED  BY <4>1 DEF Held
    <3>. QED  BY <2>6, <2>7, <3>1, <3>2 DEF PostingOK
  <2>9. PostingOK(y)'
    <3>1. VersId(y)' = v /\ NewRow(y)' = NewRow(q)
      BY <2>5, <2>7 DEF VersId, NewRow
    <3>2. annoData'[v] = annoData[v] /\ annoLinks'[v] = annoLinks[v]
      BY <1>2, <2>7 DEF RowsStay
    <3>3. Held(v)' => Held(VersId(y))'
      BY <3>1 DEF Held
    <3>4. y.pc = "insertStamps" /\ ~AutoDoi => y.stampsTodo = {Unapproved}
      BY <1>4, <2>2, <2>5, <2>6 DEF PostingOK, NextStampRec
    <3>. QED  BY <2>5, <2>6, <2>7, <2>8, <3>1, <3>2, <3>3, <3>4
              DEF PostingOK, Inserting
  <2>10. PostsApart'
    BY <1>1, <2>3, <2>4, <2>5, <2>6, ApartKept
  <2>11. \A p \in Reqs : PostingOK(reqs[p])'
    BY <1>2, <2>3, <2>4, <2>9, PostKept
    DEF PostingOK, VersId, NewRow, Fresh, Held
  <2>. QED  BY <1>2, <2>10, <2>11, LinksKept DEF HoldInv
<1>5. q.stampsTodo \ {NextStampRec(q)} \in SUBSET StampTypes
  BY DEF Request
<1>. QED  BY <1>1, <1>3, <1>4, <1>5 DEF InsertStamps

LEMMA HoldInsertLinks ==
    ASSUME TypeInv, ApprovalInv, HoldInv, [Next]_vars,
           NEW r \in Reqs, InsertLinks(r)
    PROVE  HoldInv'
<1>. USE DEF TypeInv, TypeOK
<1>1. PICK q \in Request : q = reqs[r]
  OBVIOUS
<1>2. RowsStay
  BY DEF InsertLinks, RowsStay
<1>3. q.pc = "insertLinks" /\ Inserting(q) /\ PostingOK(q)
  BY <1>1 DEF InsertLinks, HoldInv, Inserting
<1>4. PICK v \in VersIds : v = VersId(q) /\ v \in DOMAIN annoData
  BY <1>1, <1>3 DEF RequestOK, Stored, Inserting, DbTypeOK
<1>5. PICK l \in q.linksTodo :
        /\ InsertLink(v, l)
        /\ IF q.linksTodo = {l}
           THEN Respond(r, 201)
           ELSE Await(r, "insertLinks", [q EXCEPT !.linksTodo = @ \ {l}])
  BY <1>1, <1>4 DEF InsertLinks
<1>6. /\ annoLinks'[v] = annoLinks[v] \cup {l}
      /\ \A w \in VersIds \ {v} : annoLinks'[w] = annoLinks[w]
  BY <1>5 DEF InsertLink, DbTypeOK
<1>7. Held(v) /\ Held(v)'
  <2>1. Held(v)
    BY <1>3, <1>4 DEF PostingOK
  <2>. QED  BY <1>2, <1>4, <2>1, HeldStays
<1>8. LinksOK'
  <2>1. ASSUME NEW w \in VersIds, annoLinks'[w] # {}
        PROVE  w \in DOMAIN annoData' /\ Held(w)'
    <3>1. w \in DOMAIN annoData /\ Held(w)
      BY <1>4, <1>6, <1>7, <2>1 DEF HoldInv, LinksOK, Stored
    <3>. QED  BY <1>2, <3>1, HeldStays DEF RowsStay
  <2>. QED  BY <2>1 DEF LinksOK, Stored
<1>9. ASSUME NEW p \in Reqs \ {r}, reqs'[p] = reqs[p]
      PROVE  PostingOK(reqs[p])'
  <2>1. ASSUME Inserting(reqs[p])
        PROVE  annoLinks'[VersId(reqs[p])] = annoLinks[VersId(reqs[p])]
    <3>1. VersId(reqs[p]) # v
      BY <1>1, <1>3, <1>4, <2>1 DEF HoldInv, PostsApart
    <3>2. VersId(reqs[p]) \in VersIds
      BY <2>1 DEF RequestOK, Stored, Inserting, DbTypeOK
    <3>. QED  BY <1>6, <3>1, <3>2
  <2>. QED  BY <1>2, <1>9, <2>1, PostKept
<1>10. CASE Respond(r, 201)
  <2>1. /\ reqs'[r].pc = "respond"
        /\ \A p \in Reqs \ {r} : reqs'[p] = reqs[p]
    BY <1>10, RespondEffect DEF Codes
  <2>2. PostingOK(reqs[r])' /\ ~Inserting(reqs'[r])
    BY <2>1 DEF PostingOK, Inserting
  <2>3. PostsApart'
    BY <2>1, <2>2, ApartKept
  <2>. QED  BY <1>8, <1>9, <2>1, <2>2, <2>3 DEF HoldInv
<1>11. CASE Await(r, "insertLinks", [q EXCEPT !.linksTodo = @ \ {l}])
  <2>1. PICK x \in Request : x = [q EXCEPT !.linksTodo = q.linksTodo \ {l}]
    BY DEF Request
  <2>2. Await(r, "insertLinks", x)
    BY <1>11, <2>1
  <2>3. /\ reqs'[r] = [x EXCEPT !.pc = "insertLinks"]
        /\ \A p \in Reqs \ {r} : reqs'[p] = reqs[p]
    BY <2>2, AwaitEffect DEF Pcs, QueryPcs
  <2>4. PICK y : y = reqs'[r]
    OBVIOUS
  <2>5. /\ y.pc = "insertLinks" /\ VersId(y) = VersId(q)
        /\ NewRow(y) = NewRow(q) /\ y.links = q.links
        /\ y.linksTodo = q.linksTodo \ {l}
    BY <2>1, <2>3, <2>4 DEF Request, VersId, NewRow
  <2>6. PostingOK(y)'
    <3>1. VersId(y)' = v /\ NewRow(y)' = NewRow(q)
      BY <1>4, <2>5 DEF VersId, NewRow
    <3>2. annoData'[v] = NewRow(q)
      BY <1>2, <1>3, <1>4 DEF RowsStay, PostingOK
    <3>3. annoLinks'[v] = y.links \ y.linksTodo /\ y.linksTodo \subseteq y.links
      BY <1>3, <1>4, <1>6, <2>5 DEF PostingOK
    <3>4. Held(v)' => Held(VersId(y))'
      BY <3>1 DEF Held
    <3>. QED  BY <1>7, <2>5, <3>1, <3>2, <3>3, <3>4 DEF PostingOK, Inserting
  <2>7. PostsApart'
    BY <1>1, <1>3, <2>3, <2>4, <2>5, ApartKept
  <2>8. \A p \in Reqs : PostingOK(reqs[p])'
    BY <1>9, <2>3, <2>4, <2>6 DEF PostingOK, VersId, NewRow, Fresh, Held
  <2>. QED  BY <1>8, <2>7, <2>8 DEF HoldInv
<1>. QED  BY <1>5, <1>10, <1>11

LEMMA HoldNext ==
    ASSUME TypeInv, ApprovalInv, HoldInv, [Next]_vars
    PROVE  HoldInv'
<1>1. CASE UNCHANGED <<annoData, annoLinks>> /\ NoPostMoves
  <2>1. RowsStay
    BY <1>1 DEF RowsStay
  <2>. QED  BY <1>1, <2>1, HoldQuiet
<1>. QED  BY <1>1, PostSteps, HoldStartsPost, HoldInsertAnnoData,
             HoldInsertStamps, HoldInsertLinks

LEMMA HoldInit == Init => HoldInv
<1>1. NoReq.pc = "idle"
  BY DEF NoReq
<1>. QED  BY <1>1
          DEF Init, DbInit, ReqInit, HoldInv, LinksOK, PostsApart, PostingOK,
              Inserting

LEMMA HoldInvariant == Spec => [](TypeInv /\ ApprovalInv /\ HoldInv)
<1>1. /\ TypeInv /\ ApprovalInv /\ HoldInv
      /\ [Next]_vars
      => (TypeInv /\ ApprovalInv /\ HoldInv)'
  BY TypeNext, ApprovalNext, HoldNext
<1>. QED  BY TypeInit, ApprovalInit, HoldInit, <1>1, PTL DEF Spec
-------------------------------------------------------------------------------
(* A request that is about to insert stamps or links, or to clean up, gets *)
(* no further but by doing so, or by a fault.                              *)
LEMMA OwnSlotOnly ==
    ASSUME NEW p \in Reqs, Receive(p) \/ Handle(p) \/ QueryFails(p)
    PROVE  \E x : reqs' = [reqs EXCEPT ![p] = x]
<1>. USE DEF Await, Respond, Redirect, RespondFound, AwaitInsertData
<1>1. CASE Receive(p)
  <2>1. CASE ReceivePost(p)
    BY <2>1, PostReceived
  <2>2. CASE ReceivePatch(p)
    BY <2>2, PatchReceived
  <2>3. CASE ReceiveGet(p)
    BY <2>3, GetReceived
  <2>4. CASE ReceiveSearch(p)
    BY <2>4, SearchReceived
  <2>. QED  BY <1>1, <2>1, <2>2, <2>3, <2>4 DEF Receive
<1>2. CASE LookupDetails(p) \/ LookupRefused(p) \/ FindLatestForRevision(p)
  BY <1>2 DEF LookupDetails, LookupRefused, FindLatestForRevision
<1>3. CASE ReviseChecked(p) \/ StampChecked(p)
  BY <1>3 DEF ReviseChecked, StampChecked
<1>4. CASE InsertAnnoData(p) \/ InsertStamps(p) \/ InsertLinks(p)
  BY <1>4 DEF InsertAnnoData, InsertStamps, InsertLinks
<1>5. CASE PrepareAdd(p) \/ AddStamp(p) \/ CleanupAfterAdd(p)
  BY <1>5 DEF PrepareAdd, AddStamp, CleanupAfterAdd
<1>6. CASE RedirToLatestVersion(p) \/ ServeExactVersion(p)
  BY <1>6 DEF RedirToLatestVersion, ServeExactVersion
<1>7. CASE RunSearch(p) \/ NameWorkingCopy(p)
  BY <1>7 DEF RunSearch, NameWorkingCopy
<1>8. CASE Delivered(p) \/ QueryFails(p)
  BY <1>8 DEF Delivered, QueryFails
<1>. QED  BY <1>1, <1>2, <1>3, <1>4, <1>5, <1>6, <1>7, <1>8 DEF Handle

LEMMA StepsFrom ==
    ASSUME TypeInv, [Next]_vars, NEW r \in Reqs,
           reqs[r].pc \in {"insertStamps", "insertLinks", "cleanupAfterAdd"},
           reqs'[r] # reqs[r]
    PROVE  \/ InsertStamps(r) \/ InsertLinks(r) \/ CleanupAfterAdd(r)
           \/ QueryFails(r) \/ Crash
<1>1. CASE Crash \/ UNCHANGED vars
  BY <1>1 DEF vars
<1>2. ASSUME NEW p \in Reqs \ {r}, Receive(p) \/ Handle(p) \/ QueryFails(p)
      PROVE  FALSE
  <2>1. PICK x : reqs' = [reqs EXCEPT ![p] = x]
    BY <1>2, OwnSlotOnly
  <2>. QED  BY <2>1 DEF TypeInv, TypeOK
<1>3. ~Receive(r)
  BY ReceiveIdle
<1>4. ~LookupDetails(r) /\ ~LookupRefused(r) /\ ~FindLatestForRevision(r)
  BY DEF LookupDetails, LookupRefused, FindLatestForRevision
<1>5. ~ReviseChecked(r) /\ ~StampChecked(r) /\ ~ServeExactVersion(r)
  BY DEF ReviseChecked, StampChecked, ServeExactVersion, LookupServes
<1>6. /\ ~InsertAnnoData(r) /\ ~PrepareAdd(r) /\ ~AddStamp(r)
      /\ ~RedirToLatestVersion(r) /\ ~RunSearch(r) /\ ~NameWorkingCopy(r)
      /\ ~Delivered(r)
  BY DEF InsertAnnoData, PrepareAdd, AddStamp, RedirToLatestVersion,
         RunSearch, NameWorkingCopy, Delivered
<1>. QED  BY <1>1, <1>2, <1>3, <1>4, <1>5, <1>6 DEF Next, Handle
-------------------------------------------------------------------------------
(* A search by target shows the public nothing that waits for approval:    *)
(* what it can find has links, and links come after the stamp that holds.  *)
THEOREM SearchesOnlyShowApproved == Spec => []SearchesShowApproved
<1>1. ASSUME TypeInv, HoldInv
      PROVE  SearchesShowApproved
  <2>. SUFFICES ASSUME NEW s \in TargetSpecs, NEW v \in PublicFinds(s)
                PROVE  \/ annoData[v].author \in Trusted
                       \/ Accepted \in annoStamps[v]
    BY DEF SearchesShowApproved
  <2>1. PICK q : /\ q = [NoReq EXCEPT !.op = "byTarget", !.spec = s]
                 /\ v \in Found(q)
    BY DEF PublicFinds
  <2>2. q.op = "byTarget" /\ q.role = "" /\ q.spec = s
    BY <2>1 DEF NoReq
  <2>3. v \in DOMAIN annoData /\ MeetsCriterion(q, v) /\ IsVisible(q, v)
    BY <2>1 DEF Found, LatestOnly
  <2>4. v \in VersIds /\ annoLinks[v] # {}
    BY <1>1, <2>2, <2>3 DEF MeetsCriterion, TypeInv, TypeOK, DbTypeOK
  <2>5. Held(v)
    BY <1>1, <2>4 DEF HoldInv, LinksOK
  <2>6. Unapproved \notin annoStamps[v]
    BY <2>2, <2>3 DEF IsVisible, IsOrWasPublic
  <2>. QED  BY <2>5, <2>6 DEF Held
<1>. QED  BY <1>1, HoldInvariant, PTL

(* A POST is answered with 201 only when everything has been stored: the   *)
(* data and all of the links that the client sent, and the stamp that      *)
(* holds the version, unless it has been accepted in the meantime.         *)
THEOREM CreatedMeansComplete == Spec => CreatedIsComplete
<1>. DEFINE Complete(q) ==
        /\ annoData[VersId(q)] = NewRow(q)
        /\ annoLinks'[VersId(q)] = q.links
        /\ q.user \notin Trusted =>
             {Unapproved, Accepted} \cap annoStamps[VersId(q)] # {}
            Answered(r) == /\ reqs[r].pc = "insertLinks"
                           /\ reqs'[r].pc = "respond" /\ reqs'[r].code = 201
            AllComplete == \A r \in Reqs :
                LET q == reqs[r] IN
                q.pc = "insertLinks" /\ reqs'[r].pc = "respond"
                    /\ reqs'[r].code = 201 =>
                    /\ annoData[VersId(q)] = NewRow(q)
                    /\ annoLinks'[VersId(q)] = q.links
                    /\ q.user \notin Trusted =>
                         {Unapproved, Accepted} \cap annoStamps[VersId(q)] # {}
<1>1. ASSUME TypeInv, HoldInv, [Next]_vars
      PROVE  AllComplete
  <2>. SUFFICES ASSUME NEW r \in Reqs, Answered(r)
                PROVE  Complete(reqs[r])
    OBVIOUS
  <2>1. PICK q \in Request : q = reqs[r]
    BY <1>1 DEF TypeInv, TypeOK
  <2>2. Inserting(q) /\ PostingOK(q) /\ q.pc = "insertLinks"
    BY <1>1, <2>1 DEF HoldInv, Inserting
  <2>3. VersId(q) \in VersIds
    BY <1>1, <2>1, <2>2 DEF TypeInv, TypeOK, RequestOK, Stored, Inserting, DbTypeOK
  <2>4. InsertLinks(r)
    <3>1. \/ InsertStamps(r) \/ InsertLinks(r) \/ CleanupAfterAdd(r)
          \/ QueryFails(r) \/ Crash
      BY <1>1, StepsFrom
    <3>2. ~InsertStamps(r) /\ ~CleanupAfterAdd(r)
      BY <2>1, <2>2 DEF InsertStamps, CleanupAfterAdd
    <3>3. ~Crash
      <4>1. NoReq.pc # "respond"
        BY DEF NoReq
      <4>. QED  BY <4>1 DEF Crash
    <3>4. ~QueryFails(r)
      <4>1. ASSUME NEW code \in {500, 503}, Respond(r, code)
            PROVE  reqs'[r].code = code
        BY <1>1, <4>1 DEF Respond, NoReq, TypeInv, TypeOK
      <4>. QED  BY <4>1 DEF QueryFails
    <3>. QED  BY <3>1, <3>2, <3>3, <3>4
  <2>5. PICK l \in q.linksTodo :
          /\ InsertLink(VersId(q), l)
          /\ IF q.linksTodo = {l}
             THEN Respond(r, 201)
             ELSE Await(r, "insertLinks", [q EXCEPT !.linksTodo = @ \ {l}])
    BY <2>1, <2>4 DEF InsertLinks
  <2>6. q.linksTodo = {l}
    <3>1. ASSUME Await(r, "insertLinks", [q EXCEPT !.linksTodo = @ \ {l}])
          PROVE  reqs'[r].pc = "insertLinks"
      BY <1>1, <2>1, <3>1 DEF Await, Request, TypeInv, TypeOK
    <3>. QED  BY <2>5, <3>1
  <2>7. annoLinks'[VersId(q)] = annoLinks[VersId(q)] \cup {l}
    BY <1>1, <2>3, <2>5 DEF InsertLink, TypeInv, TypeOK, DbTypeOK
  <2>8. annoLinks'[VersId(q)] = q.links
    BY <2>2, <2>6, <2>7 DEF PostingOK
  <2>9. Held(VersId(q)) /\ annoData[VersId(q)] = NewRow(q)
    BY <2>2 DEF PostingOK
  <2>10. annoData[VersId(q)].author = q.user
    BY <2>9 DEF NewRow
  <2>. QED  BY <2>1, <2>8, <2>9, <2>10 DEF Held
<1>2. TypeInv /\ HoldInv /\ [Next]_vars => [AllComplete]_vars
  BY <1>1
<1>. QED  BY <1>2, HoldInvariant, PTL DEF Spec, CreatedIsComplete

(* A PATCH answers that a version is accepted, or had been before.         *)
AnswersAcceptance(r) ==
    /\ reqs[r].op = "patch" /\ reqs[r].stamp = Accepted
    /\ reqs[r].pc \in QueryPcs
    /\ reqs'[r].pc = "respond" /\ reqs'[r].code \in {200, 409}

LEMMA AnsweredByCleanup ==
    ASSUME TypeInv, [Next]_vars, NEW r \in Reqs, AnswersAcceptance(r)
    PROVE  CleanupAfterAdd(r)
<1>. USE DEF AnswersAcceptance
<1>1. /\ reqs'[r] # reqs[r] /\ reqs[r].pc # "idle" /\ reqs[r].pc # "respond"
      /\ reqs[r].pc \notin PostPcs /\ reqs[r].pc # "search"
  BY DEF QueryPcs, TypeInv, RequestOK, PostPcs, SearchOps
<1>2. ASSUME NEW code \in Codes, Respond(r, code)
      PROVE  code \in {200, 409}
  BY <1>2 DEF Respond, NoReq, TypeInv, TypeOK
<1>3. ~Crash /\ ~QueryFails(r) /\ ~UNCHANGED vars
  <2>1. ~Crash
    <3>1. NoReq.pc # "respond"
      BY DEF NoReq
    <3>. QED  BY <3>1 DEF Crash
  <2>2. ~QueryFails(r)
    BY <1>2 DEF QueryFails, Codes
  <2>. QED  BY <1>1, <2>1, <2>2 DEF vars
<1>4. ASSUME NEW p \in Reqs \ {r}, Receive(p) \/ Handle(p) \/ QueryFails(p)
      PROVE  FALSE
  <2>1. PICK x : reqs' = [reqs EXCEPT ![p] = x]
    BY <1>4, OwnSlotOnly
  <2>. QED  BY <1>1, <2>1 DEF TypeInv, TypeOK
<1>5. ~Receive(r)
  BY <1>1, ReceiveIdle
<1>6. /\ ~FindLatestForRevision(r) /\ ~ReviseChecked(r)
      /\ ~InsertAnnoData(r) /\ ~InsertStamps(r) /\ ~InsertLinks(r)
  BY <1>1 DEF FindLatestForRevision, ReviseChecked, InsertAnnoData,
              InsertStamps, InsertLinks, PostPcs
<1>7. /\ ~RedirToLatestVersion(r) /\ ~ServeExactVersion(r)
      /\ ~RunSearch(r) /\ ~NameWorkingCopy(r) /\ ~Delivered(r)
  BY <1>1 DEF RedirToLatestVersion, ServeExactVersion, RunSearch,
              NameWorkingCopy, Delivered
<1>8. PICK q \in Request : q = reqs[r]
  BY DEF TypeInv, TypeOK
<1>9. ASSUME NEW x \in Request, NEW pc \in QueryPcs, Await(r, pc, x)
      PROVE  FALSE
  <2>1. reqs'[r] = [x EXCEPT !.pc = pc] /\ pc # "respond"
    BY <1>9, AwaitEffect DEF TypeInv, TypeOK, Pcs, QueryPcs
  <2>. QED  BY <2>1 DEF Request
<1>10. ~LookupDetails(r)
  BY <1>2, <1>8, <1>9 DEF LookupDetails, Codes, QueryPcs
<1>11. ~LookupRefused(r)
  <2>1. ASSUME NEW seen
        PROVE  LookupVerdict(q, seen) \in {200, 403, 404, 405, 410}
    BY DEF LookupVerdict
  <2>2. ASSUME LookupRefused(r)
        PROVE  \E seen : LookupVerdict(q, seen) # 200
                         /\ Respond(r, LookupVerdict(q, seen))
    BY <1>8, <2>2 DEF LookupRefused
  <2>3. ASSUME NEW code \in {403, 404, 405, 410}, Respond(r, code)
        PROVE  FALSE
    BY <1>2, <2>3 DEF Codes
  <2>. QED  BY <2>1, <2>2, <2>3
<1>12. ~StampChecked(r)
  <2>1. (IF HasPreparation(q.stamp) THEN "prepareAdd" ELSE "addStamp") \in QueryPcs
    BY DEF QueryPcs
  <2>. QED  BY <1>2, <1>8, <1>9, <2>1 DEF StampChecked, Codes
<1>13. ~PrepareAdd(r)
  BY <1>8, <1>9 DEF PrepareAdd, QueryPcs
<1>14. ~AddStamp(r)
  <2>. SUFFICES ASSUME AddStamp(r)
                PROVE  FALSE
    OBVIOUS
  <2>1. PICK dupe \in BOOLEAN :
          \/ q.stamp = Accepted
             /\ Await(r, "cleanupAfterAdd", [q EXCEPT !.dupe = dupe])
          \/ q.stamp # Accepted /\ Respond(r, AnswerCode(dupe))
    BY <1>8, AddStampAwaits
  <2>2. PICK x \in Request : x = [q EXCEPT !.dupe = dupe]
    BY ONLY q \in Request, dupe \in BOOLEAN DEF Request
  <2>. QED  BY <1>8, <1>9, <2>1, <2>2 DEF QueryPcs
<1>. QED  BY <1>3, <1>4, <1>5, <1>6, <1>7, <1>10, <1>11, <1>12, <1>13, <1>14
          DEF Next, Handle

(* Who is told that a version is accepted, or had been accepted before,    *)
(* finds it disclosed: the only way to these answers leads through the     *)
(* cleanup, which comes after the insert.                                  *)
THEOREM AcceptancesAreFinal == Spec => AcceptanceIsFinal
<1>. DEFINE AllFinal == \A r \in Reqs :
        LET q == reqs[r] IN
        /\ q.op = "patch" /\ q.stamp = Accepted /\ q.pc \in QueryPcs
        /\ reqs'[r].pc = "respond" /\ reqs'[r].code \in {200, 409}
        => /\ Accepted \in annoStamps'[VersId(q)]
           /\ Unapproved \notin annoStamps'[VersId(q)]
<1>1. ASSUME TypeInv, ApprovalInv, [Next]_vars
      PROVE  AllFinal
  <2>. SUFFICES ASSUME NEW r \in Reqs, AnswersAcceptance(r)
                PROVE  /\ Accepted \in annoStamps'[VersId(reqs[r])]
                       /\ Unapproved \notin annoStamps'[VersId(reqs[r])]
    BY DEF AnswersAcceptance
  <2>1. CleanupAfterAdd(r)
    BY <1>1, AnsweredByCleanup
  <2>2. PICK v : v = VersId(reqs[r])
    OBVIOUS
  <2>3. Accepted \in annoStamps[v] /\ DeleteStamp(v, Unapproved)
    BY <1>1, <2>1, <2>2 DEF CleanupAfterAdd, ApprovalInv, CleanupOK
  <2>4. v \in VersIds
    BY <1>1, <2>1, <2>2
       DEF CleanupAfterAdd, TypeInv, TypeOK, RequestOK, PatchPcs, Stored, DbTypeOK
  <2>. QED  BY <1>1, <2>2, <2>3, <2>4
            DEF DeleteStamp, Accepted, Unapproved, TypeInv, TypeOK, DbTypeOK
<1>2. TypeInv /\ ApprovalInv /\ [Next]_vars => [AllFinal]_vars
  BY <1>1
<1>. QED  BY <1>2, ApprovalInvariant, PTL DEF Spec, AcceptanceIsFinal

-------------------------------------------------------------------------------
(* Without faults.                                                         *)

(* A request in the middle of its inserts or before its cleanup stays      *)
(* there until its own next step.                                          *)
LEMMA UnfailingSteps ==
    ASSUME Faulty = FALSE, TypeInv, [Next]_vars, NEW r \in Reqs,
           reqs[r].pc \in {"insertStamps", "cleanupAfterAdd"},
           reqs'[r] # reqs[r]
    PROVE  \/ reqs[r].pc = "insertStamps" /\ InsertStamps(r)
           \/ reqs[r].pc = "cleanupAfterAdd" /\ CleanupAfterAdd(r)
<1>1. ~QueryFails(r) /\ ~Crash
  BY DEF QueryFails, Crash
<1>2. InsertStamps(r) \/ InsertLinks(r) \/ CleanupAfterAdd(r)
  BY <1>1, StepsFrom
<1>. QED  BY <1>2 DEF InsertStamps, InsertLinks, CleanupAfterAdd

(* Rows stay, and a new one is one that its POST goes on to hold.          *)
LEMMA RowsComeByPosts ==
    ASSUME TypeInv, [Next]_vars
    PROVE  /\ RowsStay
           /\ \A v \in DOMAIN annoData' \ DOMAIN annoData :
                \E r \in Reqs : Inserting(reqs'[r]) /\ VersId(reqs'[r]) = v
<1>1. ASSUME UNCHANGED annoData
      PROVE  RowsStay /\ DOMAIN annoData' = DOMAIN annoData
  BY <1>1 DEF RowsStay
<1>2. ASSUME NEW r \in Reqs, InsertAnnoData(r)
      PROVE  \A v \in DOMAIN annoData' \ DOMAIN annoData :
                Inserting(reqs'[r]) /\ VersId(reqs'[r]) = v
  <2>1. PICK q \in Request : q = reqs[r]
    BY DEF TypeInv, TypeOK
  <2>2. CASE UNCHANGED annoData
    BY <2>2
  <2>3. CASE /\ InsertData(VersId(q), NewRow(q))
             /\ Await(r, IF q.stampsTodo = {} THEN "insertLinks"
                         ELSE "insertStamps", q)
    <3>1. PICK pc \in {"insertLinks", "insertStamps"} : Await(r, pc, q)
      BY <2>3
    <3>2. reqs'[r] = [q EXCEPT !.pc = pc]
      BY <3>1, AwaitEffect DEF TypeInv, TypeOK, Pcs, QueryPcs
    <3>3. Inserting(reqs'[r]) /\ VersId(reqs'[r]) = VersId(q)
      BY <3>2 DEF Request, Inserting, VersId
    <3>4. DOMAIN annoData' = DOMAIN annoData \cup {VersId(q)}
      BY <2>3 DEF InsertData
    <3>. QED  BY <3>3, <3>4
  <2>. QED  BY <1>2, <2>1, <2>2, <2>3 DEF InsertAnnoData
<1>3. ASSUME NEW r \in Reqs,
             StartsPost(r) \/ InsertStamps(r) \/ InsertLinks(r)
      PROVE  UNCHANGED annoData
  BY <1>3 DEF StartsPost, InsertStamps, InsertLinks, dbVars
<1>. QED  BY <1>1, <1>2, <1>3, PostSteps, InsertedRow

LEMMA HeldOnceNext ==
    ASSUME Faulty = FALSE, TypeInv, ApprovalInv, HoldInv, HoldInv',
           HeldOncePosted, [Next]_vars
    PROVE  HeldOncePosted'
<1>1. RowsStay
  BY RowsComeByPosts
<1>2. ASSUME NEW v \in DOMAIN annoData
      PROVE  Held(v)' \/ \E p \in Reqs : AboutToHold(p, v)'
  <2>1. CASE Held(v)
    BY <1>1, <2>1, HeldStays
  <2>2. ASSUME NEW p \in Reqs, AboutToHold(p, v), ~Held(v)
        PROVE  Held(v)' \/ AboutToHold(p, v)'
    <3>1. PICK q : /\ q = reqs[p] /\ q.pc = "insertStamps" /\ VersId(q) = v
                   /\ Unapproved \in q.stampsTodo
      BY <2>2 DEF AboutToHold
    <3>2. CASE reqs'[p] = reqs[p]
      BY <2>2, <3>2 DEF AboutToHold, VersId
    <3>3. CASE InsertStamps(p)
      <4>1. NextStampRec(q) = Unapproved
        BY <3>1 DEF NextStampRec
      <4>2. Unapproved \notin annoStamps[v]
        BY <2>2 DEF Held
      <4>3. InsertStamp(v, Unapproved)
        BY <3>1, <3>3, <4>1, <4>2 DEF InsertStamps
      <4>4. v \in VersIds
        BY DEF TypeInv, TypeOK, DbTypeOK
      <4>5. Unapproved \in annoStamps'[v]
        BY <4>3, <4>4 DEF InsertStamp, TypeInv, TypeOK, DbTypeOK
      <4>. QED  BY <4>5 DEF Held
    <3>. QED  BY <3>1, <3>2, <3>3, UnfailingSteps
  <2>. QED  BY <2>1, <2>2 DEF HeldOncePosted, Held
<1>3. ASSUME NEW v \in DOMAIN annoData', v \notin DOMAIN annoData
      PROVE  Held(v)' \/ \E p \in Reqs : AboutToHold(p, v)'
  <2>1. PICK r \in Reqs : Inserting(reqs'[r]) /\ VersId(reqs'[r]) = v
    BY <1>3, RowsComeByPosts
  <2>2. PostingOK(reqs[r])'
    BY DEF HoldInv
  <2>3. Inserting(reqs[r])' /\ VersId(reqs[r])' = v
    BY <2>1 DEF Inserting, VersId
  <2>4. \/ Held(VersId(reqs[r]))'
        \/ /\ reqs'[r].pc = "insertStamps"
           /\ Unapproved \in reqs'[r].stampsTodo
    BY <2>2, <2>3 DEF PostingOK
  <2>5. Held(VersId(reqs[r]))' => Held(v)'
    BY <2>3 DEF Held
  <2>. QED  BY <2>3, <2>4, <2>5 DEF AboutToHold
<1>. QED  BY <1>2, <1>3 DEF HeldOncePosted, Held

(* Without faults, what an untrusted author has posted is held as soon as  *)
(* its POST gets past the stamps, and until it is accepted, whatever other *)
(* requests do in between.                                                 *)
THEOREM PostedIsHeld ==
    ASSUME Faulty = FALSE
    PROVE  Spec => []HeldOncePosted
<1>1. Init => HeldOncePosted
  BY DEF Init, DbInit, HeldOncePosted
<1>2. /\ TypeInv /\ ApprovalInv /\ HoldInv /\ HoldInv'
      /\ HeldOncePosted /\ [Next]_vars
      => HeldOncePosted'
  BY HeldOnceNext
<1>. QED  BY <1>1, <1>2, HoldInvariant, PTL DEF Spec

(* A stamp that discloses or holds a version comes by an insert, and who   *)
(* inserts dc:dateAccepted goes on with the cleanup.                       *)
Decides(v, t) ==
    /\ InsertStamp(v, t)
    /\ t = Accepted =>
         \E r \in Reqs : /\ reqs'[r].pc = "cleanupAfterAdd"
                        /\ VersId(reqs'[r]) = v

LEMMA DecisionsCome ==
    ASSUME TypeInv, [Next]_vars
    PROVE  /\ heldLate \subseteq heldLate'
           /\ \A v \in VersIds, t \in {Unapproved, Accepted} :
                t \in annoStamps'[v] \ annoStamps[v] => Decides(v, t)
<1>. DEFINE Comes == \A v \in VersIds, t \in {Unapproved, Accepted} :
                t \in annoStamps'[v] \ annoStamps[v] => Decides(v, t)
<1>0. annoStamps \in [VersIds -> SUBSET StampTypes]
  BY DEF TypeInv, TypeOK, DbTypeOK
<1>1. ASSUME QuietStep
      PROVE  heldLate \subseteq heldLate' /\ Comes
  BY <1>1 DEF QuietStep
<1>2. ASSUME NEW w, NEW t, InsertStamp(w, t)
      PROVE  /\ heldLate \subseteq heldLate'
             /\ \A v \in VersIds, s \in StampTypes :
                  s \in annoStamps'[v] \ annoStamps[v] => v = w /\ s = t
  BY <1>0, <1>2 DEF InsertStamp
<1>3. {Unapproved, Accepted} \subseteq StampTypes /\ Unapproved # Accepted
      /\ DoiRequest # Accepted /\ Deleted \notin {Unapproved, Accepted}
  BY DEF StampTypes, Unapproved, Accepted, DoiRequest, Deleted
<1>4. ASSUME NEW r \in Reqs, InsertStamps(r)
      PROVE  heldLate \subseteq heldLate' /\ Comes
  <2>1. NextStampRec(reqs[r]) # Accepted
    BY <1>3 DEF NextStampRec
  <2>2. CASE UNCHANGED <<annoStamps, heldLate>>
    BY <2>2
  <2>3. CASE InsertStamp(VersId(reqs[r]), NextStampRec(reqs[r]))
    BY <1>2, <1>3, <2>1, <2>3 DEF Decides
  <2>. QED  BY <1>4, <2>2, <2>3 DEF InsertStamps
<1>5. ASSUME NEW r \in Reqs, AddStamp(r)
      PROVE  heldLate \subseteq heldLate' /\ Comes
  <2>1. PICK q \in Request : q = reqs[r]
    BY DEF TypeInv, TypeOK
  <2>2. InsertStamp(VersId(q), q.stamp)
    BY <1>5, <2>1 DEF AddStamp
  <2>3. ASSUME q.stamp = Accepted
        PROVE  reqs'[r].pc = "cleanupAfterAdd" /\ VersId(reqs'[r]) = VersId(q)
    <3>1. PICK dupe : Await(r, "cleanupAfterAdd", [q EXCEPT !.dupe = dupe])
      BY <1>5, <2>1, <2>3, Zenon DEF AddStamp
    <3>2. PICK x : x = [q EXCEPT !.dupe = dupe]
      OBVIOUS
    <3>3. reqs' = [reqs EXCEPT ![r] = [x EXCEPT !.pc = "cleanupAfterAdd"]]
      BY <3>1, <3>2 DEF Await
    <3>. QED  BY <3>2, <3>3 DEF TypeInv, TypeOK, Request, VersId
  <2>4. ASSUME NEW v \in VersIds, NEW t \in {Unapproved, Accepted},
               t \in annoStamps'[v] \ annoStamps[v]
        PROVE  Decides(v, t)
    <3>1. v = VersId(q) /\ t = q.stamp
      BY <1>2, <1>3, <2>2, <2>4
    <3>. QED  BY <2>2, <2>3, <3>1 DEF Decides
  <2>. QED  BY <1>2, <2>2, <2>4
<1>6. ASSUME NEW r \in Reqs, PrepareAdd(r) \/ CleanupAfterAdd(r)
      PROVE  heldLate \subseteq heldLate' /\ Comes
  <2>1. UNCHANGED heldLate
    BY <1>6 DEF PrepareAdd, CleanupAfterAdd
  <2>2. ASSUME NEW w, NEW t, DeleteStamp(w, t)
        PROVE  \A v \in VersIds : annoStamps'[v] \subseteq annoStamps[v]
    BY <1>0, <2>2 DEF DeleteStamp
  <2>3. ASSUME NEW b, NEW n, SunsetUndecidedEarlierVersions(b, n)
        PROVE  \A v \in VersIds :
                  annoStamps'[v] \subseteq annoStamps[v] \cup {Deleted}
    BY <1>0, <2>3 DEF SunsetUndecidedEarlierVersions
  <2>. QED  BY <1>3, <1>6, <2>1, <2>2, <2>3 DEF PrepareAdd, CleanupAfterAdd
<1>. QED  BY <1>1, <1>4, <1>5, <1>6, QuietOrStamps DEF StampStep

(* AcceptedIsDisclosed, of versions that may not be stored.                *)
DisclosureOK(v) ==
    {Unapproved, Accepted} \subseteq annoStamps[v] =>
        \/ v \in heldLate
        \/ \E r \in Reqs : reqs[r].pc = "cleanupAfterAdd" /\ VersId(reqs[r]) = v

LEMMA DisclosureNext ==
    ASSUME Faulty = FALSE, TypeInv, [Next]_vars,
           NEW v \in VersIds, DisclosureOK(v)
    PROVE  DisclosureOK(v)'
<1>. SUFFICES ASSUME {Unapproved, Accepted} \subseteq annoStamps'[v]
              PROVE  \/ v \in heldLate'
                     \/ \E r \in Reqs : /\ reqs'[r].pc = "cleanupAfterAdd"
                                        /\ VersId(reqs'[r]) = v
  BY DEF DisclosureOK, VersId
<1>1. heldLate \subseteq heldLate'
  BY DecisionsCome
<1>2. CASE {Unapproved, Accepted} \subseteq annoStamps[v]
  <2>1. ASSUME NEW r \in Reqs, reqs[r].pc = "cleanupAfterAdd",
               VersId(reqs[r]) = v
        PROVE  reqs'[r] = reqs[r]
    <3>1. ~CleanupAfterAdd(r)
      BY <2>1 DEF CleanupAfterAdd, DeleteStamp, TypeInv, TypeOK, DbTypeOK
    <3>. QED  BY <2>1, <3>1, UnfailingSteps
  <2>. QED  BY <1>1, <1>2, <2>1 DEF DisclosureOK
<1>3. CASE Unapproved \notin annoStamps[v]
  <2>1. Decides(v, Unapproved)
    BY <1>3, DecisionsCome
  <2>2. InsertStamp(v, Unapproved) /\ Accepted # Unapproved
    BY <2>1 DEF Decides, Accepted, Unapproved
  <2>3. HeldTooLate(v)
    BY <2>2 DEF InsertStamp, HeldTooLate, TypeInv, TypeOK, DbTypeOK
  <2>. QED  BY <1>3, <2>2, <2>3 DEF InsertStamp
<1>4. CASE Accepted \notin annoStamps[v]
  BY <1>4, DecisionsCome DEF Decides
<1>. QED  BY <1>2, <1>3, <1>4

(* Without faults, an accepted version does not stay hidden: it still      *)
(* carries both stamps only until the PATCH that accepted it has cleaned   *)
(* up, or if its own POST held it after that.                              *)
THEOREM AcceptedGetsDisclosed ==
    ASSUME Faulty = FALSE
    PROVE  Spec => []AcceptedIsDisclosed
<1>. DEFINE AllDisclosed == \A v \in VersIds : DisclosureOK(v)
<1>1. Init => AllDisclosed
  BY DEF Init, DbInit, DisclosureOK
<1>2. TypeInv /\ AllDisclosed /\ [Next]_vars => AllDisclosed'
  BY DisclosureNext
<1>3. TypeInv /\ AllDisclosed => AcceptedIsDisclosed
  BY DEF TypeInv, TypeOK, DbTypeOK, AcceptedIsDisclosed, DisclosureOK
<1>. QED  BY <1>1, <1>2, <1>3, HoldInvariant, PTL DEF Spec
-------------------------------------------------------------------------------
(* Without faults and without a DOI bot.                                   *)

NoDoiBot == /\ AutoDoi = FALSE
            /\ {Doi, DoiRequest} \cap PatchStamps = {}

NoDoiStamps == \A v \in VersIds : {Doi, DoiRequest} \cap annoStamps[v] = {}

LEMMA NoDoiStampsNext ==
    ASSUME NoDoiBot, TypeInv, HoldInv, NoDoiStamps, [Next]_vars
    PROVE  NoDoiStamps'
<1>0. annoStamps \in [VersIds -> SUBSET StampTypes]
  BY DEF TypeInv, TypeOK, DbTypeOK
<1>1. {Unapproved, Deleted} \cap {Doi, DoiRequest} = {}
  BY DEF Unapproved, Deleted, Doi, DoiRequest
<1>2. ASSUME NEW w, NEW t, t \notin {Doi, DoiRequest}, InsertStamp(w, t)
      PROVE  NoDoiStamps'
  BY <1>0, <1>2 DEF InsertStamp, NoDoiStamps
<1>3. CASE QuietStep
  BY <1>3 DEF QuietStep, NoDoiStamps
<1>4. ASSUME NEW r \in Reqs, InsertStamps(r)
      PROVE  NoDoiStamps'
  <2>1. reqs[r].stampsTodo = {Unapproved}
    BY <1>4 DEF InsertStamps, HoldInv, PostingOK, NoDoiBot
  <2>2. NextStampRec(reqs[r]) \notin {Doi, DoiRequest}
    BY <1>1, <2>1 DEF NextStampRec
  <2>3. CASE UNCHANGED annoStamps
    BY <2>3 DEF NoDoiStamps
  <2>. QED  BY <1>2, <1>4, <2>2, <2>3 DEF InsertStamps
<1>5. ASSUME NEW r \in Reqs, AddStamp(r)
      PROVE  NoDoiStamps'
  <2>1. reqs[r].stamp \notin {Doi, DoiRequest}
    BY <1>5 DEF AddStamp, TypeInv, RequestOK, PatchPcs, QueryPcs, NoDoiBot
  <2>2. InsertStamp(VersId(reqs[r]), reqs[r].stamp)
    BY <1>5 DEF AddStamp
  <2>. QED  BY <1>2, <2>1, <2>2
<1>6. ASSUME NEW w, NEW t, DeleteStamp(w, t)
      PROVE  NoDoiStamps'
  BY <1>0, <1>6 DEF DeleteStamp, NoDoiStamps
<1>7. ASSUME NEW b, NEW n, SunsetUndecidedEarlierVersions(b, n)
      PROVE  NoDoiStamps'
  BY <1>0, <1>1, <1>7 DEF SunsetUndecidedEarlierVersions, NoDoiStamps
<1>8. ASSUME NEW r \in Reqs, PrepareAdd(r) \/ CleanupAfterAdd(r)
      PROVE  NoDoiStamps'
  BY <1>6, <1>7, <1>8 DEF PrepareAdd, CleanupAfterAdd
<1>. QED  BY <1>3, <1>4, <1>5, <1>8, QuietOrStamps DEF StampStep

(* Only the exact look-up's second query serves a version.                 *)
LEMMA ServedByLookup ==
    ASSUME TypeInv, [Next]_vars, NEW r \in Reqs, ServesPublic(r)
    PROVE  \E seen \in SUBSET StampTypes : LookupServes(reqs[r], seen)
<1>1. reqs'[r] # reqs[r]
  BY DEF ServesPublic
<1>2. ~Crash /\ ~QueryFails(r) /\ ~UNCHANGED vars
  <2>1. reqs'[r].pc = "respond" /\ reqs'[r].code = 200
    BY DEF ServesPublic
  <2>2. ~Crash
    <3>1. NoReq.pc # "respond"
      BY DEF NoReq
    <3>. QED  BY <2>1, <3>1 DEF Crash
  <2>3. ~QueryFails(r)
    <3>1. ASSUME NEW code \in {500, 503}, Respond(r, code)
          PROVE  reqs'[r].code = code
      BY <3>1 DEF Respond, NoReq, TypeInv, TypeOK
    <3>. QED  BY <2>1, <3>1 DEF QueryFails
  <2>. QED  BY <1>1, <2>2, <2>3 DEF vars
<1>3. ASSUME NEW p \in Reqs \ {r}, Receive(p) \/ Handle(p) \/ QueryFails(p)
      PROVE  FALSE
  <2>1. PICK x : reqs' = [reqs EXCEPT ![p] = x]
    BY <1>3, OwnSlotOnly
  <2>. QED  BY <1>1, <2>1 DEF TypeInv, TypeOK
<1>4. ~Receive(r)
  BY ReceiveIdle DEF ServesPublic
<1>5. /\ ~LookupDetails(r) /\ ~FindLatestForRevision(r) /\ ~ReviseChecked(r)
      /\ ~InsertAnnoData(r) /\ ~InsertStamps(r) /\ ~InsertLinks(r)
  BY DEF ServesPublic, LookupDetails, FindLatestForRevision, ReviseChecked,
         InsertAnnoData, InsertStamps, InsertLinks
<1>6. /\ ~StampChecked(r) /\ ~PrepareAdd(r) /\ ~AddStamp(r)
      /\ ~CleanupAfterAdd(r) /\ ~RedirToLatestVersion(r)
  BY DEF ServesPublic, StampChecked, PrepareAdd, AddStamp, CleanupAfterAdd,
         RedirToLatestVersion
<1>7. ~RunSearch(r) /\ ~NameWorkingCopy(r) /\ ~Delivered(r)
  BY DEF ServesPublic, RunSearch, NameWorkingCopy, Delivered
<1>8. ~LookupRefused(r)
  <2>1. ASSUME NEW code, code # 200, Respond(r, code)
        PROVE  FALSE
    BY <2>1 DEF ServesPublic, Respond, NoReq, TypeInv, TypeOK
  <2>. QED  BY <2>1 DEF LookupRefused
<1>9. ServeExactVersion(r)
  BY <1>2, <1>3, <1>4, <1>5, <1>6, <1>7, <1>8 DEF Next, Handle
<1>. QED  BY <1>9 DEF ServeExactVersion

(* The public is refused a version that the lookup has seen waiting for    *)
(* approval or retracted, ...                                              *)
LEMMA PublicVerdict ==
    ASSUME NEW q \in Request, NEW seen \in SUBSET StampTypes,
           q.op = "get", q.role = "",
           NEW code, code = LookupVerdict(q, seen), code = 200
    PROVE  Unapproved \notin seen /\ Deleted \notin seen
<1>1. ~MayReadUnapproved(q) /\ EffectiveRole(q) = ""
  BY DEF MayReadUnapproved, EffectiveRole
<1>2. Deleted \in seen => code = 410
  BY Zenon DEF LookupVerdict
<1>3. ASSUME Unapproved \in seen, Deleted \notin seen
      PROVE  code = 403 \/ code = 404
  <2>1. CASE MayRead(q.user, annoData[VersId(q)])
    <3>1. EffectiveRole(q) \in {"", "approver", "author"}
          /\ EffectiveRole(q) # "approver"
      BY ONLY <1>1
    <3>. QED  BY <1>1, <1>3, <2>1, <3>1, Zenon DEF LookupVerdict
  <2>2. CASE ~MayRead(q.user, annoData[VersId(q)])
    BY <1>3, <2>2, Zenon DEF LookupVerdict
  <2>. QED  BY <2>1, <2>2, Zenon
<1>4. Deleted \notin seen
  BY ONLY <1>2, code = 200
<1>. QED  BY ONLY <1>3, <1>4, code = 200

(* ... and of the three stamps that there are without a DOI bot, the two   *)
(* that the lookup reads include one of these if there is any.             *)
LEMMA PublicSeesStamps ==
    ASSUME TypeInv, NoDoiStamps, [Next]_vars, NEW r \in Reqs, ServesPublic(r)
    PROVE  {Unapproved, Deleted} \cap annoStamps[VersId(reqs[r])] = {}
<1>1. PICK v \in DOMAIN annoData : v = VersId(reqs[r])
  BY DEF ServesPublic, TypeInv, RequestOK, Stored
<1>2. PICK seen \in SUBSET StampTypes :
        seen \in StampsLimit2(v) /\ LookupVerdict(reqs[r], seen) = 200
  BY <1>1, ServedByLookup DEF LookupServes
<1>3. Unapproved \notin seen /\ Deleted \notin seen
  BY <1>2, PublicVerdict DEF ServesPublic, TypeInv, TypeOK
<1>4. annoStamps[v] \subseteq {Unapproved, Deleted, Accepted}
  BY DEF TypeInv, TypeOK, DbTypeOK, NoDoiStamps, StampTypes
<1>5. CASE seen = annoStamps[v]
  BY <1>1, <1>3, <1>5
<1>6. ASSUME NEW s \in annoStamps[v], NEW t \in annoStamps[v], s # t,
             seen = {s, t}
      PROVE  FALSE
  BY <1>3, <1>4, <1>6
<1>. QED  BY <1>2, <1>5, <1>6 DEF StampsLimit2

LEMMA NoDoiInvariant ==
    ASSUME NoDoiBot
    PROVE  Spec => [](TypeInv /\ NoDoiStamps)
<1>1. Init => NoDoiStamps
  BY DEF Init, DbInit, NoDoiStamps
<1>2. TypeInv /\ HoldInv /\ NoDoiStamps /\ [Next]_vars => NoDoiStamps'
  BY NoDoiStampsNext
<1>. QED  BY <1>1, <1>2, HoldInvariant, PTL DEF Spec

(* Without a DOI bot, a retracted version is not served to the public,     *)
(* faults or not: it takes a third stamp to hide the retraction from the   *)
(* lookup, which reads two.                                                *)
THEOREM RetractionsAreSeen ==
    ASSUME NoDoiBot
    PROVE  Spec => RetractedIsGone
<1>. DEFINE NoneRetracted == \A r \in Reqs :
              ServesPublic(r) => Deleted \notin annoStamps[VersId(reqs[r])]
<1>1. TypeInv /\ NoDoiStamps /\ [Next]_vars => [NoneRetracted]_vars
  BY PublicSeesStamps
<1>. QED  BY <1>1, NoDoiInvariant, PTL DEF Spec, RetractedIsGone

(* Without faults and without a DOI bot, the public gets an untrusted      *)
(* author's version only when it has been accepted, or in the moment       *)
(* before its own POST holds it.                                           *)
THEOREM PublicReadsOnlyApproved ==
    ASSUME Faulty = FALSE, NoDoiBot
    PROVE  Spec => PublicReadsAreApproved
<1>. DEFINE ReadsApproved == \A r \in Reqs :
              LET v == VersId(reqs[r]) IN
                  /\ ServesPublic(r)
                  /\ annoData[v].author \notin Trusted
                  => \/ Accepted \in annoStamps[v]
                     \/ \E p \in Reqs : AboutToHold(p, v)
<1>1. ASSUME TypeInv, NoDoiStamps, HeldOncePosted, [Next]_vars
      PROVE  ReadsApproved
  <2>. SUFFICES ASSUME NEW r \in Reqs, ServesPublic(r),
                       annoData[VersId(reqs[r])].author \notin Trusted
                PROVE  \/ Accepted \in annoStamps[VersId(reqs[r])]
                       \/ \E p \in Reqs : AboutToHold(p, VersId(reqs[r]))
    OBVIOUS
  <2>1. PICK v \in DOMAIN annoData : v = VersId(reqs[r])
    BY <1>1 DEF ServesPublic, TypeInv, RequestOK, Stored
  <2>2. Unapproved \notin annoStamps[v]
    BY <1>1, <2>1, PublicSeesStamps
  <2>. QED  BY <1>1, <2>1, <2>2 DEF HeldOncePosted
<1>2. TypeInv /\ NoDoiStamps /\ HeldOncePosted /\ [Next]_vars
      => [ReadsApproved]_vars
  BY <1>1
<1>3. Spec => []HeldOncePosted
  BY PostedIsHeld
<1>. QED  BY <1>2, <1>3, NoDoiInvariant, PTL DEF Spec, PublicReadsAreApproved
===============================================================================
