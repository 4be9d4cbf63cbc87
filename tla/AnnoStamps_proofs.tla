----------------------------- MODULE AnnoStamps_proofs -----------------------------
(***************************************************************************)
(* Approval decisions: for any number of concurrent, failing and dying     *)
(* requests, a version is disclosed only when it has been accepted, and an *)
(* accepted version has no undecided predecessor.                          *)
(***************************************************************************)
EXTENDS AnnoServer_proofs

(* Most steps do not touch stamps, and bring no request to the point where *)
(* ApprovalInv knows something of it.                                      *)
Calm(q) ==
    /\ q.pc # "cleanupAfterAdd"
    /\ q.pc # "addStamp" \/ q.stamp # Accepted

CalmMoves == \A p \in Reqs : reqs'[p] = reqs[p] \/ Calm(reqs'[p])

QuietStep ==
    /\ UNCHANGED <<annoStamps, heldLate>>
    /\ DOMAIN annoData \subseteq DOMAIN annoData'
    /\ CalmMoves

StampStep(r) ==
    InsertStamps(r) \/ PrepareAdd(r) \/ AddStamp(r) \/ CleanupAfterAdd(r)

LEMMA CalmAnswer ==
    ASSUME NEW r \in Reqs, NEW code \in Codes, TypeInv, Respond(r, code)
    PROVE  CalmMoves
BY RespondEffect DEF TypeInv, TypeOK, Calm, CalmMoves

LEMMA CalmAwait ==
    ASSUME NEW r \in Reqs, NEW pc \in Pcs, NEW q \in Request, TypeInv,
           Await(r, pc, q),
           pc # "cleanupAfterAdd",
           pc # "addStamp" \/ q.stamp # Accepted
    PROVE  CalmMoves
<1>1. /\ reqs'[r] = [q EXCEPT !.pc = pc]
      /\ \A p \in Reqs \ {r} : reqs'[p] = reqs[p]
  BY AwaitEffect DEF TypeInv, TypeOK
<1>2. reqs'[r].pc = pc /\ reqs'[r].stamp = q.stamp
  BY <1>1 DEF Request
<1>. QED  BY <1>1, <1>2 DEF Calm, CalmMoves

(* A request comes in, or its checks go on.                                *)
LEMMA ChecksAreQuiet ==
    ASSUME NEW r \in Reqs, TypeInv,
           \/ Receive(r) \/ LookupDetails(r) \/ LookupRefused(r)
           \/ FindLatestForRevision(r) \/ ReviseChecked(r) \/ StampChecked(r)
    PROVE  QuietStep
<1>1. UNCHANGED dbVars
  BY SearchReceived
     DEF Receive, ReceivePost, ReceivePatch, ReceiveGet, LookupDetails,
         LookupRefused, FindLatestForRevision, ReviseChecked, StampChecked
<1>. SUFFICES CalmMoves
  BY <1>1 DEF QuietStep, dbVars
<1>2. PICK q \in Request : q = reqs[r]
  BY DEF TypeInv, TypeOK
<1>. DEFINE Pending == {"findLatest", "lookupDetails", "lookupStamps",
                        "insertData", "prepareAdd", "search"}
<1>3. ASSUME NEW x \in Request, NEW pc \in Pending, Await(r, pc, x)
      PROVE  CalmMoves
  BY <1>3, CalmAwait DEF Pcs, QueryPcs
<1>4. ASSUME NEW code \in Codes, Respond(r, code)
      PROVE  CalmMoves
  BY <1>4, CalmAnswer
<1>5. CASE Receive(r)
  <2>1. CASE ReceivePost(r)
    BY <1>3, <1>4, <2>1, PostReceived DEF IsPost
  <2>2. CASE ReceivePatch(r)
    BY <1>3, <2>2, PatchReceived
  <2>3. CASE ReceiveGet(r)
    <3>1. PICK x \in Request, pc \in Pending : Await(r, pc, x)
      BY <2>3, GetReceived
    <3>. QED  BY <1>3, <3>1
  <2>4. CASE ReceiveSearch(r)
    BY <1>3, <1>4, <2>4, SearchReceived DEF IsSearch
  <2>. QED  BY <1>5, <2>1, <2>2, <2>3, <2>4 DEF Receive
<1>6. CASE LookupDetails(r)
  BY <1>2, <1>3, <1>4, <1>6 DEF LookupDetails, Codes
<1>7. CASE LookupRefused(r)
  <2>1. PICK seen : Respond(r, LookupVerdict(reqs[r], seen))
    BY <1>7 DEF LookupRefused
  <2>2. LookupVerdict(reqs[r], seen) \in Codes
    BY DEF LookupVerdict, Codes
  <2>. QED  BY <1>4, <2>1, <2>2
<1>8. CASE FindLatestForRevision(r)
  BY <1>2, <1>3, <1>4, <1>8 DEF FindLatestForRevision, Codes
<1>9. CASE ReviseChecked(r)
  BY <1>2, <1>3, <1>4, <1>9, RevisionAwaits DEF IsPost
<1>10. CASE StampChecked(r)
  <2>1. CASE Respond(r, 403)
    BY <1>4, <2>1 DEF Codes
  <2>2. CASE Await(r, IF HasPreparation(q.stamp) THEN "prepareAdd"
                      ELSE "addStamp", q)
    <3>1. CASE HasPreparation(q.stamp)
      BY <1>3, <2>2, <3>1
    <3>2. CASE ~HasPreparation(q.stamp)
      BY <2>2, <3>2, CalmAwait DEF HasPreparation, Pcs, QueryPcs
    <3>. QED  BY <3>1, <3>2
  <2>. QED  BY <1>2, <1>10, <2>1, <2>2 DEF StampChecked
<1>. QED  BY <1>5, <1>6, <1>7, <1>8, <1>9, <1>10

(* A step of a POST that is not about stamps, and the end of a request.    *)
LEMMA EndsAreQuiet ==
    ASSUME NEW r \in Reqs, TypeInv,
           \/ InsertAnnoData(r) \/ InsertLinks(r)
           \/ RedirToLatestVersion(r) \/ ServeExactVersion(r)
           \/ Delivered(r) \/ QueryFails(r) \/ Crash
    PROVE  QuietStep
<1>1. UNCHANGED <<annoStamps, heldLate>>
  BY DEF InsertAnnoData, InsertLinks, RedirToLatestVersion,
         ServeExactVersion, Delivered, QueryFails, Crash, dbVars
<1>2. DOMAIN annoData \subseteq DOMAIN annoData'
  <2>1. UNCHANGED annoData \/ InsertData(VersId(reqs[r]), NewRow(reqs[r]))
    BY DEF InsertAnnoData, InsertLinks, RedirToLatestVersion,
           ServeExactVersion, Delivered, QueryFails, Crash, dbVars
  <2>. QED  BY <2>1 DEF InsertData
<1>. SUFFICES CalmMoves
  BY <1>1, <1>2 DEF QuietStep
<1>3. PICK q \in Request : q = reqs[r]
  BY DEF TypeInv, TypeOK
<1>4. ASSUME NEW x \in Request, NEW pc \in {"insertLinks", "insertStamps"},
             Await(r, pc, x)
      PROVE  CalmMoves
  BY <1>4, CalmAwait DEF Pcs, QueryPcs
<1>5. ASSUME NEW code \in Codes, Respond(r, code)
      PROVE  CalmMoves
  BY <1>5, CalmAnswer
<1>6. CASE Crash \/ Delivered(r)
  <2>1. Calm(NoReq)
    BY DEF NoReq, Calm
  <2>2. \A p \in Reqs : reqs'[p] = reqs[p] \/ reqs'[p] = NoReq
    BY <1>6 DEF Crash, Delivered, TypeInv, TypeOK
  <2>. QED  BY <2>1, <2>2 DEF CalmMoves
<1>7. CASE RedirToLatestVersion(r)
  <2>1. ASSUME NEW n \in RedirectChoice(reqs[r]), Redirect(r, n)
        PROVE  CalmMoves
    <3>1. n \in 1..MaxVersNum
      BY DEF RedirectChoice, Disclosed, Own, VersNums
    <3>. QED  BY <2>1, <3>1, RedirectEffect DEF TypeInv, TypeOK, Calm, CalmMoves
  <2>2. CASE Respond(r, 404)
    BY <1>5, <2>2 DEF Codes
  <2>. QED  BY <1>7, <2>1, <2>2 DEF RedirToLatestVersion
<1>8. CASE InsertAnnoData(r)
  <2>1. CASE Respond(r, 500)
    BY <1>5, <2>1 DEF Codes
  <2>2. CASE Await(r, IF q.stampsTodo = {} THEN "insertLinks"
                      ELSE "insertStamps", q)
    <3>1. PICK pc \in {"insertLinks", "insertStamps"} : Await(r, pc, q)
      BY <2>2
    <3>. QED  BY <1>4, <3>1
  <2>. QED  BY <1>3, <1>8, <2>1, <2>2 DEF InsertAnnoData
<1>9. CASE InsertLinks(r)
  <2>1. ASSUME NEW l,
               Await(r, "insertLinks", [q EXCEPT !.linksTodo = @ \ {l}])
        PROVE  CalmMoves
    <3>1. [q EXCEPT !.linksTodo = @ \ {l}] \in Request
      BY DEF Request
    <3>. QED  BY <1>4, <2>1, <3>1
  <2>. QED  BY <1>3, <1>5, <1>9, <2>1 DEF InsertLinks, Codes
<1>10. CASE ServeExactVersion(r) \/ QueryFails(r)
  BY <1>5, <1>10 DEF ServeExactVersion, QueryFails, Codes
<1>. QED  BY <1>6, <1>7, <1>8, <1>9, <1>10

LEMMA SearchesAreQuiet ==
    ASSUME NEW r \in Reqs, TypeInv, RunSearch(r) \/ NameWorkingCopy(r)
    PROVE  QuietStep
<1>1. Calm(reqs'[r])
  BY SearchStep DEF Calm
<1>. QED  BY <1>1, SearchStep DEF QuietStep, CalmMoves, dbVars

LEMMA QuietOrStamps ==
    ASSUME TypeInv, [Next]_vars
    PROVE  QuietStep \/ \E r \in Reqs : StampStep(r)
<1>1. ASSUME NEW r \in Reqs, Receive(r)
      PROVE  QuietStep
  BY <1>1, ChecksAreQuiet
<1>2. ASSUME NEW r \in Reqs, Handle(r)
      PROVE  QuietStep \/ StampStep(r)
  BY <1>2, ChecksAreQuiet, EndsAreQuiet, SearchesAreQuiet DEF Handle, StampStep
<1>3. ASSUME NEW r \in Reqs, QueryFails(r)
      PROVE  QuietStep
  BY <1>3, EndsAreQuiet
<1>4. CASE Crash
  <2>1. CASE Reqs = {}
    BY <1>4, <2>1 DEF Crash, QuietStep, CalmMoves, dbVars
  <2>2. CASE Reqs # {}
    BY <1>4, <2>2, EndsAreQuiet
  <2>. QED  BY <2>1, <2>2
<1>5. CASE UNCHANGED vars
  BY <1>5 DEF vars, QuietStep, CalmMoves
<1>. QED  BY <1>1, <1>2, <1>3, <1>4, <1>5 DEF Next
-------------------------------------------------------------------------------
LEMMA ApprovalQuiet ==
    ASSUME TypeInv, ApprovalInv, QuietStep
    PROVE  ApprovalInv'
<1>1. SunsetComplete' /\ StampsOK'
  BY DEF ApprovalInv, QuietStep, SunsetComplete, StampsOK, Stored
<1>2. ASSUME NEW p \in Reqs
      PROVE  SunsetOK(reqs[p])' /\ CleanupOK(reqs[p])'
  <2>1. CASE reqs'[p] = reqs[p]
    BY <2>1 DEF ApprovalInv, QuietStep, SunsetOK, SunsetUpTo, CleanupOK, VersId
  <2>2. CASE Calm(reqs'[p])
    BY <2>2 DEF Calm, SunsetOK, CleanupOK
  <2>. QED  BY <2>1, <2>2 DEF QuietStep, CalmMoves
<1>. QED  BY <1>1, <1>2 DEF ApprovalInv

(* SunsetUpTo survives the insert of a stamp: an unapproved one that comes *)
(* below a stored version is late.                                         *)
LEMMA SunsetSurvivesInsert ==
    ASSUME TypeInv, NEW v \in VersIds, NEW t \in StampTypes, Stored(v),
           InsertStamp(v, t),
           NEW b \in BaseIds, NEW n \in 1..MaxVersNum, Stored(<<b, n>>),
           SunsetUpTo(b, n)
    PROVE  SunsetUpTo(b, n)'
<1>. USE DEF TypeInv, TypeOK, DbTypeOK
<1>. SUFFICES ASSUME NEW m \in 1..MaxVersNum, m < n,
                     Unapproved \in annoStamps'[<<b, m>>]
              PROVE  Deleted \in annoStamps'[<<b, m>>] \/ <<b, m>> \in heldLate'
  BY DEF SunsetUpTo
<1>1. <<b, m>> \in VersIds
  BY DEF VersIds
<1>2. annoStamps[<<b, m>>] \subseteq annoStamps'[<<b, m>>]
      /\ heldLate \subseteq heldLate'
  BY <1>1 DEF InsertStamp
<1>3. CASE Unapproved \in annoStamps[<<b, m>>]
  BY <1>2, <1>3 DEF SunsetUpTo
<1>4. CASE Unapproved \notin annoStamps[<<b, m>>]
  <2>1. v = <<b, m>> /\ t = Unapproved
    BY <1>1, <1>4 DEF InsertStamp
  <2>2. HeldTooLate(v)
    <3>1. n \in VersNums(v[1]) /\ n > v[2]
      BY <2>1 DEF VersNums
    <3>. QED  BY <3>1 DEF HeldTooLate
  <2>. QED  BY <1>4, <2>1, <2>2 DEF InsertStamp
<1>. QED  BY <1>3, <1>4

(* A stamp comes to a stored version; its inserter goes on with a cleanup  *)
(* only if the stamp was dc:dateAccepted, which no earlier version waits   *)
(* below any more.                                                         *)
LEMMA ApprovalInsert ==
    ASSUME NEW r \in Reqs, TypeInv, ApprovalInv,
           NEW v \in VersIds, NEW t \in StampTypes, Stored(v),
           InsertStamp(v, t), UNCHANGED annoData,
           t = Accepted => SunsetUpTo(v[1], v[2]),
           \A p \in Reqs \ {r} : reqs'[p] = reqs[p],
           \/ Calm(reqs'[r])
           \/ /\ reqs'[r].pc = "cleanupAfterAdd"
              /\ VersId(reqs'[r]) = v /\ t = Accepted
    PROVE  ApprovalInv'
<1>. USE DEF TypeInv, TypeOK, DbTypeOK
<1>1. /\ annoStamps'[v] = annoStamps[v] \cup {t}
      /\ \A w \in VersIds \ {v} : annoStamps'[w] = annoStamps[w]
      /\ heldLate \subseteq heldLate'
  BY DEF InsertStamp
<1>2. StampsOK'
  BY <1>1 DEF ApprovalInv, StampsOK, Stored
<1>3. SunsetComplete'
  <2>1. ASSUME NEW b \in BaseIds, NEW m \in 1..MaxVersNum,
               NEW n \in 1..MaxVersNum, m < n,
               Accepted \in annoStamps'[<<b, n>>],
               Unapproved \in annoStamps'[<<b, m>>]
        PROVE  Deleted \in annoStamps'[<<b, m>>] \/ <<b, m>> \in heldLate'
    <3>1. <<b, n>> \in VersIds
      BY DEF VersIds
    <3>2. SunsetUpTo(b, n)
      <4>1. CASE Accepted \in annoStamps[<<b, n>>]
        BY <4>1 DEF ApprovalInv, SunsetComplete, SunsetUpTo
      <4>2. CASE Accepted \notin annoStamps[<<b, n>>]
        <5>1. v = <<b, n>> /\ t = Accepted
          BY <1>1, <2>1, <3>1, <4>2
        <5>. QED  BY <5>1
      <4>. QED  BY <4>1, <4>2
    <3>3. Stored(<<b, n>>)
      BY <1>1, <2>1, <3>1 DEF ApprovalInv, StampsOK
    <3>4. SunsetUpTo(b, n)'
      BY <3>2, <3>3, SunsetSurvivesInsert
    <3>. QED  BY <2>1, <3>4 DEF SunsetUpTo
  <2>. QED  BY <2>1 DEF SunsetComplete
<1>4. ASSUME NEW p \in Reqs
      PROVE  SunsetOK(reqs[p])' /\ CleanupOK(reqs[p])'
  <2>1. CASE p # r
    <3>1. PICK q \in Request : q = reqs[p]
      OBVIOUS
    <3>2. ASSUME q.pc = "addStamp", q.stamp = Accepted
          PROVE  SunsetUpTo(q.base, q.vernum)'
      <4>1. Stored(VersId(q)) /\ VersId(q) \in VersIds
        BY <3>1, <3>2 DEF RequestOK, PatchPcs, Stored
      <4>2. q.base \in BaseIds /\ q.vernum \in 1..MaxVersNum
        BY <4>1 DEF VersId, VersIds
      <4>3. SunsetUpTo(q.base, q.vernum)
        BY <3>1, <3>2 DEF ApprovalInv, SunsetOK
      <4>. QED  BY <4>1, <4>2, <4>3, SunsetSurvivesInsert DEF VersId
    <3>3. ASSUME q.pc = "cleanupAfterAdd"
          PROVE  Accepted \in annoStamps'[VersId(q)]
      <4>1. VersId(q) \in VersIds
        BY <3>1, <3>3 DEF RequestOK, PatchPcs, Stored
      <4>2. Accepted \in annoStamps[VersId(q)]
        BY <3>1, <3>3 DEF ApprovalInv, CleanupOK
      <4>. QED  BY <1>1, <4>1, <4>2
    <3>4. reqs'[p] = q
      BY <2>1, <3>1
    <3>5. SunsetOK(q)' /\ CleanupOK(q)'
      BY <3>2, <3>3 DEF SunsetOK, CleanupOK, VersId
    <3>. QED  BY <3>4, <3>5 DEF SunsetOK, CleanupOK, SunsetUpTo, VersId
  <2>2. CASE p = r
    <3>1. CASE Calm(reqs'[r])
      BY <2>2, <3>1 DEF Calm, SunsetOK, CleanupOK
    <3>2. CASE /\ reqs'[r].pc = "cleanupAfterAdd"
               /\ VersId(reqs'[r]) = v /\ t = Accepted
      BY <1>1, <2>2, <3>2 DEF SunsetOK, CleanupOK, VersId
    <3>. QED  BY <3>1, <3>2
  <2>. QED  BY <2>1, <2>2
<1>. QED  BY <1>2, <1>3, <1>4 DEF ApprovalInv

(* A POST inserts one of its stamps.                                       *)
LEMMA ApprovalInsertStamps ==
    ASSUME NEW r \in Reqs, TypeInv, ApprovalInv, InsertStamps(r)
    PROVE  ApprovalInv'
<1>. USE DEF TypeInv, TypeOK
<1>1. PICK q \in Request : q = reqs[r]
  OBVIOUS
<1>2. /\ q.pc = "insertStamps" /\ Stored(VersId(q)) /\ VersId(q) \in VersIds
  BY <1>1 DEF InsertStamps, RequestOK, Stored, DbTypeOK
<1>3. UNCHANGED <<annoData, annoLinks>>
  BY DEF InsertStamps
<1>4. CASE Respond(r, 500) /\ UNCHANGED <<annoStamps, heldLate>>
  <2>1. CalmMoves
    BY <1>4, CalmAnswer DEF Codes
  <2>2. QuietStep
    BY <1>3, <1>4, <2>1 DEF QuietStep
  <2>. QED  BY <2>2, ApprovalQuiet
<1>5. ASSUME InsertStamp(VersId(q), NextStampRec(q)),
             NEW rest \in SUBSET StampTypes,
             Await(r, IF rest = {} THEN "insertLinks" ELSE "insertStamps",
                   [q EXCEPT !.stampsTodo = rest])
      PROVE  ApprovalInv'
  <2>1. PICK x \in Request : x = [q EXCEPT !.stampsTodo = rest]
    BY DEF Request
  <2>2. PICK pc \in {"insertLinks", "insertStamps"} : Await(r, pc, x)
    BY <1>5, <2>1
  <2>3. /\ reqs'[r] = [x EXCEPT !.pc = pc]
        /\ \A p \in Reqs \ {r} : reqs'[p] = reqs[p]
    BY <2>2, AwaitEffect DEF Pcs, QueryPcs
  <2>4. Calm(reqs'[r])
    BY <2>3 DEF Calm, Request
  <2>5. NextStampRec(q) \in StampTypes /\ NextStampRec(q) # Accepted
    BY DEF NextStampRec, StampTypes, Unapproved, DoiRequest, Accepted
  <2>. QED  BY <1>2, <1>3, <1>5, <2>3, <2>4, <2>5, ApprovalInsert
<1>6. q.stampsTodo \ {NextStampRec(q)} \in SUBSET StampTypes
  BY DEF Request
<1>. QED  BY <1>1, <1>4, <1>5, <1>6 DEF InsertStamps

(* A PATCH inserts its stamp.                                              *)
LEMMA ApprovalAddStamp ==
    ASSUME NEW r \in Reqs, TypeInv, ApprovalInv, AddStamp(r)
    PROVE  ApprovalInv'
<1>. USE DEF TypeInv, TypeOK
<1>1. PICK q \in Request : q = reqs[r]
  OBVIOUS
<1>2. /\ q.pc = "addStamp" /\ Stored(VersId(q)) /\ VersId(q) \in VersIds
      /\ q.stamp \in StampTypes
  BY <1>1, TrafficAssumption DEF AddStamp, RequestOK, PatchPcs, QueryPcs, Stored, DbTypeOK
<1>3. UNCHANGED annoData /\ InsertStamp(VersId(q), q.stamp)
  BY <1>1 DEF AddStamp
<1>4. q.stamp = Accepted => SunsetUpTo(VersId(q)[1], VersId(q)[2])
  BY <1>1, <1>2 DEF ApprovalInv, SunsetOK, VersId
<1>5. PICK dupe \in BOOLEAN :
        \/ q.stamp = Accepted
           /\ Await(r, "cleanupAfterAdd", [q EXCEPT !.dupe = dupe])
        \/ Respond(r, AnswerCode(dupe))
  BY <1>1, AddStampAwaits
<1>6. CASE Respond(r, AnswerCode(dupe))
  <2>1. AnswerCode(dupe) \in Codes
    BY DEF AnswerCode, Codes
  <2>2. Calm(reqs'[r]) /\ \A p \in Reqs \ {r} : reqs'[p] = reqs[p]
    BY <1>6, <2>1, RespondEffect DEF Calm
  <2>. QED  BY <1>2, <1>3, <1>4, <2>2, ApprovalInsert
<1>7. CASE q.stamp = Accepted
           /\ Await(r, "cleanupAfterAdd", [q EXCEPT !.dupe = dupe])
  <2>1. PICK x \in Request : x = [q EXCEPT !.dupe = dupe]
    BY DEF Request
  <2>2. /\ reqs'[r] = [x EXCEPT !.pc = "cleanupAfterAdd"]
        /\ \A p \in Reqs \ {r} : reqs'[p] = reqs[p]
    BY <1>7, <2>1, AwaitEffect DEF Pcs, QueryPcs
  <2>3. reqs'[r].pc = "cleanupAfterAdd" /\ VersId(reqs'[r]) = VersId(q)
    BY <2>1, <2>2 DEF Request, VersId
  <2>. QED  BY <1>2, <1>3, <1>4, <1>7, <2>2, <2>3, ApprovalInsert
<1>. QED  BY <1>5, <1>6, <1>7

(* Stamps are deleted, but dc:dateAccepted and as:deleted are not, and the *)
(* request does not wait to insert dc:dateAccepted then.                   *)
LEMMA ApprovalDelete ==
    ASSUME NEW v \in VersIds, NEW t \in {Unapproved, DoiRequest},
           TypeInv, ApprovalInv, DeleteStamp(v, t),
           UNCHANGED <<annoData, heldLate>>, CalmMoves
    PROVE  ApprovalInv'
<1>. USE DEF TypeInv, TypeOK, DbTypeOK
<1>1. \A w \in VersIds :
        /\ annoStamps'[w] \subseteq annoStamps[w]
        /\ annoStamps[w] \ {t} \subseteq annoStamps'[w]
  BY DEF DeleteStamp
<1>2. t # Accepted /\ t # Deleted
  BY DEF Unapproved, DoiRequest, Accepted, Deleted
<1>3. ASSUME NEW b \in BaseIds, NEW n \in 1..MaxVersNum, SunsetUpTo(b, n)
      PROVE  SunsetUpTo(b, n)'
  BY <1>1, <1>2, <1>3 DEF SunsetUpTo, VersIds
<1>4. StampsOK'
  BY <1>1 DEF ApprovalInv, StampsOK, Stored
<1>5. SunsetComplete'
  BY <1>1, <1>2 DEF ApprovalInv, SunsetComplete, VersIds
<1>6. ASSUME NEW p \in Reqs
      PROVE  SunsetOK(reqs[p])' /\ CleanupOK(reqs[p])'
  <2>1. CASE reqs'[p] = reqs[p]
    <3>1. ASSUME reqs[p].pc \in PatchPcs
          PROVE  /\ VersId(reqs[p]) \in VersIds
                 /\ reqs[p].base \in BaseIds
                 /\ reqs[p].vernum \in 1..MaxVersNum
      BY <3>1 DEF RequestOK, Stored, VersId, VersIds
    <3>2. SunsetOK(reqs[p])'
      BY <1>3, <2>1, <3>1 DEF ApprovalInv, SunsetOK, PatchPcs
    <3>3. CleanupOK(reqs[p])'
      BY <1>1, <1>2, <2>1, <3>1 DEF ApprovalInv, CleanupOK, PatchPcs, VersId
    <3>. QED  BY <3>2, <3>3
  <2>2. CASE Calm(reqs'[p])
    BY <2>2 DEF Calm, SunsetOK, CleanupOK
  <2>. QED  BY <2>1, <2>2 DEF CalmMoves
<1>. QED  BY <1>4, <1>5, <1>6 DEF ApprovalInv

(* The sunset of the earlier versions, before the insert of the stamp.     *)
LEMMA ApprovalSunset ==
    ASSUME NEW r \in Reqs, TypeInv, ApprovalInv,
           NEW b \in BaseIds, NEW n \in 1..MaxVersNum,
           SunsetUndecidedEarlierVersions(b, n),
           UNCHANGED <<annoData, heldLate>>,
           \A p \in Reqs \ {r} : reqs'[p] = reqs[p],
           reqs'[r].pc = "addStamp", VersId(reqs'[r]) = <<b, n>>
    PROVE  ApprovalInv'
<1>. USE DEF TypeInv, TypeOK, DbTypeOK
<1>1. \A w \in VersIds :
        /\ annoStamps[w] \subseteq annoStamps'[w]
        /\ annoStamps'[w] \subseteq annoStamps[w] \cup {Deleted}
        /\ annoStamps'[w] # annoStamps[w] => Stored(w)
  BY DEF SunsetUndecidedEarlierVersions
<1>2. Deleted # Accepted /\ Deleted # Unapproved
  BY DEF Unapproved, Accepted, Deleted
<1>3. ASSUME NEW c \in BaseIds, NEW k \in 1..MaxVersNum, SunsetUpTo(c, k)
      PROVE  SunsetUpTo(c, k)'
  BY <1>1, <1>2, <1>3 DEF SunsetUpTo, VersIds
<1>4. StampsOK'
  BY <1>1 DEF ApprovalInv, StampsOK, Stored
<1>5. SunsetComplete'
  BY <1>1, <1>2 DEF ApprovalInv, SunsetComplete, VersIds
<1>6. SunsetUpTo(b, n)'
  <2>. SUFFICES ASSUME NEW m \in 1..MaxVersNum, m < n,
                       Unapproved \in annoStamps'[<<b, m>>]
                PROVE  Deleted \in annoStamps'[<<b, m>>]
    BY DEF SunsetUpTo
  <2>1. <<b, m>> \in VersIds
    BY DEF VersIds
  <2>2. Unapproved \in annoStamps[<<b, m>>]
    BY <1>1, <1>2, <2>1
  <2>3. Stored(<<b, m>>)
    BY <2>1, <2>2 DEF ApprovalInv, StampsOK
  <2>. QED  BY <2>1, <2>2, <2>3 DEF SunsetUndecidedEarlierVersions
<1>7. ASSUME NEW p \in Reqs
      PROVE  SunsetOK(reqs[p])' /\ CleanupOK(reqs[p])'
  <2>1. CASE p # r
    <3>1. ASSUME reqs[p].pc \in PatchPcs
          PROVE  /\ VersId(reqs[p]) \in VersIds
                 /\ reqs[p].base \in BaseIds
                 /\ reqs[p].vernum \in 1..MaxVersNum
      BY <3>1 DEF RequestOK, Stored, VersId, VersIds
    <3>2. SunsetOK(reqs[p])'
      BY <1>3, <2>1, <3>1 DEF ApprovalInv, SunsetOK, PatchPcs
    <3>3. CleanupOK(reqs[p])'
      BY <1>1, <2>1, <3>1 DEF ApprovalInv, CleanupOK, PatchPcs, VersId
    <3>. QED  BY <3>2, <3>3
  <2>2. CASE p = r
    BY <1>6, <2>2 DEF SunsetOK, CleanupOK, VersId
  <2>. QED  BY <2>1, <2>2
<1>. QED  BY <1>4, <1>5, <1>7 DEF ApprovalInv

LEMMA ApprovalPrepareAdd ==
    ASSUME NEW r \in Reqs, TypeInv, ApprovalInv, PrepareAdd(r)
    PROVE  ApprovalInv'
<1>. USE DEF TypeInv, TypeOK
<1>1. PICK q \in Request : q = reqs[r]
  OBVIOUS
<1>2. q.pc = "prepareAdd" /\ Stored(VersId(q)) /\ VersId(q) \in VersIds
  BY <1>1 DEF PrepareAdd, RequestOK, PatchPcs, Stored, DbTypeOK
<1>3. q.base \in BaseIds /\ q.vernum \in 1..MaxVersNum
  BY <1>2 DEF VersId, VersIds
<1>4. UNCHANGED <<annoData, annoLinks, heldLate>> /\ Await(r, "addStamp", q)
  BY <1>1 DEF PrepareAdd
<1>5. /\ reqs'[r] = [q EXCEPT !.pc = "addStamp"]
      /\ \A p \in Reqs \ {r} : reqs'[p] = reqs[p]
  BY <1>4, AwaitEffect DEF Pcs, QueryPcs
<1>6. CASE SunsetUndecidedEarlierVersions(q.base, q.vernum)
  <2>1. reqs'[r].pc = "addStamp" /\ VersId(reqs'[r]) = <<q.base, q.vernum>>
    BY <1>5 DEF Request, VersId
  <2>. QED  BY <1>3, <1>4, <1>5, <1>6, <2>1, ApprovalSunset
<1>7. CASE q.stamp = Doi /\ DeleteStamp(VersId(q), DoiRequest)
  <2>1. Doi # Accepted
    BY DEF Doi, Accepted
  <2>2. CalmMoves
    BY <1>4, <1>7, <2>1, CalmAwait DEF Pcs, QueryPcs
  <2>. QED  BY <1>2, <1>4, <1>7, <2>2, ApprovalDelete
<1>. QED  BY <1>1, <1>6, <1>7 DEF PrepareAdd

LEMMA ApprovalCleanup ==
    ASSUME NEW r \in Reqs, TypeInv, ApprovalInv, CleanupAfterAdd(r)
    PROVE  ApprovalInv'
<1>. USE DEF TypeInv, TypeOK
<1>1. VersId(reqs[r]) \in VersIds
  BY DEF CleanupAfterAdd, RequestOK, PatchPcs, Stored, DbTypeOK
<1>2. AnswerCode(reqs[r].dupe) \in Codes
  BY DEF AnswerCode, Codes
<1>3. CalmMoves
  BY <1>2, CalmAnswer DEF CleanupAfterAdd
<1>. QED  BY <1>1, <1>3, ApprovalDelete DEF CleanupAfterAdd

LEMMA ApprovalNext == TypeInv /\ ApprovalInv /\ [Next]_vars => ApprovalInv'
BY QuietOrStamps, ApprovalQuiet, ApprovalInsertStamps, ApprovalPrepareAdd,
   ApprovalAddStamp, ApprovalCleanup DEF StampStep

LEMMA ApprovalInit == Init => ApprovalInv
<1>1. NoReq.pc = "idle"
  BY DEF NoReq
<1>2. \A b \in BaseIds, n \in 1..MaxVersNum : <<b, n>> \in VersIds
  BY DEF VersIds
<1>. QED  BY <1>1, <1>2
          DEF Init, DbInit, ReqInit, ApprovalInv, SunsetComplete, StampsOK,
              SunsetOK, CleanupOK

LEMMA ApprovalInvariant == Spec => [](TypeInv /\ ApprovalInv)
<1>1. TypeInv /\ ApprovalInv /\ [Next]_vars => (TypeInv /\ ApprovalInv)'
  BY TypeNext, ApprovalNext
<1>. QED  BY TypeInit, ApprovalInit, <1>1, PTL DEF Spec
-------------------------------------------------------------------------------
(* An accepted version leaves no earlier one undecided, even if the PATCH  *)
(* that accepted it died: the sunset comes before the insert of the stamp, *)
(* and what is held after that is accounted for by heldLate.               *)
THEOREM SunsetIsComplete == Spec => []SunsetComplete
<1>1. ApprovalInv => SunsetComplete
  BY DEF ApprovalInv
<1>. QED  BY <1>1, ApprovalInvariant, PTL

(* Nothing but an approval discloses a version: the only step that takes   *)
(* the unapproved stamp away is the cleanup of a PATCH that has inserted   *)
(* dc:dateAccepted before.                                                 *)
THEOREM OnlyApprovalDiscloses == Spec => DisclosedOnlyByApproval
<1>. DEFINE NoDisclosure == \A v \in VersIds :
        Unapproved \in annoStamps[v] /\ Unapproved \notin annoStamps'[v]
            => Accepted \in annoStamps[v]
<1>1. ASSUME TypeInv, ApprovalInv, [Next]_vars
      PROVE  NoDisclosure
  <2>0. annoStamps \in [VersIds -> SUBSET StampTypes]
    BY <1>1 DEF TypeInv, TypeOK, DbTypeOK
  <2>1. ASSUME \A w \in VersIds : annoStamps[w] \ {DoiRequest} \subseteq annoStamps'[w]
        PROVE  NoDisclosure
    BY <2>1 DEF DoiRequest, Unapproved
  <2>2. CASE QuietStep
    BY <2>1, <2>2 DEF QuietStep
  <2>3. ASSUME NEW v, NEW t, InsertStamp(v, t)
        PROVE  NoDisclosure
    BY <2>0, <2>1, <2>3 DEF InsertStamp
  <2>4. ASSUME NEW r \in Reqs, InsertStamps(r)
        PROVE  NoDisclosure
    BY <2>1, <2>3, <2>4 DEF InsertStamps
  <2>5. ASSUME NEW r \in Reqs, AddStamp(r)
        PROVE  NoDisclosure
    BY <2>3, <2>5 DEF AddStamp
  <2>6. ASSUME NEW r \in Reqs, PrepareAdd(r)
        PROVE  NoDisclosure
    <3>1. \/ DeleteStamp(VersId(reqs[r]), DoiRequest)
          \/ SunsetUndecidedEarlierVersions(reqs[r].base, reqs[r].vernum)
      BY <2>6 DEF PrepareAdd
    <3>. QED  BY <2>0, <2>1, <3>1
              DEF SunsetUndecidedEarlierVersions, DeleteStamp
  <2>7. ASSUME NEW r \in Reqs, CleanupAfterAdd(r)
        PROVE  NoDisclosure
    <3>1. Accepted \in annoStamps[VersId(reqs[r])]
      BY <1>1, <2>7 DEF CleanupAfterAdd, ApprovalInv, CleanupOK
    <3>2. DeleteStamp(VersId(reqs[r]), Unapproved)
      BY <2>7 DEF CleanupAfterAdd
    <3>. QED  BY <2>0, <3>1, <3>2 DEF DeleteStamp
  <2>. QED  BY <1>1, <2>2, <2>4, <2>5, <2>6, <2>7, QuietOrStamps DEF StampStep
<1>2. TypeInv /\ ApprovalInv /\ [Next]_vars => [NoDisclosure]_vars
  BY <1>1
<1>. QED  BY <1>2, ApprovalInvariant, PTL DEF Spec, DisclosedOnlyByApproval
===============================================================================
