------------------------------- MODULE PatchAnno -------------------------------
(***************************************************************************)
(* PATCH of one version: addStamp(), with the side effects that approving  *)
(* it and assigning a DOI to it have before and after the stamp's insert.  *)
(***************************************************************************)
EXTENDS ExactLookup

(* roleByStamp: a retraction always acts as approver.  Its other entry     *)
(* names a stamp, dc:dateApproved, that nothing else in the server uses.   *)
RoleForStamp(type, roleInUrl) ==
    IF type = Deleted THEN "approver" ELSE roleInUrl

ReceivePatch(r) ==
    /\ reqs[r].pc = "idle"
    /\ \E u \in Stampers, role \in Roles, type \in PatchStamps,
          b \in BaseIds, n \in 1..MaxVersNum :
         Await(r, "lookupDetails",
               [NoReq EXCEPT !.op = "patch", !.user = u, !.base = b,
                             !.vernum = n, !.stamp = type,
                             !.role = RoleForStamp(type, role)])
    /\ UNCHANGED dbVars

(* patchAnno() detects the user without the details, so that no author is  *)
(* ever recognised and the privilege asked for is always the `any` one.    *)
StampPrivilege(q) == <<"stamp_any_add", q.stamp>>

HasPreparation(type) == type \in {Accepted, Doi}

StampChecked(r) ==
    LET q == reqs[r] IN
    /\ q.op = "patch"
    /\ \E seen \in SUBSET StampTypes : LookupServes(q, seen)
    /\ IF Allowed(q.user, StampPrivilege(q))
       THEN Await(r, IF HasPreparation(q.stamp) THEN "prepareAdd"
                     ELSE "addStamp", q)
       ELSE Respond(r, 403)
    /\ UNCHANGED dbVars

-------------------------------------------------------------------------------
(* A seeded bug: the unapproved stamp goes before the accepted one comes.  *)
PrepareAddDiscloses(r) ==
    LET q == reqs[r] IN
    /\ q.pc = "prepareAdd"
    /\ DeleteStamp(VersId(q), IF q.stamp = Doi THEN DoiRequest ELSE Unapproved)
    /\ Await(r, "addStamp", q)
    /\ UNCHANGED <<annoData, annoLinks, heldLate>>

(* stampFx.prepareAdd                                                      *)
PrepareAdd(r) ==
    LET q == reqs[r] IN
    /\ q.pc = "prepareAdd"
    /\ \/ /\ q.stamp = Accepted
          /\ SunsetUndecidedEarlierVersions(q.base, q.vernum)
       \/ /\ q.stamp = Doi
          /\ DeleteStamp(VersId(q), DoiRequest)
    /\ Await(r, "addStamp", q)
    /\ UNCHANGED <<annoData, annoLinks, heldLate>>

AnswerCode(dupe) == IF dupe THEN 409 ELSE 200

(* A seeded bug: a DOI is refused when nobody requests it any more.        *)
AddStampIfRequested(r) ==
    LET q == reqs[r] IN
    /\ q.pc = "addStamp"
    /\ IF q.stamp = Doi /\ DoiRequest \notin annoStamps[VersId(q)]
       THEN UNCHANGED <<annoStamps, heldLate>>
       ELSE InsertStamp(VersId(q), q.stamp)
    /\ Respond(r, 200)
    /\ UNCHANGED <<annoData, annoLinks>>

(* A seeded bug: a duplicate is refused at once.                           *)
AddStampNotAgain(r) ==
    LET q == reqs[r] IN
    /\ q.pc = "addStamp"
    /\ InsertStamp(VersId(q), q.stamp)
    /\ IF q.stamp = Accepted /\ Accepted \notin annoStamps[VersId(q)]
       THEN Await(r, "cleanupAfterAdd", q)
       ELSE Respond(r, AnswerCode(q.stamp \in annoStamps[VersId(q)]))
    /\ UNCHANGED <<annoData, annoLinks>>

(* A duplicate is not an error yet: the cleanup still runs.                *)
AddStamp(r) ==
    LET q == reqs[r]
        dupe == q.stamp \in annoStamps[VersId(q)]
    IN
    /\ q.pc = "addStamp"
    /\ InsertStamp(VersId(q), q.stamp)
    /\ IF q.stamp = Accepted
       THEN Await(r, "cleanupAfterAdd", [q EXCEPT !.dupe = dupe])
       ELSE Respond(r, AnswerCode(dupe))
    /\ UNCHANGED <<annoData, annoLinks>>

(* A seeded bug: the cleanup is forgotten.                                 *)
NoCleanupAfterAdd(r) ==
    /\ reqs[r].pc = "cleanupAfterAdd"
    /\ Respond(r, AnswerCode(reqs[r].dupe))
    /\ UNCHANGED dbVars

(* stampFx.cleanupAfterAdd: an accepted annotation is not unapproved.      *)
CleanupAfterAdd(r) ==
    LET q == reqs[r] IN
    /\ q.pc = "cleanupAfterAdd"
    /\ DeleteStamp(VersId(q), Unapproved)
    /\ Respond(r, AnswerCode(q.dupe))
    /\ UNCHANGED <<annoData, annoLinks, heldLate>>
===============================================================================
