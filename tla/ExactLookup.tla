------------------------------ MODULE ExactLookup ------------------------------
(***************************************************************************)
(* lookupExactVersion(), shared by GET, PATCH and revising POST: one query *)
(* for the annotation's details, a second one for its stamps, and then the *)
(* decision whether this reader may have that version.                     *)
(***************************************************************************)
EXTENDS AnnoRequest

(* First query.  An unknown version is reported as such to those who may   *)
(* look up targets; for the others the handler trips over the missing row  *)
(* and fails.                                                              *)
LookupDetails(r) ==
    LET q == reqs[r] IN
    /\ q.pc = "lookupDetails"
    /\ IF Stored(VersId(q))
       THEN Await(r, "lookupStamps", q)
       ELSE Respond(r, IF Allowed(q.user, <<"lookupAnnoTargets">>)
                       THEN 404 ELSE 500)
    /\ UNCHANGED dbVars

(* overrideRoleName: a revising POST reads without any role, and may read  *)
(* unapproved versions.                                                    *)
EffectiveRole(q) == IF q.op = "post" THEN "" ELSE q.role

(* A seeded bug: authors see their unapproved versions in every role.      *)
MayReadOwnUnapproved(q) ==
    \/ q.op = "post"
    \/ q.role = "approver"
    \/ q.user # Anonymous /\ q.user = annoData[VersId(q)].author

MayReadUnapproved(q) ==
    \/ q.op = "post"
    \/ q.role = "approver"
    \/ /\ q.role = "author"
       /\ q.user # Anonymous
       /\ q.user = annoData[VersId(q)].author

(* The answer of the lookup to a handler that saw these stamps: 200 or the *)
(* status of the error thrown, in the order of the checks.                 *)
LookupVerdict(q, seen) ==
    IF Deleted \in seen THEN 410
    ELSE IF ~MayRead(q.user, annoData[VersId(q)]) THEN 403
    ELSE IF EffectiveRole(q) \notin {"", "approver", "author"}
         THEN (IF q.op = "get" THEN 404 ELSE 405)
    ELSE IF EffectiveRole(q) = "approver"
            /\ ~Allowed(q.user, <<"stamp_any_add", Accepted>>) THEN 403
    ELSE IF Unapproved \in seen /\ ~MayReadUnapproved(q) THEN 404
    ELSE 200

(* Second query, and it leads to an error.                                 *)
LookupRefused(r) ==
    LET q == reqs[r] IN
    /\ q.pc = "lookupStamps"
    /\ \E seen \in StampsLimit2(VersId(q)) :
         /\ LookupVerdict(q, seen) # 200
         /\ Respond(r, LookupVerdict(q, seen))
    /\ UNCHANGED dbVars

(* Second query, and the handler that asked goes on: a conjunct of the     *)
(* actions that continue each handler.                                     *)
LookupServes(q, seen) ==
    /\ q.pc = "lookupStamps"
    /\ seen \in StampsLimit2(VersId(q))
    /\ LookupVerdict(q, seen) = 200
===============================================================================
