-------------------------------- MODULE GetAnno --------------------------------
(***************************************************************************)
(* GET and HEAD of an annotation: /anno/<base> redirects to the latest     *)
(* version that the role in the URL may see, /anno/<base>~<n> serves that  *)
(* version.                                                                *)
(***************************************************************************)
EXTENDS ExactLookup

ReceiveGet(r) ==
    /\ reqs[r].pc = "idle"
    /\ \E u \in Readers, role \in Roles, b \in BaseIds, n \in 0..MaxVersNum :
         LET q == [NoReq EXCEPT !.op = "get", !.user = u, !.role = role,
                                !.base = b, !.vernum = n] IN
         Await(r, IF n = 0 THEN "findLatest" ELSE "lookupDetails", q)
    /\ UNCHANGED dbVars

(* The version numbers of which the redirect takes the greatest one.  An   *)
(* anonymous user owns nothing.                                            *)
RedirectChoice(q) ==
    IF q.role = "approver" THEN VersNums(q.base)
    ELSE IF q.role = "author" THEN Disclosed(q.base) \cup
              {n \in Own(q.base, q.user) : q.user # Anonymous}
    ELSE Disclosed(q.base)

RedirToLatestVersion(r) ==
    LET q == reqs[r] IN
    /\ q.pc = "findLatest"
    /\ q.op = "get"
    /\ \/ /\ q.role \notin {"", "approver", "author"} \/ RedirectChoice(q) = {}
          /\ Respond(r, 404)
       \/ /\ q.role \in {"", "approver", "author"}
          /\ \E n \in RedirectChoice(q) :
               /\ IsSqlMax(n, RedirectChoice(q))
               /\ Redirect(r, n)
    /\ UNCHANGED dbVars

ServeExactVersion(r) ==
    LET q == reqs[r] IN
    /\ q.op = "get"
    /\ \E seen \in SUBSET StampTypes : LookupServes(q, seen)
    /\ Respond(r, 200)
    /\ UNCHANGED dbVars
===============================================================================
