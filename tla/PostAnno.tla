------------------------------- MODULE PostAnno -------------------------------
(***************************************************************************)
(* POST /anno/: a new annotation, or a new version of one.  The checks     *)
(* come first, then the handler inserts the data, the stamps and the links *)
(* one row at a time.                                                      *)
(***************************************************************************)
EXTENDS ExactLookup

SubjectsOf(links) == links \cap SubjectLinks
RepliesOf(links)  == links \cap ReplyLinks

(* replaces is 0 for a new annotation, else the version number in the      *)
(* submission's dc:replaces.                                               *)
RevisePrivilege(q) ==
    IF Authorized(q.user, q.draft) THEN "revise_own" ELSE "revise_any"

PostActionPrivName(q, replaces) ==
    IF replaces > 0 THEN <<RevisePrivilege(q)>>
    ELSE IF RepliesOf(q.links) # {} THEN <<"reply">>
    ELSE <<"create">>

(* The checks before the first query: 0, or the status of the refusal.     *)
PostVerdict(q, replaces) ==
    IF \/ q.draft["creator"] = Absent
       \/ \E l, m \in RepliesOf(q.links) : l # m
    THEN 400
    ELSE IF \/ ~Allowed(q.user, PostActionPrivName(q, replaces))
            \/ replaces = 0 /\ ~Authorized(q.user, q.draft)
    THEN 403
    ELSE 0

(* A seeded bug: only new annotations are held, revisions are not.         *)
StampRecsForNewOnly(q, seen) ==
    {t \in {Unapproved} : q.user \notin Trusted /\ q.vernum = 0}
    \cup {t \in {DoiRequest} : AutoDoi /\ Doi \in seen}

(* decideStamps()                                                          *)
StampRecs(q, seen) ==
    {t \in {Unapproved} : q.user \notin Trusted}
    \cup {t \in {DoiRequest} : AutoDoi /\ Doi \in seen}

(* A seeded bug: the number is incremented twice.                          *)
AwaitInsertDataSkips(r, q, vernum, seen) ==
    \E now \in Times :
        Await(r, "insertData",
              [q EXCEPT !.vernum = vernum + 1, !.stampsTodo = StampRecs(q, seen),
                        !.linksTodo = q.links, !.time = now])

AwaitInsertData(r, q, vernum, seen) ==
    \E now \in Times :
        Await(r, "insertData",
              [q EXCEPT !.vernum = vernum, !.stampsTodo = StampRecs(q, seen),
                        !.linksTodo = q.links, !.time = now])

(* What the author changed in the version that the submission replaces;    *)
(* everything, if that version did not exist when the draft was sent.      *)
EditedFields(b, n, draft) ==
    {f \in Fields :
        Stored(<<b, n>>) => draft[f] # annoData[<<b, n>>].details[f]}

ReceivePost(r) ==
    /\ reqs[r].pc = "idle"
    /\ \E u \in Posters, d \in Drafts, L \in LinkSets, b \in BaseIds,
          n \in 0..MaxVersNum :
         LET q == [NoReq EXCEPT !.op = "post", !.user = u, !.draft = d,
                                !.links = L, !.base = b, !.vernum = n,
                                !.edited = EditedFields(b, n, d)]
             verdict == PostVerdict(q, n)
         IN  \/ verdict # 0 /\ Respond(r, verdict)
             \/ verdict = 0 /\ n = 0 /\ AwaitInsertData(r, q, 1, {})
             \/ verdict = 0 /\ n > 0 /\ Await(r, "findLatest", q)
    /\ UNCHANGED dbVars

-------------------------------------------------------------------------------
(* A seeded bug: a stale draft is moved on top of the latest version.      *)
RebaseForRevision(r) ==
    LET q == reqs[r] IN
    /\ q.pc = "findLatest"
    /\ q.op = "post"
    /\ \/ VersNums(q.base) = {} /\ Respond(r, 404)
       \/ \E latest \in VersNums(q.base) :
            /\ IsSqlMax(latest, VersNums(q.base))
            /\ Await(r, "lookupDetails", [q EXCEPT !.vernum = latest])
    /\ UNCHANGED dbVars

(* A revision must replace the version that is the latest one now.         *)
FindLatestForRevision(r) ==
    LET q == reqs[r] IN
    /\ q.pc = "findLatest"
    /\ q.op = "post"
    /\ \/ VersNums(q.base) = {} /\ Respond(r, 404)
       \/ \E latest \in VersNums(q.base) :
            /\ IsSqlMax(latest, VersNums(q.base))
            /\ \/ q.vernum # latest /\ Respond(r, 400)
               \/ q.vernum = latest /\ Await(r, "lookupDetails", q)
    /\ UNCHANGED dbVars

OmittedFields(q, old) ==
    {f \in Fields : old.details[f] # Absent /\ q.draft[f] = Absent}

ChangedFields(q, old) ==
    {f \in Fields : q.draft[f] # Absent /\ q.draft[f] # old.details[f]}

(* The privilege that covers a change of these fields.  dc:language needs  *)
(* none, a change of any other field has no way to be allowed.             *)
PermOfField == [f \in {"creator", "body", "dc:title", "rights"} |->
                    IF f = "dc:title" THEN "body" ELSE f]

(* A seeded bug: the loss of a target needs no privilege.                  *)
PrivilegesWithoutTargetDel(q, old) ==
    {<<RevisePrivilege(q), PermOfField[f]>> :
        f \in ChangedFields(q, old) \cap DOMAIN PermOfField}
    \cup {<<RevisePrivilege(q), p>> : p \in
            {t \in {"target_add"} :
                SubjectsOf(q.links) \ SubjectsOf(old.links) # {}}}

PrivilegesForChange(q, old) ==
    LET subjects == SubjectsOf(q.links)
        before   == SubjectsOf(old.links)
        needed   == {PermOfField[f] :
                        f \in ChangedFields(q, old) \cap DOMAIN PermOfField}
                    \cup {p \in {"target_del"} : before \ subjects # {}}
                    \cup {p \in {"target_add"} : subjects \ before # {}}
    IN  {<<RevisePrivilege(q), p>> : p \in needed}

RevisionVerdict(q, old) ==
    IF \/ OmittedFields(q, old) # {}
       \/ RepliesOf(old.links) # {} /\ RepliesOf(q.links) = {}
       \/ ChangedFields(q, old) = {} /\ q.links = old.links
    THEN 400
    ELSE IF \E p \in PrivilegesForChange(q, old) : ~Allowed(q.user, p)
    THEN 403
    ELSE IF \/ ~(ChangedFields(q, old) \subseteq
                 DOMAIN PermOfField \cup {"dc:language"})
            \/ RepliesOf(q.links) # RepliesOf(old.links)
    THEN 400
    ELSE IF q.user \notin KnownUsers  \* 'Author lookup failed ...'
    THEN 500
    ELSE 0

(* What is not changed is inherited.                                       *)
MergedDetails(q, old) ==
    [f \in Fields |-> IF f \in ChangedFields(q, old) THEN q.draft[f]
                      ELSE old.details[f]]

ReviseChecked(r) ==
    LET q == reqs[r] IN
    /\ q.op = "post"
    /\ \E seen \in SUBSET StampTypes :
         /\ LookupServes(q, seen)
         /\ LET old     == annoData[VersId(q)]
                verdict == RevisionVerdict(q, old)
                merged  == [q EXCEPT !.draft = MergedDetails(q, old)]
            IN  \/ verdict # 0 /\ Respond(r, verdict)
                \/ verdict = 0 /\ AwaitInsertData(r, merged, q.vernum + 1, seen)
    /\ UNCHANGED dbVars

-------------------------------------------------------------------------------
NewRow(q) == [author |-> q.user, details |-> q.draft, links |-> q.links,
              edited |-> q.edited, time |-> q.time]

(* Two seeded bugs in the schema: a wider column, and no primary key.      *)
RefusedByKeyOnly(q)    == Stored(VersId(q))
RefusedByColumnOnly(q) == q.vernum > MaxVersNum

(* The database refuses a number that the column cannot hold, and the      *)
(* primary key decides between two requests that want the same number.     *)
RefusedByTable(q) == q.vernum > MaxVersNum \/ Stored(VersId(q))

InsertAnnoData(r) ==
    LET q == reqs[r] IN
    /\ q.pc = "insertData"
    /\ \/ /\ RefusedByTable(q)
          /\ Respond(r, 500)
          /\ UNCHANGED annoData
       \/ /\ ~RefusedByTable(q)
          /\ InsertData(VersId(q), NewRow(q))
          /\ Await(r, IF q.stampsTodo = {} THEN "insertLinks"
                      ELSE "insertStamps", q)
    /\ UNCHANGED <<annoStamps, annoLinks, heldLate>>

(* decideStamps() lists the unapproved stamp first.                        *)
NextStampRec(q) ==
    IF Unapproved \in q.stampsTodo THEN Unapproved ELSE DoiRequest

(* A seeded bug: the handler answers as soon as the stamps are inserted.   *)
InsertStampsOnly(r) ==
    LET q == reqs[r]
        t == NextStampRec(q)
    IN
    /\ q.pc = "insertStamps"
    /\ InsertStamp(VersId(q), t)
    /\ Respond(r, 201)
    /\ UNCHANGED <<annoData, annoLinks>>

InsertStamps(r) ==
    LET q == reqs[r]
        t == NextStampRec(q)
        rest == q.stampsTodo \ {t}
    IN
    /\ q.pc = "insertStamps"
    /\ \/ /\ t \in annoStamps[VersId(q)]
          /\ Respond(r, 500)
          /\ UNCHANGED <<annoStamps, heldLate>>
       \/ /\ t \notin annoStamps[VersId(q)]
          /\ InsertStamp(VersId(q), t)
          /\ Await(r, IF rest = {} THEN "insertLinks" ELSE "insertStamps",
                   [q EXCEPT !.stampsTodo = rest])
    /\ UNCHANGED <<annoData, annoLinks>>

(* Two seeded bugs: the handler answers after the first link, or never     *)
(* takes a link off its list.                                              *)
InsertLinksTooFew(r) ==
    LET q == reqs[r] IN
    /\ q.pc = "insertLinks"
    /\ \E l \in q.linksTodo : InsertLink(VersId(q), l)
    /\ Respond(r, 201)
    /\ UNCHANGED <<annoData, annoStamps, heldLate>>

InsertLinksForever(r) ==
    LET q == reqs[r] IN
    /\ q.pc = "insertLinks"
    /\ \E l \in q.linksTodo : InsertLink(VersId(q), l)
    /\ Await(r, "insertLinks", q)
    /\ UNCHANGED <<annoData, annoStamps, heldLate>>

(* The subject targets first, then the reply target.                       *)
InsertLinks(r) ==
    LET q == reqs[r] IN
    /\ q.pc = "insertLinks"
    /\ \E l \in q.linksTodo :
         /\ l \in ReplyLinks => q.linksTodo \cap SubjectLinks = {}
         /\ InsertLink(VersId(q), l)
         /\ IF q.linksTodo = {l}
            THEN Respond(r, 201)
            ELSE Await(r, "insertLinks", [q EXCEPT !.linksTodo = @ \ {l}])
    /\ UNCHANGED <<annoData, annoStamps, heldLate>>
===============================================================================
