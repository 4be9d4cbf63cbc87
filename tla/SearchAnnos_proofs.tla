----------------------------- MODULE SearchAnnos_proofs -----------------------------
(***************************************************************************)
(* Searches: for any number of concurrent requests, what has been found    *)
(* stays found, and, where no query fails, searches by target miss nothing *)
(* and show nothing that the reader may not see, and the approvers' feed   *)
(* serves first what came first; the list of versions agrees with the      *)
(* look-up of a version.                                                   *)
(***************************************************************************)
EXTENDS AnnoHold_proofs

(* What the inserts of a POST do to the tables and to its own request.     *)
LEMMA DataInserted ==
    ASSUME TypeInv, NEW r \in Reqs, InsertAnnoData(r),
           NEW q \in Request, q = reqs[r]
    PROVE  /\ UNCHANGED <<annoStamps, annoLinks>>
           /\ \A p \in Reqs \ {r} : reqs'[p] = reqs[p]
           /\ \/ UNCHANGED annoData /\ reqs'[r].pc = "respond"
              \/ /\ ~Stored(VersId(q)) /\ VersId(q) \in VersIds
                 /\ InsertData(VersId(q), NewRow(q))
                 /\ reqs'[r].pc = IF q.stampsTodo = {} THEN "insertLinks"
                                  ELSE "insertStamps"
                 /\ VersId(reqs'[r]) = VersId(q)
                 /\ reqs'[r].stampsTodo = q.stampsTodo
                 /\ reqs'[r].links = q.links
                 /\ reqs'[r].linksTodo = q.linksTodo
<1>. USE DEF TypeInv, TypeOK
<1>1. CASE RefusedByTable(q) /\ Respond(r, 500) /\ UNCHANGED annoData
  BY <1>1, RespondEffect DEF InsertAnnoData, Codes
<1>2. CASE /\ ~RefusedByTable(q)
           /\ InsertData(VersId(q), NewRow(q))
           /\ Await(r, IF q.stampsTodo = {} THEN "insertLinks"
                       ELSE "insertStamps", q)
  <2>1. PICK pc \in {"insertLinks", "insertStamps"} :
          /\ pc = IF q.stampsTodo = {} THEN "insertLinks" ELSE "insertStamps"
          /\ Await(r, pc, q)
    BY <1>2
  <2>2. /\ reqs'[r] = [q EXCEPT !.pc = pc]
        /\ \A p \in Reqs \ {r} : reqs'[p] = reqs[p]
    BY <2>1, AwaitEffect DEF Pcs, QueryPcs
  <2>3. PICK y : y = reqs'[r]
    OBVIOUS
  <2>4. /\ y.pc = pc /\ VersId(y) = VersId(q) /\ y.stampsTodo = q.stampsTodo
        /\ y.links = q.links /\ y.linksTodo = q.linksTodo
    BY <2>2, <2>3 DEF Request, VersId
  <2>5. VersId(q) \in VersIds
    <3>1. q.base \in BaseIds /\ q.vernum >= 1 /\ q.vernum \in 0..(MaxVersNum + 1)
      BY DEF InsertAnnoData, RequestOK, PostPcs, QueryPcs, Request
    <3>2. q.vernum \in 1..MaxVersNum
      BY <1>2, <3>1, MaxVersNumAssumption DEF RefusedByTable
    <3>. QED  BY <3>1, <3>2 DEF VersId, VersIds
  <2>. QED  BY <1>2, <2>1, <2>2, <2>3, <2>4, <2>5
            DEF InsertAnnoData, RefusedByTable
<1>. QED  BY <1>1, <1>2 DEF InsertAnnoData

LEMMA StampInserted ==
    ASSUME TypeInv, NEW r \in Reqs, InsertStamps(r),
           NEW q \in Request, q = reqs[r],
           NEW t, t = NextStampRec(q)
    PROVE  /\ UNCHANGED <<annoData, annoLinks>>
           /\ \A p \in Reqs \ {r} : reqs'[p] = reqs[p]
           /\ \/ /\ t \in annoStamps[VersId(q)]
                 /\ UNCHANGED annoStamps /\ reqs'[r].pc = "respond"
              \/ /\ InsertStamp(VersId(q), t)
                 /\ VersId(reqs'[r]) = VersId(q)
                 /\ reqs'[r].stampsTodo = q.stampsTodo \ {t}
                 /\ reqs'[r].links = q.links
                 /\ reqs'[r].linksTodo = q.linksTodo
                 /\ reqs'[r].pc = IF q.stampsTodo \ {t} = {} THEN "insertLinks"
                                  ELSE "insertStamps"
<1>. USE DEF TypeInv, TypeOK
<1>1. CASE t \in annoStamps[VersId(q)] /\ Respond(r, 500) /\ UNCHANGED annoStamps
  BY <1>1, RespondEffect DEF InsertStamps, Codes
<1>2. ASSUME NEW rest \in SUBSET StampTypes, rest = q.stampsTodo \ {t},
             InsertStamp(VersId(q), t),
             Await(r, IF rest = {} THEN "insertLinks" ELSE "insertStamps",
                   [q EXCEPT !.stampsTodo = rest])
      PROVE  /\ \A p \in Reqs \ {r} : reqs'[p] = reqs[p]
             /\ VersId(reqs'[r]) = VersId(q)
             /\ reqs'[r].stampsTodo = rest
             /\ reqs'[r].links = q.links
             /\ reqs'[r].linksTodo = q.linksTodo
             /\ reqs'[r].pc = IF rest = {} THEN "insertLinks" ELSE "insertStamps"
  <2>1. PICK x \in Request : x = [q EXCEPT !.stampsTodo = rest]
    BY DEF Request
  <2>2. PICK pc \in {"insertLinks", "insertStamps"} :
          /\ pc = IF rest = {} THEN "insertLinks" ELSE "insertStamps"
          /\ Await(r, pc, x)
    BY <1>2, <2>1
  <2>3. /\ reqs'[r] = [x EXCEPT !.pc = pc]
        /\ \A p \in Reqs \ {r} : reqs'[p] = reqs[p]
    BY <2>2, AwaitEffect DEF Pcs, QueryPcs
  <2>4. PICK y : y = reqs'[r]
    OBVIOUS
  <2>5. /\ y.pc = pc /\ VersId(y) = VersId(q) /\ y.stampsTodo = rest
        /\ y.links = q.links /\ y.linksTodo = q.linksTodo
    BY <2>1, <2>3, <2>4 DEF Request, VersId
  <2>. QED  BY <2>2, <2>3, <2>4, <2>5
<1>3. q.stampsTodo \ {t} \in SUBSET StampTypes
  BY DEF Request
<1>. QED  BY <1>1, <1>2, <1>3 DEF InsertStamps

LEMMA LinkInserted ==
    ASSUME TypeInv, NEW r \in Reqs, InsertLinks(r),
           NEW q \in Request, q = reqs[r]
    PROVE  /\ UNCHANGED <<annoData, annoStamps>>
           /\ \A p \in Reqs \ {r} : reqs'[p] = reqs[p]
           /\ VersId(q) \in VersIds /\ Stored(VersId(q))
           /\ \E l \in q.linksTodo :
                /\ l \in ReplyLinks => q.linksTodo \cap SubjectLinks = {}
                /\ annoLinks'[VersId(q)] = annoLinks[VersId(q)] \cup {l}
                /\ \A w \in VersIds \ {VersId(q)} : annoLinks'[w] = annoLinks[w]
                /\ \/ q.linksTodo = {l} /\ reqs'[r].pc = "respond"
                   \/ /\ reqs'[r].pc = "insertLinks"
                      /\ VersId(reqs'[r]) = VersId(q)
<1>. USE DEF TypeInv, TypeOK
<1>1. VersId(q) \in VersIds /\ Stored(VersId(q))
  BY DEF InsertLinks, RequestOK, Stored, DbTypeOK
<1>2. PICK l \in q.linksTodo :
        /\ l \in ReplyLinks => q.linksTodo \cap SubjectLinks = {}
        /\ InsertLink(VersId(q), l)
        /\ IF q.linksTodo = {l}
           THEN Respond(r, 201)
           ELSE Await(r, "insertLinks", [q EXCEPT !.linksTodo = @ \ {l}])
  BY DEF InsertLinks
<1>3. /\ annoLinks'[VersId(q)] = annoLinks[VersId(q)] \cup {l}
      /\ \A w \in VersIds \ {VersId(q)} : annoLinks'[w] = annoLinks[w]
  BY <1>1, <1>2 DEF InsertLink, DbTypeOK
<1>4. CASE q.linksTodo = {l} /\ Respond(r, 201)
  BY <1>1, <1>2, <1>3, <1>4, RespondEffect DEF InsertLinks, Codes
<1>5. CASE Await(r, "insertLinks", [q EXCEPT !.linksTodo = @ \ {l}])
  <2>1. PICK x \in Request : x = [q EXCEPT !.linksTodo = q.linksTodo \ {l}]
    <3>1. PICK rest \in SUBSET Links : rest = q.linksTodo \ {l}
      BY DEF Request
    <3>2. [q EXCEPT !.linksTodo = rest] \in Request
      BY ONLY q \in Request, rest \in SUBSET Links DEF Request
    <3>. QED  BY <3>1, <3>2
  <2>2. Await(r, "insertLinks", x)
    BY <1>5, <2>1
  <2>3. /\ reqs'[r] = [x EXCEPT !.pc = "insertLinks"]
        /\ \A p \in Reqs \ {r} : reqs'[p] = reqs[p]
    BY <2>2, AwaitEffect DEF Pcs, QueryPcs
  <2>4. PICK y : y = reqs'[r]
    OBVIOUS
  <2>5. y.pc = "insertLinks" /\ VersId(y) = VersId(q)
    BY <2>1, <2>3, <2>4 DEF Request, VersId
  <2>. QED  BY <1>1, <1>2, <1>3, <2>3, <2>4, <2>5 DEF InsertLinks
<1>. QED  BY <1>2, <1>4, <1>5
-------------------------------------------------------------------------------
(* SearchInv: it holds with faults as well.                                *)

(* One more version, and there still is a latest one of each annotation.   *)
LEMMA LatestGrows ==
    ASSUME NEW D \in SUBSET VersIds, NEW x \in VersIds,
           \A S \in SUBSET D : \A v \in S : Represented(v, LatestOnly(S)),
           NEW S \in SUBSET (D \cup {x}), NEW v \in S
    PROVE  Represented(v, LatestOnly(S))
<1>. DEFINE T == S \ {x}
<1>1. T \in SUBSET D
  OBVIOUS
<1>2. \A w \in S : w[2] \in Int
  BY DEF VersIds
<1>3. \A w \in T : \E u \in LatestOnly(T) : u[1] = w[1] /\ u[2] >= w[2]
  BY <1>1 DEF Represented
<1>4. LatestOnly(T) \subseteq T
  BY DEF LatestOnly
<1>5. ASSUME NEW w \in LatestOnly(T), x \in S => w[1] # x[1] \/ w[2] >= x[2]
      PROVE  w \in LatestOnly(S)
  <2>1. w \in S /\ \A u \in T : u[1] = w[1] => u[2] <= w[2]
    BY <1>4 DEF LatestOnly
  <2>2. ASSUME NEW u \in S, u[1] = w[1]
        PROVE  u[2] <= w[2]
    BY <1>2, <1>5, <2>1, <2>2
  <2>. QED  BY <2>1, <2>2 DEF LatestOnly
<1>6. ASSUME x \in S, \A u \in T : u[1] = x[1] => u[2] <= x[2]
      PROVE  x \in LatestOnly(S)
  BY <1>2, <1>6 DEF LatestOnly
<1>7. ASSUME NEW w \in LatestOnly(T), x \in S, w[1] = x[1], w[2] <= x[2]
      PROVE  x \in LatestOnly(S)
  <2>1. \A u \in T : u[1] = w[1] => u[2] <= w[2]
    BY DEF LatestOnly
  <2>2. w \in T /\ w[2] \in Int /\ x[2] \in Int
    BY <1>2, <1>4, <1>7
  <2>3. ASSUME NEW u \in T, u[1] = x[1]
        PROVE  u[2] <= x[2]
    <3>1. u[2] \in Int /\ u[2] <= w[2]
      BY <1>2, <1>7, <2>1, <2>3
    <3>2. PICK i \in Int, j \in Int, k \in Int : i = u[2] /\ j = w[2] /\ k = x[2]
      BY <2>2, <3>1
    <3>3. i <= j /\ j <= k
      BY <1>7, <3>1, <3>2
    <3>4. i <= k
      BY ONLY <3>3, i \in Int, j \in Int, k \in Int
    <3>. QED  BY <3>2, <3>4
  <2>. QED  BY <1>6, <1>7, <2>3
<1>8. CASE v # x
  <2>1. PICK w \in LatestOnly(T) : w[1] = v[1] /\ w[2] >= v[2]
    BY <1>3, <1>8
  <2>2. w \in S
    BY <1>4
  <2>3. CASE x \in S /\ w[1] = x[1] /\ w[2] <= x[2]
    <3>1. x \in LatestOnly(S)
      BY <1>7, <2>3
    <3>2. /\ v[2] \in Int /\ w[2] \in Int /\ x[2] \in Int
          /\ v[2] <= w[2] /\ w[2] <= x[2]
      BY <1>2, <2>1, <2>2, <2>3
    <3>3. x[2] >= v[2] /\ x[1] = v[1]
      BY <2>1, <2>3, <3>2
    <3>. QED  BY <3>1, <3>3 DEF Represented
  <2>4. CASE x \in S => w[1] # x[1] \/ w[2] >= x[2]
    BY <1>5, <2>1, <2>4 DEF Represented
  <2>. QED  BY <1>2, <2>2, <2>3, <2>4
<1>9. CASE v = x
  <2>1. CASE \A u \in T : u[1] = x[1] => u[2] <= x[2]
    BY <1>2, <1>6, <1>9, <2>1 DEF Represented
  <2>2. ASSUME NEW u \in T, u[1] = x[1], ~(u[2] <= x[2])
        PROVE  Represented(v, LatestOnly(S))
    <3>1. PICK w \in LatestOnly(T) : w[1] = u[1] /\ w[2] >= u[2]
      BY <1>3
    <3>2. w \in S
      BY <1>4
    <3>3. w[2] >= x[2] /\ w[1] = x[1]
      BY <1>2, <1>9, <2>2, <3>1, <3>2
    <3>. QED  BY <1>5, <1>9, <3>3 DEF Represented
  <2>. QED  BY <2>1, <2>2
<1>. QED  BY <1>8, <1>9

LEMMA SearchInvData ==
    ASSUME TypeInv, HoldInv, SearchInv, [Next]_vars,
           NEW r \in Reqs, InsertAnnoData(r)
    PROVE  SearchInv'
<1>1. PICK q \in Request : q = reqs[r]
  BY DEF TypeInv, TypeOK
<1>2. /\ q.pc = "insertData" /\ Fresh(q) /\ SubjectsOf(q.links) # {}
      /\ VersId(q) = VersId(reqs[r])
  BY <1>1 DEF InsertAnnoData, HoldInv, PostingOK, TypeInv, RequestOK, PostPcs,
              QueryPcs
<1>3. UNCHANGED annoLinks /\ \A p \in Reqs \ {r} : reqs'[p] = reqs[p]
  BY <1>1, DataInserted
<1>4. CASE UNCHANGED annoData /\ reqs'[r].pc = "respond"
  BY <1>3, <1>4
  DEF SearchInv, SubjectsFirst, RowsHaveSubjects, LatestExists, StampingOK,
      SubjectsOf
<1>5. CASE /\ ~Stored(VersId(q)) /\ VersId(q) \in VersIds
           /\ InsertData(VersId(q), NewRow(q))
           /\ reqs'[r].pc = IF q.stampsTodo = {} THEN "insertLinks"
                            ELSE "insertStamps"
           /\ reqs'[r].stampsTodo = q.stampsTodo
           /\ reqs'[r].links = q.links
           /\ reqs'[r].linksTodo = q.linksTodo
  <2>1. PICK x \in VersIds :
          /\ x = VersId(q) /\ x \notin DOMAIN annoData
          /\ DOMAIN annoData' = DOMAIN annoData \cup {x}
          /\ annoData'[x] = NewRow(q)
          /\ \A w \in DOMAIN annoData : annoData'[w] = annoData[w]
    BY <1>5 DEF InsertData, Stored
  <2>2. RowsHaveSubjects'
    <3>1. SubjectsOf(annoData'[x].links) # {}
      BY <1>2, <2>1 DEF NewRow
    <3>2. ASSUME NEW w \in DOMAIN annoData
          PROVE  annoData'[w].links \cap SubjectLinks # {}
      BY <2>1 DEF SearchInv, RowsHaveSubjects, SubjectsOf
    <3>. QED  BY <2>1, <3>1, <3>2 DEF RowsHaveSubjects, SubjectsOf
  <2>3. LatestExists'
    <3>1. DOMAIN annoData \in SUBSET VersIds
      BY DEF TypeInv, TypeOK, DbTypeOK
    <3>2. ASSUME NEW S \in SUBSET (DOMAIN annoData \cup {x}), NEW v \in S
          PROVE  Represented(v, LatestOnly(S))
      BY <3>1, LatestGrows DEF SearchInv, LatestExists
    <3>. QED  BY <2>1, <3>2 DEF LatestExists, Represented, LatestOnly
  <2>4. StampingOK(reqs[r])'
    BY <1>2, <1>5 DEF StampingOK, Fresh
  <2>5. SubjectsFirst'
    BY <1>3 DEF SearchInv, SubjectsFirst, SubjectsOf
  <2>6. \A p \in Reqs : StampingOK(reqs[p])'
    BY <1>3, <2>4 DEF SearchInv, StampingOK
  <2>. QED  BY <2>2, <2>3, <2>5, <2>6 DEF SearchInv
<1>. QED  BY <1>1, <1>4, <1>5, DataInserted

LEMMA SearchInvStamps ==
    ASSUME TypeInv, SearchInv, NEW r \in Reqs, InsertStamps(r)
    PROVE  SearchInv'
<1>1. PICK q \in Request : q = reqs[r]
  BY DEF TypeInv, TypeOK
<1>2. PICK t : t = NextStampRec(q)
  OBVIOUS
<1>3. /\ UNCHANGED <<annoData, annoLinks>>
      /\ \A p \in Reqs \ {r} : reqs'[p] = reqs[p]
      /\ \/ reqs'[r].pc = "respond"
         \/ /\ reqs'[r].stampsTodo = q.stampsTodo \ {t}
            /\ reqs'[r].links = q.links
            /\ reqs'[r].linksTodo = q.linksTodo
            /\ reqs'[r].pc = IF q.stampsTodo \ {t} = {} THEN "insertLinks"
                             ELSE "insertStamps"
  BY <1>1, <1>2, StampInserted
<1>4. q.pc = "insertStamps" /\ StampingOK(q)
  BY <1>1 DEF InsertStamps, SearchInv
<1>5. StampingOK(reqs[r])'
  BY <1>3, <1>4 DEF StampingOK
<1>6. \A p \in Reqs : StampingOK(reqs[p])'
  BY <1>3, <1>5 DEF SearchInv, StampingOK
<1>. QED  BY <1>3, <1>6
          DEF SearchInv, SubjectsFirst, RowsHaveSubjects, LatestExists, SubjectsOf

LEMMA SearchInvLinks ==
    ASSUME TypeInv, HoldInv, SearchInv, NEW r \in Reqs, InsertLinks(r)
    PROVE  SearchInv'
<1>1. PICK q \in Request : q = reqs[r]
  BY DEF TypeInv, TypeOK
<1>2. PICK v \in VersIds : v = VersId(q)
  BY <1>1, LinkInserted
<1>3. PICK l \in q.linksTodo :
        /\ l \in ReplyLinks => q.linksTodo \cap SubjectLinks = {}
        /\ annoLinks'[v] = annoLinks[v] \cup {l}
        /\ \A w \in VersIds \ {v} : annoLinks'[w] = annoLinks[w]
        /\ reqs'[r].pc \in {"respond", "insertLinks"}
  BY <1>1, <1>2, LinkInserted
<1>4. /\ q.pc = "insertLinks" /\ annoLinks[v] = q.links \ q.linksTodo
      /\ q.linksTodo \subseteq q.links
  BY <1>1, <1>2 DEF InsertLinks, HoldInv, PostingOK, Inserting
<1>5. SubjectsOf(q.links) # {} /\ q.links \subseteq Links
  BY <1>1, <1>4 DEF TypeInv, RequestOK, QueryPcs, PostPcs, Request
<1>6. annoLinks'[v] \cap SubjectLinks # {}
  <2>1. CASE l \in SubjectLinks
    BY <1>3, <2>1
  <2>2. CASE l \in ReplyLinks
    BY <1>3, <1>4, <1>5, <2>2 DEF SubjectsOf
  <2>. QED  BY <1>4, <1>5, <2>1, <2>2 DEF Links
<1>7. SubjectsFirst'
  BY <1>3, <1>6 DEF SearchInv, SubjectsFirst, SubjectsOf
<1>8. UNCHANGED annoData /\ \A p \in Reqs \ {r} : reqs'[p] = reqs[p]
  BY <1>1, LinkInserted
<1>9. \A p \in Reqs : StampingOK(reqs[p])'
  BY <1>3, <1>8 DEF SearchInv, StampingOK
<1>. QED  BY <1>7, <1>8, <1>9
          DEF SearchInv, RowsHaveSubjects, LatestExists, SubjectsOf

LEMMA SearchInvQuiet ==
    ASSUME SearchInv, UNCHANGED <<annoData, annoLinks>>,
           \A p \in Reqs : \/ reqs'[p] = reqs[p]
                           \/ reqs'[p].pc # "insertStamps"
    PROVE  SearchInv'
<1>1. \A p \in Reqs : StampingOK(reqs[p])'
  BY DEF SearchInv, StampingOK
<1>. QED  BY <1>1
          DEF SearchInv, SubjectsFirst, RowsHaveSubjects, LatestExists, SubjectsOf

LEMMA SearchInvNext ==
    ASSUME TypeInv, HoldInv, SearchInv, [Next]_vars
    PROVE  SearchInv'
<1>1. CASE UNCHANGED <<annoData, annoLinks>> /\ NoPostMoves
  BY <1>1, SearchInvQuiet DEF NoPostMoves, PostPcs
<1>2. ASSUME NEW r \in Reqs, StartsPost(r)
      PROVE  SearchInv'
  <2>1. PICK x \in Request : Await(r, "insertData", x)
    BY <1>2 DEF StartsPost, IsPost
  <2>2. /\ reqs'[r] = [x EXCEPT !.pc = "insertData"]
        /\ \A p \in Reqs \ {r} : reqs'[p] = reqs[p]
    BY <2>1, AwaitEffect DEF TypeInv, TypeOK, Pcs, QueryPcs
  <2>3. reqs'[r].pc = "insertData"
    BY <2>2 DEF Request
  <2>. QED  BY <1>2, <2>2, <2>3, SearchInvQuiet DEF StartsPost, dbVars
<1>. QED  BY <1>1, <1>2, PostSteps, SearchInvData, SearchInvStamps,
             SearchInvLinks

LEMMA SearchInvariant == Spec => [](TypeInv /\ ApprovalInv /\ HoldInv /\ SearchInv)
<1>1. Init => SearchInv
  <2>1. NoReq.pc # "insertStamps"
    BY DEF NoReq
  <2>2. ASSUME Init
        PROVE  DOMAIN annoData = {}
    BY <2>2 DEF Init, DbInit
  <2>. QED  BY <2>1, <2>2
            DEF Init, DbInit, ReqInit, SearchInv, SubjectsFirst,
                RowsHaveSubjects, LatestExists, StampingOK
<1>2. TypeInv /\ HoldInv /\ SearchInv /\ [Next]_vars => SearchInv'
  BY SearchInvNext
<1>. QED  BY <1>1, <1>2, HoldInvariant, PTL DEF Spec
-------------------------------------------------------------------------------
(* Stamps that only a POST gives, because no user is granted them.         *)
Ungranted(t) == \A u \in Users : ~Allowed(u, <<"stamp_any_add", t>>)

OnlyPostsHold == Ungranted(Unapproved)

LEMMA UngrantedStampsCome ==
    ASSUME TypeInv, [Next]_vars,
           NEW t \in {Unapproved, DoiRequest}, Ungranted(t),
           NEW v \in VersIds, t \in annoStamps'[v], t \notin annoStamps[v]
    PROVE  \E r \in Reqs : /\ InsertStamps(r)
                           /\ VersId(reqs[r]) = v /\ NextStampRec(reqs[r]) = t
<1>0. annoStamps \in [VersIds -> SUBSET StampTypes]
  BY DEF TypeInv, TypeOK, DbTypeOK
<1>1. ~QuietStep
  BY DEF QuietStep
<1>2. ASSUME NEW w, NEW s, InsertStamp(w, s)
      PROVE  v = w /\ t = s
  BY <1>0, <1>2 DEF InsertStamp
<1>3. ASSUME NEW r \in Reqs, AddStamp(r)
      PROVE  FALSE
  <2>1. t = reqs[r].stamp
    BY <1>2, <1>3 DEF AddStamp
  <2>2. reqs[r].user \in Users /\ Allowed(reqs[r].user, StampPrivilege(reqs[r]))
    BY <1>3 DEF AddStamp, TypeInv, RequestOK, PatchPcs, QueryPcs
  <2>. QED  BY <2>1, <2>2 DEF StampPrivilege, Ungranted
<1>4. ASSUME NEW r \in Reqs, PrepareAdd(r) \/ CleanupAfterAdd(r)
      PROVE  FALSE
  <2>1. t # Deleted
    BY DEF Unapproved, DoiRequest, Deleted
  <2>2. \/ \E w, s : DeleteStamp(w, s)
        \/ \E b, n : SunsetUndecidedEarlierVersions(b, n)
    BY <1>4 DEF PrepareAdd, CleanupAfterAdd
  <2>. QED  BY <1>0, <2>1, <2>2 DEF DeleteStamp, SunsetUndecidedEarlierVersions
<1>5. PICK r \in Reqs : InsertStamps(r)
  BY <1>1, <1>3, <1>4, QuietOrStamps DEF StampStep
<1>6. InsertStamp(VersId(reqs[r]), NextStampRec(reqs[r]))
  BY <1>5 DEF InsertStamps
<1>. QED  BY <1>2, <1>5, <1>6

(* Links stay.                                                             *)
LEMMA LinksStay ==
    ASSUME TypeInv, [Next]_vars
    PROVE  \A v \in VersIds : annoLinks[v] \subseteq annoLinks'[v]
<1>1. ASSUME NEW r \in Reqs, InsertLinks(r)
      PROVE  \A v \in VersIds : annoLinks[v] \subseteq annoLinks'[v]
  <2>1. \E w, l : InsertLink(w, l)
    BY <1>1 DEF InsertLinks
  <2>. QED  BY <2>1 DEF InsertLink, TypeInv, TypeOK, DbTypeOK
<1>2. ASSUME NEW r \in Reqs,
             StartsPost(r) \/ InsertAnnoData(r) \/ InsertStamps(r)
      PROVE  UNCHANGED annoLinks
  BY <1>2 DEF StartsPost, InsertAnnoData, InsertStamps, dbVars
<1>. QED  BY <1>1, <1>2, PostSteps
-------------------------------------------------------------------------------
(* What the public finds at a target, and what is announced of it.         *)
AtTarget(s) == {v \in DOMAIN annoData : annoLinks[v] \cap MatchedBy[s] # {}}

LEMMA PublicFindsLatest ==
    ASSUME NEW s
    PROVE  PublicFinds(s) = LatestOnly({v \in AtTarget(s) : IsOrWasPublic(v)})
<1>1. PICK q : q = [NoReq EXCEPT !.op = "byTarget", !.spec = s]
  OBVIOUS
<1>2. q.op = "byTarget" /\ q.role = "" /\ q.spec = s
  BY <1>1 DEF NoReq
<1>3. \A v : /\ MeetsCriterion(q, v) <=> annoLinks[v] \cap MatchedBy[s] # {}
             /\ IsVisible(q, v) <=> IsOrWasPublic(v)
  BY <1>2 DEF MeetsCriterion, IsVisible
<1>4. {v \in DOMAIN annoData : MeetsCriterion(q, v) /\ IsVisible(q, v)}
        = {v \in AtTarget(s) : IsOrWasPublic(v)}
  BY <1>3 DEF AtTarget
<1>5. Found(q) = LatestOnly({v \in AtTarget(s) : IsOrWasPublic(v)})
  BY <1>2, <1>4 DEF Found
<1>. QED  BY <1>1, <1>5 DEF PublicFinds

(* What the public has found stays found: its links are all that a search  *)
(* by target asks for, no POST holds a version that has links, and nobody  *)
(* else may hold one.                                                      *)
THEOREM PublicFindsStay ==
    ASSUME OnlyPostsHold
    PROVE  Spec => FoundStaysFound
<1>. DEFINE Shown(s) == {v \in AtTarget(s) : IsOrWasPublic(v)}
            StaysFound == \A s \in TargetSpecs : \A v \in PublicFinds(s) :
                              Represented(v, PublicFinds(s)')
            FindsLatest == \A s \in TargetSpecs :
                              PublicFinds(s) = LatestOnly(Shown(s))
<1>0. FindsLatest
  BY PublicFindsLatest
<1>1. ASSUME TypeInv, HoldInv, SearchInv, SearchInv', [Next]_vars, FindsLatest',
             NEW s \in TargetSpecs, NEW v \in PublicFinds(s)
      PROVE  Represented(v, PublicFinds(s)')
  <2>1. v \in Shown(s) /\ v \in VersIds
    BY <1>1, PublicFindsLatest
    DEF LatestOnly, AtTarget, TypeInv, TypeOK, DbTypeOK
  <2>2. Unapproved \notin annoStamps'[v]
    <3>. SUFFICES ASSUME Unapproved \in annoStamps'[v]
                  PROVE  FALSE
      OBVIOUS
    <3>1. Unapproved \notin annoStamps[v]
      BY <2>1 DEF IsOrWasPublic
    <3>2. PICK r \in Reqs : InsertStamps(r) /\ VersId(reqs[r]) = v
      BY <1>1, <2>1, <3>1, UngrantedStampsCome DEF OnlyPostsHold
    <3>3. PICK q \in Request : q = reqs[r]
      BY <1>1 DEF TypeInv, TypeOK
    <3>4. q.pc = "insertStamps" /\ PostingOK(q) /\ StampingOK(q)
      BY <1>1, <3>2, <3>3 DEF InsertStamps, HoldInv, SearchInv
    <3>5. annoLinks[v] = {}
      BY <3>2, <3>3, <3>4 DEF PostingOK, StampingOK, Inserting
    <3>. QED  BY <2>1, <3>5 DEF AtTarget
  <2>3. v \in DOMAIN annoData' /\ annoLinks'[v] \cap MatchedBy[s] # {}
    BY <1>1, <2>1, RowsComeByPosts, LinksStay DEF RowsStay, AtTarget
  <2>4. v \in Shown(s)'
    BY <2>2, <2>3 DEF AtTarget, IsOrWasPublic
  <2>5. Represented(v, LatestOnly(Shown(s)'))
    <3>1. Shown(s)' \in SUBSET DOMAIN annoData'
      BY DEF AtTarget
    <3>. QED  BY <1>1, <2>4, <3>1 DEF SearchInv, LatestExists
  <2>. QED  BY <1>1, <2>5
<1>2. TypeInv /\ HoldInv /\ SearchInv /\ SearchInv' /\ [Next]_vars /\ FindsLatest'
      => [StaysFound]_vars
  BY <1>1
<1>. QED  BY <1>0, <1>2, SearchInvariant, PTL DEF Spec, FoundStaysFound
-------------------------------------------------------------------------------
(* Where no query fails and no PATCH gives away the stamps that a POST is  *)
(* about to insert, a POST that has inserted its row gets to its end.      *)
OnlyPostsRequestDois == AutoDoi => Ungranted(DoiRequest)

LEMMA StampsAreFreeNext ==
    ASSUME OnlyPostsHold, OnlyPostsRequestDois,
           TypeInv, ApprovalInv, HoldInv, SearchInv, [Next]_vars,
           \A r \in Reqs : StampsAreFree(reqs[r]), NEW p \in Reqs
    PROVE  StampsAreFree(reqs[p])'
<1>. SUFFICES ASSUME reqs'[p].pc = "insertStamps"
              PROVE  reqs'[p].stampsTodo \cap annoStamps'[VersId(reqs'[p])] = {}
  BY DEF StampsAreFree, VersId
<1>0. PICK q \in Request : q = reqs[p]
  BY DEF TypeInv, TypeOK
<1>1. CASE reqs'[p] = reqs[p]
  <2>1. /\ q.pc = "insertStamps" /\ reqs'[p].stampsTodo = q.stampsTodo
        /\ VersId(reqs'[p]) = VersId(q)
    BY <1>0, <1>1 DEF VersId
  <2>2. /\ q.stampsTodo \subseteq {Unapproved, DoiRequest}
        /\ ~AutoDoi => DoiRequest \notin q.stampsTodo
        /\ q.stampsTodo \cap annoStamps[VersId(q)] = {}
    <3>1. StampingOK(q) /\ PostingOK(q) /\ StampsAreFree(q)
      BY <1>0 DEF SearchInv, HoldInv
    <3>2. DoiRequest # Unapproved
      BY DEF DoiRequest, Unapproved
    <3>. QED  BY <2>1, <3>1, <3>2 DEF StampingOK, PostingOK, StampsAreFree
  <2>3. ASSUME NEW t \in q.stampsTodo, t \in annoStamps'[VersId(q)]
        PROVE  FALSE
    <3>1. /\ t \in {Unapproved, DoiRequest} /\ Ungranted(t)
          /\ t \notin annoStamps[VersId(q)]
      BY <2>2, <2>3 DEF OnlyPostsHold, OnlyPostsRequestDois
    <3>2. VersId(q) \in VersIds
      BY <1>0, <2>1 DEF TypeInv, TypeOK, RequestOK, Stored, DbTypeOK
    <3>3. PICK r \in Reqs : /\ InsertStamps(r) /\ VersId(reqs[r]) = VersId(q)
                            /\ NextStampRec(reqs[r]) = t
      BY <2>3, <3>1, <3>2, UngrantedStampsCome
    <3>4. CASE r = p
      <4>1. \/ reqs'[p].pc = "respond"
            \/ reqs'[p].stampsTodo = q.stampsTodo \ {t}
        BY <1>0, <3>3, <3>4, StampInserted
      <4>. QED  BY <2>1, <2>3, <1>1, <1>0, <4>1
    <3>5. CASE r # p
      BY <1>0, <2>1, <3>3, <3>5 DEF InsertStamps, HoldInv, PostsApart, Inserting
    <3>. QED  BY <3>4, <3>5
  <2>. QED  BY <2>1, <2>3
<1>2. ASSUME reqs'[p] # reqs[p], InsertAnnoData(p)
      PROVE  reqs'[p].stampsTodo \cap annoStamps'[VersId(reqs'[p])] = {}
  <2>1. /\ UNCHANGED annoStamps /\ VersId(reqs'[p]) = VersId(q)
        /\ ~Stored(VersId(q)) /\ VersId(q) \in VersIds
    BY <1>0, <1>2, DataInserted
  <2>2. annoStamps[VersId(q)] = {}
    BY <2>1 DEF ApprovalInv, StampsOK
  <2>. QED  BY <2>1, <2>2
<1>3. ASSUME InsertStamps(p)
      PROVE  reqs'[p].stampsTodo \cap annoStamps'[VersId(reqs'[p])] = {}
  <2>1. PICK t : t = NextStampRec(q)
    OBVIOUS
  <2>2. /\ InsertStamp(VersId(q), t) /\ VersId(reqs'[p]) = VersId(q)
        /\ reqs'[p].stampsTodo = q.stampsTodo \ {t}
    BY <1>0, <1>3, <2>1, StampInserted
  <2>3. q.stampsTodo \cap annoStamps[VersId(q)] = {}
    BY <1>0, <1>3 DEF InsertStamps, StampsAreFree
  <2>4. annoStamps'[VersId(q)] \subseteq annoStamps[VersId(q)] \cup {t}
    <3>1. VersId(q) \in VersIds
      BY <1>0, <1>3 DEF InsertStamps, TypeInv, TypeOK, RequestOK, Stored, DbTypeOK
    <3>. QED  BY <2>2, <3>1 DEF InsertStamp, TypeInv, TypeOK, DbTypeOK
  <2>. QED  BY <2>2, <2>3, <2>4
<1>4. ASSUME NEW r \in Reqs, reqs'[p] # reqs[p],
             StartsPost(r) \/ InsertLinks(r)
      PROVE  FALSE
  <2>1. CASE InsertLinks(r)
    <3>1. PICK x \in Request : x = reqs[r]
      BY DEF TypeInv, TypeOK
    <3>2. p = r /\ reqs'[r].pc \in {"respond", "insertLinks"}
      BY <1>4, <2>1, <3>1, LinkInserted
    <3>. QED  BY <3>2
  <2>2. ASSUME StartsPost(r)
        PROVE  FALSE
    <3>1. PICK x \in Request : Await(r, "insertData", x)
      BY <2>2 DEF StartsPost, IsPost
    <3>2. /\ reqs'[r] = [x EXCEPT !.pc = "insertData"]
          /\ \A u \in Reqs \ {r} : reqs'[u] = reqs[u]
      BY <3>1, AwaitEffect DEF TypeInv, TypeOK, Pcs, QueryPcs
    <3>3. p = r
      BY <1>4, <3>2
    <3>. QED  BY <3>2, <3>3 DEF Request
  <2>. QED  BY <1>4, <2>1, <2>2
<1>5. ASSUME NEW r \in Reqs \ {p}, InsertAnnoData(r) \/ InsertStamps(r)
      PROVE  reqs'[p] = reqs[p]
  <2>1. PICK x \in Request : x = reqs[r]
    BY DEF TypeInv, TypeOK
  <2>. QED  BY <1>5, <2>1, DataInserted, StampInserted
<1>6. NoPostMoves => reqs'[p] = reqs[p]
  BY DEF NoPostMoves, PostPcs
<1>. QED  BY <1>1, <1>2, <1>3, <1>4, <1>5, <1>6, PostSteps

LEMMA LinksCompleteNext ==
    ASSUME Faulty = FALSE, TypeInv, HoldInv, SearchInv, [Next]_vars,
           PostsSucceed
    PROVE  LinksComplete'
<1>1. RowsStay
  BY RowsComeByPosts
<1>2. ASSUME NEW v \in DOMAIN annoData' \ DOMAIN annoData
      PROVE  \E r \in Reqs : Inserting(reqs'[r]) /\ VersId(reqs'[r]) = v
  BY RowsComeByPosts
<1>3. ASSUME NEW v \in DOMAIN annoData, annoLinks[v] = annoData[v].links
      PROVE  annoLinks'[v] = annoData[v].links
  <2>0. v \in VersIds
    BY DEF TypeInv, TypeOK, DbTypeOK
  <2>1. ASSUME NEW r \in Reqs, InsertLinks(r)
        PROVE  annoLinks'[v] = annoLinks[v]
    <3>1. PICK q \in Request : q = reqs[r]
      BY DEF TypeInv, TypeOK
    <3>2. PICK l \in q.linksTodo :
            /\ annoLinks'[VersId(q)] = annoLinks[VersId(q)] \cup {l}
            /\ \A w \in VersIds \ {VersId(q)} : annoLinks'[w] = annoLinks[w]
      BY <2>1, <3>1, LinkInserted
    <3>3. /\ annoData[VersId(q)] = NewRow(q) /\ q.linksTodo \subseteq q.links
      BY <2>1, <3>1 DEF InsertLinks, HoldInv, PostingOK, Inserting
    <3>4. VersId(q) = v => l \in annoLinks[v]
      BY <1>3, <3>2, <3>3 DEF NewRow
    <3>. QED  BY <2>0, <3>2, <3>4
  <2>2. ASSUME NEW r \in Reqs,
               StartsPost(r) \/ InsertAnnoData(r) \/ InsertStamps(r)
        PROVE  UNCHANGED annoLinks
    BY <2>2 DEF StartsPost, InsertAnnoData, InsertStamps, dbVars
  <2>. QED  BY <1>3, <2>1, <2>2, PostSteps
<1>4. ASSUME NEW v \in DOMAIN annoData, NEW p \in Reqs,
             Inserting(reqs[p]), VersId(reqs[p]) = v
      PROVE  \/ annoLinks'[v] = annoData[v].links
             \/ Inserting(reqs'[p]) /\ VersId(reqs'[p]) = v
  <2>1. PICK q \in Request : q = reqs[p]
    BY DEF TypeInv, TypeOK
  <2>2. CASE reqs'[p] = reqs[p]
    BY <1>4, <2>2 DEF VersId
  <2>3. CASE InsertStamps(p)
    <3>1. PICK t : t = NextStampRec(q)
      OBVIOUS
    <3>2. t \notin annoStamps[VersId(q)]
      <4>1. q.pc = "insertStamps" /\ StampingOK(q) /\ StampsAreFree(q)
        BY <2>1, <2>3 DEF InsertStamps, SearchInv, PostsSucceed
      <4>2. t \in q.stampsTodo
        BY <3>1, <4>1 DEF StampingOK, NextStampRec
      <4>. QED  BY <4>1, <4>2 DEF StampsAreFree
    <3>3. /\ reqs'[p].pc \in {"insertStamps", "insertLinks"}
          /\ VersId(reqs'[p]) = VersId(q)
      BY <2>1, <2>3, <3>1, <3>2, StampInserted
    <3>. QED  BY <1>4, <2>1, <3>3 DEF Inserting
  <2>4. CASE InsertLinks(p)
    <3>1. PICK l \in q.linksTodo :
            /\ annoLinks'[VersId(q)] = annoLinks[VersId(q)] \cup {l}
            /\ \/ q.linksTodo = {l} /\ reqs'[p].pc = "respond"
               \/ /\ reqs'[p].pc = "insertLinks"
                  /\ VersId(reqs'[p]) = VersId(q)
      BY <2>1, <2>4, LinkInserted
    <3>2. /\ annoData[v] = NewRow(q) /\ q.linksTodo \subseteq q.links
          /\ annoLinks[v] = q.links \ q.linksTodo /\ VersId(q) = v
      BY <1>4, <2>1 DEF HoldInv, PostingOK
    <3>3. q.linksTodo = {l} => annoLinks'[v] = annoData[v].links
      BY <3>1, <3>2 DEF NewRow
    <3>. QED  BY <3>1, <3>2, <3>3 DEF Inserting
  <2>5. ~CleanupAfterAdd(p) /\ ~QueryFails(p) /\ ~Crash
    BY <1>4 DEF CleanupAfterAdd, QueryFails, Crash, Inserting
  <2>. QED  BY <1>4, <2>2, <2>3, <2>4, <2>5, StepsFrom DEF Inserting
<1>5. ASSUME NEW v \in DOMAIN annoData'
      PROVE  \/ annoLinks'[v] = annoData'[v].links
             \/ \E p \in Reqs : Inserting(reqs'[p]) /\ VersId(reqs'[p]) = v
  BY <1>1, <1>2, <1>3, <1>4
  DEF RowsStay, PostsSucceed, LinksComplete, BeingPosted
<1>. QED  BY <1>5 DEF LinksComplete, BeingPosted, Inserting, VersId

LEMMA PostsInvariant ==
    ASSUME Faulty = FALSE, OnlyPostsHold, OnlyPostsRequestDois
    PROVE  Spec => [](TypeInv /\ HoldInv /\ SearchInv /\ PostsSucceed)
<1>1. Init => PostsSucceed
  <2>1. NoReq.pc # "insertStamps"
    BY DEF NoReq
  <2>. QED  BY <2>1 DEF Init, DbInit, ReqInit, PostsSucceed, LinksComplete,
                        StampsAreFree
<1>2. /\ TypeInv /\ ApprovalInv /\ HoldInv /\ SearchInv /\ PostsSucceed
      /\ [Next]_vars
      => PostsSucceed'
  BY StampsAreFreeNext, LinksCompleteNext DEF PostsSucceed
<1>. QED  BY <1>1, <1>2, SearchInvariant, PTL DEF Spec

(* Without faults, a search by target misses no version that the public    *)
(* may read, apart from those whose links a POST is inserting.             *)
THEOREM SearchIsComplete ==
    ASSUME Faulty = FALSE, OnlyPostsHold, OnlyPostsRequestDois
    PROVE  Spec => []SearchMissesNothing
<1>1. ASSUME SearchInv, PostsSucceed,
             NEW v \in DOMAIN annoData, NEW s \in TargetSpecs,
             IsAbout(v, s), Unapproved \notin annoStamps[v], ~BeingPosted(v)
      PROVE  Represented(v, PublicFinds(s))
  <2>1. annoLinks[v] = annoData[v].links
    BY <1>1 DEF PostsSucceed, LinksComplete
  <2>2. v \in {w \in AtTarget(s) : IsOrWasPublic(w)}
    BY <1>1, <2>1 DEF IsAbout, AtTarget, IsOrWasPublic
  <2>3. {w \in AtTarget(s) : IsOrWasPublic(w)} \in SUBSET DOMAIN annoData
    BY DEF AtTarget
  <2>4. Represented(v, LatestOnly({w \in AtTarget(s) : IsOrWasPublic(w)}))
    BY <1>1, <2>2, <2>3 DEF SearchInv, LatestExists
  <2>. QED  BY <2>4, PublicFindsLatest
<1>2. SearchInv /\ PostsSucceed => SearchMissesNothing
  BY <1>1 DEF SearchMissesNothing
<1>. QED  BY <1>2, PostsInvariant, PTL

-------------------------------------------------------------------------------
(* The steps of a search that has been accepted.                           *)
LEMMA SearchSteps ==
    ASSUME TypeInv, [Next]_vars, NEW r \in Reqs,
           \/ reqs[r].pc = "search"
           \/ reqs[r].pc = "findLatest" /\ reqs[r].op = "list",
           reqs'[r] # reqs[r]
    PROVE  RunSearch(r) \/ NameWorkingCopy(r) \/ QueryFails(r) \/ Crash
<1>1. CASE Crash \/ UNCHANGED vars
  BY <1>1 DEF vars
<1>2. ASSUME NEW p \in Reqs \ {r}, Receive(p) \/ Handle(p) \/ QueryFails(p)
      PROVE  FALSE
  <2>1. PICK x : reqs' = [reqs EXCEPT ![p] = x]
    BY <1>2, OwnSlotOnly
  <2>. QED  BY <2>1 DEF TypeInv, TypeOK
<1>3. ~Receive(r)
  BY ReceiveIdle
<1>4. ~LookupDetails(r) /\ ~LookupRefused(r) /\ ~FindLatestForRevision(r)
  BY DEF LookupDetails, LookupRefused, FindLatestForRevision
<1>5. ~ReviseChecked(r) /\ ~StampChecked(r) /\ ~ServeExactVersion(r)
  BY DEF ReviseChecked, StampChecked, ServeExactVersion, LookupServes
<1>6. /\ ~InsertAnnoData(r) /\ ~InsertStamps(r) /\ ~InsertLinks(r)
      /\ ~PrepareAdd(r) /\ ~AddStamp(r) /\ ~CleanupAfterAdd(r)
      /\ ~RedirToLatestVersion(r) /\ ~Delivered(r)
  BY DEF InsertAnnoData, InsertStamps, InsertLinks, PrepareAdd, AddStamp,
         CleanupAfterAdd, RedirToLatestVersion, Delivered
<1>. QED  BY <1>1, <1>2, <1>3, <1>4, <1>5, <1>6 DEF Next, Handle

LEMMA FailedSearch ==
    ASSUME TypeInv, NEW r \in Reqs, QueryFails(r) \/ Crash
    PROVE  reqs'[r].code # 200 /\ reqs'[r].pc # "findLatest"
<1>1. CASE Crash
  <2>1. NoReq.pc # "findLatest" /\ NoReq.code # 200
    BY DEF NoReq
  <2>. QED  BY <1>1, <2>1 DEF Crash
<1>2. ASSUME NEW code \in {500, 503}, Respond(r, code)
      PROVE  reqs'[r].pc = "respond" /\ reqs'[r].code = code
  BY <1>2 DEF Respond, NoReq, TypeInv, TypeOK
<1>. QED  BY <1>1, <1>2 DEF QueryFails

(* What a search that runs leaves in its slot, from what it has found.     *)
SearchOutcome(r, q, F, code) ==
    /\ F \in OrderedSearch(q) /\ F \subseteq Found(q)
    /\ code = SearchVerdict(q, F)
    /\ \/ /\ code # 200
          /\ reqs'[r].pc = "respond" /\ reqs'[r].code = code
       \/ /\ code = 200 /\ q.op = "list"
          /\ reqs'[r].pc = "findLatest" /\ reqs'[r].code = q.code
          /\ reqs'[r].found = F
       \/ /\ code = 200 /\ q.op # "list"
          /\ reqs'[r].pc = "respond" /\ reqs'[r].code = 200
          /\ reqs'[r].found = F

LEMMA SearchRuns ==
    ASSUME TypeInv, NEW r \in Reqs, RunSearch(r),
           NEW q \in Request, q = reqs[r]
    PROVE  \E F, code : SearchOutcome(r, q, F, code)
<1>. USE DEF TypeInv, TypeOK
<1>1. PICK F, code : SearchEnds(r, q, F, code)
  BY SearchTaken
<1>2. /\ F \in OrderedSearch(q) /\ F \subseteq Found(q)
      /\ code = SearchVerdict(q, F)
      /\ \/ code # 200 /\ Respond(r, code)
         \/ /\ code = 200 /\ q.op = "list"
            /\ Await(r, "findLatest", [q EXCEPT !.found = F])
         \/ code = 200 /\ q.op # "list" /\ RespondFound(r, F, 0)
  BY <1>1, Zenon DEF SearchEnds
<1>3. ASSUME Respond(r, code)
      PROVE  reqs'[r].pc = "respond" /\ reqs'[r].code = code
  BY ONLY <1>3, reqs \in [Reqs -> Request], r \in Reqs DEF Respond, NoReq
<1>4. ASSUME Await(r, "findLatest", [q EXCEPT !.found = F])
      PROVE  /\ reqs'[r].pc = "findLatest" /\ reqs'[r].code = q.code
             /\ reqs'[r].found = F
  BY ONLY <1>4, reqs \in [Reqs -> Request], r \in Reqs, q \in Request
     DEF Await, Request
<1>5. ASSUME RespondFound(r, F, 0)
      PROVE  /\ reqs'[r].pc = "respond" /\ reqs'[r].code = 200
             /\ reqs'[r].found = F
  BY ONLY <1>5, reqs \in [Reqs -> Request], r \in Reqs DEF RespondFound, NoReq
<1>6. SearchOutcome(r, q, F, code)
  BY <1>2, <1>3, <1>4, <1>5, Zenon DEF SearchOutcome
<1>. QED  BY <1>6

(* What the checks of the results have found out.                          *)
LEMMA SearchVerdictMeans ==
    ASSUME NEW q \in Request, NEW F, NEW code, code = SearchVerdict(q, F),
           NEW v \in F, code = 200
    PROVE  /\ ResultSubjects(q, v) # {}
           /\ MayReadTargets(q.user, ResultSubjects(q, v))
           /\ q.role = "approver" /\ q.spec = Absent
              => Allowed(q.user, ApproverPrivilege)
<1>2. PICK urls : urls = SpecUrls(q) \cup UNION {ResultSubjects(q, w) : w \in F}
  OBVIOUS
<1>. DEFINE denied == \/ ~MayReadTargets(q.user, urls)
                      \/ /\ q.role = "approver"
                         /\ q.spec = Absent
                         /\ ~Allowed(q.user, ApproverPrivilege)
<1>3. code = IF \E w \in F : ResultSubjects(q, w) = {} THEN 500
             ELSE IF urls # {} /\ denied THEN 403
             ELSE IF q.op = "list" /\ F = {} THEN 404
             ELSE 200
  BY <1>2, Zenon DEF SearchVerdict
<1>4. ResultSubjects(q, v) # {} /\ ~(urls # {} /\ denied)
  <2>. HIDE DEF denied
  <2>. QED  BY <1>3
<1>5. ResultSubjects(q, v) \subseteq urls
  BY <1>2
<1>6. ~denied
  BY <1>4, <1>5
<1>. QED  BY <1>4, <1>5, <1>6 DEF MayReadTargets

LEMMA SearchFailureMeans ==
    ASSUME NEW q \in Request, NEW F, NEW code, code = SearchVerdict(q, F),
           code = 500
    PROVE  \E v \in F : ResultSubjects(q, v) = {}
<1>1. \/ \E v \in F : ResultSubjects(q, v) = {}
      \/ code = 403 \/ code = 404 \/ code = 200
  BY Zenon DEF SearchVerdict
<1>. QED  BY ONLY <1>1, code = 500

LEMMA ResultsAreStored ==
    ASSUME NEW q
    PROVE  Found(q) \subseteq
              {v \in DOMAIN annoData : MeetsCriterion(q, v) /\ IsVisible(q, v)}
BY DEF Found, LatestOnly

(* A search that is answered shows only versions of which the reader may   *)
(* read all targets, except that the feeds and the lists of titles know    *)
(* only those targets whose links have been inserted.                      *)
THEOREM ResultsAreReadable ==
    ASSUME Faulty = FALSE, OnlyPostsHold, OnlyPostsRequestDois
    PROVE  Spec => SearchesShowReadable
<1>. DEFINE AllReadable == \A r \in Reqs :
              LET q == reqs[r] IN
              q.pc = "search" /\ (reqs'[r].code = 200 \/ reqs'[r].pc = "findLatest")
              => \A v \in reqs'[r].found :
                   \/ MayReadTargets(q.user, annoData[v].links \cap SubjectLinks)
                   \/ q.titles /\ BeingPosted(v)
<1>1. ASSUME TypeInv, PostsSucceed, [Next]_vars, NEW r \in Reqs,
             NEW q \in Request, q = reqs[r], q.pc = "search",
             reqs'[r].code = 200 \/ reqs'[r].pc = "findLatest",
             NEW v \in reqs'[r].found
      PROVE  \/ MayReadTargets(q.user, annoData[v].links \cap SubjectLinks)
             \/ q.titles /\ BeingPosted(v)
  <2>0. q.code = 0
    BY <1>1 DEF TypeInv, RequestOK, QueryPcs
  <2>1. reqs'[r] # reqs[r]
    BY <1>1, <2>0
  <2>2. RunSearch(r)
    BY <1>1, <2>1, SearchSteps, FailedSearch DEF NameWorkingCopy
  <2>3. PICK F, code : SearchOutcome(r, q, F, code)
    BY <1>1, <2>2, SearchRuns
  <2>4. F \subseteq Found(q) /\ code = SearchVerdict(q, F)
    BY <2>3 DEF SearchOutcome
  <2>5. code = 200 /\ v \in F
    BY <1>1, <2>3 DEF SearchOutcome
  <2>6. MayReadTargets(q.user, ResultSubjects(q, v))
    <3>1. PICK w \in F : w = v
      BY <2>5
    <3>2. MayReadTargets(q.user, ResultSubjects(q, w))
      BY <2>4, <2>5, SearchVerdictMeans
    <3>. QED  BY <3>1, <3>2
  <2>7. v \in DOMAIN annoData
    BY <2>4, <2>5, ResultsAreStored
  <2>8. annoLinks[v] = annoData[v].links \/ BeingPosted(v)
    BY <1>1, <2>7 DEF PostsSucceed, LinksComplete
  <2>9. CASE ~q.titles \/ annoLinks[v] = annoData[v].links
    <3>1. ResultSubjects(q, v) = annoData[v].links \cap SubjectLinks
      BY <2>9 DEF ResultSubjects
    <3>. QED  BY <2>6, <3>1
  <2>. QED  BY <2>8, <2>9 DEF Request
<1>2. TypeInv /\ PostsSucceed /\ [Next]_vars => [AllReadable]_vars
  BY <1>1 DEF TypeInv, TypeOK
<1>. QED  BY <1>2, PostsInvariant, PTL DEF Spec, SearchesShowReadable

(* Without faults, a search fails only while a POST is about to insert the *)
(* first link of one of its results.                                       *)
THEOREM SearchesFailOnlyDuringPost ==
    ASSUME Faulty = FALSE, OnlyPostsHold, OnlyPostsRequestDois
    PROVE  Spec => SearchFailsOnlyDuringPost
<1>. DEFINE NoneFails == \A r \in Reqs :
              reqs[r].pc = "search" /\ reqs'[r].code = 500
              => \E v \in DOMAIN annoData : BeingPosted(v) /\ annoLinks[v] = {}
<1>1. ASSUME TypeInv, SearchInv, PostsSucceed, [Next]_vars, NEW r \in Reqs,
             NEW q \in Request, q = reqs[r], q.pc = "search",
             reqs'[r].code = 500
      PROVE  \E v \in DOMAIN annoData : BeingPosted(v) /\ annoLinks[v] = {}
  <2>0. q.code = 0
    BY <1>1 DEF TypeInv, RequestOK, QueryPcs
  <2>1. reqs'[r] # reqs[r]
    BY <1>1, <2>0
  <2>2. ~QueryFails(r) /\ ~Crash
    BY DEF QueryFails, Crash
  <2>3. RunSearch(r)
    BY <1>1, <2>1, <2>2, SearchSteps DEF NameWorkingCopy
  <2>4. PICK F, code : SearchOutcome(r, q, F, code)
    BY <1>1, <2>3, SearchRuns
  <2>5. F \subseteq Found(q) /\ code = SearchVerdict(q, F)
    BY <2>4 DEF SearchOutcome
  <2>6. code = 500
    BY <1>1, <2>0, <2>4 DEF SearchOutcome
  <2>7. PICK v \in DOMAIN annoData : ResultSubjects(q, v) = {}
    BY <2>5, <2>6, SearchFailureMeans, ResultsAreStored
  <2>8. SubjectLinks \cap annoData[v].links # {}
    BY <1>1 DEF SearchInv, RowsHaveSubjects, SubjectsOf
  <2>9. SubjectLinks \cap annoLinks[v] = {}
    BY <2>7, <2>8 DEF ResultSubjects
  <2>10. v \in VersIds
    BY <1>1 DEF TypeInv, TypeOK, DbTypeOK
  <2>11. annoLinks[v] = {}
    BY <1>1, <2>9, <2>10 DEF SearchInv, SubjectsFirst, SubjectsOf
  <2>12. BeingPosted(v)
    BY <1>1, <2>8, <2>9 DEF PostsSucceed, LinksComplete
  <2>. QED  BY <2>11, <2>12
<1>2. TypeInv /\ SearchInv /\ PostsSucceed /\ [Next]_vars => [NoneFails]_vars
  BY <1>1 DEF TypeInv, TypeOK
<1>. QED  BY <1>2, PostsInvariant, PTL DEF Spec, SearchFailsOnlyDuringPost
-------------------------------------------------------------------------------
(* First come, first served: without faults, the approvers' feed announces *)
(* every version that waits for a decision once its POST has been answered,*)
(* or a later one of the same annotation; a feed that is full may leave it *)
(* out, but for nothing that is younger than what it stands for.           *)
THEOREM FeedServesInOrder ==
    ASSUME Faulty = FALSE, OnlyPostsHold, OnlyPostsRequestDois
    PROVE  Spec => FirstComeFirstServed
<1>. DEFINE AllServed == \A r \in Reqs :
        LET q == reqs[r]
            F == reqs'[r].found
        IN  /\ q.pc = "search" /\ q.op = "approvalFeed"
            /\ reqs'[r].code = 200
            => \A v \in DOMAIN annoData :
                 Awaiting(v, q.spec) =>
                    \/ Represented(v, F)
                    \/ Cardinality(F) = q.limit /\ CameBeforeAnno(F, v)
<1>1. ASSUME TypeInv, SearchInv, PostsSucceed, HeldOncePosted, [Next]_vars,
             NEW r \in Reqs, NEW q \in Request, q = reqs[r],
             q.pc = "search", q.op = "approvalFeed", reqs'[r].code = 200,
             NEW v \in DOMAIN annoData, Awaiting(v, q.spec),
             NEW F, F = reqs'[r].found, ~Represented(v, F)
      PROVE  Cardinality(F) = q.limit /\ CameBeforeAnno(F, v)
  <2>1. F \in OrderedSearch(q) /\ q.oldest
    <3>1. q.code = 0 /\ q.oldest
      BY <1>1 DEF TypeInv, RequestOK, QueryPcs
    <3>2. RunSearch(r)
      <4>1. reqs'[r] # reqs[r]
        BY <1>1, <3>1
      <4>. QED  BY <1>1, <4>1, SearchSteps, FailedSearch DEF NameWorkingCopy
    <3>3. PICK G, code : SearchOutcome(r, q, G, code)
      BY <1>1, <3>2, SearchRuns
    <3>4. G \in OrderedSearch(q) /\ F = G
      BY <1>1, <3>3 DEF SearchOutcome
    <3>. QED  BY <3>1, <3>4
  <2>2. IsUndecided(v) /\ annoLinks[v] \cap MatchedBy[q.spec] # {}
    <3>1. annoLinks[v] = annoData[v].links
      BY <1>1 DEF PostsSucceed, LinksComplete, Awaiting
    <3>2. \A p \in Reqs : ~AboutToHold(p, v)
      BY <1>1 DEF Awaiting, BeingPosted, Inserting, AboutToHold
    <3>3. IsUndecided(v)
      BY <1>1, <3>2 DEF HeldOncePosted, IsUndecided, Awaiting
    <3>. QED  BY <1>1, <3>1, <3>3 DEF Awaiting, IsAbout
  <2>. DEFINE Undecided ==
            {w \in DOMAIN annoData : MeetsCriterion(q, w) /\ IsVisible(q, w)}
  <2>3. Found(q) = LatestOnly(Undecided)
    BY <1>1 DEF Found
  <2>4. \A w : /\ MeetsCriterion(q, w) <=> annoLinks[w] \cap MatchedBy[q.spec] # {}
               /\ IsVisible(q, w) <=> IsUndecided(w)
    BY <1>1 DEF MeetsCriterion, IsVisible
  <2>5. PICK w \in Found(q) : w[1] = v[1] /\ w[2] >= v[2]
    <3>1. v \in Undecided /\ Undecided \in SUBSET DOMAIN annoData
      BY <2>2, <2>4
    <3>2. Represented(v, LatestOnly(Undecided))
      <4>. HIDE DEF Undecided
      <4>. QED  BY <1>1, <3>1 DEF SearchInv, LatestExists
    <3>. QED  BY <2>3, <3>2 DEF Represented
  <2>6. w \in DOMAIN annoData /\ IsUndecided(w)
    BY <2>4, ResultsAreStored
  <2>7. w \notin F
    BY <1>1, <2>5 DEF Represented
  <2>8. /\ Cardinality(F) = q.limit /\ F \subseteq Found(q)
        /\ \A x \in F : ~ComesBefore(q, w, x)
    BY <2>1, <2>5, <2>7 DEF OrderedSearch
  <2>9. ASSUME NEW x \in F
        PROVE  annoData[x].time <= annoData[w].time
    <3>1. x \in DOMAIN annoData /\ ~(annoData[w].time < annoData[x].time)
      BY <2>1, <2>8, ResultsAreStored DEF ComesBefore
    <3>2. annoData[x].time \in Nat /\ annoData[w].time \in Nat
      BY <1>1, <2>6, <3>1 DEF TypeInv, TypeOK, DbTypeOK, AnnoRow
    <3>. QED  BY <3>1, <3>2
  <2>. QED  BY <2>5, <2>6, <2>8, <2>9 DEF CameBeforeAnno
<1>2. TypeInv /\ SearchInv /\ PostsSucceed /\ HeldOncePosted /\ [Next]_vars
      => [AllServed]_vars
  BY <1>1 DEF TypeInv, TypeOK
<1>3. Spec => []HeldOncePosted
  BY PostedIsHeld
<1>. QED  BY <1>2, <1>3, PostsInvariant, PTL DEF Spec, FirstComeFirstServed
-------------------------------------------------------------------------------
(* The working copy that a list of versions names is never older than a    *)
(* version it lists, although the versions come from an earlier query.     *)
THEOREM ListsNameWorkingCopy ==
    ASSUME Faulty = FALSE
    PROVE  Spec => ListNamesWorkingCopy
<1>. DEFINE AllNamed == \A r \in Reqs :
              LET q == reqs[r] IN
              q.pc = "findLatest" /\ q.op = "list" /\ reqs'[r].pc = "respond"
              => \A v \in q.found :
                   reqs'[r].vernum >= v[2] /\ Stored(<<q.base, reqs'[r].vernum>>)
<1>1. ASSUME TypeInv, [Next]_vars, NEW r \in Reqs,
             NEW q \in Request, q = reqs[r],
             q.pc = "findLatest", q.op = "list", reqs'[r].pc = "respond",
             NEW v \in q.found
      PROVE  reqs'[r].vernum >= v[2] /\ Stored(<<q.base, reqs'[r].vernum>>)
  <2>1. NameWorkingCopy(r)
    <3>1. reqs'[r] # reqs[r] /\ ~RunSearch(r)
      BY <1>1 DEF RunSearch
    <3>2. ~QueryFails(r) /\ ~Crash
      BY DEF QueryFails, Crash
    <3>. QED  BY <1>1, <3>1, <3>2, SearchSteps
  <2>2. PICK n \in VersNums(q.base) :
          IsSqlMax(n, VersNums(q.base)) /\ RespondFound(r, q.found, n)
    BY <1>1, <2>1 DEF NameWorkingCopy
  <2>3. reqs'[r].vernum = n
    BY <1>1, <2>2 DEF RespondFound, NoReq, TypeInv, TypeOK
  <2>4. Stored(v) /\ v[1] = q.base /\ v \in VersIds
    BY <1>1 DEF TypeInv, TypeOK, DbTypeOK, RequestOK, QueryPcs, Stored
  <2>5. v[2] \in VersNums(q.base)
    <3>1. v = <<v[1], v[2]>> /\ v[2] \in 1..MaxVersNum
      BY <2>4 DEF VersIds
    <3>. QED  BY <2>4, <3>1 DEF VersNums
  <2>6. v[2] <= n /\ n \in Int /\ v[2] \in Int
    BY <2>2, <2>5 DEF IsSqlMax, VersNums
  <2>. QED  BY <2>2, <2>3, <2>6 DEF VersNums
<1>2. TypeInv /\ [Next]_vars => [AllNamed]_vars
  BY <1>1 DEF TypeInv, TypeOK
<1>. QED  BY <1>2, HoldInvariant, PTL DEF Spec, ListNamesWorkingCopy

(* The look-up's answer to a reader, from what it has seen.                *)
AnswersByRole(x, seen, code) ==
    /\ Deleted \in seen => code = 410
    /\ code = 200 => Unapproved \notin seen \/ MayReadUnapproved(x)
    /\ /\ Deleted \notin seen
       /\ MayRead(x.user, annoData[VersId(x)])
       /\ x.role = "approver" => Allowed(x.user, ApproverPrivilege)
       /\ Unapproved \in seen => MayReadUnapproved(x)
       => code = 200

LEMMA LookupVerdictMeans ==
    ASSUME NEW x, x.op = "get", x.role \in {"", "approver", "author"},
           NEW seen
    PROVE  AnswersByRole(x, seen, LookupVerdict(x, seen))
<1>. SUFFICES ASSUME NEW code, code = LookupVerdict(x, seen)
              PROVE  AnswersByRole(x, seen, code)
  OBVIOUS
<1>1. EffectiveRole(x) = x.role
  BY DEF EffectiveRole
<1>. DEFINE Readable == MayRead(x.user, annoData[VersId(x)])
            Refused == EffectiveRole(x) = "approver"
                       /\ ~Allowed(x.user, <<"stamp_any_add", Accepted>>)
            Hidden == Unapproved \in seen /\ ~MayReadUnapproved(x)
<1>2. EffectiveRole(x) \in {"", "approver", "author"}
  BY <1>1
<1>3. Deleted \in seen => code = 410
  BY Zenon DEF LookupVerdict
<1>4. Deleted \notin seen /\ ~Readable => code = 403
  BY Zenon DEF LookupVerdict
<1>5. Deleted \notin seen /\ Readable /\ Refused => code = 403
  BY <1>2, Zenon DEF LookupVerdict
<1>6. Deleted \notin seen /\ Readable /\ ~Refused /\ Hidden => code = 404
  BY <1>2, Zenon DEF LookupVerdict
<1>7. Deleted \notin seen /\ Readable /\ ~Refused /\ ~Hidden => code = 200
  BY <1>2, Zenon DEF LookupVerdict
<1>8. code = 200 => ~Hidden
  <2>. HIDE DEF Readable, Refused, Hidden
  <2>. QED  BY ONLY <1>3, <1>4, <1>5, <1>6
<1>9. Refused <=> x.role = "approver" /\ ~Allowed(x.user, ApproverPrivilege)
  BY <1>1, Zenon DEF ApproverPrivilege
<1>. QED  BY <1>3, <1>7, <1>8, <1>9, Zenon DEF AnswersByRole

(* The look-up that the entry v of the list q leads to.                    *)
Opening(q, v) == [q EXCEPT !.op = "get", !.vernum = v[2]]

LEMMA OpeningIs ==
    ASSUME NEW q \in Request, NEW v \in VersIds, v[1] = q.base,
           NEW x, x = Opening(q, v)
    PROVE  /\ x \in Request /\ x.op = "get" /\ x.role = q.role
           /\ x.user = q.user /\ VersId(x) = v
<1>1. v = <<v[1], v[2]>> /\ v[2] \in 0..(MaxVersNum + 1)
  BY MaxVersNumAssumption DEF VersIds
<1>. QED  BY <1>1 DEF Opening, Request, VersId

(* The list of versions and the look-up of one of them decide alike, if    *)
(* whoever may search may also look up targets and there is no DOI bot:    *)
(* what is listed can be opened or has been retracted, and what can be     *)
(* opened is listed.  It takes a third stamp that neither holds nor        *)
(* retracts to hide the one that does from the look-up, which reads two.   *)
DiscoverersMayLookUp ==
    \A u \in Users : Allowed(u, <<"discover">>)
                     => Allowed(u, <<"lookupAnnoTargets">>)

THEOREM ListsAgreeWithLookups ==
    ASSUME DiscoverersMayLookUp, NoDoiBot
    PROVE  Spec => ListAgreesWithLookup
<1>. DEFINE AllAgree == \A r \in Reqs :
        LET q == reqs[r]
            Verdicts(v) ==
                {LookupVerdict([q EXCEPT !.op = "get", !.vernum = v[2]], seen) :
                    seen \in StampsLimit2(v)}
            servable == {v \in DOMAIN annoData :
                           v[1] = q.base /\ 200 \in Verdicts(v)}
        IN  q.pc = "search" /\ q.op = "list" /\ reqs'[r].pc = "findLatest"
            => /\ servable \subseteq reqs'[r].found
               /\ \A v \in reqs'[r].found : Verdicts(v) \subseteq {200, 410}
<1>1. ASSUME TypeInv, [Next]_vars, NEW r \in Reqs,
             NEW q \in Request, q = reqs[r],
             q.pc = "search", q.op = "list", reqs'[r].pc = "findLatest"
      PROVE  /\ reqs'[r].found = Found(q)
             /\ \A v \in Found(q) :
                  /\ MayReadTargets(q.user, annoData[v].links \cap SubjectLinks)
                  /\ q.role = "approver" => Allowed(q.user, ApproverPrivilege)
             /\ q.user \in Users /\ Allowed(q.user, <<"discover">>)
             /\ q.role \in {"", "approver", "author"}
             /\ DOMAIN annoData \subseteq VersIds
  <2>1. RunSearch(r)
    <3>1. reqs'[r] # reqs[r]
      BY <1>1
    <3>. QED  BY <1>1, <3>1, SearchSteps, FailedSearch DEF NameWorkingCopy
  <2>2. PICK F, code : SearchOutcome(r, q, F, code)
    BY <1>1, <2>1, SearchRuns
  <2>3. q.limit = 0
    BY <1>1 DEF TypeInv, RequestOK
  <2>4. /\ code = 200 /\ reqs'[r].found = F /\ F = Found(q)
        /\ code = SearchVerdict(q, F)
    <3>1. F = Found(q)
      BY <2>2, <2>3 DEF SearchOutcome, OrderedSearch
    <3>. QED  BY <1>1, <2>2, <3>1 DEF SearchOutcome
  <2>5. RequestOK(q)
    BY <1>1 DEF TypeInv
  <2>6. /\ q.user \in Users /\ Allowed(q.user, <<"discover">>)
        /\ q.role \in {"", "approver", "author"}
        /\ q.spec = Absent /\ ~q.titles
    BY <1>1, <2>5 DEF RequestOK, QueryPcs
  <2>7. ASSUME NEW v \in Found(q)
        PROVE  /\ MayReadTargets(q.user, annoData[v].links \cap SubjectLinks)
               /\ q.role = "approver" => Allowed(q.user, ApproverPrivilege)
    <3>1. /\ MayReadTargets(q.user, ResultSubjects(q, v))
          /\ q.role = "approver" /\ q.spec = Absent
             => Allowed(q.user, ApproverPrivilege)
      BY <2>4, SearchVerdictMeans
    <3>2. ResultSubjects(q, v) = annoData[v].links \cap SubjectLinks
      BY <2>6 DEF ResultSubjects
    <3>. QED  BY <2>6, <3>1, <3>2
  <2>. QED  BY <1>1, <2>4, <2>6, <2>7 DEF TypeInv, TypeOK, DbTypeOK
<1>2. ASSUME NEW q \in Request, q.op = "list", NEW v \in VersIds,
             v[1] = q.base, v \in DOMAIN annoData
      PROVE  /\ v \in Found(q) <=> IsVisible(q, v)
             /\ IsVisible(q, v) <=> \/ Unapproved \notin annoStamps[v]
                                    \/ MayReadUnapproved(Opening(q, v))
  <2>1. v \in Found(q) <=> IsVisible(q, v)
    BY <1>2 DEF Found, MeetsCriterion
  <2>2. PICK x : x = Opening(q, v)
    OBVIOUS
  <2>3. /\ x.op = "get" /\ x.role = q.role /\ x.user = q.user
        /\ VersId(x) = v
    BY <1>2, <2>2, OpeningIs
  <2>4. MayReadUnapproved(x) <=>
          \/ q.role = "approver"
          \/ /\ q.role = "author" /\ q.user # Anonymous
             /\ q.user = annoData[v].author
    BY <2>3 DEF MayReadUnapproved
  <2>5. IsVisible(q, v) <=>
          \/ Unapproved \notin annoStamps[v]
          \/ q.role = "approver"
          \/ /\ q.role = "author" /\ q.user # Anonymous
             /\ q.user = annoData[v].author
    BY <1>2 DEF IsVisible, IsOrWasPublic
  <2>. QED  BY <2>1, <2>2, <2>4, <2>5
<1>3. ASSUME TypeInv, NoDoiStamps, [Next]_vars, NEW r \in Reqs,
             NEW q \in Request, q = reqs[r],
             q.pc = "search", q.op = "list", reqs'[r].pc = "findLatest",
             NEW v \in DOMAIN annoData, v[1] = q.base,
             NEW seen \in StampsLimit2(v)
      PROVE  LET code == LookupVerdict(Opening(q, v), seen) IN
             /\ code = 200 => v \in reqs'[r].found
             /\ v \in reqs'[r].found => code \in {200, 410}
  <2>1. PICK x : x = Opening(q, v)
    OBVIOUS
  <2>2. v \in VersIds
    BY <1>1, <1>3
  <2>3. /\ x \in Request /\ x.op = "get" /\ x.role = q.role
        /\ x.user = q.user /\ VersId(x) = v
    BY <1>3, <2>1, <2>2, OpeningIs
  <2>4. /\ v \in Found(q) <=> IsVisible(q, v)
        /\ IsVisible(q, v) <=> \/ Unapproved \notin annoStamps[v]
                               \/ MayReadUnapproved(x)
    BY <1>2, <1>3, <2>1, <2>2
  <2>5. PICK code : code = LookupVerdict(x, seen)
    OBVIOUS
  <2>11. /\ Unapproved \in seen => Unapproved \in annoStamps[v]
         /\ Unapproved \in annoStamps[v]
            => Unapproved \in seen \/ Deleted \in seen
    <3>1. annoStamps[v] \subseteq {Unapproved, Deleted, Accepted}
      BY <1>3, <2>2 DEF TypeInv, TypeOK, DbTypeOK, NoDoiStamps, StampTypes
    <3>2. CASE seen = annoStamps[v]
      BY <3>2
    <3>3. ASSUME NEW s \in annoStamps[v], NEW t \in annoStamps[v], s # t,
                 seen = {s, t}
          PROVE  /\ Unapproved \in seen => Unapproved \in annoStamps[v]
                 /\ Unapproved \in annoStamps[v]
                    => Unapproved \in seen \/ Deleted \in seen
      BY <3>1, <3>3
    <3>. QED  BY <3>2, <3>3 DEF StampsLimit2
  <2>6. x.role \in {"", "approver", "author"}
    BY <1>1, <1>3, <2>3
  <2>7. AnswersByRole(x, seen, code)
    BY <2>3, <2>5, <2>6, LookupVerdictMeans, Zenon
  <2>8. ASSUME v \in Found(q)
        PROVE  code = 200 \/ code = 410
    <3>1. /\ MayReadTargets(q.user, annoData[v].links \cap SubjectLinks)
          /\ q.role = "approver" => Allowed(q.user, ApproverPrivilege)
          /\ q.user \in Users /\ Allowed(q.user, <<"discover">>)
      BY <1>1, <1>3, <2>8
    <3>2. MayRead(x.user, annoData[VersId(x)])
      BY <2>3, <3>1 DEF MayRead, DiscoverersMayLookUp
    <3>3. Unapproved \in seen => MayReadUnapproved(x)
      BY <2>4, <2>8, <2>11
    <3>4. x.role = "approver" => Allowed(x.user, ApproverPrivilege)
      BY <2>3, <3>1
    <3>. QED  BY <2>7, <3>2, <3>3, <3>4, Zenon DEF AnswersByRole
  <2>9. code = 200 => v \in Found(q)
    <3>1. ASSUME code = 200
          PROVE  /\ Unapproved \notin seen \/ MayReadUnapproved(x)
                 /\ Deleted \notin seen
      <4>1. /\ Deleted \in seen => code = 410
            /\ code = 200 => Unapproved \notin seen \/ MayReadUnapproved(x)
        BY <2>7, Zenon DEF AnswersByRole
      <4>. QED  BY ONLY <3>1, <4>1
    <3>. QED  BY <2>4, <2>11, <3>1
  <2>10. reqs'[r].found = Found(q)
    BY <1>1, <1>3
  <2>. QED  BY <2>1, <2>5, <2>8, <2>9, <2>10
<1>4. ASSUME TypeInv, NoDoiStamps, [Next]_vars
      PROVE  AllAgree
  <2>. SUFFICES ASSUME NEW r \in Reqs,
                       reqs[r].pc = "search", reqs[r].op = "list",
                       reqs'[r].pc = "findLatest"
                PROVE  /\ {v \in DOMAIN annoData :
                             /\ v[1] = reqs[r].base
                             /\ 200 \in {LookupVerdict(Opening(reqs[r], v), seen) :
                                           seen \in StampsLimit2(v)}}
                            \subseteq reqs'[r].found
                       /\ \A v \in reqs'[r].found :
                            {LookupVerdict(Opening(reqs[r], v), seen) :
                                seen \in StampsLimit2(v)} \subseteq {200, 410}
    BY Zenon DEF Opening
  <2>1. PICK q \in Request : q = reqs[r]
    BY <1>4 DEF TypeInv, TypeOK
  <2>2. ASSUME NEW v \in reqs'[r].found
        PROVE  v \in DOMAIN annoData /\ v[1] = q.base
    <3>1. v \in Found(q)
      BY <1>1, <1>4, <2>1, <2>2
    <3>. QED  BY <2>1, <3>1, ResultsAreStored DEF MeetsCriterion
  <2>3. ASSUME NEW v \in DOMAIN annoData, v[1] = q.base,
               NEW seen \in StampsLimit2(v)
        PROVE  LET code == LookupVerdict(Opening(q, v), seen) IN
               /\ code = 200 => v \in reqs'[r].found
               /\ v \in reqs'[r].found => code \in {200, 410}
    BY <1>3, <1>4, <2>1, <2>3
  <2>. QED  BY <2>1, <2>2, <2>3
<1>5. TypeInv /\ NoDoiStamps /\ [Next]_vars => [AllAgree]_vars
  BY <1>4
<1>. QED  BY <1>5, NoDoiInvariant, PTL DEF Spec, ListAgreesWithLookup
===============================================================================
