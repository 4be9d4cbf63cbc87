------------------------------ MODULE MCAnnoServer ------------------------------
(***************************************************************************)
(* Small instances of AnnoServer for TLC.  The privileges are those of the *)
(* example configuration (docs/cfg/ubhd-ex01/acl_chains): authors, a       *)
(* moderator, a DOI bot, and readers without a session.                    *)
(***************************************************************************)
EXTENDS AnnoServer, TLC

CONSTANTS none, r1, r2, r3  \* model values: the absent value, request slots

ReqSymmetry == Permutations(Reqs)
ReqBaseSymmetry == ReqSymmetry \cup Permutations(BaseIds)

MCUsers == {"anonymous", "alice", "bob", "mod", "bot"}
MCKnownUsers == {"alice", "bob", "mod"}
MCIdentities == [u \in MCUsers |-> IF u = "alice" THEN {"A"}
                                   ELSE IF u = "bob" THEN {"B"} ELSE {}]
MCValues == {"A", "B", "x", "y"}

ReaderGrants == {<<"read">>, <<"lookupAnnoTargets">>, <<"discover">>}

AuthorGrants == ReaderGrants \cup
    {<<"create">>, <<"reply">>, <<"revise_own">>} \cup
    {<<"revise_own", p>> : p \in {"creator", "body", "rights", "target_add"}}

ModeratorGrants == AuthorGrants \cup
    {<<"revise_any">>} \cup
    {<<"revise_any", p>> : p \in {"body", "rights", "target_add", "target_del"}} \cup
    {<<"stamp_any_add", t>> : t \in {Accepted, Deleted, DoiRequest}} \cup
    {<<"search_hasStamp", Deleted>>}

MCGrants == [u \in MCUsers |->
    IF u \in {"alice", "bob"} THEN AuthorGrants
    ELSE IF u = "mod" THEN ModeratorGrants
    ELSE IF u = "bot" THEN ReaderGrants \cup {<<"stamp_any_add", Doi>>}
    ELSE ReaderGrants]

Draft(creator, body) == [f \in Fields |-> IF f = "creator" THEN creator ELSE body]

(* An approver who may retract her own annotations only.                   *)
OwnerGrants == [MCGrants EXCEPT !["alice"] = @ \cup
    {<<"stamp_any_add", Accepted>>, <<"stamp_own_add", Deleted>>}]

(* One or two texts by alice, one that bob may claim, and one nobody signed.      *)
OneDraft      == {Draft("A", "x")}
AlicesDrafts  == {Draft("A", "x"), Draft("A", "y")}
SharedDrafts  == AlicesDrafts \cup {Draft("B", "x")}
OddDrafts     == SharedDrafts \cup {Draft(none, "x")}

Decisions == {Accepted, Deleted}

DoiStamps == {DoiRequest, Doi}
ApprovedWithDoi == {Accepted, Doi, Deleted}

OneTarget   == {{"page1"}}
SomeTargets == {{"page1"}, {"page1", "page2"}}
AllTargets  == SomeTargets \cup {{"page1", "note1"}}

(* A bound: no two reads at a time.  They change nothing, so that one does *)
(* not disturb the other.                                                  *)
Reading(q) == q.op \in SearchOps \cup {"get"} \/ q.found # {}
OneReader  == \A p, r \in Reqs : p # r => ~(Reading(reqs[p]) /\ Reading(reqs[r]))

(* Bounds: two versions, those about to be inserted counted, which get the *)
(* times 1 and 2; if they are of two annotations, both are about one page  *)
(* and only the feed for approvers is read; once there is one annotation,  *)
(* requests for others are all POST.                                       *)
AboutToInsert == {r \in Reqs : reqs[r].pc = "insertData"}
ClockTicks ==
    {annoData[v].time : v \in DOMAIN annoData}
      \cup {reqs[r].time : r \in AboutToInsert}
    = 1..(Cardinality(DOMAIN annoData) + Cardinality(AboutToInsert))
Annos == {v[1] : v \in DOMAIN annoData} \cup {reqs[r].base : r \in AboutToInsert}
TwoAnnosInFeed ==
    /\ Cardinality(Annos) = 2 =>
         /\ \A v \in DOMAIN annoData : annoData[v].links = {"page1"}
         /\ \A r \in Reqs : /\ reqs[r].links \subseteq {"page1"}
                           /\ Reading(reqs[r]) => reqs[r].op \in {"", "approvalFeed"}
    /\ \A r \in Reqs : Annos # {} /\ reqs[r].op \in {"get", "patch", "list"} =>
                         reqs[r].base \in Annos

(* Exact URLs and a prefix, and a page that the public may not see.        *)
NoTargetDenied == [u \in MCUsers |-> {}]
PrivatePage    == [NoTargetDenied EXCEPT !["anonymous"] = {"page2"}]
MatchesNothing == [s \in {} |-> {}]
PageMatches    == [s \in {"page1", "pages/*"} |->
                      IF s = "page1" THEN {s} ELSE {"page1", "page2"}]
PrefixMatches  == [s \in {"pages/*"} |-> {"page1", "page2"}]
===============================================================================
