-------------------------------- MODULE AnnoDb --------------------------------
(***************************************************************************)
(* The Postgres tables of the annotation server and the SQL statements the *)
(* request handlers run on them.  The server opens no transaction: every   *)
(* statement is sent through the connection pool and commits by itself, so *)
(* each operator below is one atomic step of the action that uses it.      *)
(***************************************************************************)
EXTENDS Integers

CONSTANTS
    BaseIds,        \* base IDs (random UUIDs) that can be assigned
    MaxVersNum,     \* greatest version number the column can hold (smallint)
    Users,          \* local user IDs, the anonymous one included
    Fields,         \* annotation properties other than the targets
    Values,         \* what a property can say
    Absent,         \* what `details` says of a property it does not have
    SubjectLinks,   \* anno_links rows (rel, url) with rel = 'subject'
    ReplyLinks,     \* anno_links rows (rel, url) with rel = 'inReplyTo'
    DbUser          \* name of the Postgres role the server connects as

Unapproved == "_ubhd:unapproved"
DoiRequest == "_ubhd:doiAssign"
Deleted    == "as:deleted"
Accepted   == "dc:dateAccepted"
Doi        == "dc:identifier"

(* The stamps that the server itself acts upon.                            *)
StampTypes == {Unapproved, DoiRequest, Deleted, Accepted, Doi}

ASSUME MaxVersNumAssumption == MaxVersNum \in Nat \ {0}

ASSUME FieldsAssumption == {"creator", "body"} \subseteq Fields

VARIABLES
    annoData,       \* table anno_data: its primary key is the version ID
    annoStamps,     \* table anno_stamps: the stamp types of each version ID
    annoLinks,      \* table anno_links: the relations of each version ID
    heldLate        \* history: versions that got their unapproved stamp when
                    \* they had been accepted, or a later version stored,
                    \* already

dbVars == <<annoData, annoStamps, annoLinks, heldLate>>

-------------------------------------------------------------------------------
VersIds == BaseIds \X (1..MaxVersNum)
Links   == SubjectLinks \cup ReplyLinks
Details == [Fields -> Values \cup {Absent}]

(* `edited` is a history field: the properties in which the submission     *)
(* differed from the version that it said it replaces.                     *)
AnnoRow == [author: Users, details: Details, links: SUBSET Links,
            edited: SUBSET Fields, time: Nat]   \* time: time_created

DbTypeOK ==
    /\ DOMAIN annoData \subseteq VersIds
    /\ annoData \in [DOMAIN annoData -> AnnoRow]
    /\ annoStamps \in [VersIds -> SUBSET StampTypes]
    /\ annoLinks \in [VersIds -> SUBSET Links]
    /\ heldLate \subseteq VersIds

DbInit ==
    /\ annoData = [v \in {} |-> {}]
    /\ annoStamps = [v \in VersIds |-> {}]
    /\ annoLinks = [v \in VersIds |-> {}]
    /\ heldLate = {}

-------------------------------------------------------------------------------
(* SELECT statements.                                                      *)

Stored(v) == v \in DOMAIN annoData

VersNums(b) == {n \in 1..MaxVersNum : Stored(<<b, n>>)}

(* The rows that the columns "max", "dis" and "own" of                     *)
(* findLatestVersionNumsForBaseId range over.  The last one is selected by *)
(* `WHERE user = $2`, and in Postgres an unquoted `user` is CURRENT_USER,  *)
(* not the column of that name: it selects all rows or none.               *)
Disclosed(b) == {n \in VersNums(b) : Unapproved \notin annoStamps[<<b, n>>]}
Own(b, u) == {n \in VersNums(b) : u = DbUser}

(* n = COALESCE(MAX(S), 0)                                                 *)
IsSqlMax(n, S) ==
    /\ n \in S \cup {0}
    /\ \A m \in S : m <= n

(* SELECT * FROM anno_stamps WHERE versid = v LIMIT 2, with no ORDER BY:   *)
(* every stamp if there are at most two, else any two of them.             *)
StampsLimit2(v) ==
    LET all == annoStamps[v] IN
    {seen \in SUBSET all :
        \/ /\ seen = all
           /\ \A s, t, w \in all : s = t \/ t = w \/ s = w
        \/ \E s, t \in all :
             s # t /\ seen = {s, t}}

-------------------------------------------------------------------------------
(* INSERT and DELETE statements.                                           *)

InsertData(v, row) ==
    annoData' = [w \in DOMAIN annoData \cup {v} |->
                    IF w = v THEN row ELSE annoData[w]]

(* The primary key makes a stamp that is there already a duplicate error.  *)
HeldTooLate(v) ==
    \/ Accepted \in annoStamps[v]
    \/ \E n \in VersNums(v[1]) : n > v[2]

InsertStamp(v, type) ==
    /\ annoStamps' = [annoStamps EXCEPT ![v] = @ \cup {type}]
    /\ heldLate' = heldLate \cup
         {w \in {v} : /\ type = Unapproved
                      /\ Unapproved \notin annoStamps[v]
                      /\ HeldTooLate(v)}

DeleteStamp(v, type) ==
    annoStamps' = [annoStamps EXCEPT ![v] = @ \ {type}]

InsertLink(v, link) ==
    annoLinks' = [annoLinks EXCEPT ![v] = @ \cup {link}]

(* A seeded bug: off by one, the previous version stays undecided.         *)
SunsetAllButPrevious(b, n) ==
    annoStamps' = [v \in VersIds |->
        IF v[1] = b /\ v[2] < n - 1 /\ Stored(v) /\ Unapproved \in annoStamps[v]
        THEN annoStamps[v] \cup {Deleted}
        ELSE annoStamps[v]]

(* Undecided earlier versions of an accepted one become deleted.           *)
SunsetUndecidedEarlierVersions(b, n) ==
    annoStamps' = [v \in VersIds |->
        IF v[1] = b /\ v[2] < n /\ Stored(v) /\ Unapproved \in annoStamps[v]
        THEN annoStamps[v] \cup {Deleted}
        ELSE annoStamps[v]]
===============================================================================
