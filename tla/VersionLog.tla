------------------------------- MODULE VersionLog -------------------------------
(***************************************************************************)
(* What annotation storage promises its authors: each annotation is a log  *)
(* of versions that only ever grows at its end, and each version takes     *)
(* over from the one before it everything that its author did not edit.    *)
(* A submission is judged against the version that is last when it enters  *)
(* the log, not against one that its author has seen some time ago.        *)
(***************************************************************************)
EXTENDS Integers

CONSTANTS BaseIds, Fields, Rows

VARIABLE log        \* log[b]: the versions of b, a function from 1..length

LogInit == log = [b \in BaseIds |-> [n \in {} |-> {}]]

(* The log of b gets one more version, its (k+1)-th, and no other changes. *)
Appended(b, k) ==
    /\ DOMAIN log[b] = 1..k
    /\ DOMAIN log'[b] = 1..(k + 1)
    /\ log'[b][k + 1] \in Rows
    /\ \A n \in 1..k : log'[b][n] = log[b][n]
    /\ \A c \in BaseIds \ {b} : log'[c] = log[c]

(* The first version of b.                                                 *)
Create(b) == Appended(b, 0)

(* A new version of b after the k-th and last one.                         *)
Revise(b, k) ==
    /\ Appended(b, k)
    /\ \A f \in Fields \ log'[b][k + 1].edited :
           log'[b][k + 1].details[f] = log[b][k].details[f]

LogNext == \E b \in BaseIds :
    Create(b) \/ \E k \in DOMAIN log[b] : Revise(b, k)

LogSpec == LogInit /\ [][LogNext]_log
===============================================================================
