---------------------------- MODULE GraphSearch ----------------------------
(***************************************************************************)
(* What the disk-backed solvers promise, whatever their threads, queues,   *)
(* depths and batches: positions are reached from the deal by moves, and   *)
(* the search says that there is no solution only when it has reached      *)
(* every position it can reach and none was solved.                        *)
(***************************************************************************)
CONSTANTS Keys, Root, Succ, Goal

VARIABLES reached, outcome

vars == <<reached, outcome>>

Init == reached = {Root} /\ outcome = "running"

Discover ==
    /\ outcome = "running"
    /\ \E new \in SUBSET UNION {Succ[k] : k \in reached} : reached' = reached \cup new
    /\ UNCHANGED outcome

Exhausted == \A k \in reached : k \notin Goal /\ Succ[k] \subseteq reached

Conclude ==
    /\ outcome = "running"
    /\ \/ outcome' = "Success" /\ reached \cap Goal # {}
       \/ outcome' = "Intractable"
       \/ outcome' = "Could not solve" /\ Exhausted
    /\ UNCHANGED reached

Next == Discover \/ Conclude
Spec == Init /\ [][Next]_vars
=============================================================================
