----------------------------- MODULE DepthFifo -----------------------------
(***************************************************************************)
(* What the depth multi-queue promises, without pages, files and arrays: a *)
(* first-in first-out queue for each depth, and extraction from the        *)
(* shallowest depth that has items.                                        *)
(***************************************************************************)
EXTENDS Integers, Sequences

CONSTANTS Depths, Items, FirstDepth, FirstItem, Nothing

VARIABLES fifo,      \* the items of each depth
          given      \* what the last extraction returned

vars == <<fifo, given>>

Init ==
    /\ fifo = [d \in Depths |-> IF d = FirstDepth THEN <<FirstItem>> ELSE <<>>]
    /\ given = Nothing

Insert ==
    /\ \E d \in Depths, x \in Items : fifo' = [fifo EXCEPT ![d] = Append(@, x)]
    /\ UNCHANGED given

Extract ==
    \E d \in Depths :
        /\ fifo[d] # <<>>
        /\ \A e \in Depths : e < d => fifo[e] = <<>>
        /\ given' = <<d, Head(fifo[d])>>
        /\ fifo' = [fifo EXCEPT ![d] = Tail(@)]

ExtractNothing ==
    /\ \A d \in Depths : fifo[d] = <<>>
    /\ given' = Nothing
    /\ UNCHANGED fifo

Next == Insert \/ Extract \/ ExtractNothing
Spec == Init /\ [][Next]_vars
=============================================================================
