---------------------------- MODULE RangeSolvers ----------------------------
(***************************************************************************)
(* What the programs that solve a range of deals share (range_solvers.h):  *)
(* the numbers of the first and the last board, and what solving a board   *)
(* comes to, which is a result to write down and a number of iterations.   *)
(* Flares models the call that solves one.                                 *)
(***************************************************************************)
EXTENDS Integers, Sequences, FiniteSets

CONSTANTS
    StartBoard, EndBoard,
    BoardNumStep,       \* --worker-step, the boards of one batch
    Iters               \* the iterations that each board takes

Boards == StartBoard..EndBoard

ASSUME RangeAssumption ==
    /\ StartBoard \in Nat \ {0} /\ EndBoard \in Nat /\ StartBoard <= EndBoard
    /\ BoardNumStep \in Nat \ {0}
    /\ \A b \in Boards : Iters[b] \in Nat

Least(m, n) == IF m <= n THEN m ELSE n

\* The iterations that the boards in bs take together.
SumOver(bs) ==
    LET sum[b \in 0..EndBoard] ==
            IF b = 0 THEN 0 ELSE sum[b - 1] + (IF b \in bs THEN Iters[b] ELSE 0)
    IN sum[EndBoard]
=============================================================================
