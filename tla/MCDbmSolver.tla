---------------------------- MODULE MCDbmSolver ----------------------------
(***************************************************************************)
(* A small deal for DbmSolver.  The graph has a fork, two paths that       *)
(* meet, cycles back to the deal, dead ends, and a position f that is out  *)
(* of reach.                                                               *)
(***************************************************************************)
EXTENDS DbmSolver, TLC

CONSTANTS r, a, b, c, d, e, f, t1, t2, t3

MCKeys == {r, a, b, c, d, e, f}
MCThreads2 == {t1, t2}
MCThreads3 == {t1, t2, t3}

MCSucc == (r :> {a, b}) @@ (a :> {c, r}) @@ (b :> {d, r}) @@ (c :> {b, d, e})
          @@ (d :> {}) @@ (e :> {}) @@ (f :> {e})
=============================================================================
