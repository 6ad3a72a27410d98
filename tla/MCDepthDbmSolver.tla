-------------------------- MODULE MCDepthDbmSolver --------------------------
(***************************************************************************)
(* Small deals for DepthDbmSolver, over three depths.  a, b and h are at   *)
(* the depth of the deal, and a leads back; c and d are one move deeper    *)
(* and lead to each other; e is a dead end two deeper, f and i lie beyond  *)
(* d, and g is out of reach.                                               *)
(***************************************************************************)
EXTENDS DepthDbmSolver, TLC

CONSTANTS r, a, b, c, d, e, f, g, h, i, t1, t2, t3

MCKeys == {r, a, b, c, d, e, f, g, h, i}
MCThreads2 == {t1, t2}
MCThreads3 == {t1, t2, t3}

MCSucc == (r :> {a, b, h}) @@ (a :> {c, r}) @@ (b :> {c, d, e}) @@ (c :> {d})
          @@ (d :> {c, f, i}) @@ (e :> {}) @@ (f :> {}) @@ (g :> {f}) @@ (h :> {a, d})
          @@ (i :> {})
MCDepth == (r :> 0) @@ (a :> 0) @@ (b :> 0) @@ (c :> 1) @@ (d :> 1)
           @@ (e :> 2) @@ (f :> 2) @@ (g :> 2) @@ (h :> 0) @@ (i :> 2)
=============================================================================
