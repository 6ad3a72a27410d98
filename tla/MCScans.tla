------------------------------ MODULE MCScans ------------------------------
(***************************************************************************)
(* Small games for Scans.  In each, f1 and f2 are two move functions, and  *)
(* a scan is complete if it has both.                                      *)
(***************************************************************************)
EXTENDS Scans, TLC

CONSTANTS s0, a, b, c, d, e, f, win, s1, a1, b1, c1

MCStates == {s0, a, b, c, d, e, f, win, s1, a1, b1, c1}
Game(f1, f2) == [f1 |-> f1 @@ [k \in MCStates |-> {}],
                 f2 |-> f2 @@ [k \in MCStates |-> {}]]

\* A leaf b next to the way from s0 to win: one scan is suspended on b while
\* another withdraws from it.  The deal s1 is alike and lost.
Fork == Game((s0 :> {a}) @@ (a :> {b, c}) @@ (d :> {win})
                @@ (s1 :> {a1}) @@ (a1 :> {b1, c1}),
             (c :> {d, a}) @@ (c1 :> {e, a1}))

\* Two ways to d, the longer one first in the eyes of some scans; f2 is needed
\* on c.
Detour == Game((s0 :> {a, b}) @@ (a :> {c}) @@ (c :> {d}) @@ (b :> {d}),
               (c :> {win}))

\* As Detour, with the solved position behind d, and a blind alley by e to f.
Shortcut == Game((s0 :> {a}) @@ (a :> {b, d, e}) @@ (e :> {f})
                    @@ (b :> {c}) @@ (c :> {d, s0}),
                 (s0 :> {b}) @@ (d :> {win}) @@ (c :> {a}))

Both == <<{"f1"}, {"f2"}>>
AtOnce == <<{"f1", "f2"}>>

ThreeMethods == <<"dfs", "brfs", "befs">>
ThreeComplete == <<Both, AtOnce, Both>>
ThreeSteps == <<1, 2, 1>>
ForkPrelude == <<[scan |-> 1, quota |-> 2], [scan |-> 2, quota |-> 3],
                 [scan |-> 1, quota |-> 1], [scan |-> 3, quota |-> 9]>>

SecondFirst == <<[scan |-> 2, quota |-> 3]>>

DfsBefs == <<"dfs", "befs">>
DfsBrfs == <<"dfs", "brfs">>
SecondComplete == << <<{"f1"}>>, Both>>
SecondAtOnce == << <<{"f1"}>>, AtOnce>>
TwoComplete == <<AtOnce, Both>>
TwoSteps == <<2, 1>>
LongSteps == <<5, 1>>
NoPrelude == <<>>

SynergyOrNot == {{"synergy"}, {}}
SynergyOnly == {{"synergy"}}
Optimized == {{"synergy", "optimize"}, {"synergy", "optimize", "reparent"}}
Reparented == {{"synergy", "reparent"}}
=============================================================================
