------------------------------ MODULE DbmMoves ------------------------------
(***************************************************************************)
(* What the disk-backed solvers derive from a board                        *)
(* (dbm_calc_derived.h): single cards only, and after every move Horne's   *)
(* prune puts up what is safe.  With each derived board goes the number of *)
(* irreversible moves that led to it: depth_dbm_solver.c files the board   *)
(* under the sum of these numbers along its path.                          *)
(***************************************************************************)
EXTENDS Board
LOCAL INSTANCE SequencesExt
LOCAL INSTANCE FiniteSetsExt

\* The two games of the binaries.  No column of Baker's Dozen is emptied, but
\* by the foundations, and none is filled again.
DbmRules(variant) ==
    CASE variant = "freecell" -> [built |-> "alternate", fill |-> "any", unlimited |-> FALSE]
      [] variant = "bakers_dozen" -> [built |-> "rank", fill |-> "none", unlimited |-> FALSE]

Irreversible(b, count) == [board |-> b, irreversible |-> count]

\* The card leaves nothing behind, or a parent it can come back to.
FromColIsReversible(rules, b, s) ==
    LET n == Height(b, s)
    IN n <= 1 \/ IsParent(rules, b.cols[s][n], b.cols[s][n - 1])
CoreCount(rules, b, s) == IF FromColIsReversible(rules, b, s) THEN 0 ELSE 1
\* Mutant of CountNonRev: the card's place in its column is not looked at.
CountNonRevFlat(rules, b, s) == 1
CountNonRev(rules, b, s) == CoreCount(rules, b, s) + 1

-----------------------------------------------------------------------------
(* Horne's prune.                                                          *)

HorneCol(rules, d, s) ==
    LET found == CalcFoundation(rules, d.board, Top(d.board, s))
    IN IF d.board.cols[s] # <<>> /\ found >= 0
          THEN Irreversible(IncrementFound(Pop(d.board, s), found),
                            d.irreversible + CountNonRev(rules, d.board, s))
          ELSE d
HorneFreecell(rules, d, f) ==
    LET found == CalcFoundation(rules, d.board, d.board.freecells[f])
    IN IF d.board.freecells[f] # NoCard /\ found >= 0
          THEN Irreversible(IncrementFound(EmptyFreecell(d.board, f), found),
                            d.irreversible + 1)
          ELSE d
HornePass(rules, d) ==
    LET cols == FoldLeft(LAMBDA e, s : HorneCol(rules, e, s), d, [s \in Cols(d.board) |-> s])
    IN FoldLeft(LAMBDA e, f : HorneFreecell(rules, e, f), cols,
                [f \in Freecells(d.board) |-> f])
HornePrune(rules, d) ==
    FoldLeft(LAMBDA e, i : HornePass(rules, e), d, [i \in 1..NumCards(d.board) |-> i])

-----------------------------------------------------------------------------
(* The moves.  The last empty column and the last vacant freecell serve.   *)

LastEmptyCol(b) == Max(EmptyCols(b))
LastVacantFreecell(b) == Max(VacantFreecells(b))
\* Columns that may give up their top card other than to a foundation.
Givers(rules, b) ==
    {s \in Cols(b) : Height(b, s) > IF rules.fill = "none" THEN 1 ELSE 0}
CanBePlaced(rules, b, card) == {t \in NonEmptyCols(b) : IsParent(rules, card, Top(b, t))}

FromCol(rules, b, s) == Irreversible(Pop(b, s), CoreCount(rules, b, s))
OnCol(d, t, card) == [d EXCEPT !.board = Push(@, t, card)]

DbmTopStackCardsToFounds(rules, b) ==
    {Irreversible(IncrementFound(Pop(b, s), FoundFor(b, Top(b, s))), CountNonRev(rules, b, s)) :
        s \in {t \in NonEmptyCols(b) : Goes(b, Top(b, t))}}
DbmFreecellCardsToFounds(b) ==
    {Irreversible(IncrementFound(EmptyFreecell(b, f), FoundFor(b, b.freecells[f])), 1) :
        f \in {g \in FilledFreecells(b) : Goes(b, b.freecells[g])}}
DbmStackCardToParent(rules, b) ==
    UNION {{OnCol(FromCol(rules, b, s), t, Top(b, s)) :
              t \in CanBePlaced(rules, b, Top(b, s)) \ {s}} : s \in Givers(rules, b)}
DbmFreecellCardToParent(rules, b) ==
    UNION {{OnCol(Irreversible(EmptyFreecell(b, f), 0), t, b.freecells[f]) :
              t \in CanBePlaced(rules, b, b.freecells[f])} : f \in FilledFreecells(b)}
DbmToEmptyStack(rules, b) ==
    IF rules.fill = "none" \/ EmptyCols(b) = {} THEN {}
    ELSE {OnCol(FromCol(rules, b, s), LastEmptyCol(b), Top(b, s)) :
            s \in {t \in Cols(b) : Height(b, t) > 1}}
         \cup {OnCol(Irreversible(EmptyFreecell(b, f), 0), LastEmptyCol(b), b.freecells[f]) :
                 f \in FilledFreecells(b)}
DbmStackCardToFreecell(rules, b) ==
    IF VacantFreecells(b) = {} THEN {}
    ELSE {[FromCol(rules, b, s) EXCEPT
             !.board = PutInFreecell(@, LastVacantFreecell(b), Top(b, s))] :
            s \in Givers(rules, b)}

DbmDerivedStates(rules, b) ==
    IF IsSolved(b) THEN {}
    ELSE {HornePrune(rules, d) :
            d \in UNION {DbmTopStackCardsToFounds(rules, b), DbmFreecellCardsToFounds(b),
                         DbmStackCardToParent(rules, b), DbmFreecellCardToParent(rules, b),
                         DbmToEmptyStack(rules, b), DbmStackCardToFreecell(rules, b)}}
=============================================================================
