------------------------------- MODULE Board -------------------------------
(***************************************************************************)
(* The position of a card game and the elementary moves (state.h, state.c, *)
(* move.c, calc_foundation.h).                                             *)
(*                                                                         *)
(* A card is 4 * rank + suit, the suits being H = 0, C = 1, D = 2, S = 3,  *)
(* and NoCard is the empty slot.  A board has the columns (the last card   *)
(* of a sequence is the one on top), the freecells and the foundations     *)
(* (deck * 4 + suit -> rank of the last card there).  Columns and          *)
(* freecells are counted from 1, not from 0.                               *)
(*                                                                         *)
(* The rules are a record of the game's flags:                             *)
(*   built      what a sequence is built by: "alternate", "suit", "rank";  *)
(*   fill       what may enter an empty column: "any", "kings", "none";    *)
(*   unlimited  whether sequences of any length move as one;               *)
(*   simple_simon  whether it is Simple Simon, whose moves differ.         *)
(***************************************************************************)
EXTENDS Integers, Sequences, FiniteSets
LOCAL INSTANCE SequencesExt
LOCAL INSTANCE FiniteSetsExt

\* The rank of a king: 13 in the game, less in the small instances.
CONSTANT RankKing
ASSUME RankKingAssumption == RankKing \in Nat \ {0}

NoCard == 0
Card(rank, suit) == 4 * rank + suit
Rank(c) == c \div 4
Suit(c) == c % 4
Color(suit) == suit % 2
IsKing(c) == Rank(c) = RankKing

IsParent(rules, child, parent) ==
    /\ Rank(child) + 1 = Rank(parent)
    /\ \/ rules.built = "rank"
       \/ rules.built = "suit" /\ Suit(child) = Suit(parent)
       \/ rules.built = "alternate" /\ Color(child) # Color(parent)

-----------------------------------------------------------------------------
(* Columns, freecells and foundations.                                     *)

Cols(b) == DOMAIN b.cols
Freecells(b) == DOMAIN b.freecells
Height(b, s) == Len(b.cols[s])
Top(b, s) == Last(b.cols[s])
EmptyCols(b) == {s \in Cols(b) : b.cols[s] = <<>>}
NonEmptyCols(b) == Cols(b) \ EmptyCols(b)
VacantFreecells(b) == {f \in Freecells(b) : b.freecells[f] = NoCard}
FilledFreecells(b) == Freecells(b) \ VacantFreecells(b)

\* Foundation of the first deck that takes the card next, if there is one.
FoundsFor(b, c) ==
    {f \in DOMAIN b.founds : f % 4 = Suit(c) /\ b.founds[f] = Rank(c) - 1}
Goes(b, c) == FoundsFor(b, c) # {}
FoundFor(b, c) == Min(FoundsFor(b, c))

Transfer(b, s, t, n) ==
    LET keep == Height(b, s) - n
        run == SubSeq(b.cols[s], keep + 1, Height(b, s))
    IN [b EXCEPT !.cols[s] = SubSeq(@, 1, keep), !.cols[t] = @ \o run]
Pop(b, s) == [b EXCEPT !.cols[s] = Front(@)]
Push(b, s, c) == [b EXCEPT !.cols[s] = Append(@, c)]
PutInFreecell(b, f, c) == [b EXCEPT !.freecells[f] = c]
EmptyFreecell(b, f) == PutInFreecell(b, f, NoCard)
IncrementFound(b, f) == [b EXCEPT !.founds[f] = @ + 1]

NumCards(b) == FoldLeft(LAMBDA n, col : n + Len(col), Cardinality(FilledFreecells(b)), b.cols)
IsSolved(b) == \A f \in DOMAIN b.founds : b.founds[f] = RankKing

-----------------------------------------------------------------------------
(* Moves as they are recorded, and what applying one does.                 *)

Move(type, src, dest, n) == [type |-> type, src |-> src, dest |-> dest, num |-> n]

ApplyMove(b, m) ==
    CASE m.type = "stack_to_stack" -> Transfer(b, m.src, m.dest, m.num)
      [] m.type = "stack_to_freecell" ->
            PutInFreecell(Pop(b, m.src), m.dest, Top(b, m.src))
      [] m.type = "freecell_to_stack" ->
            EmptyFreecell(Push(b, m.dest, b.freecells[m.src]), m.src)
      [] m.type = "freecell_to_freecell" ->
            EmptyFreecell(PutInFreecell(b, m.dest, b.freecells[m.src]), m.src)
      [] m.type = "stack_to_found" -> IncrementFound(Pop(b, m.src), m.dest)
      [] m.type = "freecell_to_found" ->
            IncrementFound(EmptyFreecell(b, m.src), m.dest)
      [] m.type = "seq_to_found" ->
            [b EXCEPT !.cols[m.src] = SubSeq(@, 1, Len(@) - RankKing),
                      !.founds[m.dest] = @ + RankKing]

\* Mutant of CalcFoundation: the other color counts like the card's own.
CalcFoundationLoose(rules, b, c) ==
    LET late(f) == b.founds[f] < Rank(c) - 2 - (IF rules.built # "rank" THEN 1 ELSE 0)
    IN IF Goes(b, c) /\ (rules.built = "suit" \/ \A f \in DOMAIN b.founds : ~late(f))
          THEN FoundFor(b, c)
          ELSE -1

\* Safe to put up: no card that is still in play can be put on it, or such
\* a card can go up as well.  -1 when the card has to wait.
CalcFoundation(rules, b, c) ==
    LET late(f) == b.founds[f] < Rank(c) - 2
                      - (IF rules.built # "rank" /\ Color(f) = Color(Suit(c))
                            THEN 1 ELSE 0)
    IN IF Goes(b, c) /\ (rules.built = "suit" \/ \A f \in DOMAIN b.founds : ~late(f))
          THEN FoundFor(b, c)
          ELSE -1

-----------------------------------------------------------------------------
(* The canonical order: columns by their bottom card, empty ones first,    *)
(* freecells by their card.  The locations say where the user sees them.   *)

Ordered(seq, key(_)) ==
    SortSeq([i \in DOMAIN seq |-> i],
            LAMBDA i, j : key(seq[i]) < key(seq[j]) \/ (key(seq[i]) = key(seq[j]) /\ i < j))
ColOrder(b) == Ordered(b.cols, LAMBDA col : IF col = <<>> THEN NoCard ELSE col[1])
FreecellOrder(b) == Ordered(b.freecells, LAMBDA card : card)
Permute(seq, order) == [i \in DOMAIN seq |-> seq[order[i]]]

Canonize(b) == [b EXCEPT !.cols = Permute(@, ColOrder(b)),
                         !.freecells = Permute(@, FreecellOrder(b))]
CanonizeLocs(b, locs) == [cols |-> Permute(locs.cols, ColOrder(b)),
                          freecells |-> Permute(locs.freecells, FreecellOrder(b))]
InitLocs(b) == [cols |-> [s \in Cols(b) |-> s],
                freecells |-> [f \in Freecells(b) |-> f]]

\* The move as the user is told it: in the columns and freecells he sees.
Normalize(locs, m) ==
    [m EXCEPT
        !.src = IF m.type \in {"freecell_to_stack", "freecell_to_freecell", "freecell_to_found"}
                   THEN locs.freecells[@] ELSE locs.cols[@],
        !.dest = CASE m.type \in {"stack_to_freecell", "freecell_to_freecell"} ->
                        locs.freecells[@]
                   [] m.type \in {"stack_to_stack", "freecell_to_stack"} ->
                        locs.cols[@]
                   [] OTHER -> @]
=============================================================================
