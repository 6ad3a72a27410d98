--------------------------- MODULE DebondtStates ---------------------------
(***************************************************************************)
(* The key under which the disk-backed solvers store a board               *)
(* (delta_states_debondt_impl.h): a number in mixed bases, whose digits    *)
(* tell of the ranks of the foundations and then, card by card, how the    *)
(* card lies relative to the initial board.  Aces are not written, as the  *)
(* prune never leaves one where it could be moved, and neither is a card   *)
(* of Baker's Dozen that cannot move but to its foundation.                *)
(*                                                                         *)
(* A number is the sequence of its digits, each with its base              *)
(* (var_base_writer.h, var_base_reader.h).                                 *)
(***************************************************************************)
EXTENDS DbmMoves
LOCAL INSTANCE SequencesExt

IsBakersDozen(variant) == variant = "bakers_dozen"

\* How a card lies.  A topmost card is the first one of its column.
Topmost == 0
InFreecell == 1
OrigPos(variant) == IF IsBakersDozen(variant) THEN 0 ELSE 2
InFoundation == 5
\* Mutant of OnParent: the bit that tells the color instead of the suit.
OnParentColor(variant, parent) ==
    IF IsBakersDozen(variant) THEN 1 + Suit(parent) ELSE 3 + Color(Suit(parent))

\* On a parent other than its lower neighbour at the start: which of those
\* that it may be on.
OnParent(variant, parent) ==
    IF IsBakersDozen(variant) THEN 1 + Suit(parent) ELSE 3 + Suit(parent) \div 2

NumOpts(variant, card) == IF ~IsBakersDozen(variant) /\ IsKing(card) THEN 3 ELSE 5
FoundationBase == RankKing + 1

ChildCardOption(variant, parent, child) ==
    IF Rank(child) # 1 /\ IsParent(DbmRules(variant), child, parent)
       THEN OnParent(variant, parent)
       ELSE OrigPos(variant)

\* The cards that lie lowest at the start; those of Baker's Dozen stay there.
OrigTopmost(start) == {start.cols[s][1] : s \in NonEmptyCols(start)}
AllCards == 4..4 * RankKing + 3
Unwritten(variant, start, card) ==
    \/ Rank(card) = 1
    \/ IsBakersDozen(variant) /\ (IsKing(card) \/ card \in OrigTopmost(start))
WrittenCards(variant, start) ==
    SelectSeq([i \in 1..4 * RankKing |-> i + 3],
              LAMBDA c : ~Unwritten(variant, start, c))

-----------------------------------------------------------------------------
(* Encoding.                                                               *)

Above(b, card, s) == CHOOSE i \in DOMAIN b.cols[s] : b.cols[s][i] = card
CardState(variant, b, card) ==
    LET s == CHOOSE t \in Cols(b) : \E i \in DOMAIN b.cols[t] : b.cols[t][i] = card
        h == Above(b, card, s)
    IN CASE Rank(card) <= b.founds[Suit(card)] -> Topmost
         [] \E f \in Freecells(b) : b.freecells[f] = card -> InFreecell
         [] OTHER -> IF h > 1 THEN ChildCardOption(variant, b.cols[s][h - 1], card)
                     ELSE IF IsBakersDozen(variant) THEN OrigPos(variant) ELSE Topmost

Digit(base, item) == [base |-> base, item |-> item]
Encode(variant, start, b) ==
    LET cards == WrittenCards(variant, start)
    IN [f \in 1..4 |-> Digit(FoundationBase, b.founds[f - 1])]
       \o [i \in DOMAIN cards |-> Digit(NumOpts(variant, cards[i]),
                                        CardState(variant, b, cards[i]))]

-----------------------------------------------------------------------------
(* Decoding.                                                               *)

ReadStates(variant, start, digits) ==
    LET cards == WrittenCards(variant, start)
        read(c) == digits[4 + CHOOSE i \in DOMAIN cards : cards[i] = c].item
    IN [c \in AllCards |->
          IF Rank(c) <= digits[1 + Suit(c)].item THEN InFoundation
          ELSE IF Unwritten(variant, start, c) THEN OrigPos(variant)
          ELSE read(c)]

\* The column goes on with the cards that were found to lie on its last one.
ChildrenOf(variant, states, parent) ==
    {c \in AllCards : /\ IsParent(DbmRules(variant), c, parent)
                      /\ states[c] = OnParent(variant, parent)}
Descend(variant, states, col) ==
    LET children == IF col = <<>> THEN {} ELSE ChildrenOf(variant, states, Last(col))
    IN IF children = {} THEN col ELSE Append(col, CHOOSE c \in children : TRUE)
WithDescendents(variant, states, col) ==
    FoldLeft(LAMBDA c, i : Descend(variant, states, c), col, [i \in 1..RankKing |-> i])

\* What is left of a column of the start: its cards up to the first that
\* is elsewhere by now.
StaysOn(variant, states, orig, i) ==
    /\ states[orig[i]] # InFoundation
    /\ states[orig[i]] = ChildCardOption(variant, orig[i - 1], orig[i])
OrigPart(variant, states, orig) ==
    SubSeq(orig, 1, CHOOSE n \in DOMAIN orig :
                      /\ \A i \in 2..n : StaysOn(variant, states, orig, i)
                      /\ n < Len(orig) => ~StaysOn(variant, states, orig, n + 1))

Decode(variant, start, digits) ==
    LET states == ReadStates(variant, start, digits)
        kept(s) == /\ start.cols[s] # <<>>
                   /\ states[start.cols[s][1]] \in {Topmost, OrigPos(variant)}
        cards == WrittenCards(variant, start)
        loose(opt) == IF IsBakersDozen(variant) THEN <<>>
                      ELSE SelectSeq(cards, LAMBDA c : states[c] = opt)
        tops == SelectSeq(loose(Topmost), LAMBDA c : c \notin OrigTopmost(start))
        \* The new columns take the loose cards from the last one backwards.
        taken(s) == Cardinality({t \in 1..s : ~kept(t)})
        newTop(s) == IF taken(s) <= Len(tops) THEN <<tops[Len(tops) + 1 - taken(s)]>> ELSE <<>>
        inFreecells == loose(InFreecell)
    IN [cols |-> [s \in Cols(start) |->
                    WithDescendents(variant, states,
                        IF kept(s) THEN OrigPart(variant, states, start.cols[s])
                        ELSE newTop(s))],
        freecells |-> [f \in Freecells(start) |->
                         IF f <= Len(inFreecells) THEN inFreecells[f] ELSE NoCard],
        founds |-> [f \in 0..3 |-> digits[f + 1].item]]
=============================================================================
