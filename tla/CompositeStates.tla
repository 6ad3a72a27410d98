-------------------------- MODULE CompositeStates --------------------------
(***************************************************************************)
(* The other key of a board, of the binaries built without the encoding of *)
(* DebondtStates (delta_states_impl.h): column by column, how many of its  *)
(* first cards are still as dealt, and the run on top of them.  A run is   *)
(* told by the suits of its cards, as each is one rank below the last and  *)
(* of the other color.  The foundations are not written: what is on them   *)
(* is what is nowhere else.                                                *)
(*                                                                         *)
(* The key is a sequence of bit fields, each with its width.  Sequences    *)
(* are built by alternate color whatever the game.                         *)
(***************************************************************************)
EXTENDS Board
LOCAL INSTANCE SequencesExt
LOCAL INSTANCE FiniteSetsExt

Alternate == [built |-> "alternate", fill |-> "any", unlimited |-> FALSE]
Field(width, value) == [width |-> width, value |-> value]
SuitBit(card) == Suit(card) \div 2

\* Up to the last card that does not lie on its parent.
OrigNumCards(col) ==
    Max({0} \cup {h \in 2..Len(col) : ~IsParent(Alternate, col[h], col[h - 1])})
BitsPerOrigCards(start) ==
    LET most == Max({OrigNumCards(start.cols[s]) : s \in Cols(start)})
    IN CHOOSE n \in 0..most : 2 ^ n > most /\ (n > 0 => 2 ^ (n - 1) <= most)

ColType(col) ==
    CASE col = <<>> -> "empty"
      [] col # <<>> /\ OrigNumCards(col) = 0 -> "entirely_non_orig"
      [] OTHER -> "has_orig"

ColFields(start, col) ==
    LET orig == OrigNumCards(col)
        new == Len(col) - orig
        named == IF orig = 0 /\ new > 0 THEN 1 ELSE 0
    IN <<Field(BitsPerOrigCards(start), orig), Field(4, new)>>
       \o [i \in 1..named |-> Field(6, col[1])]
       \o [i \in 1..new - named |-> Field(1, SuitBit(col[orig + named + i]))]

\* Columns with dealt cards keep their places; of the others the empty ones
\* come first and then the runs by their first card.
FreePlaces(b) == {s \in Cols(b) : ColType(b.cols[s]) # "has_orig"}
NthFree(b, s) == Cardinality({t \in FreePlaces(b) : t <= s})
FirstCard(b, s) == IF b.cols[s] = <<>> THEN NoCard ELSE b.cols[s][1]
ColAt(b, s) ==
    IF s \notin FreePlaces(b) THEN s
    ELSE CHOOSE t \in FreePlaces(b) :
           NthFree(b, s) = 1 + Cardinality({u \in FreePlaces(b) :
               \/ FirstCard(b, u) < FirstCard(b, t)
               \/ FirstCard(b, u) = FirstCard(b, t) /\ u < t})

CompositeEncode(start, b) ==
    FoldLeft(LAMBDA key, s : key \o ColFields(start, b.cols[ColAt(b, s)]),
             [f \in Freecells(b) |-> Field(6, b.freecells[FreecellOrder(b)[f]])],
             [s \in Cols(b) |-> s])

-----------------------------------------------------------------------------

\* Reading a column: key is what is left to read.
ReadRun(last, key, n) ==
    FoldLeft(LAMBDA run, i :
                 Append(run, Card(Rank(Last(run)) - 1,
                                  2 * key[i].value + 1 - Color(Suit(Last(run))))),
             <<last>>, [i \in 1..n |-> i])
ReadCol(orig, key) ==
    LET kept == SubSeq(orig, 1, key[1].value)
        new == key[2].value
        named == IF kept = <<>> /\ new > 0 THEN 1 ELSE 0
        bottom == IF named = 1 THEN <<key[3].value>> ELSE kept
        bits == SubSeq(key, 3 + named, 2 + new)
    IN [col |-> IF bottom = <<>> THEN <<>>
                ELSE SubSeq(bottom, 1, Len(bottom) - 1)
                     \o ReadRun(Last(bottom), bits, new - named),
        key |-> SubSeq(key, 3 + new, Len(key))]

CompositeDecode(start, key) ==
    LET n == Cardinality(Freecells(start))
        read == FoldLeft(LAMBDA acc, s :
                             LET one == ReadCol(start.cols[s], acc.key)
                             IN [cols |-> Append(acc.cols, one.col), key |-> one.key],
                         [cols |-> <<>>, key |-> SubSeq(key, n + 1, Len(key))],
                         [s \in Cols(start) |-> s])
        freecells == [f \in 1..n |-> key[f].value]
        seen == {freecells[f] : f \in 1..n}
                  \cup UNION {{read.cols[s][i] : i \in DOMAIN read.cols[s]} : s \in Cols(start)}
        out(f) == {Rank(c) : c \in {d \in seen \ {NoCard} : Suit(d) = f}}
    IN [cols |-> read.cols, freecells |-> freecells,
        founds |-> [f \in 0..3 |-> Min(out(f) \cup {RankKing + 1}) - 1]]
=============================================================================
