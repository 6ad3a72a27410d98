------------------------------- MODULE MsDeal -------------------------------
(***************************************************************************)
(* Freecell boards by number, and numbers by board (gen_ms_boards__rand.h, *)
(* range_solvers_gen_ms_boards.h, and in board_gen find_deal.c with        *)
(* fc_solve_find_index_s2ints.py).  Numbers go to 2^33 - 1, which TLC does *)
(* not have: a number is a record of its bit 32, the half word above bit   *)
(* 16 and the lower one.  Of the generator's 64 bits only the lower 32     *)
(* are ever seen, and they do not depend on the others.                    *)
(*                                                                         *)
(* A deck of 4 * RankKing cards is dealt, one by one, to eight columns.    *)
(***************************************************************************)
EXTENDS BoardText
LOCAL INSTANCE SequencesExt

CONSTANT DealIndices        \* numbers of deals: records of top, hi and lo
VARIABLES deal_idx, seedx, deck, dealt
dealVars == <<deal_idx, seedx, deck, dealt>>

HalfWord == 65536
NumColumns == 8
DeckSize == 4 * RankKing

\* The number n greater, for a small n.
Plus(idx, n) ==
    LET lo == idx.lo + n
        hi == idx.hi + lo \div HalfWord
    IN [top |-> idx.top + hi \div HalfWord, hi |-> hi % HalfWord, lo |-> lo % HalfWord]

CalcInitSeedx(idx) == [hi |-> idx.hi, lo |-> idx.lo]
\* seed * 214013 + 2531011, where 214013 is 3 * 65536 + 17405.
NextSeed(seed) ==
    LET lo == seed.lo * 17405 + 2531011
    IN [hi |-> (seed.hi * 17405 + seed.lo * 3 + lo \div HalfWord) % HalfWord,
        lo |-> lo % HalfWord]

\* Mutant of GameNumRand: the upper half of the 32-bit numbers is like the lower.
GameNumRandOf31(seed, idx) ==
    IF idx.top = 0 THEN seed.hi % 32768 ELSE seed.hi + 1

\* The number drawn after the step to this seed: of 15 bits below deal 2^31,
\* with bit 15 set below 2^32, and of 16 bits and one more from there on.
GameNumRand(seed, idx) ==
    CASE idx.top > 0 -> seed.hi + 1
      [] idx.hi >= 32768 -> (seed.hi % 32768) + 32768
      [] OTHER -> seed.hi % 32768

DealInit ==
    /\ deal_idx \in DealIndices
    /\ seedx = CalcInitSeedx(deal_idx)
    /\ deck = [i \in 1..DeckSize |-> i - 1]
    /\ dealt = <<>>

\* A card is drawn, and the last of the deck takes its place.
DealCard ==
    /\ deck # <<>>
    /\ seedx' = NextSeed(seedx)
    /\ LET j == (GameNumRand(seedx', deal_idx) % Len(deck)) + 1
       IN /\ dealt' = Append(dealt, deck[j])
          /\ deck' = Front([deck EXCEPT ![j] = Last(deck)])
    /\ UNCHANGED deal_idx

\* The text of the deal: the i-th card goes to the column i, modulo eight, and
\* the suits of the deck are C, D, H and S.
SuitOf(card) == <<1, 2, 0, 3>>[(card % 4) + 1]
DealText ==
    [c \in 1..NumColumns |->
        [head |-> "",
         words |-> [r \in 1..(Len(dealt) + NumColumns - c) \div NumColumns |->
                      LET card == dealt[(r - 1) * NumColumns + c]
                      IN [rank |-> RankName(card \div 4 + 1, "T"), suit |-> SuitOf(card)]]]]

-----------------------------------------------------------------------------
(* The number of a board.                                                  *)

\* The draws that deal this board: the shuffle is played again, looking up
\* where each card lay.  The last card needs no draw.
CardNumber(w) == 4 * (RankOf(w.rank) - 1) + (CHOOSE k \in 0..3 : SuitOf(k) = w.suit)
BoardToInts(text) ==
    LET inOrder == [i \in 1..DeckSize - 1 |->
                      CardNumber(text[((i - 1) % NumColumns) + 1]
                                   .words[(i - 1) \div NumColumns + 1])]
        step(r, card) ==
            LET j == CHOOSE k \in DOMAIN r.cards : r.cards[k] = card
            IN [cards |-> Front([r.cards EXCEPT ![j] = Last(r.cards)]),
                ints |-> Append(r.ints, j - 1)]
    IN FoldLeft(step, [cards |-> [i \in 1..DeckSize |-> i - 1], ints |-> <<>>], inOrder).ints

\* Whether a number deals by these draws, one after the other.
IsDealtBy(idx, ints) ==
    LET seeds[n \in 0..Len(ints)] == IF n = 0 THEN CalcInitSeedx(idx) ELSE NextSeed(seeds[n - 1])
    IN \A n \in 1..Len(ints) : GameNumRand(seeds[n], idx) % (DeckSize + 1 - n) = ints[n]

\* The first number from start on, among count of them, or -1.
NotFound == -1
FindDealInRange(start, count, ints) ==
    LET found == {k \in 0..count - 1 : IsDealtBy(Plus(start, k), ints)}
    IN IF found = {} THEN NotFound
       ELSE CHOOSE k \in found : \A l \in found : k <= l

-----------------------------------------------------------------------------
(* Properties.                                                             *)

\* A number and its board tell each other, also where the generator changes
\* at 2^31 and at 2^32: the text of a deal is read as a board with every card
\* once, the search for its number finds that number in every range about
\* it, and does not find it among the numbers that differ from it by 2^31 or
\* by 2^32 only, which start from the same seed or from one whose draws are
\* the same in 15 bits.
DealsTold ==
    deck = <<>> =>
        LET text == DealText
            like == [cols |-> [c \in 1..NumColumns |-> <<>>], freecells |-> <<>>,
                     founds |-> [f \in 0..3 |-> 0]]
            ints == BoardToInts(text)
            twins == {[deal_idx EXCEPT !.top = t, !.hi = h] :
                        t \in 0..1, h \in {deal_idx.hi, (deal_idx.hi + 32768) % HalfWord}}
        IN /\ CheckStateValidity(ReadText(text, like)).ret = "ok"
           /\ FindDealInRange(deal_idx, 3, ints) = 0
           /\ FindDealInRange(Plus(deal_idx, 1), 3, ints) = NotFound
           /\ \A t \in twins \ {deal_idx} : FindDealInRange(t, 2, ints) = NotFound

-----------------------------------------------------------------------------
(***************************************************************************)
(* The deals that a program is asked for (deals_populator.h): numbers,     *)
(* "seq" with the first and the last number, "slurp" with a file of        *)
(* numbers, up to "--" or the end of the arguments.  They are kept as a    *)
(* list of ranges, where one that follows the last directly is joined to   *)
(* it.  Any other word is a number as atol() reads it: zero.               *)
(***************************************************************************)
CONSTANTS
    Words,          \* words of the command line
    MaxWords,       \* bound: how many there are
    NumberIn,       \* word -> what atol() makes of it
    FileOf          \* names of files -> the numbers that are in them
VARIABLES args, arg, ranges, asked
rangesVars == <<args, arg, ranges, asked>>

Refused == Len(args) + 2
IsValid(r) == r.start <= r.end

\* Mutant of AppendRange: whether the new range is empty is not looked at.
AppendUnchecked(list, new) ==
    LET n == Len(list)
    IN IF n > 0 /\ IsValid(list[n]) /\ new.start = list[n].end + 1
          THEN [list EXCEPT ![n].end = new.end]
          ELSE Append(list, new)

AppendRange(list, new) ==
    LET n == Len(list)
    IN IF n > 0 /\ IsValid(new) /\ IsValid(list[n]) /\ new.start = list[n].end + 1
          THEN [list EXCEPT ![n].end = new.end]
          ELSE Append(list, new)

RangesInit ==
    /\ args \in BoundedSeq(Words, MaxWords)
    /\ arg = 1
    /\ ranges = <<>>
    /\ asked = <<>>

Reading == arg <= Len(args) /\ args[arg] # "--"
\* Numbers from first to last, as they were asked for.
FromTo(first, last) == [i \in 1..last - first + 1 |-> first + i - 1]

TakeSeq ==
    /\ Reading /\ args[arg] = "seq" /\ arg + 2 <= Len(args)
    /\ LET first == NumberIn[args[arg + 1]]
           last == NumberIn[args[arg + 2]]
       IN /\ ranges' = AppendRange(ranges, [start |-> first, end |-> last])
          /\ asked' = asked \o FromTo(first, last)
    /\ arg' = arg + 3
    /\ UNCHANGED args
TakeSlurp ==
    /\ Reading /\ args[arg] = "slurp" /\ arg + 1 <= Len(args)
    /\ args[arg + 1] \in DOMAIN FileOf
    /\ LET file == FileOf[args[arg + 1]]
       IN /\ ranges' = FoldLeft(LAMBDA l, d : AppendRange(l, [start |-> d, end |-> d]),
                                ranges, file)
          /\ asked' = asked \o file
    /\ arg' = arg + 2
    /\ UNCHANGED args
TakeDeal ==
    /\ Reading /\ args[arg] \notin {"seq", "slurp"}
    /\ LET deal == NumberIn[args[arg]]
       IN /\ ranges' = AppendRange(ranges, [start |-> deal, end |-> deal])
          /\ asked' = Append(asked, deal)
    /\ arg' = arg + 1
    /\ UNCHANGED args
\* "seq" or "slurp" without its arguments, or without its file.
Refuse ==
    /\ Reading
    /\ \/ args[arg] = "seq" /\ arg + 2 > Len(args)
       \/ /\ args[arg] = "slurp"
          /\ arg + 1 <= Len(args) => args[arg + 1] \notin DOMAIN FileOf
    /\ arg' = Refused
    /\ UNCHANGED <<args, ranges, asked>>
RangesNext == TakeSeq \/ TakeSlurp \/ TakeDeal \/ Refuse

\* The loop over the ranges.
Iterated(list) == FoldLeft(LAMBDA seq, r : seq \o FromTo(r.start, r.end), <<>>, list)

\* The ranges are gone through number by number as they were asked for, the
\* empty ones not at all, with none lost or repeated where two were joined.
RangesExact == Iterated(ranges) = asked
=============================================================================
