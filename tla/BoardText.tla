----------------------------- MODULE BoardText -----------------------------
(***************************************************************************)
(* Boards as text (fc_solve_state_as_string in state.c, and in state.h     *)
(* fc_solve_initial_user_state_to_c and fc_solve_check_state_validity).    *)
(*                                                                         *)
(* A text is a sequence of lines, a line what it begins with and the words *)
(* that follow, and the word of a card the name of its rank with its suit. *)
(* An empty freecell is written as blanks, which are no word to a reader.  *)
(***************************************************************************)
EXTENDS Board
LOCAL INSTANCE SequencesExt

Suits == 0..3
Ranks == 1..RankKing
Decks(b) == Cardinality(DOMAIN b.founds) \div 4

\* Names of ranks (rank2str.h), tens as "T" or as "10", and how they are read.
RankName(r, tens) ==
    IF r = 10 THEN tens
    ELSE <<"0", "A", "2", "3", "4", "5", "6", "7", "8", "9", "", "J", "Q", "K">>[r + 1]
RankOf(name) ==
    IF name \in {"T", "10", "0"} THEN 10
    ELSE IF name = "1" THEN 1
    ELSE CHOOSE r \in 1..13 \ {10} : RankName(r, "T") = name

Word(c, tens) == [rank |-> RankName(Rank(c), tens), suit |-> Suit(c)]
\* An empty freecell as it is written, and as a user may write it.
Blanks == [rank |-> "", suit |-> 0]
Dash == [rank |-> "-", suit |-> 0]

-----------------------------------------------------------------------------
(* Writing, in the order of the columns and freecells that locs gives.     *)

Shown(locs, i) == CHOOSE j \in DOMAIN locs : locs[j] = i
AsText(b, locs, tens) ==
    LET word(c) == IF c = NoCard THEN Blanks ELSE Word(c, tens)
        freecells == [f \in Freecells(b) |-> b.freecells[Shown(locs.freecells, f)]]
        last == CHOOSE n \in 0..Len(freecells) :
                  /\ n > 0 => freecells[n] # NoCard
                  /\ \A f \in n + 1..Len(freecells) : freecells[f] = NoCard
        founds == [i \in 1..4 * Decks(b) |->
                     [rank |-> RankName(b.founds[i - 1], tens), suit |-> (i - 1) % 4]]
    IN <<[head |-> "Foundations:", words |-> founds],
         [head |-> "Freecells:", words |-> [f \in 1..last |-> word(freecells[f])]]>>
       \o [s \in Cols(b) |->
             [head |-> ":",
              words |-> [i \in DOMAIN b.cols[Shown(locs.cols, s)] |->
                           word(b.cols[Shown(locs.cols, s)][i])]]]

-----------------------------------------------------------------------------
(* Reading.                                                                *)

CardOf(w) == IF w = Dash THEN NoCard ELSE Card(RankOf(w.rank), w.suit)

\* Freecells are filled in turn, whatever blanks lie between the cards.
ReadFreecells(b, line) ==
    LET words == SelectSeq(line.words, LAMBDA w : w # Blanks)
    IN [b EXCEPT !.freecells =
          [f \in Freecells(b) |-> IF f <= Len(words) THEN CardOf(words[f]) ELSE NoCard]]

\* Mutant of ReadFounds: all of a suit go to the first deck.
ReadFoundsOfOneDeck(b, line) ==
    LET step(founds, w) ==
            [founds EXCEPT ![w.suit] = IF w.rank = "0" THEN 0 ELSE RankOf(w.rank)]
    IN [b EXCEPT !.founds = FoldLeft(step, [f \in DOMAIN @ |-> 0], line.words)]

\* The foundations of a suit are met deck by deck, and then from the first.
ReadFounds(b, line) ==
    LET step(r, w) ==
            [founds |-> [r.founds EXCEPT ![4 * r.deck[w.suit] + w.suit] =
                           IF w.rank = "0" THEN 0 ELSE RankOf(w.rank)],
             deck |-> [r.deck EXCEPT ![w.suit] = (@ + 1) % Decks(b)]]
        start == [founds |-> [f \in DOMAIN b.founds |-> 0], deck |-> [s \in Suits |-> 0]]
    IN [b EXCEPT !.founds = FoldLeft(step, start, line.words).founds]
ReadColumn(b, s, line) ==
    [b EXCEPT !.cols[s] = [i \in DOMAIN line.words |-> CardOf(line.words[i])]]

\* Lines are read until every column had one; the columns that had none by
\* the end of the text stay empty.
ReadText(text, like) ==
    LET blank == [cols |-> [s \in Cols(like) |-> <<>>],
                  freecells |-> [f \in Freecells(like) |-> NoCard],
                  founds |-> [f \in DOMAIN like.founds |-> 0]]
        step(r, line) ==
            CASE r.read = Len(like.cols) -> r
              [] line.head = "Freecells:" -> [r EXCEPT !.board = ReadFreecells(@, line)]
              [] line.head = "Foundations:" -> [r EXCEPT !.board = ReadFounds(@, line)]
              [] OTHER -> [read |-> r.read + 1, board |-> ReadColumn(r.board, r.read + 1, line)]
    IN FoldLeft(step, [read |-> 0, board |-> blank], text).board

CardsInPlay(b) == FlattenSeq(b.cols) \o b.freecells
Copies(founds, cards, c) ==
    Cardinality({f \in DOMAIN founds : f % 4 = Suit(c) /\ founds[f] >= Rank(c)})
    + Cardinality({i \in DOMAIN cards : cards[i] = c})
AllKinds == {Card(r, s) : r \in Ranks, s \in Suits}

\* Mutant of CheckStateValidity: only cards too many are looked for.
CheckExtraCards(b) ==
    LET cards == CardsInPlay(b)
        extra == {c \in AllKinds : Copies(b.founds, cards, c) > Decks(b)}
    IN IF extra = {} THEN [ret |-> "ok", card |-> NoCard]
       ELSE [ret |-> "extra", card |-> CHOOSE c \in extra : TRUE]

\* A board is accepted if it has every card once for each deck; or else the
\* first that it has not, by suit and rank, is named.
CheckStateValidity(b) ==
    LET cards == CardsInPlay(b)
        wrong == {c \in AllKinds : Copies(b.founds, cards, c) # Decks(b)}
        first == CHOOSE c \in wrong :
                   \A d \in wrong : Suit(c) < Suit(d) \/ (Suit(c) = Suit(d) /\ Rank(c) <= Rank(d))
    IN IF wrong = {} THEN [ret |-> "ok", card |-> NoCard]
       ELSE [ret |-> IF Copies(b.founds, cards, first) < Decks(b) THEN "missing" ELSE "extra",
             card |-> first]
=============================================================================
