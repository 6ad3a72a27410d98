------------------------------ MODULE CardGame ------------------------------
(***************************************************************************)
(* A walk of a soft thread over the boards of one deal.  Every step is one *)
(* move function (or the prune) and one of the states it derives; the new  *)
(* state is put in canonical order, as the collection of states keeps it,  *)
(* while locs follows where its columns and freecells lie for the user and *)
(* user is the user's own board, on which the moves he is given are made.  *)
(* pro follows a player who is given the moves by way of Freecell Pro.     *)
(***************************************************************************)
EXTENDS SimpleSimonMoves, BoardText
LOCAL INSTANCE SequencesExt
LOCAL INSTANCE FiniteSetsExt

CONSTANT Deals      \* games to play: records of rules and board
VARIABLES game, board, locs, user, pro
gameVars == <<game, board, locs, user, pro>>

Reference == INSTANCE CardRules

-----------------------------------------------------------------------------
(***************************************************************************)
(* The solution as Freecell Pro is told it (fc_pro_iface.c): of the moves  *)
(* of the solver only those that Freecell Pro does not make by itself,     *)
(* when it puts up every safe card before each move of the player.         *)
(*                                                                         *)
(* The list that is made so far is followed rather than kept: "pos" is the *)
(* board on which the listed and the automatic moves were made, "lens" the *)
(* heights that the solver believes its columns to have, and "out" the     *)
(* move that was listed last, if the last move of the solver was.          *)
(***************************************************************************)
\* Mutant of CanBeMoved: the colors are swapped.
CanBeMovedSwapped(b, c) ==
    /\ b.founds[Suit(c)] = Rank(c) - 1
    /\ \A f \in 0..3 \ {Suit(c)} :
         b.founds[f] >= Rank(c) - (IF Color(f) = Color(Suit(c)) THEN 2 ELSE 3)

\* Horne's rule: every card that could go on this one is up, or may go up.
CanBeMoved(b, c) ==
    /\ b.founds[Suit(c)] = Rank(c) - 1
    /\ \A f \in 0..3 \ {Suit(c)} :
         b.founds[f] >= Rank(c) - (IF Color(f) = Color(Suit(c)) THEN 3 ELSE 2)

\* One safe card is put up, from a column or else from a freecell.
PutUpOne(b) ==
    LET cols == {s \in NonEmptyCols(b) : CanBeMoved(b, Top(b, s))}
        freecells == {f \in FilledFreecells(b) : CanBeMoved(b, b.freecells[f])}
        s == Min(cols)
        f == Min(freecells)
    IN IF cols # {} THEN IncrementFound(Pop(b, s), Suit(Top(b, s)))
       ELSE IF freecells # {}
            THEN IncrementFound(EmptyFreecell(b, f), Suit(b.freecells[f]))
            ELSE b
PutUpSafeCards(b) == FoldLeft(LAMBDA c, n : PutUpOne(c), b, [n \in 1..NumCards(b) |-> n])

\* The list is of no use any more: a heart was counted that nobody put up.
Miscounted == [miscounted |-> TRUE]

Nowhere == [none |-> TRUE]
StartPro(b) == [pos |-> b, lens |-> [s \in Cols(b) |-> Height(b, s)], out |-> Nowhere]

\* A move is listed, and made on pos.
List(p, m) == [p EXCEPT !.pos = ApplyMove(@, m), !.out = m]
Shift(p, s, n) == [p EXCEPT !.lens[s] = @ + n]

\* The solver puts up a card: listed unless it is up already.
StackToFoundation(p, m) ==
    Shift(IF p.lens[m.src] = Height(p.pos, m.src)
             THEN List(p, [m EXCEPT !.dest = Suit(Top(p.pos, m.src))])
             ELSE p, m.src, -1)
\* For a freecell that Freecell Pro has emptied the foundation is counted all
\* the same, with the suit of the empty card: a heart.
FreecellToFoundation(p, m) ==
    IF m.src \in FilledFreecells(p.pos)
       THEN List(p, [m EXCEPT !.dest = Suit(p.pos.freecells[m.src])])
       ELSE Miscounted
FreecellToColumn(p, m) ==
    Shift(IF m.src \in FilledFreecells(p.pos) THEN List(p, m) ELSE p, m.dest, 1)
ColumnToFreecell(p, m) ==
    Shift(IF Height(p.pos, m.src) >= p.lens[m.src] THEN List(p, m) ELSE p, m.src, -1)
\* Of a run only the cards that are still there are moved.
ColumnToColumn(p, m) ==
    LET gone == Min({p.lens[m.src] - Height(p.pos, m.src), m.num})
        rest == m.num - gone
    IN Shift(Shift(IF rest > 0 THEN List(p, [m EXCEPT !.num = rest]) ELSE p,
                   m.src, -m.num), m.dest, m.num)

\* The next move of the solver, after the automatic ones.
ProMove(proto, m) ==
    LET p == [proto EXCEPT !.pos = PutUpSafeCards(@), !.out = Nowhere]
    IN CASE m.type = "stack_to_found" -> StackToFoundation(p, m)
         [] m.type = "freecell_to_found" -> FreecellToFoundation(p, m)
         [] m.type = "freecell_to_stack" -> FreecellToColumn(p, m)
         [] m.type = "stack_to_freecell" -> ColumnToFreecell(p, m)
         [] m.type = "stack_to_stack" -> ColumnToColumn(p, m)
         [] OTHER -> p

-----------------------------------------------------------------------------
(* The walk.                                                               *)

\* Freecell Pro plays Freecell, with one deck.
IsFreecell(deal) ==
    /\ deal.rules = [built |-> "alternate", fill |-> "any", unlimited |-> FALSE,
                      simple_simon |-> FALSE]
    /\ Cardinality(DOMAIN deal.board.founds) = 4
NoPro == [not_freecell |-> TRUE]

Init ==
    \E deal \in Deals :
        /\ game = deal.rules
        /\ user = deal.board
        /\ board = Canonize(deal.board)
        /\ locs = CanonizeLocs(deal.board, InitLocs(deal.board))
        /\ pro = IF IsFreecell(deal) THEN StartPro(deal.board) ELSE NoPro

\* The user makes a move that the rules allow, and stops at one they do not.
Lost == [lost |-> TRUE]
UserMoves(u, m) ==
    IF u # Lost /\ Reference!Legal(game, u, m) THEN ApplyMove(u, m) ELSE Lost

\* So does the player with Freecell Pro, for the moves that are listed.
ProMoves(p, m) ==
    IF p \in {NoPro, Lost, Miscounted} THEN p
    ELSE LET q == ProMove(p, m)
             legal == \/ q = Miscounted
                      \/ q.out = Nowhere
                      \/ Reference!Legal(game, PutUpSafeCards(p.pos), q.out)
         IN IF ~legal THEN Lost
            ELSE IF q = Miscounted THEN q ELSE [q EXCEPT !.out = Nowhere]

\* A game is played by the move functions of its own family, and by the prune.
FreecellFunctions ==
    UNION {TopStackCardsToFounds(game, board),
           FreecellCardsToFounds(game, board),
           NonTopStackCardsToFounds(game, board),
           FreecellCardsOnTopOfStacks(game, board),
           FreecellCardsToEmptyStack(game, board),
           FcToEmptyAndPutOnTop(game, board),
           ParentOnTheSameStack(game, board),
           StackCardsToDifferentStacks(game, board),
           SequencesToFreeStacks(game, board),
           CardsToADifferentParent(game, board),
           EmptyStackIntoFreecells(game, board),
           AtomicCardToEmptyStack(game, board),
           AtomicCardToParent(game, board),
           AtomicCardToFreecell(game, board),
           AtomicFreecellCardToParent(game, board),
           AtomicFreecellCardToEmptyStack(game, board),
           RaymondPrune(game, board)}
SimonFunctions ==
    UNION {SsSequenceToFounds(board),
           SsSequenceToTrueParent(board),
           SsWholeStackSequenceToFalseParent(board),
           SsSequenceToTrueParentWithSomeCardsAbove(board),
           SsSequenceWithSomeCardsAboveToTrueParent(board),
           SsJunkAboveBoth(board),
           SsWholeStackToFalseParentWithSomeCardsAbove(board),
           SsSequenceToParentOnTheSameStack(board),
           SsSequenceToFalseParent(board)}

\* The search goes on with one of the states that were derived.
Derive ==
    \E d \in IF game.simple_simon THEN SimonFunctions ELSE FreecellFunctions :
        /\ board' = Canonize(d.board)
        /\ locs' = CanonizeLocs(d.board, locs)
        /\ user' = FoldLeft(LAMBDA u, m : UserMoves(u, Normalize(locs, m)), user, d.moves)
        /\ pro' = FoldLeft(LAMBDA p, m : ProMoves(p, Normalize(locs, m)), pro, d.moves)
        /\ game' = game
Next == Derive

Spec == Init /\ [][Next]_gameVars

-----------------------------------------------------------------------------
(* Properties.                                                             *)

\* The moves that the user is given can all be made, each allowed by the
\* rules on the board he has by then, and they lead to the very board that
\* the solver went on with: column by column and freecell by freecell at the
\* places that the locations say.  It ties the two hand-kept records of each
\* move function (freecell.c, simpsim.c), the capacity they count on
\* (calc_max_sequence_move), and canonization with its locations (state.c)
\* to the replay of the solution (move.h, lib.c).
UserFollows ==
    /\ user # Lost
    /\ user.founds = board.founds
    /\ \A s \in Cols(board) : user.cols[locs.cols[s]] = board.cols[s]
    /\ \A f \in Freecells(board) : user.freecells[locs.freecells[f]] = board.freecells[f]

\* Played on Freecell Pro, which puts up safe cards by itself, the moves that
\* are listed for it are legal at their places and lead to the solver's game:
\* after the automatic moves both boards are one, with the heights that the
\* list is made by.  Not so from the first card on that is told to leave a
\* freecell which Freecell Pro has emptied: there the code counts a heart
\* that nobody put up (fc_pro_iface.c:122).
ProFollows ==
    /\ pro # Lost
    /\ pro \notin {NoPro, Miscounted} =>
         /\ PutUpSafeCards(pro.pos) = PutUpSafeCards(user)
         /\ pro.lens = [s \in Cols(user) |-> Height(user, s)]

\* Every rank is read back as itself, whichever way tens are written.
RanksReadBack ==
    \A r \in 1..13, tens \in {"T", "10"} : RankOf(RankName(r, tens)) = r

\* A board written in the middle of a game is read back as the same board
\* (state.h:773), except that empty freecells, written as blanks, are passed
\* over, unless the user puts dashes for them; and the search's own board in
\* the user's order is the same text.  A text that was cut short is refused,
\* unless it only lacks empty columns, and a text without one card has that
\* card called missing.
TextReadsBack ==
    LET text == AsText(board, locs, "10")
        read == ReadText(text, user)
        dashes == [text EXCEPT ![2].words =
                     [f \in DOMAIN @ |-> IF @[f] = Blanks THEN Dash ELSE @[f]]]
        short(n) == ReadText(SubSeq(text, 1, n), user)
        without(l) == ReadText([text EXCEPT ![l].words = Front(@)], user)
        accepted(b) == CheckStateValidity(b).ret = "ok"
    IN /\ RanksReadBack
       /\ text = AsText(user, InitLocs(user), "10")
       /\ read.cols = user.cols /\ read.founds = user.founds
       /\ Canonize(read) = Canonize(user) /\ accepted(read)
       /\ ReadText(dashes, user) = user
       /\ \A n \in 2..Len(text) - 1 : accepted(short(n)) => short(n) = read
       /\ \A l \in 3..Len(text) :
            text[l].words # <<>> =>
                CheckStateValidity(without(l)) = [ret |-> "missing", card |-> Top(user, l - 2)]

\* The prune is forced on the search: a board that it applies to gets no other
\* child.  So it must never lose the game: what could be won can be won after
\* it (fc_solve_sfs_raymond_prune, calc_foundation.h).
Winning ==
    Reference!WinningFrom({Reference!Position(g.rules, g.board) :
                             g \in {h \in Deals : ~h.rules.simple_simon}})
PruneSafe ==
    <<game, board>> \in Winning =>
        \A d \in RaymondPrune(game, board) : Reference!Position(game, d.board) \in Winning
=============================================================================
