--------------------------- MODULE FreecellMoves ---------------------------
(***************************************************************************)
(* The moves of the Freecell family of games (freecell.c).                 *)
(*                                                                         *)
(* Every move function of the source is an operator from the rules and a   *)
(* board to the set of the states it derives.  A derived state is the new  *)
(* board with the elementary moves recorded on the way.  The source keeps  *)
(* the two by hand, statement by statement, so they are built apart here.  *)
(* The order in which a function lists its derived states is left open.    *)
(***************************************************************************)
EXTENDS Board
LOCAL INSTANCE SequencesExt
LOCAL INSTANCE FiniteSetsExt

Start(b) == [board |-> b, moves |-> <<>>]
Record(d, type, src, dest, n) ==
    [d EXCEPT !.moves = Append(@, Move(type, src, dest, n))]

StackToFreecell(d, s, f) ==
    LET put == [d EXCEPT !.board = PutInFreecell(Pop(@, s), f, Top(@, s))]
    IN Record(put, "stack_to_freecell", s, f, 1)
StackToStack(d, s, t) ==
    LET put == [d EXCEPT !.board = Push(Pop(@, s), t, Top(@, s))]
    IN Record(put, "stack_to_stack", s, t, 1)
FreecellToStack(d, f, t) ==
    LET put == [d EXCEPT !.board = Push(EmptyFreecell(@, f), t, @.freecells[f])]
    IN Record(put, "freecell_to_stack", f, t, 1)
StackToFound(d, s, found) ==
    LET put == [d EXCEPT !.board = IncrementFound(Pop(@, s), found)]
    IN Record(put, "stack_to_found", s, found, 1)
FreecellToFound(d, f, found) ==
    LET put == [d EXCEPT !.board = IncrementFound(EmptyFreecell(@, f), found)]
    IN Record(put, "freecell_to_found", f, found, 1)
MoveSequence(d, s, t, n) ==
    LET put == [d EXCEPT !.board = Transfer(@, s, t, n)]
    IN Record(put, "stack_to_stack", s, t, n)

-----------------------------------------------------------------------------
(* What the functions share.                                               *)

Least(a, b) == IF a < b THEN a ELSE b
FirstEmptyCol(b) == Min(EmptyCols(b))

NumVacantFreecells(b) == Cardinality(VacantFreecells(b))
NumVacantStacks(b) == Cardinality(EmptyCols(b))
\* Empty columns that a buried card may wait in.
VirtualStacks(rules, b) == IF rules.fill = "any" THEN NumVacantStacks(b) ELSE 0
VacantSlots(rules, b) == NumVacantFreecells(b) + VirtualStacks(rules, b)

MayFill(rules, c) == rules.fill = "any" \/ (rules.fill = "kings" /\ IsKing(c))

\* More cards than any column holds stands for "no limit".
NoLimit == 1000
MaxSequenceMove(rules, freecells, stacks) ==
    CASE rules.unlimited -> NoLimit
      [] ~rules.unlimited /\ rules.fill = "any" -> (freecells + 1) * 2 ^ stacks
      [] OTHER -> freecells + 1

\* The top card of s into a freecell or, when they are taken, an empty column.
Evacuate(d, s) ==
    IF VacantFreecells(d.board) # {}
       THEN StackToFreecell(d, s, Min(VacantFreecells(d.board)))
       ELSE StackToStack(d, s, FirstEmptyCol(d.board))
EmptyCol(d, s, n) ==
    FoldLeft(LAMBDA e, i : Evacuate(e, s), d, [i \in 1..n |-> i])
EmptyTwoCols(d, s1, n1, s2, n2) == EmptyCol(EmptyCol(d, s1, n1), s2, n2)

\* The maximal sequences of a column: <<first, last>> heights.
InSequence(rules, col, h) == h > 1 /\ IsParent(rules, col[h], col[h - 1])
ColSeqs(rules, col) ==
    {<<c, Min({e \in c..Len(col) : ~(e < Len(col) /\ InSequence(rules, col, e + 1))})>> :
        c \in {h \in DOMAIN col : ~InSequence(rules, col, h)}}
AllSeqs(rules, b) ==
    UNION {{<<s, q[1], q[2]>> : q \in ColSeqs(rules, b.cols[s])} : s \in Cols(b)}

\* Cards that take `card` and are not covered by their own child.
FreeParents(rules, b, card) ==
    UNION {{<<s, h>> : h \in {i \in DOMAIN b.cols[s] :
                                /\ IsParent(rules, card, b.cols[s][i])
                                /\ ~(i < Height(b, s)
                                     /\ InSequence(rules, b.cols[s], i + 1))}} :
           s \in Cols(b)}

\* Mutant of CheckIfCanRelocate: the slots that the n cards take still count.
CheckIfCanRelocateFull(rules, n, freecells, stacks, len) ==
    /\ n <= freecells + stacks
    /\ MaxSequenceMove(rules, freecells, stacks) >= len

\* n cards make room, and a sequence of len moves over the slots left.
CheckIfCanRelocate(rules, n, freecells, stacks, len) ==
    LET toFreecells == Least(n, freecells)
        toStacks == Least(n - toFreecells, stacks)
    IN /\ n = toFreecells + toStacks
       /\ MaxSequenceMove(rules, freecells - toFreecells, stacks - toStacks) >= len

ShouldNotEmptyColumns(rules) == rules.fill = "none"

-----------------------------------------------------------------------------
(* Moves to the foundations.                                               *)

TopStackCardsToFounds(rules, b) ==
    {StackToFound(Start(b), s, FoundFor(b, Top(b, s))) :
        s \in {t \in NonEmptyCols(b) : Goes(b, Top(b, t))}}

FreecellCardsToFounds(rules, b) ==
    {FreecellToFound(Start(b), f, FoundFor(b, b.freecells[f])) :
        f \in {g \in FilledFreecells(b) : Goes(b, b.freecells[g])}}

NonTopStackCardsToFounds(rules, b) ==
    UNION {{StackToFound(EmptyCol(Start(b), s, Height(b, s) - c), s,
                         FoundFor(b, b.cols[s][c])) :
              c \in {h \in 1..Height(b, s) - 1 :
                        /\ Height(b, s) - h <= VacantSlots(rules, b)
                        /\ Goes(b, b.cols[s][h])}} :
           s \in Cols(b)}

-----------------------------------------------------------------------------
(* Freecell cards.                                                         *)

FreecellCardsOnTopOfStacks(rules, b) ==
    UNION {LET parents == {p \in FreeParents(rules, b, b.freecells[f]) :
                             Height(b, p[1]) - p[2] <= VacantSlots(rules, b)}
           IN {FreecellToStack(EmptyCol(Start(b), p[1], Height(b, p[1]) - p[2]),
                               f, p[1]) : p \in parents} :
           f \in {g \in FilledFreecells(b) : ~IsKing(b.freecells[g])}}

FreecellCardsToEmptyStack(rules, b) ==
    IF EmptyCols(b) = {} THEN {}
    ELSE {FreecellToStack(Start(b), f, FirstEmptyCol(b)) :
            f \in {g \in FilledFreecells(b) : MayFill(rules, b.freecells[g])}}

\* The second card comes from a freecell, or from a column with what is on it.
FcToEmptyAndPutOnTop(rules, b) ==
    LET t == FirstEmptyCol(b)
        fromFreecell(f) ==
            {FreecellToStack(FreecellToStack(Start(b), f, t), g, t) :
                g \in {h \in FilledFreecells(b) \ {f} :
                         IsParent(rules, b.freecells[h], b.freecells[f])}}
        seqs(f) ==
            {q \in AllSeqs(rules, b) :
                /\ IsParent(rules, b.cols[q[1]][q[2]], b.freecells[f])
                /\ CheckIfCanRelocate(rules, Height(b, q[1]) - q[3],
                        NumVacantFreecells(b) + 1, NumVacantStacks(b) - 1,
                        q[3] - q[2] + 1)}
        fromCol(f) ==
            {MoveSequence(EmptyCol(FreecellToStack(Start(b), f, t),
                                   q[1], Height(b, q[1]) - q[3]),
                          q[1], t, q[3] - q[2] + 1) : q \in seqs(f)}
    IN IF EmptyCols(b) = {} THEN {}
       ELSE UNION {fromFreecell(f) \cup fromCol(f) :
                     f \in {g \in FilledFreecells(b) : MayFill(rules, b.freecells[g])}}

-----------------------------------------------------------------------------
(* Moves between columns.                                                  *)

\* Column s, from height c: its cards above c wait, then those down to dc,
\* and the last card of the first batch goes on its parent at height dc.
ParentOnTheSameStack(rules, b) ==
    LET low(s) == Height(b, s) - VacantSlots(rules, b)
        places(s) ==
            {<<c, dc>> \in (1..Height(b, s)) \X (1..Height(b, s)) :
                /\ dc >= low(s) /\ dc < c - 1
                /\ ~InSequence(rules, b.cols[s], c)
                /\ IsParent(rules, b.cols[s][c], b.cols[s][dc])
                /\ ~InSequence(rules, b.cols[s], dc + 1)}
        moved(s, c, dc) ==
            LET first == EmptyCol(Start(b), s, Height(b, s) - c + 1)
                at == Last(first.moves)
                second == EmptyCol(first, s, c - 1 - dc)
            IN IF at.type = "stack_to_stack"
                  THEN StackToStack(second, at.dest, s)
                  ELSE FreecellToStack(second, at.dest, s)
    IN UNION {{moved(s, p[1], p[2]) : p \in places(s)} : s \in Cols(b)}

StackCardsToDifferentStacks(rules, b) ==
    LET relocates(q, p) ==
            CheckIfCanRelocate(rules, Height(b, p[1]) - p[2] + Height(b, q[1]) - q[3],
                NumVacantFreecells(b), VirtualStacks(rules, b), q[3] - q[2] + 1)
        sources == {q \in AllSeqs(rules, b) :
                      /\ ~(ShouldNotEmptyColumns(rules) /\ q[2] = 1)
                      /\ ~IsKing(b.cols[q[1]][q[2]])}
        targets(q) == {p \in FreeParents(rules, b, b.cols[q[1]][q[2]]) :
                         p[1] # q[1] /\ relocates(q, p)}
        moved(q, p) ==
            MoveSequence(EmptyTwoCols(Start(b), p[1], Height(b, p[1]) - p[2],
                                      q[1], Height(b, q[1]) - q[3]),
                         q[1], p[1], q[3] - q[2] + 1)
    IN UNION {{moved(q, p) : p \in targets(q)} : q \in sources}

\* A sequence at the top of its column moves whole, one below other cards
\* as far as the slots they leave allow.
SequencesToFreeStacks(rules, b) ==
    LET free == NumVacantFreecells(b)
        stacks == NumVacantStacks(b)
        seqs == {q \in AllSeqs(rules, b) : MayFill(rules, b.cols[q[1]][q[2]])}
        whole == {q \in seqs :
                    /\ q[3] = Height(b, q[1]) /\ q[2] > 1
                    /\ MaxSequenceMove(rules, free, stacks - 1) >= q[3] - q[2] + 1}
        above(q) == Height(b, q[1]) - q[3]
        toFreecells(q) == Least(above(q), free)
        toStacks(q) == Least(above(q) - toFreecells(q), VirtualStacks(rules, b))
        from(q) == Max({q[2], q[3] + 1
                          - MaxSequenceMove(rules, free - toFreecells(q),
                                            stacks - toStacks(q) - 1)})
        below == {q \in seqs :
                    /\ above(q) > 0
                    /\ above(q) = toFreecells(q) + toStacks(q)
                    /\ stacks > toStacks(q)
                    /\ MayFill(rules, b.cols[q[1]][from(q)])}
        moved(q) ==
            LET d == EmptyCol(Start(b), q[1], above(q))
            IN MoveSequence(d, q[1], FirstEmptyCol(d.board), q[3] - from(q) + 1)
    IN IF stacks = 0 THEN {}
       ELSE {MoveSequence(Start(b), q[1], FirstEmptyCol(b), q[3] - q[2] + 1) : q \in whole}
            \cup {moved(q) : q \in below}

\* The part from height c up leaves its parent for another one.
CardsToADifferentParent(rules, b) ==
    LET places ==
            UNION {{<<s, c>> : c \in {h \in DOMAIN b.cols[s] :
                        \A i \in h..Height(b, s) : InSequence(rules, b.cols[s], i)}} :
                   s \in Cols(b)}
        above(p) == Height(b, p[1]) - p[2]
        len(q) == Height(b, q[1]) - q[2] + 1
        relocates(q, p) ==
            LET toFreecells == Least(above(p), NumVacantFreecells(b))
                toStacks == Least(above(p) - toFreecells, VirtualStacks(rules, b))
            IN /\ above(p) = toFreecells + toStacks
               /\ MaxSequenceMove(rules, NumVacantFreecells(b) - toFreecells,
                                  NumVacantStacks(b) - toStacks) >= len(q)
        targets(q) == {p \in FreeParents(rules, b, b.cols[q[1]][q[2]]) :
                         p[1] # q[1] /\ relocates(q, p)}
    IN UNION {{MoveSequence(EmptyCol(Start(b), p[1], above(p)), q[1], p[1], len(q)) :
                 p \in targets(q)} : q \in places}

EmptyStackIntoFreecells(rules, b) ==
    IF rules.fill = "none" \/ EmptyCols(b) # {} THEN {}
    ELSE {EmptyCol(Start(b), s, Height(b, s)) :
            s \in {t \in Cols(b) : Height(b, t) <= NumVacantFreecells(b)}}

-----------------------------------------------------------------------------
(* Single cards.                                                           *)

\* A column that may not be refilled keeps its last card.
Spare(rules, b) ==
    {s \in Cols(b) : Height(b, s) > IF ShouldNotEmptyColumns(rules) THEN 1 ELSE 0}
Takers(rules, b, card) == {t \in NonEmptyCols(b) : IsParent(rules, card, Top(b, t))}

AtomicCardToEmptyStack(rules, b) ==
    IF EmptyCols(b) = {} THEN {}
    ELSE {StackToStack(Start(b), s, FirstEmptyCol(b)) :
            s \in {t \in Cols(b) : Height(b, t) > 1 /\ MayFill(rules, Top(b, t))}}
AtomicCardToParent(rules, b) ==
    UNION {{StackToStack(Start(b), s, t) : t \in Takers(rules, b, Top(b, s)) \ {s}} :
           s \in Spare(rules, b)}
AtomicCardToFreecell(rules, b) ==
    IF VacantFreecells(b) = {} THEN {}
    ELSE {StackToFreecell(Start(b), s, Min(VacantFreecells(b))) : s \in Spare(rules, b)}
AtomicFreecellCardToParent(rules, b) ==
    UNION {{FreecellToStack(Start(b), f, t) : t \in Takers(rules, b, b.freecells[f])} :
           f \in FilledFreecells(b)}
AtomicFreecellCardToEmptyStack(rules, b) == FreecellCardsToEmptyStack(rules, b)

-----------------------------------------------------------------------------
(* The prune: safe cards go up until a whole pass moves none.              *)

PruneCol(rules, d, s) ==
    LET found == CalcFoundation(rules, d.board, Top(d.board, s))
    IN IF d.board.cols[s] # <<>> /\ found >= 0 THEN StackToFound(d, s, found) ELSE d
PruneFreecell(rules, d, f) ==
    LET found == CalcFoundation(rules, d.board, d.board.freecells[f])
    IN IF d.board.freecells[f] # NoCard /\ found >= 0
          THEN FreecellToFound(d, f, found) ELSE d
PrunePass(rules, d) ==
    LET cols == FoldLeft(LAMBDA e, s : PruneCol(rules, e, s), d, [s \in Cols(d.board) |-> s])
    IN FoldLeft(LAMBDA e, f : PruneFreecell(rules, e, f), cols,
                [f \in Freecells(d.board) |-> f])

\* A board of n cards is done after at most n passes that move a card.
Pruned(rules, b) ==
    FoldLeft(LAMBDA d, i : PrunePass(rules, d), Start(b), [i \in 1..NumCards(b) |-> i])
RaymondPrune(rules, b) == LET d == Pruned(rules, b) IN IF d.moves = <<>> THEN {} ELSE {d}
=============================================================================
