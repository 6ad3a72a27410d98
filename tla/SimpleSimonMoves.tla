-------------------------- MODULE SimpleSimonMoves --------------------------
(***************************************************************************)
(* The moves of Simple Simon (simpsim.c).  There are no freecells; a card  *)
(* may lie on any card of the next rank (its false parent) and a run of    *)
(* one suit (a true sequence) moves as one, so a run of several suits (a   *)
(* false sequence) moves as far as the empty columns carry its parts.      *)
(*                                                                         *)
(* The junk above a card is a list of false sequences, the top one first.  *)
(* Each gets a column of its own before anything moves; a derived state    *)
(* then moves the junk away and the sequence that it was about.            *)
(***************************************************************************)
EXTENDS FreecellMoves
LOCAL INSTANCE SequencesExt
LOCAL INSTANCE FiniteSetsExt

IsFalseParent(child, parent) == Rank(child) + 1 = Rank(parent)
IsSuitTrue(child, parent) == Suit(child) = Suit(parent)
IsTrueParent(child, parent) == IsFalseParent(child, parent) /\ IsSuitTrue(child, parent)

\* How many true sequences may move over so many empty columns.
MaxSeqMove(emptyCols) == IF emptyCols < 0 THEN 0 ELSE 2 ^ emptyCols

\* Heights of column col from a to z: is it one false sequence, and of how
\* many true ones.
IsFalseSeq(col, a, z) == \A i \in a + 1..z : IsFalseParent(col[i], col[i - 1])
SuitChanges(col, a, z) == Cardinality({i \in a + 1..z : ~IsSuitTrue(col[i], col[i - 1])})
TrueSeqs(col, a, z) == 1 + SuitChanges(col, a, z)

\* Where the false sequence at the top begins.
SeqHeight(col) == Min({h \in DOMAIN col : IsFalseSeq(col, h, Len(col))})
WholeColumns(b) == {s \in NonEmptyCols(b) : SeqHeight(b.cols[s]) = 1}
TrueSeqsOfCol(col) == TrueSeqs(col, SeqHeight(col), Len(col))

\* The junk above height p, up to height top.  A change of suit to the
\* sequence above counts as well.
Junk(col, p, top) ==
    LET starts == {h \in p + 1..top : h = p + 1 \/ ~IsFalseParent(col[h], col[h - 1])}
        end(h) == Min({i - 1 : i \in {j \in starts : j > h}} \cup {top})
        item(h) == [card |-> col[h], num |-> end(h) - h + 1,
                    seqs |-> TrueSeqs(col, h, Least(end(h) + 1, top))]
        descending == SetToSortSeq(starts, >)
    IN [i \in DOMAIN descending |-> item(descending[i])]

\* A column for each of the junk: the first one that is not taken, with a
\* parent on top, or else an empty one.
Place(b, onlyParents, plan, junk) ==
    LET free == Cols(b) \ plan.taken
        parents == {t \in free \cap NonEmptyCols(b) :
                      /\ IsFalseParent(junk.card, Top(b, t))
                      /\ MaxSeqMove(plan.empty) >= junk.seqs}
        mayTakeEmpty == /\ ~onlyParents /\ EmptyCols(b) # {}
                        /\ MaxSeqMove(plan.empty - 1) >= junk.seqs
        to(t) == [plan EXCEPT !.taken = @ \cup {t}, !.to = Append(@, t)]
    IN CASE ~plan.ok -> plan
         [] plan.ok /\ parents # {} -> to(Min(parents))
         [] plan.ok /\ parents = {} /\ mayTakeEmpty ->
              [to(Min(free \cap EmptyCols(b))) EXCEPT !.empty = @ - 1]
         [] OTHER -> [plan EXCEPT !.ok = FALSE]
FalseSeqIndexLoop(b, onlyParents, cols, junks) ==
    FoldLeft(LAMBDA plan, junk : Place(b, onlyParents, plan, junk),
             [taken |-> cols, to |-> <<>>, empty |-> NumVacantStacks(b), ok |-> TRUE], junks)

MoveJunk(d, s, junks, plan) ==
    FoldLeft(LAMBDA e, i : MoveSequence(e, s, plan.to[i], junks[i].num), d,
             [i \in DOMAIN junks |-> i])

\* The cards that lie elsewhere and are a true (or just any) parent.
Places(b, holds(_)) ==
    UNION {{<<t, h>> : h \in {i \in DOMAIN b.cols[t] : holds(b.cols[t][i])}} : t \in Cols(b)}
TrueParents(b, s, card) ==
    {p \in Places(b, LAMBDA c : IsTrueParent(card, c)) : p[1] # s}
FalseParents(b, s, card) ==
    {p \in Places(b, LAMBDA c : IsFalseParent(card, c)) : p[1] # s}
AtTop(b, p) == p[2] = Height(b, p[1])
Rest(b, s, h) == Height(b, s) - h + 1

-----------------------------------------------------------------------------
(* The move functions: from the board to the states derived.               *)

SsSequenceToFounds(b) ==
    LET full(s) == /\ Height(b, s) >= RankKing
                   /\ \A i \in 1..RankKing :
                        /\ Rank(b.cols[s][Height(b, s) + 1 - i]) = i
                        /\ Suit(b.cols[s][Height(b, s) + 1 - i]) = Suit(Top(b, s))
        moved(s) ==
            LET put == [board |-> [b EXCEPT !.cols[s] = SubSeq(@, 1, Len(@) - RankKing),
                                            !.founds[Suit(Top(b, s))] = RankKing],
                        moves |-> <<>>]
            IN Record(put, "seq_to_found", s, Suit(Top(b, s)), RankKing)
    IN {moved(s) : s \in {t \in Cols(b) : full(t)}}

\* Each column with the heights from where its top false sequence may go.
SsSequenceToTrueParent(b) ==
    LET starts(s) == {h \in SeqHeight(b.cols[s])..Height(b, s) :
                        TrueSeqs(b.cols[s], h, Height(b, s)) <= MaxSeqMove(NumVacantStacks(b))}
        parents(s, h) == {p \in TrueParents(b, s, b.cols[s][h]) : AtTop(b, p)}
        from(s, h) == {MoveSequence(Start(b), s, p[1], Rest(b, s, h)) : p \in parents(s, h)}
    IN UNION {UNION {from(s, h) : h \in starts(s)} : s \in NonEmptyCols(b)}

\* The top false sequence of each column in S.
SequencesToFalseParents(b, S) ==
    LET fits == {s \in S : TrueSeqsOfCol(b.cols[s]) <= MaxSeqMove(NumVacantStacks(b))}
        first(s) == SeqHeight(b.cols[s])
        parents(s) == {p \in FalseParents(b, s, b.cols[s][first(s)]) : AtTop(b, p)}
    IN UNION {{MoveSequence(Start(b), s, p[1], Rest(b, s, first(s))) : p \in parents(s)} :
              s \in fits}
SsWholeStackSequenceToFalseParent(b) == SequencesToFalseParents(b, WholeColumns(b))
SsSequenceToFalseParent(b) == SequencesToFalseParents(b, NonEmptyCols(b))

SsSequenceToTrueParentWithSomeCardsAbove(b) ==
    LET starts(s) == {h \in SeqHeight(b.cols[s])..Height(b, s) :
                        h = 1 \/ ~IsTrueParent(b.cols[s][h], b.cols[s][h - 1])}
        moved(s, h, p) ==
            LET junks == Junk(b.cols[p[1]], p[2], Height(b, p[1]))
                plan == FalseSeqIndexLoop(b, FALSE, {s, p[1]}, junks)
            IN IF plan.ok
                  /\ MaxSeqMove(plan.empty) >= TrueSeqs(b.cols[s], h, Height(b, s))
                  THEN {MoveSequence(MoveJunk(Start(b), p[1], junks, plan),
                                     s, p[1], Rest(b, s, h))}
                  ELSE {}
    IN UNION {UNION {UNION {moved(s, h, p) : p \in TrueParents(b, s, b.cols[s][h])} :
                       h \in starts(s)} : s \in NonEmptyCols(b)}

\* The false sequence from height h lies under junk.
SsSequenceWithSomeCardsAboveToTrueParent(b) ==
    LET end(s, h) == CHOOSE z \in h..Height(b, s) - 1 :
                        /\ IsFalseSeq(b.cols[s], h, z)
                        /\ ~IsFalseParent(b.cols[s][z + 1], b.cols[s][z])
        starts(s) == 1..SeqHeight(b.cols[s]) - 1
        parents(s, h) == {p \in TrueParents(b, s, b.cols[s][h]) : AtTop(b, p)}
        moved(s, h, p) ==
            LET junks == Junk(b.cols[s], end(s, h), Height(b, s))
                plan == FalseSeqIndexLoop(b, FALSE, {s, p[1]}, junks)
            IN IF plan.ok /\ MaxSeqMove(plan.empty) > TrueSeqs(b.cols[s], h, end(s, h))
                  THEN {MoveSequence(MoveJunk(Start(b), s, junks, plan),
                                     s, p[1], end(s, h) - h + 1)}
                  ELSE {}
    IN UNION {UNION {UNION {moved(s, h, p) : p \in parents(s, h)} :
                       h \in starts(s)} : s \in NonEmptyCols(b)}

\* Junk lies on both.  The card that moves is the one right below the top
\* false sequence: the code's loop for more of them never goes on.
SsJunkAboveBoth(b) ==
    LET under == {s \in NonEmptyCols(b) : SeqHeight(b.cols[s]) > 1}
        card(s) == b.cols[s][SeqHeight(b.cols[s]) - 1]
        parents(s) == {p \in TrueParents(b, s, card(s)) : ~AtTop(b, p)}
        own(s) == Junk(b.cols[s], SeqHeight(b.cols[s]) - 1, Height(b, s))
        moved(s, p) ==
            LET junks == Junk(b.cols[p[1]], p[2], Height(b, p[1]))
                plan == FalseSeqIndexLoop(b, FALSE, {s, p[1]}, junks \o own(s))
                away == MoveJunk(Start(b), p[1], junks, plan)
            IN IF plan.ok /\ MaxSeqMove(plan.empty) >= 1
                  THEN {MoveSequence(MoveSequence(away, s, Last(plan.to), own(s)[1].num),
                                     s, p[1], 1)}
                  ELSE {}
    IN UNION {UNION {moved(s, p) : p \in parents(s)} : s \in under}

SsWholeStackToFalseParentWithSomeCardsAbove(b) ==
    LET whole == {s \in WholeColumns(b) :
                    TrueSeqsOfCol(b.cols[s]) <= MaxSeqMove(NumVacantStacks(b))}
        moved(s, p) ==
            LET junks == Junk(b.cols[p[1]], p[2], Height(b, p[1]))
                plan == FalseSeqIndexLoop(b, TRUE, {s, p[1]}, junks)
            IN IF plan.ok
                  THEN {MoveSequence(MoveJunk(Start(b), p[1], junks, plan),
                                     s, p[1], Height(b, s))}
                  ELSE {}
    IN UNION {UNION {moved(s, p) : p \in FalseParents(b, s, b.cols[s][1])} : s \in whole}

\* The child at height c goes on its true parent at height p, below it in
\* the same column.  It is moved away like the junk above it and below it.
SsSequenceToParentOnTheSameStack(b) ==
    LET places(col) ==
            {<<p, c>> \in (1..Len(col)) \X (1..Len(col)) :
                /\ c > p + 1
                /\ IsTrueParent(col[c], col[p])
                /\ ~IsTrueParent(col[p + 1], col[p])}
        end(col, c) == Max({z \in c..Len(col) : IsFalseSeq(col, c, z)})
        moved(s, p, c) ==
            LET col == b.cols[s]
                z == end(col, c)
                above == Junk(col, z, Len(col))
                child == [card |-> col[c], num |-> z - c + 1, seqs |-> TrueSeqs(col, c, z)]
                junks == above \o <<child>> \o Junk(col, p, c - 1)
                plan == FalseSeqIndexLoop(b, FALSE, {s}, junks)
            IN IF plan.ok /\ MaxSeqMove(plan.empty) >= child.seqs
                  THEN {MoveSequence(MoveJunk(Start(b), s, junks, plan),
                                     plan.to[Len(above) + 1], s, child.num)}
                  ELSE {}
    IN UNION {UNION {moved(s, q[1], q[2]) : q \in places(b.cols[s])} : s \in NonEmptyCols(b)}
=============================================================================
