----------------------------- MODULE CardRules -----------------------------
(***************************************************************************)
(* The rules of the game as a player knows them: what one card may do, how *)
(* long a run may move at once, and which positions can be won.  It is the *)
(* reference that the solver's own move functions and prunes are held to.  *)
(***************************************************************************)
EXTENDS Board
LOCAL INSTANCE TLC

\* What may lie on what: the next rank alone, in Simple Simon.
Takes(rules, card, parent) ==
    IF rules.simple_simon THEN Rank(card) + 1 = Rank(parent) ELSE IsParent(rules, card, parent)

\* What may be put down: a card on its parent, or in an empty column that
\* takes it.
MayPut(rules, b, card, t) ==
    IF b.cols[t] = <<>>
       THEN rules.fill = "any" \/ (rules.fill = "kings" /\ IsKing(card))
       ELSE Takes(rules, card, Top(b, t))

\* n pieces of a run move one at a time over the vacant freecells and, by
\* halves, over the empty columns.
Carries[n \in Nat, freecells \in Nat, stacks \in Nat] ==
    \/ n <= freecells + 1
    \/ /\ stacks > 0
       /\ \E k \in 1..n - 1 : /\ Carries[k, freecells, stacks - 1]
                              /\ Carries[n - k, freecells, stacks - 1]

IsRun(rules, seq) == \A i \in 1..Len(seq) - 1 : Takes(rules, seq[i + 1], seq[i])
\* What moves as one: a card or, in Simple Simon, the cards of one suit.
Pieces(rules, seq) ==
    Len(seq) - Cardinality({i \in 1..Len(seq) - 1 :
                              rules.simple_simon /\ Suit(seq[i]) = Suit(seq[i + 1])})

LegalRun(rules, b, s, t, n) ==
    LET run == SubSeq(b.cols[s], Height(b, s) - n + 1, Height(b, s))
        helpers == IF rules.fill = "any" THEN Cardinality(EmptyCols(b) \ {t}) ELSE 0
    IN /\ s # t /\ n \in 1..Height(b, s)
       /\ IsRun(rules, run)
       /\ MayPut(rules, b, run[1], t)
       /\ rules.unlimited \/ Carries[Pieces(rules, run), Cardinality(VacantFreecells(b)), helpers]

Legal(rules, b, m) ==
    CASE m.type = "stack_to_stack" -> LegalRun(rules, b, m.src, m.dest, m.num)
      [] m.type = "stack_to_freecell" ->
            b.cols[m.src] # <<>> /\ m.dest \in VacantFreecells(b)
      [] m.type = "freecell_to_stack" ->
            m.src \in FilledFreecells(b) /\ MayPut(rules, b, b.freecells[m.src], m.dest)
      [] m.type = "stack_to_found" ->
            b.cols[m.src] # <<>> /\ m.dest \in FoundsFor(b, Top(b, m.src))
      [] m.type = "freecell_to_found" ->
            m.src \in FilledFreecells(b) /\ m.dest \in FoundsFor(b, b.freecells[m.src])
      [] m.type = "seq_to_found" ->
            /\ Height(b, m.src) >= RankKing /\ m.dest = Suit(Top(b, m.src))
            /\ \A i \in 1..RankKing :
                 b.cols[m.src][Height(b, m.src) + 1 - i] = Card(i, m.dest)

-----------------------------------------------------------------------------
(* Positions, up to the order of columns and freecells, and their values.  *)

\* All that a player may do: one card at a time, or runs where the game lets
\* any run move.
LegalMoves(rules, b) ==
    LET sizes == 1..IF rules.unlimited THEN RankKing ELSE 1
        all == [type : {"stack_to_stack"}, src : NonEmptyCols(b), dest : Cols(b), num : sizes]
          \cup [type : {"stack_to_freecell"}, src : NonEmptyCols(b),
                dest : VacantFreecells(b), num : {1}]
          \cup [type : {"freecell_to_stack"}, src : FilledFreecells(b), dest : Cols(b), num : {1}]
          \cup [type : {"stack_to_found"}, src : NonEmptyCols(b),
                dest : DOMAIN b.founds, num : {1}]
          \cup [type : {"freecell_to_found"}, src : FilledFreecells(b),
                dest : DOMAIN b.founds, num : {1}]
    IN {m \in all : Legal(rules, b, m)}

\* A position of a game: the rules and the canonical board.
Position(rules, b) == <<rules, Canonize(b)>>
NextPositions(p) ==
    {Position(p[1], ApplyMove(p[2], m)) : m \in LegalMoves(p[1], p[2])}


\* The positions from which the game can be won, among those reached from
\* starts: forwards to all of them, then backwards from the solved ones.
\* next has the positions visited so far, new those that they lead to.
RECURSIVE Closure(_, _)
Closure(next, new) ==
    LET now == next @@ [p \in new |-> NextPositions(p)]
        more == (UNION {now[p] : p \in new}) \ DOMAIN now
    IN IF more = {} THEN now ELSE Closure(now, more)

\* The positions of rest that lead to those just found to be won, and so on.
RECURSIVE WinningIn(_, _, _, _)
WinningIn(next, won, found, rest) ==
    LET more == {p \in rest : next[p] \cap found # {}}
        now == won \cup more
    IN IF now = won THEN won ELSE WinningIn(next, now, more, rest \ more)

WinningFrom(starts) ==
    LET next == Closure([p \in {} |-> {}], starts)
        solved == {p \in DOMAIN next : IsSolved(p[2])}
    IN WinningIn(next, solved, solved, DOMAIN next \ solved)
=============================================================================
