------------------------ MODULE ScansVerdictProofs -------------------------
(***************************************************************************)
(* The theorems about the verdict and the counts of Scans, both without    *)
(* re-parenting: a search that a complete scan declares exhausted had no   *)
(* solution to find; and the counts of children that synergy goes by are   *)
(* exact as long as no complete DFS scan shares the collection.            *)
(***************************************************************************)
EXTENDS ScansProofs

-----------------------------------------------------------------------------
(***************************************************************************)
(* The verdict.  A state is known to a scan that has visited it or has it  *)
(* ahead, or if it is a dead end to everybody.  A complete scan follows    *)
(* each state it visits: what the state derives becomes known to it, and   *)
(* the state is not the solved one.  A dead end has been followed by some  *)
(* complete scan, which a re-parented state may escape: without that, what *)
(* is known when the complete scans are exhausted is closed under moves.   *)
(***************************************************************************)
Plain == "reparent" \notin options /\ ~optimizing

DeadSet == Flagged(info, "dead_end")
AllTested == Flagged(info, "all_tests_done")

StatesOf(ls) == {ls[n].state : n \in DOMAIN ls}
RestsOf(ls) == UNION {ls[n].rest : n \in DOMAIN ls}
Pending(s) == IF IsDfs(s) THEN StatesOf(soft_dfs_info[s]) \cup RestsOf(soft_dfs_info[s])
              ELSE Items(queue[s]) \cup {ptr_state[s]}
Known(s) == scan_visited[s] \cup Pending(s) \cup DeadSet
Follows(s, k) == k # Solved /\ Derived(k, AllMoves) \subseteq Known(s)

\* What the moves done on the levels ls of scan s derive is in K, or still to
\* be checked if it is derived on the last level.
Explored(s, ls, K, unchecked) ==
    \A n \in DOMAIN ls :
        /\ ls[n].test <= Len(Tests[s])
        /\ ls[n].state = Solved => ls[n].test = 0
        /\ \A i \in 1..ls[n].test :
              Derived(ls[n].state, Tests[s][i]) \subseteq
                  K \cup (IF n = Len(ls) THEN unchecked ELSE {})

Unchecked(s) == IF pc = "derive" /\ s = Current THEN todo ELSE {}

DfsKnows(s) ==
    /\ \A k \in scan_visited[s] : k \in StatesOf(soft_dfs_info[s]) \/ Follows(s, k)
    /\ Explored(s, soft_dfs_info[s], Known(s), Unchecked(s))
    /\ \/ StatesOf(soft_dfs_info[s]) \subseteq scan_visited[s]
       \/ Len(soft_dfs_info[s]) = 1 /\ ~(Running /\ s = Current)

BefsKnows(s) ==
    /\ \A k \in scan_visited[s] : Follows(s, k)
    /\ pc = "derive" /\ s = Current =>
          /\ ptr_state[s] # Solved
          /\ Derived(ptr_state[s], AllMoves) \subseteq Items(queue[s]) \cup todo
    /\ ptr_state[s] = NoState => queue[s] = <<>>

Knows(s) == /\ state_copy \in Known(s)
            /\ IF IsDfs(s) THEN DfsKnows(s) ELSE BefsKnows(s)

MarksInv ==
    /\ reparented = NoState
    /\ DeadSet \subseteq AllTested
    /\ ~Synergy => DeadSet = {}
    /\ mark_at # NoState => Synergy

TestedInv ==
    \A k \in AllTested :
        \E s \in Scans : Complete(s) /\ k \in scan_visited[s] /\ Follows(s, k)

Exhausted(s) == IF IsDfs(s) THEN soft_dfs_info[s] = <<>>
                ELSE ptr_state[s] = NoState /\ queue[s] = <<>>
AtItsEnd(s) == s \in finished \/ (pc = "returned" /\ ret = "unsolvable" /\ s = st_idx)

EndInv ==
    /\ \A s \in Scans : Complete(s) /\ AtItsEnd(s) => Exhausted(s)
    /\ pc = "stopped" /\ ret = "unsolvable" =>
          \/ finished = Scans
          \/ ~Synergy /\ \E s \in finished : Complete(s)

VerdictInv == Plain => /\ MarksInv
                       /\ \A s \in Scans : Complete(s) => Knows(s)
                       /\ TestedInv
                       /\ EndInv

\* The stack of levels after its deepest level is replaced ...
LEMMA TopReplaced ==
    ASSUME NEW D, NEW ls \in Seq(LevelOf(D)), ls # <<>>, NEW l \in LevelOf(D),
           NEW e, e = [ls EXCEPT ![Len(ls)] = l]
    PROVE  /\ e \in Seq(LevelOf(D)) /\ Len(e) = Len(ls)
           /\ DOMAIN ls = 1..Len(ls) /\ DOMAIN e = 1..Len(ls) /\ Len(ls) \in 1..Len(ls)
           /\ e[Len(ls)] = l
           /\ \A n \in 1..Len(ls) : n # Len(ls) => e[n] = ls[n]
BY DEF LevelOf

\* ... by a level of the same state.
LEMMA TopReplacedHolds ==
    ASSUME NEW D, NEW ls \in Seq(LevelOf(D)), ls # <<>>, NEW l \in LevelOf(D),
           NEW e, e = [ls EXCEPT ![Len(ls)] = l], l.state = ls[Len(ls)].state
    PROVE  /\ StatesOf(e) = StatesOf(ls)
           /\ RestsOf(ls) \subseteq RestsOf(e) \cup ls[Len(ls)].rest
           /\ l.rest \subseteq RestsOf(e)
<1>1. /\ DOMAIN ls = 1..Len(ls) /\ DOMAIN e = 1..Len(ls) /\ Len(ls) \in 1..Len(ls)
      /\ e[Len(ls)] = l
      /\ \A n \in 1..Len(ls) : n # Len(ls) => e[n] = ls[n]
  BY TopReplaced
<1>2. \A n \in 1..Len(ls) : e[n].state = ls[n].state
  BY <1>1
<1>3. StatesOf(e) = StatesOf(ls)
  BY <1>1, <1>2, ZenonT(60) DEF StatesOf
<1>4. ASSUME NEW n \in 1..Len(ls), NEW x \in ls[n].rest
      PROVE  x \in RestsOf(e) \cup ls[Len(ls)].rest
  BY <1>1 DEF RestsOf
<1> QED
  BY <1>1, <1>3, <1>4 DEF RestsOf

\* The states and the untried states of a stack with one more level ...
LEMMA LevelAppended ==
    ASSUME NEW D, NEW ls \in Seq(LevelOf(D)), NEW x \in D
    PROVE  /\ StatesOf(Append(ls, NewLevel(x))) = StatesOf(ls) \cup {x}
           /\ RestsOf(ls) \subseteq RestsOf(Append(ls, NewLevel(x)))
<1> DEFINE e == Append(ls, NewLevel(x))
<1>0. NewLevel(x) \in LevelOf(D) /\ NewLevel(x).state = x
  BY DEF NewLevel, LevelOf
<1>1. /\ DOMAIN ls = 1..Len(ls) /\ Len(ls) \in Nat /\ DOMAIN e = 1..(Len(ls) + 1)
      /\ \A n \in 1..Len(ls) : e[n] = ls[n]
      /\ e[Len(ls) + 1] = NewLevel(x)
  BY <1>0
<1> HIDE DEF e
<1>2. /\ \A n \in 1..(Len(ls) + 1) : n \in 1..Len(ls) \/ n = Len(ls) + 1
      /\ \A n \in 1..Len(ls) : n \in 1..(Len(ls) + 1)
      /\ Len(ls) + 1 \in 1..(Len(ls) + 1)
  BY <1>1
<1>3. StatesOf(e) = StatesOf(ls) \cup {x}
  BY <1>0, <1>1, <1>2 DEF StatesOf
<1>4. RestsOf(ls) \subseteq RestsOf(e)
  BY <1>1, <1>2 DEF RestsOf
<1> QED
  BY <1>3, <1>4 DEF e

\* ... and of one with a level less.
LEMMA LastLevelDropped ==
    ASSUME NEW D, NEW ls \in Seq(LevelOf(D)), ls # <<>>,
           NEW e, e = SubSeq(ls, 1, Len(ls) - 1)
    PROVE  /\ DOMAIN ls = 1..Len(ls) /\ Len(ls) \in 1..Len(ls)
           /\ DOMAIN e = 1..(Len(ls) - 1) /\ Len(e) = Len(ls) - 1
           /\ \A n \in 1..(Len(ls) - 1) : e[n] = ls[n] /\ n \in 1..Len(ls)
           /\ StatesOf(e) \subseteq StatesOf(ls)
           /\ StatesOf(ls) \subseteq StatesOf(e) \cup {ls[Len(ls)].state}
           /\ RestsOf(ls) \subseteq RestsOf(e) \cup ls[Len(ls)].rest
<1>1. /\ DOMAIN ls = 1..Len(ls) /\ Len(ls) \in 1..Len(ls) /\ Len(ls) - 1 \in Nat
      /\ Len(ls) \in Nat
  OBVIOUS
<1>2. /\ Len(e) = Len(ls) - 1 /\ DOMAIN e = 1..(Len(ls) - 1)
      /\ \A n \in 1..(Len(ls) - 1) : e[n] = ls[n]
  <2>0. \A i \in 1..(Len(ls) - 1) : ls[i] \in LevelOf(D)
    OBVIOUS
  <2>1. /\ SubSeq(ls, 1, Len(ls) - 1) \in Seq(LevelOf(D))
        /\ Len(SubSeq(ls, 1, Len(ls) - 1)) =
              IF 1 <= Len(ls) - 1 THEN Len(ls) - 1 - 1 + 1 ELSE 0
        /\ \A i \in 1..(Len(ls) - 1 - 1 + 1) :
              SubSeq(ls, 1, Len(ls) - 1)[i] = ls[1 + i - 1]
    BY <1>1, <2>0, SubSeqProperties
  <2> QED
    BY <1>1, <2>1
<1>3. \A n \in 1..Len(ls) : n = Len(ls) \/ n \in 1..(Len(ls) - 1)
  <2>1. \A m \in Nat : \A n \in 1..m : n = m \/ n \in 1..(m - 1)
    OBVIOUS
  <2>2. Len(ls) \in Nat
    OBVIOUS
  <2> QED
    BY <2>1, <2>2
<1>4. \A n \in 1..(Len(ls) - 1) : n \in 1..Len(ls)
  BY <1>1
<1>5. StatesOf(e) \subseteq StatesOf(ls)
  BY <1>1, <1>2, <1>4 DEF StatesOf
<1>6. StatesOf(ls) \subseteq StatesOf(e) \cup {ls[Len(ls)].state}
  BY <1>1, <1>2, <1>3 DEF StatesOf
<1>7. RestsOf(ls) \subseteq RestsOf(e) \cup ls[Len(ls)].rest
  BY <1>1, <1>2, <1>3 DEF RestsOf
<1> QED
  BY <1>1, <1>2, <1>4, <1>5, <1>6, <1>7

\* What is explored stays so when more is known.
LEMMA ExploredGrows ==
    ASSUME NEW s, NEW ls, NEW K, NEW L, NEW u, NEW v,
           Explored(s, ls, K, u), K \subseteq L, u \subseteq L \cup v
    PROVE  Explored(s, ls, L, v)
BY DEF Explored

\* Listing a state that was still to be checked.
LEMMA ExploredListing ==
    ASSUME NEW D, NEW s, NEW K, NEW u, NEW ls \in Seq(LevelOf(D)), ls # <<>>,
           NEW l \in LevelOf(D), l.state = ls[Len(ls)].state, l.test = ls[Len(ls)].test,
           NEW e, e = [ls EXCEPT ![Len(ls)] = l], Explored(s, ls, K, u)
    PROVE  Explored(s, e, K, u)
<1>1. /\ DOMAIN ls = 1..Len(ls) /\ DOMAIN e = 1..Len(ls) /\ Len(e) = Len(ls)
      /\ e[Len(ls)] = l
      /\ \A n \in 1..Len(ls) : n # Len(ls) => e[n] = ls[n]
  BY TopReplaced
<1>2. \A n \in 1..Len(ls) : e[n].state = ls[n].state /\ e[n].test = ls[n].test
  BY <1>1
<1> QED
  BY <1>1, <1>2, ZenonT(60) DEF Explored

\* Going on with the next test, when all that the last one derived is known.
LEMMA ExploredFurther ==
    ASSUME NEW D, NEW s, NEW K, NEW ls \in Seq(LevelOf(D)), ls # <<>>,
           NEW l \in LevelOf(D), l.state = ls[Len(ls)].state,
           l.test = ls[Len(ls)].test + 1, l.test <= Len(Tests[s]),
           ls[Len(ls)].test = 0 => l.state # Solved,
           NEW e, e = [ls EXCEPT ![Len(ls)] = l], Explored(s, ls, K, {})
    PROVE  Explored(s, e, K, Derived(l.state, Tests[s][l.test]))
<1> DEFINE t == ls[Len(ls)]
           u == Derived(l.state, Tests[s][l.test])
<1>1. /\ DOMAIN ls = 1..Len(ls) /\ DOMAIN e = 1..Len(ls) /\ Len(e) = Len(ls)
      /\ e[Len(ls)] = l /\ Len(ls) \in 1..Len(ls)
      /\ \A n \in 1..Len(ls) : n # Len(ls) => e[n] = ls[n]
  BY TopReplaced
<1>2. t.test \in Nat
  <2>1. ls[Len(ls)] \in LevelOf(D)
    OBVIOUS
  <2> QED
    BY <2>1 DEF LevelOf
<1>3. /\ l.state # Solved
      /\ \A i \in 1..t.test : Derived(t.state, Tests[s][i]) \subseteq K
  BY <1>1, <1>2, ZenonT(60) DEF Explored
<1>4. \A i \in 1..l.test : i \in 1..t.test \/ i = l.test
  BY <1>2
<1>5. \A i \in 1..l.test : Derived(l.state, Tests[s][i]) \subseteq K \cup u
  BY <1>3, <1>4
<1> HIDE DEF t, u
<1>6. ASSUME NEW n \in DOMAIN e
      PROVE  /\ e[n].test <= Len(Tests[s])
             /\ e[n].state = Solved => e[n].test = 0
             /\ \A i \in 1..e[n].test :
                   Derived(e[n].state, Tests[s][i]) \subseteq
                       K \cup (IF n = Len(e) THEN u ELSE {})
  <2>0. n \in 1..Len(ls) /\ Len(e) = Len(ls)
    BY <1>1
  <2>1. CASE n = Len(ls)
    BY <1>1, <1>3, <1>5, <2>0, <2>1
  <2>2. CASE n # Len(ls)
    <3>1. e[n] = ls[n] /\ n \in DOMAIN ls
      BY <1>1, <2>0, <2>2
    <3>2. /\ ls[n].test <= Len(Tests[s])
          /\ ls[n].state = Solved => ls[n].test = 0
          /\ \A i \in 1..ls[n].test : Derived(ls[n].state, Tests[s][i]) \subseteq K
      BY <2>2, <3>1 DEF Explored
    <3> QED
      BY <3>1, <3>2
  <2> QED
    BY <2>1, <2>2
<1>7. Explored(s, e, K, u)
  BY Zenon, <1>6 DEF Explored
<1> QED
  BY <1>7 DEF u

\* Entering a state: its level has nothing to account for yet.
LEMMA ExploredEntering ==
    ASSUME NEW D, NEW s, NEW K, NEW ls \in Seq(LevelOf(D)), NEW x \in D, NEW u,
           Len(Tests[s]) \in Nat, Explored(s, ls, K, {})
    PROVE  Explored(s, Append(ls, NewLevel(x)), K, u)
<1> DEFINE e == Append(ls, NewLevel(x))
<1>0. /\ NewLevel(x) \in LevelOf(D) /\ NewLevel(x).test = 0
  BY DEF NewLevel, LevelOf
<1>1. /\ DOMAIN ls = 1..Len(ls) /\ Len(ls) \in Nat /\ DOMAIN e = 1..(Len(ls) + 1)
      /\ Len(e) = Len(ls) + 1
      /\ \A n \in 1..Len(ls) : e[n] = ls[n]
      /\ e[Len(ls) + 1] = NewLevel(x)
  BY <1>0
<1> HIDE DEF e
<1>2. Explored(s, e, K, u)
  <2> SUFFICES ASSUME NEW n \in 1..(Len(ls) + 1)
               PROVE  /\ e[n].test <= Len(Tests[s])
                      /\ e[n].state = Solved => e[n].test = 0
                      /\ \A i \in 1..e[n].test :
                            Derived(e[n].state, Tests[s][i]) \subseteq
                                K \cup (IF n = Len(ls) + 1 THEN u ELSE {})
    BY <1>1 DEF Explored
  <2>1. CASE n = Len(ls) + 1
    BY <1>0, <1>1, <2>1
  <2>2. CASE n # Len(ls) + 1
    <3>1. n \in 1..Len(ls) /\ e[n] = ls[n]
      BY <1>1, <2>2
    <3> QED
      BY <1>1, <3>1 DEF Explored
  <2> QED
    BY <2>1, <2>2
<1> QED
  BY <1>2 DEF e

\* Leaving a state: the levels above it are as explored as they were.
LEMMA ExploredLeaving ==
    ASSUME NEW D, NEW s, NEW K, NEW ls \in Seq(LevelOf(D)), ls # <<>>, NEW u, NEW v,
           NEW e, e = SubSeq(ls, 1, Len(ls) - 1), Explored(s, ls, K, u)
    PROVE  Explored(s, e, K, v)
<1>1. /\ DOMAIN ls = 1..Len(ls) /\ Len(ls) \in Nat /\ DOMAIN e = 1..(Len(ls) - 1)
      /\ \A n \in 1..(Len(ls) - 1) : e[n] = ls[n] /\ n \in 1..Len(ls)
  BY LastLevelDropped
<1>2. \A n \in 1..(Len(ls) - 1) : n # Len(ls)
  <2>1. \A m \in Nat : \A n \in 1..(m - 1) : n # m
    OBVIOUS
  <2>2. Len(ls) \in Nat
    OBVIOUS
  <2> QED
    BY <2>1, <2>2
<1> QED
  BY <1>1, <1>2, ZenonT(60) DEF Explored

-----------------------------------------------------------------------------
(***************************************************************************)
(* The marks of the search.                                                *)
(***************************************************************************)
LEMMA MarkAsDeadEndFlags ==
    ASSUME NEW D, NEW i \in [D -> InfoOf(D)], NEW k \in D, MarkAsDeadEnd(i, k)
    PROVE  /\ Flagged(info', "all_tests_done") = Flagged(i, "all_tests_done")
           /\ Flagged(i, "dead_end") \subseteq Flagged(info', "dead_end")
           /\ Flagged(info', "dead_end") \subseteq Flagged(i, "dead_end") \cup {k}
           /\ ~Synergy => Flagged(info', "dead_end") = Flagged(i, "dead_end")
                          /\ mark_at' = mark_at
<1>0. "dead_end" \in Flags /\ "dead_end" # "all_tests_done"
  BY DEF Flags
<1>1. CASE Synergy
  <2>1. info' = WithFlag(i, k, "dead_end")
    BY <1>1 DEF MarkAsDeadEnd
  <2> QED
    BY <1>0, <1>1, <2>1, WithFlagFlags
<1>2. CASE ~Synergy
  BY <1>2 DEF MarkAsDeadEnd
<1> QED
  BY <1>1, <1>2

\* What the searching steps do to the flags.
SameMarks == DeadSet' = DeadSet /\ AllTested' = AllTested

MarksBy(k) ==
    /\ AllTested' \subseteq AllTested \cup {k} /\ AllTested \subseteq AllTested'
    /\ DeadSet' \subseteq DeadSet \cup {k} /\ DeadSet \subseteq DeadSet'
    /\ DeadSet' # DeadSet => k \in AllTested'
    /\ ~Synergy => DeadSet' = DeadSet /\ mark_at' = mark_at

\* The dead end goes up from a state to its parent ...
LEMMA MarkParentMarks ==
    ASSUME IInv, MarkParent, Synergy
    PROVE  MarksBy(mark_at) /\ AllTested' = AllTested
<1> DEFINE i == OneChildLess(info, mark_at)
<1>0. info \in [Stored -> InfoOf(Stored)] /\ mark_at \in Stored
      /\ "dead_end" \in Flags /\ "dead_end" # "all_tests_done"
  BY TypesOfStored DEF IInv, TypeOK, MarkParent, StatePtr, Flags
<1>1. /\ i \in [Stored -> InfoOf(Stored)]
      /\ \A g : Flagged(i, g) = Flagged(info, g)
  BY <1>0, OneChildLessKeeps, CountsKeepFlags
<1>2. \/ info' = i
      \/ info' = WithFlag(i, mark_at, "dead_end") /\ Tested(mark_at)
  BY DEF MarkParent
<1> HIDE DEF i
<1>3. CASE info' = i
  BY <1>1, <1>3 DEF MarksBy, AllTested, DeadSet
<1>4. CASE info' = WithFlag(i, mark_at, "dead_end") /\ Tested(mark_at)
  <2>1. /\ Flagged(info', "all_tests_done") = Flagged(i, "all_tests_done")
        /\ Flagged(info', "dead_end") = Flagged(i, "dead_end") \cup {mark_at}
    BY <1>0, <1>1, <1>4, WithFlagFlags
  <2>2. mark_at \in AllTested
    BY <1>0, <1>4 DEF Tested, AllTested, Flagged
  <2> QED
    BY <1>1, <2>1, <2>2 DEF MarksBy, AllTested, DeadSet
<1> QED
  BY <1>2, <1>3, <1>4

\* ... from a state that a DFS scan leaves ...
LEMMA DfsBacktrackMarks ==
    ASSUME IInv, NEW s \in Scans, DfsBacktrack(s)
    PROVE  /\ Complete(s) => MarksBy(Top(s).state) /\ Top(s).state \in AllTested'
           /\ ~Complete(s) => SameMarks /\ mark_at' = mark_at
<1> DEFINE k == Top(s).state
           i == WithFlag(info, k, "all_tests_done")
<1>0. /\ info \in [Stored -> InfoOf(Stored)]
      /\ "all_tests_done" \in Flags /\ "dead_end" # "all_tests_done"
  BY TypesOfStored DEF IInv, TypeOK, Flags
<1>k. k \in Stored
  BY LevelsOfCurrent DEF DfsBacktrack, Scanning, At, Running, IInv, LevelOf
<1>1. /\ i \in [Stored -> InfoOf(Stored)]
      /\ Flagged(i, "all_tests_done") = Flagged(info, "all_tests_done") \cup {k}
      /\ Flagged(i, "dead_end") = Flagged(info, "dead_end")
  BY <1>0, <1>k, WithFlagKeeps, WithFlagFlags
<1>2. CASE Complete(s)
  <2>1. MarkAsDeadEnd(i, k)
    BY <1>2 DEF DfsBacktrack
  <2> HIDE DEF i, k
  <2>2. MarksBy(k) /\ k \in AllTested'
    BY <1>1, <1>k, <2>1, MarkAsDeadEndFlags DEF MarksBy, AllTested, DeadSet
  <2> QED
    BY <1>2, <2>2 DEF k
<1>3. CASE ~Complete(s)
  BY <1>3 DEF DfsBacktrack, SameMarks, AllTested, DeadSet
<1> QED
  BY <1>2, <1>3

\* ... or from one that a best-first scan has expanded.
LEMMA BefsExpandedMarks ==
    ASSUME IInv, NEW s \in SoftThreads, BefsExpanded(s), ~optimizing
    PROVE  /\ Complete(s) => MarksBy(ptr_state[s]) /\ ptr_state[s] \in AllTested'
           /\ ~Complete(s) => SameMarks /\ mark_at' = mark_at
<1> DEFINE k == ptr_state[s]
           i == WithFlag(info, k, "all_tests_done")
<1>0. /\ info \in [Stored -> InfoOf(Stored)]
      /\ "all_tests_done" \in Flags /\ "dead_end" # "all_tests_done"
  BY TypesOfStored DEF IInv, TypeOK, Flags
<1>k. k \in Stored
  BY ExpandedIsStored DEF BefsExpanded, At, IInv, Expanded
<1>1. /\ i \in [Stored -> InfoOf(Stored)]
      /\ Flagged(i, "all_tests_done") = Flagged(info, "all_tests_done") \cup {k}
      /\ Flagged(i, "dead_end") = Flagged(info, "dead_end")
  BY <1>0, <1>k, WithFlagKeeps, WithFlagFlags
<1>2. CASE Complete(s)
  <2>1. MarkAsDeadEnd(i, k) \/ (info' = i /\ mark_at' = mark_at)
    BY <1>2 DEF BefsExpanded
  <2> HIDE DEF i, k
  <2>2. CASE MarkAsDeadEnd(i, k)
    <3>1. MarksBy(k) /\ k \in AllTested'
      BY <1>1, <1>k, <2>2, MarkAsDeadEndFlags DEF MarksBy, AllTested, DeadSet
    <3> QED
      BY <1>2, <3>1 DEF k
  <2>3. CASE info' = i /\ mark_at' = mark_at
    <3>1. MarksBy(k) /\ k \in AllTested'
      BY <1>1, <2>3 DEF MarksBy, AllTested, DeadSet
    <3> QED
      BY <1>2, <3>1 DEF k
  <2> QED
    BY <2>1, <2>2, <2>3
<1>3. CASE ~Complete(s)
  BY <1>3 DEF BefsExpanded, SameMarks, AllTested, DeadSet
<1> QED
  BY <1>2, <1>3

\* No other step marks anything.
LEMMA OtherStepsMarks ==
    ASSUME IInv, MarksInv, Plain, [Next]_vars, ~MarkParent,
           \A s \in Scans : ~DfsBacktrack(s), \A s \in SoftThreads : ~BefsExpanded(s)
    PROVE  SameMarks /\ mark_at' = mark_at /\ reparented' = reparented
<1> USE DEF IInv
<1>0. info \in [Stored -> InfoOf(Stored)]
  BY TypesOfStored DEF TypeOK
<1>u. ASSUME info' = info PROVE SameMarks
  BY <1>u DEF SameMarks, DeadSet, AllTested
<1>1. ASSUME NEW x \in todo, AddNewState(x)
      PROVE  SameMarks
  <2> DEFINE i == OneChildMore(info, Expanded)
             n == NewInfo(Expanded, info[Expanded].depth + 1)
  <2>1. /\ i \in [Stored -> InfoOf(Stored)] /\ SameTree(i, info)
        /\ \A j \in Stored : i[j].visited = info[j].visited
    BY <1>0, OneChildMoreKeeps
  <2>2. info' = [j \in Stored \cup {x} |-> IF j = x THEN n ELSE i[j]] /\ x \notin Stored
    BY <1>1 DEF AddNewState
  <2>3. n.visited = {}
    BY DEF NewInfo
  <2> HIDE DEF i, n
  <2>4. /\ DOMAIN info' = Stored \cup {x} /\ info'[x].visited = {}
        /\ \A j \in Stored : info'[j] = i[j]
    BY <2>2, <2>3
  <2>5. \A g : Flagged(info', g) = Flagged(info, g)
    BY <2>1, <2>2, <2>4 DEF Flagged, Stored
  <2> QED
    BY <2>5 DEF SameMarks, DeadSet, AllTested
<1>2. ASSUME NEW x \in todo, CheckState(x)
      PROVE  SameMarks /\ mark_at' = mark_at /\ reparented' = reparented
  <2>1. ~LeaveOldParent(x)
    BY DEF LeaveOldParent, CanReparent, Reparent, Plain
  <2>2. CASE AddNewState(x)
    BY <1>1, <2>2 DEF AddNewState
  <2>3. CASE KnownState(x)
    BY <1>u, <2>3 DEF KnownState
  <2> QED
    BY <1>2, <2>1, <2>2, <2>3 DEF CheckState
<1>3. ASSUME NEW s \in Scans, DfsStep(s)
      PROVE  info' = info /\ mark_at' = mark_at /\ reparented' = reparented
  BY <1>3 DEF DfsStep, DfsEnter, DfsSolved, DfsRunMoves, DfsDerived, localVars
<1>4. ASSUME NEW s \in SoftThreads, BefsStep(s)
      PROVE  info' = info /\ mark_at' = mark_at /\ reparented' = reparented
  BY <1>4 DEF BefsStep, BefsPassOver, BefsSuspend, BefsSolved, BefsPerformMoves,
              BefsExhausted, localVars
<1>5. CASE TraceSolution
  <2>1. /\ "in_solution_path" \in Flags /\ "in_solution_path" # "dead_end"
        /\ "in_solution_path" # "all_tests_done"
    BY DEF Flags
  <2>2. info' = WithFlag(info, trace_at, "in_solution_path")
        /\ mark_at' = mark_at /\ reparented' = reparented
    BY <1>5 DEF TraceSolution
  <2> QED
    BY <1>0, <2>1, <2>2, WithFlagFlags DEF SameMarks, DeadSet, AllTested
<1>6. CASE JoinNewParent
  BY <1>6 DEF JoinNewParent, MarksInv
<1>7. CASE SkipFinished \/ RunScan \/ StartOptimizing \/ OptimizationReturned \/ Resume
           \/ UNCHANGED vars
  BY <1>7, <1>u DEF SkipFinished, RunScan, StartOptimizing, OptimizationReturned,
                    Resume, vars, localVars
<1>8. CASE ScanReturned
  BY <1>8, <1>u DEF ScanReturned
<1> QED
  BY <1>2, <1>3, <1>4, <1>u, <1>5, <1>6, <1>7, <1>8 DEF Next, Solve, Stopped

\* What no step changes, and that an optimization is never left.
LEMMA StepFixed ==
    ASSUME [Next]_vars
    PROVE  state_copy' = state_copy /\ options' = options /\ (optimizing => optimizing')
<1>1. ASSUME NEW x \in todo, CheckState(x)
      PROVE  state_copy' = state_copy /\ options' = options /\ optimizing' = optimizing
  BY <1>1 DEF CheckState, AddNewState, KnownState, LeaveOldParent, fixedVars
<1>2. ASSUME NEW s \in Scans, DfsStep(s)
      PROVE  state_copy' = state_copy /\ options' = options /\ optimizing' = optimizing
  BY <1>2 DEF DfsStep, DfsEnter, DfsSolved, DfsRunMoves, DfsBacktrack, DfsDerived, fixedVars
<1>3. ASSUME NEW s \in SoftThreads, BefsStep(s)
      PROVE  state_copy' = state_copy /\ options' = options /\ optimizing' = optimizing
  BY <1>3 DEF BefsStep, BefsPassOver, BefsSuspend, BefsSolved, BefsPerformMoves,
              BefsExpanded, BefsExhausted, fixedVars
<1>4. CASE \/ MarkParent \/ JoinNewParent \/ SkipFinished \/ RunScan \/ ScanReturned
           \/ TraceSolution \/ StartOptimizing \/ OptimizationReturned \/ Resume
           \/ UNCHANGED vars
  BY <1>4 DEF MarkParent, JoinNewParent, SkipFinished, RunScan, ScanReturned, TraceSolution,
              StartOptimizing, OptimizationReturned, Resume, vars, fixedVars
<1> QED
  BY <1>1, <1>2, <1>3, <1>4 DEF Next, Solve, Stopped

\* Dead ends and tested states only grow, and by the state that was expanded.
LEMMA StepMarks ==
    ASSUME IInv, MarksInv, Plain, [Next]_vars
    PROVE  /\ MarksInv'
           /\ DeadSet \subseteq DeadSet' /\ AllTested \subseteq AllTested'
           /\ \A k \in AllTested' : k \notin AllTested =>
                 \/ \E s \in Scans : Complete(s) /\ DfsBacktrack(s) /\ k = Top(s).state
                 \/ \E s \in SoftThreads : Complete(s) /\ BefsExpanded(s) /\ k = ptr_state[s]
<1>0. Synergy' = Synergy
  BY StepFixed DEF Synergy
<1>k. ASSUME NEW k, MarksBy(k), k \in AllTested' \/ DeadSet' = DeadSet,
             reparented' = reparented, mark_at' # NoState => Synergy
      PROVE  MarksInv'
  BY <1>0, <1>k DEF MarksInv, MarksBy
<1>1. CASE MarkParent
  <2>1. Synergy /\ reparented' = reparented
    BY <1>1 DEF MarkParent, MarksInv
  <2>2. MarksBy(mark_at) /\ AllTested' = AllTested
    BY <1>1, <2>1, MarkParentMarks
  <2>3. mark_at \in AllTested' \/ DeadSet' = DeadSet
    BY <2>2 DEF MarksBy
  <2> QED
    BY <1>k, <2>1, <2>2, <2>3 DEF MarksBy
<1>2. ASSUME NEW s \in Scans, DfsBacktrack(s)
      PROVE  /\ MarksInv' /\ DeadSet \subseteq DeadSet' /\ AllTested \subseteq AllTested'
             /\ \A k \in AllTested' : k \notin AllTested => Complete(s) /\ k = Top(s).state
  <2>1. reparented' = reparented
    BY <1>2 DEF DfsBacktrack
  <2>2. CASE Complete(s)
    <3>1. MarksBy(Top(s).state) /\ Top(s).state \in AllTested'
      BY <1>2, <2>2, DfsBacktrackMarks
    <3>2. mark_at' # NoState => Synergy
      BY <3>1 DEF MarksBy, MarksInv
    <3>3. MarksInv'
      BY <1>k, <2>1, <3>1, <3>2
    <3> QED
      BY <2>2, <3>1, <3>3 DEF MarksBy
  <2>3. CASE ~Complete(s)
    BY <1>0, <1>2, <2>1, <2>3, DfsBacktrackMarks DEF SameMarks, MarksInv
  <2> QED
    BY <2>2, <2>3
<1>3. ASSUME NEW s \in SoftThreads, BefsExpanded(s)
      PROVE  /\ MarksInv' /\ DeadSet \subseteq DeadSet' /\ AllTested \subseteq AllTested'
             /\ \A k \in AllTested' : k \notin AllTested => Complete(s) /\ k = ptr_state[s]
  <2>1. reparented' = reparented /\ ~optimizing
    BY <1>3 DEF BefsExpanded, Plain
  <2>2. CASE Complete(s)
    <3>1. MarksBy(ptr_state[s]) /\ ptr_state[s] \in AllTested'
      BY <1>3, <2>1, <2>2, BefsExpandedMarks
    <3>2. mark_at' # NoState => Synergy
      BY <3>1 DEF MarksBy, MarksInv
    <3>3. MarksInv'
      BY <1>k, <2>1, <3>1, <3>2
    <3> QED
      BY <2>2, <3>1, <3>3 DEF MarksBy
  <2>3. CASE ~Complete(s)
    BY <1>0, <1>3, <2>1, <2>3, BefsExpandedMarks DEF SameMarks, MarksInv
  <2> QED
    BY <2>2, <2>3
<1>4. CASE /\ ~MarkParent
           /\ \A s \in Scans : ~DfsBacktrack(s)
           /\ \A s \in SoftThreads : ~BefsExpanded(s)
  BY <1>0, <1>4, OtherStepsMarks DEF SameMarks, MarksInv
<1> QED
  BY <1>1, <1>2, <1>3, <1>4

-----------------------------------------------------------------------------
(***************************************************************************)
(* What a scan knows.  Other scans' steps leave it alone, but for the dead *)
(* ends they may add.                                                      *)
(***************************************************************************)
Unmoved(s) ==
    /\ scan_visited'[s] = scan_visited[s]
    /\ soft_dfs_info'[s] = soft_dfs_info[s]
    /\ queue'[s] = queue[s]
    /\ ptr_state'[s] = ptr_state[s]

\* A scan that does not run knows what it knew.
LEMMA KnowsUnmoved ==
    ASSUME NEW s, Knows(s), Unmoved(s), DeadSet \subseteq DeadSet',
           state_copy' = state_copy,
           pc' = "derive" /\ s = Current' => pc = "derive" /\ s = Current /\ todo' = todo,
           pc = "derive" /\ s = Current =>
               (pc' = "derive" /\ s = Current') \/ todo = {},
           IsDfs(s) /\ Running' /\ s = Current' => Running /\ s = Current
    PROVE  Knows(s)' /\ Known(s) \subseteq Known(s)'
<1>1. Pending(s)' = Pending(s)
  BY DEF Pending, Unmoved, IsDfs
<1>2. Known(s) \subseteq Known(s)'
  BY <1>1 DEF Known, Unmoved
<1>3. \A k : Follows(s, k) => Follows(s, k)'
  BY <1>2 DEF Follows, Derived, AllMoves, MovesOf
<1>4. CASE IsDfs(s)
  <2>0. DfsKnows(s)
    BY <1>4 DEF Knows
  <2>1. Unchecked(s) \subseteq Unchecked(s)'
    BY DEF Unchecked
  <2>2. Explored(s, soft_dfs_info[s], Known(s)', Unchecked(s)')
    BY <1>2, <2>0, <2>1, ExploredGrows DEF DfsKnows
  <2>3. Explored(s, soft_dfs_info[s], Known(s), Unchecked(s))'
    BY <2>2 DEF Explored, Unmoved, Derived
  <2>4. DfsKnows(s)'
    BY <1>3, <1>4, <2>0, <2>3 DEF DfsKnows, Unmoved, StatesOf
  <2> QED
    BY <1>2, <1>4, <2>4 DEF Knows, IsDfs
<1>5. CASE ~IsDfs(s)
  <2>0. BefsKnows(s)
    BY <1>5 DEF Knows
  <2>1. BefsKnows(s)'
    BY <1>3, <2>0 DEF BefsKnows, Unmoved, Items, Derived, AllMoves, MovesOf
  <2> QED
    BY <1>2, <1>5, <2>1 DEF Knows, IsDfs
<1> QED
  BY <1>4, <1>5

\* The DFS scan that runs: what it leaves behind is known, dead or followed.
LEMMA DfsKnowsAfter ==
    ASSUME NEW s, IsDfs(s), Knows(s), DeadSet \subseteq DeadSet',
           state_copy' = state_copy, Known(s) \subseteq Known(s)',
           \A k \in scan_visited'[s] :
              k \in scan_visited[s] \/ k \in StatesOf(soft_dfs_info'[s]),
           \A k \in StatesOf(soft_dfs_info[s]) :
              k \in StatesOf(soft_dfs_info'[s]) \/ Follows(s, k)',
           Explored(s, soft_dfs_info'[s], Known(s)', Unchecked(s)'),
           \/ StatesOf(soft_dfs_info'[s]) \subseteq scan_visited'[s]
           \/ Len(soft_dfs_info'[s]) = 1 /\ ~(Running' /\ s = Current')
    PROVE  Knows(s)'
<1>1. \A k : Follows(s, k) => Follows(s, k)'
  BY DEF Follows, Derived, AllMoves, MovesOf
<1>2. DfsKnows(s)
  BY DEF Knows
<1>3. Explored(s, soft_dfs_info[s], Known(s), Unchecked(s))'
  BY DEF Explored, Derived
<1>4. \A k \in scan_visited'[s] : k \in StatesOf(soft_dfs_info'[s]) \/ Follows(s, k)'
  BY <1>1, <1>2 DEF DfsKnows
<1>5. StatesOf(soft_dfs_info[s])' = StatesOf(soft_dfs_info'[s])
  BY DEF StatesOf
<1>6. DfsKnows(s)'
  BY <1>3, <1>4, <1>5 DEF DfsKnows
<1> QED
  BY <1>6 DEF Knows, IsDfs

\* What a DFS scan knows, before and after a step.
LEMMA PendingOfDfs ==
    ASSUME NEW s, IsDfs(s)
    PROVE  /\ Known(s) = scan_visited[s] \cup StatesOf(soft_dfs_info[s])
                            \cup RestsOf(soft_dfs_info[s]) \cup DeadSet
           /\ Known(s)' = scan_visited'[s] \cup StatesOf(soft_dfs_info'[s])
                            \cup RestsOf(soft_dfs_info'[s]) \cup DeadSet'
BY DEF Known, Pending, IsDfs, StatesOf, RestsOf

\* The steps of a DFS scan, one by one: entering a state ...
LEMMA DfsEnterKnows ==
    ASSUME IInv, NEW s \in Scans, Knows(s), NEW x, DfsEnter(s, x),
           DeadSet \subseteq DeadSet'
    PROVE  Knows(s)' /\ Known(s) \subseteq Known(s)'
<1> DEFINE ls == soft_dfs_info[s]
           e == Append(ls, NewLevel(x))
<1>1. /\ pc = "scan" /\ s = Current /\ IsDfs(s) /\ x \in Top(s).rest
      /\ state_copy' = state_copy /\ Current' = Current
  BY DEF DfsEnter, Scanning, At, Enterable, Current, hardVars, fixedVars
<1>2. /\ ls \in Seq(LevelOf(Stored)) /\ ls # <<>> /\ Top(s) \in LevelOf(Stored)
      /\ Len(ls) \in DOMAIN ls /\ Top(s) = ls[Len(ls)]
  BY <1>1, LevelsOfCurrent DEF IInv, Running, Deepest, Top
<1>3. x \in Stored
  BY <1>1, <1>2 DEF LevelOf
<1>4. /\ soft_dfs_info' = [soft_dfs_info EXCEPT ![s] = e]
      /\ scan_visited' = [scan_visited EXCEPT ![s] = @ \cup {x}]
      /\ pc' \in {"scan", "returned"}
  BY <1>1 DEF DfsEnter, Return
<1>5. soft_dfs_info'[s] = e /\ scan_visited'[s] = scan_visited[s] \cup {x}
  BY <1>4, OptIsNoScan DEF IInv, TypeOK
<1>6. StatesOf(e) = StatesOf(ls) \cup {x} /\ RestsOf(ls) \subseteq RestsOf(e)
  BY <1>2, <1>3, LevelAppended
<1>7. DfsKnows(s) /\ Unchecked(s) = {}
  BY <1>1 DEF Knows, Unchecked
<1>8. Len(Tests[s]) \in Nat
  BY ScansAssumption
<1> HIDE DEF ls, e
<1>9. Known(s) \subseteq Known(s)'
  BY <1>1, <1>5, <1>6, PendingOfDfs DEF ls
<1>10. Explored(s, e, Known(s), {})
  BY <1>2, <1>3, <1>7, <1>8, ExploredEntering DEF DfsKnows, ls, e
<1>11. Explored(s, e, Known(s)', Unchecked(s)')
  BY <1>9, <1>10, ExploredGrows
<1>12. StatesOf(ls) \subseteq scan_visited[s]
  BY <1>1, <1>7 DEF DfsKnows, ls, Running
<1> QED
  BY <1>1, <1>5, <1>6, <1>9, <1>11, <1>12, DfsKnowsAfter DEF ls

\* The fields of a level that goes to its next test.
LEMMA NextTestFields ==
    ASSUME NEW D, NEW l \in LevelOf(D), NEW m, m = [l EXCEPT !.test = @ + 1, !.rest = {}]
    PROVE  m \in LevelOf(D) /\ m.state = l.state /\ m.test = l.test + 1 /\ m.rest = {}
<1>1. /\ m \in LevelOf(D)
      /\ m = [state |-> l.state, test |-> l.test + 1, rest |-> {}]
  BY NextTestKeeps
<1> QED
  BY <1>1

\* ... running a test ...
LEMMA DfsRunMovesKnows ==
    ASSUME IInv, NEW s \in Scans, Knows(s), DfsRunMoves(s),
           DeadSet \subseteq DeadSet'
    PROVE  Knows(s)' /\ Known(s) \subseteq Known(s)'
<1> DEFINE ls == soft_dfs_info[s]
           t == Top(s)
           l == [ls[Len(ls)] EXCEPT !.test = @ + 1, !.rest = {}]
           e == [ls EXCEPT ![Len(ls)] = l]
<1>1. /\ pc = "scan" /\ s = Current /\ IsDfs(s) /\ Enterable(s) = {}
      /\ t.test < Len(Tests[s]) /\ (t.test = 0 => t.state # Solved)
      /\ todo' = Derived(t.state, Tests[s][t.test + 1]) /\ pc' = "derive"
      /\ state_copy' = state_copy /\ scan_visited' = scan_visited /\ Current' = Current
  BY DEF DfsRunMoves, Scanning, At, Current, hardVars, fixedVars
<1>2. /\ ls \in Seq(LevelOf(Stored)) /\ ls # <<>> /\ t \in LevelOf(Stored)
      /\ Len(ls) \in DOMAIN ls /\ t = ls[Len(ls)] /\ Deepest(s) = Len(ls)
  BY <1>1, LevelsOfCurrent DEF IInv, Running, Deepest, Top
<1>3. /\ soft_dfs_info' = [soft_dfs_info EXCEPT ![s] = e]
      /\ soft_dfs_info'[s] = e
  <2>1. soft_dfs_info' = [soft_dfs_info EXCEPT ![s] = e]
    BY <1>2 DEF DfsRunMoves
  <2> HIDE DEF e
  <2> QED
    BY <2>1 DEF IInv, TypeOK
<1>5. DfsKnows(s) /\ Unchecked(s) = {}
  BY <1>1 DEF Knows, Unchecked
<1>6. l \in LevelOf(Stored) /\ l.state = t.state /\ l.test = t.test + 1 /\ l.rest = {}
  <2>1. l = [t EXCEPT !.test = @ + 1, !.rest = {}]
    BY <1>2
  <2>2. t \in LevelOf(Stored)
    BY <1>2
  <2> HIDE DEF l, t
  <2> QED
    BY Zenon, <2>1, <2>2, NextTestFields
<1>7. t.test \in Nat /\ Len(Tests[s]) \in Nat
  BY <1>2, ScansAssumption DEF LevelOf
<1>t. t.rest \subseteq scan_visited[s] \cup DeadSet
  <2>1. t.rest \subseteq Stored
    BY <1>2 DEF LevelOf
  <2> QED
    BY <1>1, <2>1 DEF Enterable, Dead, DeadSet, Flagged, Stored
<1> HIDE DEF ls, t, l, e
<1>8. /\ StatesOf(e) = StatesOf(ls)
      /\ RestsOf(ls) \subseteq RestsOf(e) \cup t.rest
  BY <1>2, <1>6, TopReplacedHolds DEF e
<1>9. Known(s) \subseteq Known(s)'
  BY <1>1, <1>3, <1>8, <1>t, PendingOfDfs DEF ls
<1>10. Explored(s, e, Known(s), Derived(l.state, Tests[s][l.test]))
  <2>1. l.test <= Len(Tests[s])
    BY <1>1, <1>6, <1>7
  <2> QED
    BY <1>1, <1>2, <1>5, <1>6, <2>1, ExploredFurther DEF DfsKnows, e, ls
<1>11. Unchecked(s)' = Derived(l.state, Tests[s][l.test])
  BY <1>1, <1>6 DEF Unchecked
<1>12. Explored(s, e, Known(s)', Unchecked(s)')
  BY <1>9, <1>10, <1>11, ExploredGrows
<1>13. StatesOf(ls) \subseteq scan_visited[s]
  BY <1>1, <1>5 DEF DfsKnows, ls, Running
<1> QED
  BY <1>1, <1>3, <1>8, <1>9, <1>12, <1>13, DfsKnowsAfter DEF ls

\* A scan has at least one test.
LEMMA TestsOfScan ==
    ASSUME NEW s \in Scans
    PROVE  /\ Tests[s] \in Seq(SUBSET MoveFuncs) /\ Len(Tests[s]) \in Nat \ {0}
           /\ DOMAIN Tests[s] = 1..Len(Tests[s])
<1>1. Tests[s] \in Seq(SUBSET MoveFuncs) /\ Tests[s] # <<>>
  BY ScansAssumption
<1> QED
  BY <1>1

\* ... leaving a state ...
LEMMA DfsBacktrackKnows ==
    ASSUME IInv, NEW s \in Scans, Complete(s), Knows(s), DfsBacktrack(s),
           DeadSet \subseteq DeadSet'
    PROVE  /\ Knows(s)' /\ Known(s) \subseteq Known(s)'
           /\ \A k : k = Top(s).state => k \in scan_visited'[s] /\ Follows(s, k)'
<1> DEFINE ls == soft_dfs_info[s]
           t == Top(s)
           e == SubSeq(ls, 1, Len(ls) - 1)
<1>1. /\ pc = "scan" /\ s = Current /\ IsDfs(s) /\ Enterable(s) = {}
      /\ t.test = Len(Tests[s])
      /\ state_copy' = state_copy /\ scan_visited' = scan_visited
  BY DEF DfsBacktrack, Scanning, At, fixedVars
<1>2. /\ ls \in Seq(LevelOf(Stored)) /\ ls # <<>> /\ t \in LevelOf(Stored)
      /\ Len(ls) \in DOMAIN ls /\ t = ls[Len(ls)]
  BY <1>1, LevelsOfCurrent DEF IInv, Running, Deepest, Top
<1>3. soft_dfs_info'[s] = e
  BY DEF DfsBacktrack, IInv, TypeOK
<1>4. DfsKnows(s) /\ Unchecked(s) = {}
  BY <1>1 DEF Knows, Unchecked
<1>5. t.rest \subseteq scan_visited[s] \cup DeadSet
  <2>1. t.rest \subseteq Stored
    BY <1>2 DEF LevelOf
  <2> QED
    BY <1>1, <2>1 DEF Enterable, Dead, DeadSet, Flagged, Stored
<1>6. t.state \in StatesOf(ls) /\ StatesOf(ls) \subseteq scan_visited[s]
  <2>1. t.state \in StatesOf(ls)
    BY <1>2 DEF StatesOf
  <2> QED
    BY <1>1, <1>4, <2>1 DEF DfsKnows, Running
<1>7. t.state # Solved /\ Derived(t.state, AllMoves) \subseteq Known(s)
  <2>1. /\ t.state = Solved => t.test = 0
        /\ \A i \in 1..t.test : Derived(t.state, Tests[s][i]) \subseteq Known(s)
    <3>1. Explored(s, ls, Known(s), {})
      BY <1>4 DEF DfsKnows
    <3> HIDE DEF ls, t
    <3> QED
      BY <1>2, <3>1 DEF Explored
  <2>2. AllMoves = UNION {Tests[s][i] : i \in 1..t.test}
    BY <1>1, OptIsNoScan, TestsOfScan DEF Complete, MovesOf
  <2>3. t.test # 0
    BY <1>1, TestsOfScan
  <2> HIDE DEF t
  <2> QED
    BY <2>1, <2>2, <2>3 DEF Derived
<1> HIDE DEF ls, t, e
<1>8. /\ StatesOf(e) \subseteq StatesOf(ls)
      /\ StatesOf(ls) \subseteq StatesOf(e) \cup {t.state}
      /\ RestsOf(ls) \subseteq RestsOf(e) \cup t.rest
  BY <1>2, LastLevelDropped DEF e
<1>9. Known(s) \subseteq Known(s)'
  BY <1>1, <1>3, <1>5, <1>6, <1>8, PendingOfDfs DEF ls
<1>10. Explored(s, e, Known(s), {})
  BY <1>2, <1>4, ExploredLeaving DEF DfsKnows, e, ls
<1>11. Explored(s, e, Known(s)', Unchecked(s)')
  BY <1>9, <1>10, ExploredGrows
<1>12. ASSUME NEW k, k = t.state PROVE Follows(s, k)'
  BY <1>7, <1>9, <1>12 DEF Follows, Derived, AllMoves, MovesOf
<1>13. /\ \A k \in StatesOf(soft_dfs_info[s]) :
             k \in StatesOf(soft_dfs_info'[s]) \/ Follows(s, k)'
       /\ StatesOf(soft_dfs_info'[s]) \subseteq scan_visited'[s]
  BY <1>1, <1>3, <1>6, <1>8, <1>12 DEF ls
<1>14. Explored(s, soft_dfs_info'[s], Known(s)', Unchecked(s)')
  BY <1>3, <1>11
<1>15. Knows(s)'
  BY <1>1, <1>9, <1>13, <1>14, DfsKnowsAfter
<1> QED
  BY <1>1, <1>6, <1>9, <1>12, <1>15 DEF t

\* ... listing what a test derived.
LEMMA DfsListsKnows ==
    ASSUME IInv, NEW s \in Scans, s = Current, IsDfs(s), Knows(s), pc = "derive",
           NEW x \in todo, ListDerived(x), todo' = todo \ {x},
           UNCHANGED <<scan_visited, state_copy, pc, st_idx, optimizing>>,
           DeadSet \subseteq DeadSet'
    PROVE  Knows(s)' /\ Known(s) \subseteq Known(s)'
<1> DEFINE D == Stored \cup {x}
           ls == soft_dfs_info[s]
           t == Top(s)
           l == [ls[Len(ls)] EXCEPT !.rest = @ \cup {x}]
           e == [ls EXCEPT ![Len(ls)] = l]
<1>2. /\ ls \in Seq(LevelOf(Stored)) /\ ls # <<>> /\ t \in LevelOf(Stored)
      /\ Len(ls) \in DOMAIN ls /\ t = ls[Len(ls)] /\ Deepest(s) = Len(ls)
  BY LevelsOfCurrent DEF IInv, Running, Deepest, Top
<1>3. soft_dfs_info'[s] = e
  <2>1. soft_dfs_info' = [soft_dfs_info EXCEPT ![s] = e]
    BY <1>2 DEF ListDerived
  <2> HIDE DEF e
  <2> QED
    BY <2>1 DEF IInv, TypeOK
<1>4. DfsKnows(s) /\ Unchecked(s) = todo /\ Unchecked(s)' = todo \ {x}
  BY DEF Knows, Unchecked, Current
<1>d. Stored \subseteq D /\ x \in D
  OBVIOUS
<1> HIDE DEF D
<1>5. /\ l \in LevelOf(D) /\ l.state = t.state /\ l.test = t.test
      /\ l.rest = t.rest \cup {x}
  <2>1. l = [t EXCEPT !.rest = @ \cup {x}] /\ t \in LevelOf(D)
    BY <1>2, <1>d, LevelsGrow
  <2> HIDE DEF l, t
  <2> QED
    BY <1>d, <2>1 DEF LevelOf
<1>6. ls \in Seq(LevelOf(D))
  <2>1. LevelOf(Stored) \subseteq LevelOf(D)
    BY <1>d, LevelsGrow
  <2> HIDE DEF ls
  <2> QED
    BY <1>2, <2>1
<1> HIDE DEF ls, t, l, e
<1>7. /\ StatesOf(e) = StatesOf(ls)
      /\ RestsOf(ls) \subseteq RestsOf(e) \cup t.rest
      /\ l.rest \subseteq RestsOf(e)
  BY <1>2, <1>5, <1>6, TopReplacedHolds DEF e
<1>8. Known(s) \subseteq Known(s)' /\ x \in Known(s)'
  BY <1>3, <1>5, <1>7, PendingOfDfs DEF ls
<1>9. Explored(s, e, Known(s), todo)
  BY <1>2, <1>4, <1>5, <1>6, ExploredListing DEF DfsKnows, e, ls
<1>10. Explored(s, soft_dfs_info'[s], Known(s)', Unchecked(s)')
  BY <1>3, <1>4, <1>8, <1>9, ExploredGrows
<1>11. StatesOf(ls) \subseteq scan_visited[s]
  BY <1>4 DEF DfsKnows, ls, Running
<1> QED
  BY <1>3, <1>7, <1>8, <1>10, <1>11, DfsKnowsAfter DEF ls

\* All steps of a DFS scan together.
LEMMA RunScanKnows ==
    ASSUME IInv, NEW s \in Scans, s = Current, IsDfs(s), Knows(s), ~optimizing, RunScan,
           DeadSet \subseteq DeadSet'
    PROVE  Knows(s)' /\ Known(s) \subseteq Known(s)'
<1> DEFINE ls == soft_dfs_info[s]
<1>1. /\ s = st_idx /\ pc = "switch" /\ s \notin finished
      /\ scan_visited' = [scan_visited EXCEPT ![s] = @ \cup {Top(s).state}]
      /\ soft_dfs_info' = soft_dfs_info /\ state_copy' = state_copy /\ pc' = "scan"
  BY DEF RunScan, Current, At, scanVars, fixedVars
<1>2. /\ ls \in Seq(LevelOf(Stored)) /\ ls # <<>>
      /\ Len(ls) \in DOMAIN ls /\ Top(s) = ls[Len(ls)] /\ DOMAIN ls = 1..Len(ls)
  <2>1. ls \in Seq(LevelOf(Stored)) /\ ls # <<>>
    BY <1>1, TypesOfStored DEF IInv, TypeOK, PlaceInv
  <2> QED
    BY <2>1 DEF Top, Deepest
<1>3. scan_visited'[s] = scan_visited[s] \cup {Top(s).state} /\ Top(s).state \in StatesOf(ls)
  BY <1>1, <1>2, OptIsNoScan DEF IInv, TypeOK, StatesOf
<1>4. DfsKnows(s) /\ Unchecked(s) = {}
  BY <1>1 DEF Knows, Unchecked
<1>5. Known(s) \subseteq Known(s)'
  BY <1>1, <1>3, PendingOfDfs
<1>6. Explored(s, soft_dfs_info'[s], Known(s)', Unchecked(s)')
  BY <1>1, <1>4, <1>5, ExploredGrows DEF DfsKnows
<1>7. StatesOf(ls) \subseteq scan_visited'[s]
  <2>1. CASE StatesOf(ls) \subseteq scan_visited[s]
    BY <1>3, <2>1
  <2>2. CASE Len(ls) = 1
    <3>1. StatesOf(ls) = {Top(s).state}
      BY <1>2, <2>2 DEF StatesOf
    <3> QED
      BY <1>3, <3>1
  <2> QED
    BY <1>4, <2>1, <2>2 DEF DfsKnows
<1> QED
  BY <1>1, <1>3, <1>5, <1>6, <1>7, DfsKnowsAfter

\* The BFS or BeFS scan that runs.
LEMMA BefsKnowsAfter ==
    ASSUME NEW s, ~IsDfs(s), Knows(s), state_copy' = state_copy,
           Known(s) \subseteq Known(s)',
           \A k \in scan_visited'[s] : k \in scan_visited[s] \/ Follows(s, k)',
           pc' = "derive" /\ s = Current' =>
              /\ ptr_state'[s] # Solved
              /\ Derived(ptr_state'[s], AllMoves) \subseteq Items(queue'[s]) \cup todo',
           ptr_state'[s] = NoState => queue'[s] = <<>>
    PROVE  Knows(s)'
<1>1. \A k : Follows(s, k) => Follows(s, k)'
  BY DEF Follows, Derived, AllMoves, MovesOf
<1>2. BefsKnows(s)
  BY DEF Knows
<1>3. \A k \in scan_visited'[s] : Follows(s, k)'
  BY <1>1, <1>2 DEF BefsKnows
<1>4. BefsKnows(s)'
  BY <1>3 DEF BefsKnows, Items, Derived, AllMoves, MovesOf
<1> QED
  BY <1>4 DEF Knows, IsDfs

\* What a BFS or best-first scan knows, before and after a step.
LEMMA PendingOfBefs ==
    ASSUME NEW s, ~IsDfs(s)
    PROVE  /\ Known(s) = scan_visited[s] \cup Items(queue[s]) \cup {ptr_state[s]} \cup DeadSet
           /\ Known(s)' = scan_visited'[s] \cup Items(queue'[s]) \cup {ptr_state'[s]}
                            \cup DeadSet'
BY DEF Known, Pending, IsDfs, Items

\* The steps of such a scan: passing over a state ...
LEMMA BefsPassOverKnows ==
    ASSUME IInv, ~optimizing, NEW s \in Scans, Knows(s), BefsPassOver(s),
           DeadSet \subseteq DeadSet'
    PROVE  Knows(s)' /\ Known(s) \subseteq Known(s)'
<1>1. /\ pc = "scan" /\ pc' = pc /\ ~IsDfs(s) /\ TakeNext(s) /\ s \in SoftThreads
      /\ state_copy' = state_copy /\ scan_visited' = scan_visited
  BY OptIsNoScan DEF BefsPassOver, Holding, Scanning, At, fixedVars
<1>2. /\ Items(queue[s]) \subseteq Items(queue'[s]) \cup {ptr_state'[s]}
      /\ ptr_state'[s] = NoState => queue'[s] = <<>>
  BY <1>1, TakeNextItems DEF IInv
<1>3. ptr_state[s] \in scan_visited[s] \cup DeadSet
  <2>1. ptr_state[s] \in Stored
    BY <1>1 DEF BefsPassOver, Holding, IInv, TypeOK, StatePtr
  <2> QED
    BY <2>1 DEF BefsPassOver, PassOver, Dead, DeadSet, Flagged, Stored
<1>4. Known(s) \subseteq Known(s)'
  BY <1>1, <1>2, <1>3, PendingOfBefs
<1> QED
  BY <1>1, <1>2, <1>4, BefsKnowsAfter

\* ... deriving from it by all moves ...
LEMMA BefsPerformMovesKnows ==
    ASSUME IInv, NEW s \in Scans, Complete(s), Knows(s), BefsPerformMoves(s),
           DeadSet \subseteq DeadSet'
    PROVE  Knows(s)' /\ Known(s) \subseteq Known(s)'
<1>1. /\ ~IsDfs(s) /\ s # Opt /\ ptr_state[s] # Solved /\ ptr_state[s] # NoState
      /\ state_copy' = state_copy /\ scan_visited' = scan_visited
      /\ queue' = queue /\ ptr_state' = ptr_state
      /\ todo' = Derived(ptr_state[s], MovesOf(s))
  BY OptIsNoScan DEF BefsPerformMoves, Holding, scanVars, fixedVars
<1>2. MovesOf(s) = AllMoves
  BY <1>1 DEF Complete
<1>3. Known(s) \subseteq Known(s)'
  BY <1>1, PendingOfBefs
<1>4. Derived(ptr_state'[s], AllMoves) \subseteq Items(queue'[s]) \cup todo'
  BY <1>1, <1>2
<1> QED
  BY <1>1, <1>3, <1>4, BefsKnowsAfter

\* ... going on to the next state of the queue ...
LEMMA BefsExpandedKnows ==
    ASSUME IInv, ~optimizing, NEW s \in Scans, Knows(s), BefsExpanded(s),
           DeadSet \subseteq DeadSet'
    PROVE  /\ Knows(s)' /\ Known(s) \subseteq Known(s)'
           /\ \A k : k = ptr_state[s] => k \in scan_visited'[s] /\ Follows(s, k)'
<1>1. /\ pc = "derive" /\ pc' = "scan" /\ ~IsDfs(s) /\ TakeNext(s) /\ s \in SoftThreads
      /\ state_copy' = state_copy /\ s = Current /\ todo = {}
      /\ scan_visited' = [scan_visited EXCEPT ![s] = @ \cup {ptr_state[s]}]
  BY OptIsNoScan DEF BefsExpanded, At, fixedVars
<1>2. /\ Items(queue[s]) \subseteq Items(queue'[s]) \cup {ptr_state'[s]}
      /\ ptr_state'[s] = NoState => queue'[s] = <<>>
  BY <1>1, TakeNextItems DEF IInv
<1>3. scan_visited'[s] = scan_visited[s] \cup {ptr_state[s]}
  BY <1>1 DEF IInv, TypeOK
<1>4. Known(s) \subseteq Known(s)'
  BY <1>1, <1>2, <1>3, PendingOfBefs
<1>5. ptr_state[s] # Solved /\ Derived(ptr_state[s], AllMoves) \subseteq Items(queue[s])
  BY <1>1 DEF Knows, BefsKnows
<1>6. Items(queue[s]) \subseteq Known(s)'
  BY <1>1, <1>2, PendingOfBefs
<1>7. ASSUME NEW k, k = ptr_state[s]
      PROVE  Follows(s, k)'
  BY <1>5, <1>6, <1>7 DEF Follows, Derived, AllMoves, MovesOf
<1>8. Knows(s)'
  BY <1>1, <1>2, <1>3, <1>4, <1>7, BefsKnowsAfter
<1> QED
  BY <1>3, <1>4, <1>7, <1>8

\* ... and listing a derived state.
LEMMA BefsListsKnows ==
    ASSUME IInv, NEW s \in Scans, s = Current, ~IsDfs(s), Knows(s), pc = "derive",
           NEW x \in todo, ListDerived(x), todo' = todo \ {x},
           UNCHANGED <<scan_visited, state_copy, pc, st_idx, optimizing, ptr_state>>,
           DeadSet \subseteq DeadSet'
    PROVE  Knows(s)' /\ Known(s) \subseteq Known(s)'
<1>1. Items(queue'[s]) = Items(queue[s]) \cup {x}
  BY OptIsNoScan, ListDerivedItems DEF IInv
<1>2. Known(s) \subseteq Known(s)'
  BY <1>1, PendingOfBefs
<1>3. /\ ptr_state[s] # Solved
      /\ Derived(ptr_state[s], AllMoves) \subseteq Items(queue[s]) \cup todo
  BY DEF Knows, BefsKnows
<1>4. Derived(ptr_state'[s], AllMoves) \subseteq Items(queue'[s]) \cup todo'
  BY <1>1, <1>3
<1>5. ptr_state'[s] # NoState
  BY DEF IInv, PlaceInv
<1> QED
  BY <1>2, <1>3, <1>4, <1>5, BefsKnowsAfter

\* Every step: what a complete scan knew it knows, and knows the scan still.
LEMMA StepKnows ==
    ASSUME IInv, MarksInv, Plain, Plain', [Next]_vars,
           NEW s \in Scans, Complete(s), Knows(s)
    PROVE  Knows(s)' /\ Known(s) \subseteq Known(s)'
<1>0. /\ DeadSet \subseteq DeadSet' /\ ~optimizing /\ ~optimizing' /\ state_copy' = state_copy
      /\ Current = st_idx /\ Current' = st_idx' /\ s \in SoftThreads
  BY StepMarks, StepFixed, OptIsNoScan DEF Plain, Current
<1>t. /\ soft_dfs_info \in [Scans -> Seq(Level)] /\ queue \in [SoftThreads -> Seq(Stored)]
      /\ scan_visited \in [SoftThreads -> SUBSET Stored]
      /\ ptr_state \in [SoftThreads -> StatePtr]
  BY DEF IInv, TypeOK
<1>1. ASSUME NEW x \in todo, CheckState(x)
      PROVE  Knows(s)' /\ Known(s) \subseteq Known(s)'
  <2>1. ~LeaveOldParent(x)
    BY DEF LeaveOldParent, CanReparent, Reparent, Plain
  <2>2. /\ pc = "derive" /\ todo' = todo \ {x} /\ ListDerived(x)
        /\ UNCHANGED <<scan_visited, state_copy, pc, st_idx, optimizing, ptr_state>>
    BY <1>1, <2>1 DEF CheckState, AddNewState, KnownState, At, hardVars, fixedVars
  <2>3. CASE s = Current /\ IsDfs(s)
    BY <1>0, <2>2, <2>3, DfsListsKnows
  <2>4. CASE s = Current /\ ~IsDfs(s)
    BY <1>0, <2>2, <2>4, BefsListsKnows
  <2>5. CASE s # Current
    <3>1. Unmoved(s)
      BY <1>0, <1>t, <2>2, <2>5 DEF Unmoved, ListDerived
    <3> QED
      BY <1>0, <2>2, <2>5, <3>1, KnowsUnmoved
  <2> QED
    BY <2>3, <2>4, <2>5
<1>2. ASSUME NEW d \in Scans, DfsStep(d)
      PROVE  Knows(s)' /\ Known(s) \subseteq Known(s)'
  <2>1. /\ d = Current /\ st_idx' = st_idx /\ IsDfs(d)
    BY <1>2 DEF DfsStep, DfsEnter, DfsSolved, DfsRunMoves, DfsBacktrack, DfsDerived,
                Scanning, hardVars
  <2>2. CASE s = d
    <3>1. CASE \E x \in Enterable(d) : DfsEnter(d, x)
      BY <1>0, <2>2, <3>1, DfsEnterKnows
    <3>2. CASE DfsRunMoves(d)
      BY <1>0, <2>2, <3>2, DfsRunMovesKnows
    <3>3. CASE DfsBacktrack(d)
      BY <1>0, <2>2, <3>3, DfsBacktrackKnows
    <3>4. CASE DfsSolved(d) \/ DfsDerived(d)
      <4>1. Unmoved(s) /\ pc' # "derive" /\ (pc = "derive" => todo = {}) /\ Running
        BY <2>2, <3>4 DEF DfsSolved, DfsDerived, Scanning, At, Return, Unmoved, scanVars,
                          Running
      <4> QED
        BY <1>0, <2>1, <2>2, <4>1, KnowsUnmoved
    <3> QED
      BY <1>2, <3>1, <3>2, <3>3, <3>4 DEF DfsStep
  <2>3. CASE s # d
    <3>a. ASSUME \E x \in Enterable(d) : DfsEnter(d, x) PROVE Unmoved(s)
      BY <1>0, <1>t, <2>3, <3>a DEF DfsEnter, Unmoved
    <3>b. ASSUME DfsRunMoves(d) PROVE Unmoved(s)
      BY <1>0, <1>t, <2>3, <3>b DEF DfsRunMoves, Unmoved
    <3>c. ASSUME DfsBacktrack(d) PROVE Unmoved(s)
      BY <1>0, <1>t, <2>3, <3>c DEF DfsBacktrack, Unmoved
    <3>d. ASSUME DfsSolved(d) \/ DfsDerived(d) PROVE Unmoved(s)
      BY <3>d DEF DfsSolved, DfsDerived, Unmoved, scanVars
    <3>1. Unmoved(s)
      BY <1>2, <3>a, <3>b, <3>c, <3>d DEF DfsStep
    <3> QED
      BY <1>0, <2>1, <2>3, <3>1, KnowsUnmoved
  <2> QED
    BY <2>2, <2>3
<1>3. ASSUME NEW d \in SoftThreads, BefsStep(d)
      PROVE  Knows(s)' /\ Known(s) \subseteq Known(s)'
  <2>1. d = Current /\ st_idx' = st_idx /\ ~IsDfs(d)
    BY <1>3 DEF BefsStep, BefsPassOver, BefsSuspend, BefsSolved, BefsPerformMoves,
                BefsExpanded, BefsExhausted, Holding, Scanning, hardVars
  <2>2. CASE s = d
    <3>1. CASE BefsPassOver(d)
      BY <1>0, <2>2, <3>1, BefsPassOverKnows
    <3>2. CASE BefsPerformMoves(d)
      BY <1>0, <2>2, <3>2, BefsPerformMovesKnows
    <3>3. CASE BefsExpanded(d)
      BY <1>0, <2>2, <3>3, BefsExpandedKnows
    <3>4. CASE BefsSuspend(d) \/ BefsSolved(d) \/ BefsExhausted(d)
      <4>1. Unmoved(s) /\ pc = "scan" /\ pc' # "derive"
        BY <3>4 DEF BefsSuspend, BefsSolved, BefsExhausted, Holding, Scanning, At, Return,
                    Unmoved, scanVars
      <4> QED
        BY <1>0, <2>1, <2>2, <4>1, KnowsUnmoved
    <3> QED
      BY <1>3, <3>1, <3>2, <3>3, <3>4 DEF BefsStep
  <2>3. CASE s # d
    <3>0. TakeNext(d) \/ (queue' = queue /\ ptr_state' = ptr_state)
      BY <1>3 DEF BefsStep, BefsPassOver, BefsSuspend, BefsSolved, BefsPerformMoves,
                  BefsExpanded, BefsExhausted, scanVars
    <3>1. queue'[s] = queue[s] /\ ptr_state'[s] = ptr_state[s]
      BY <1>0, <2>3, <3>0, TakeNextKeeps DEF IInv
    <3>2. scan_visited'[s] = scan_visited[s] /\ soft_dfs_info'[s] = soft_dfs_info[s]
      BY <1>3, <1>0, <1>t, <2>3
      DEF BefsStep, BefsPassOver, BefsSuspend, BefsSolved, BefsPerformMoves,
          BefsExpanded, BefsExhausted, scanVars
    <3>3. Unmoved(s)
      BY <3>1, <3>2 DEF Unmoved
    <3> QED
      BY <1>0, <2>1, <2>3, <3>3, KnowsUnmoved
  <2> QED
    BY <2>2, <2>3
<1>4. CASE RunScan
  <2>1. CASE s = Current /\ IsDfs(s)
    BY <1>0, <1>4, <2>1, RunScanKnows
  <2>2. CASE ~(s = Current /\ IsDfs(s))
    <3>1. Unmoved(s) /\ pc = "switch" /\ pc' = "scan" /\ st_idx' = st_idx
      BY <1>0, <1>4, <1>t, <2>2 DEF RunScan, At, Unmoved, scanVars, hardVars
    <3> QED
      BY <1>0, <2>2, <3>1, KnowsUnmoved
  <2> QED
    BY <2>1, <2>2
<1>5. CASE \/ MarkParent \/ SkipFinished \/ ScanReturned \/ TraceSolution \/ Resume
           \/ UNCHANGED vars
  <2>1. Unmoved(s)
    BY <1>5 DEF MarkParent, SkipFinished, ScanReturned, TraceSolution, Resume, vars,
                scanVars, Unmoved
  <2>2. \/ pc' = pc /\ st_idx' = st_idx /\ todo' = todo
        \/ pc \notin {"scan", "derive"} /\ pc' \notin {"scan", "derive"}
    BY <1>0, <1>5 DEF MarkParent, SkipFinished, ScanReturned, TraceSolution, Resume, vars,
                      hardVars, localVars, At
  <2> QED
    BY <1>0, <2>1, <2>2, KnowsUnmoved DEF Running
<1>6. CASE JoinNewParent \/ StartOptimizing \/ OptimizationReturned
  BY <1>0, <1>6 DEF JoinNewParent, StartOptimizing, OptimizationReturned, MarksInv
<1> QED
  BY <1>1, <1>2, <1>3, <1>4, <1>5, <1>6 DEF Next, Solve, Stopped

\* Only the running scan changes what it has ahead.
LEMMA OnlyCurrentMoves ==
    ASSUME IInv, [Next]_vars, NEW s \in Scans, ~(Running /\ s = Current)
    PROVE  /\ soft_dfs_info'[s] = soft_dfs_info[s]
           /\ queue'[s] = queue[s] /\ ptr_state'[s] = ptr_state[s]
<1>0. s \in SoftThreads
  BY OptIsNoScan
<1>t. soft_dfs_info \in [Scans -> Seq(Level)] /\ queue \in [SoftThreads -> Seq(Stored)]
  BY DEF IInv, TypeOK
<1>1. ASSUME NEW x \in todo, CheckState(x)
      PROVE  /\ soft_dfs_info'[s] = soft_dfs_info[s]
             /\ queue'[s] = queue[s] /\ ptr_state'[s] = ptr_state[s]
  <2>1. ListDerived(x) /\ ptr_state' = ptr_state /\ s # Current
    BY <1>1 DEF CheckState, AddNewState, KnownState, LeaveOldParent, At, Running
  <2> QED
    BY <1>0, <1>t, <2>1 DEF ListDerived
<1>2. ASSUME NEW d \in Scans, DfsStep(d)
      PROVE  /\ soft_dfs_info'[s] = soft_dfs_info[s]
             /\ queue'[s] = queue[s] /\ ptr_state'[s] = ptr_state[s]
  <2>1. d # s /\ queue' = queue /\ ptr_state' = ptr_state
    BY <1>2 DEF DfsStep, DfsEnter, DfsSolved, DfsRunMoves, DfsBacktrack, DfsDerived,
                Scanning, At, Running, scanVars
  <2>a. ASSUME \E x \in Enterable(d) : DfsEnter(d, x)
        PROVE  soft_dfs_info'[s] = soft_dfs_info[s]
    BY <1>t, <2>1, <2>a DEF DfsEnter
  <2>b. ASSUME DfsRunMoves(d) PROVE soft_dfs_info'[s] = soft_dfs_info[s]
    BY <1>t, <2>1, <2>b DEF DfsRunMoves
  <2>c. ASSUME DfsBacktrack(d) PROVE soft_dfs_info'[s] = soft_dfs_info[s]
    BY <1>t, <2>1, <2>c DEF DfsBacktrack
  <2>d. ASSUME DfsSolved(d) \/ DfsDerived(d) PROVE soft_dfs_info'[s] = soft_dfs_info[s]
    BY <2>d DEF DfsSolved, DfsDerived, scanVars
  <2> QED
    BY <1>2, <2>1, <2>a, <2>b, <2>c, <2>d DEF DfsStep
<1>3. ASSUME NEW d \in SoftThreads, BefsStep(d)
      PROVE  /\ soft_dfs_info'[s] = soft_dfs_info[s]
             /\ queue'[s] = queue[s] /\ ptr_state'[s] = ptr_state[s]
  <2>1. /\ d # s /\ soft_dfs_info' = soft_dfs_info
        /\ TakeNext(d) \/ (queue' = queue /\ ptr_state' = ptr_state)
    BY <1>3 DEF BefsStep, BefsPassOver, BefsSuspend, BefsSolved, BefsPerformMoves,
                BefsExpanded, BefsExhausted, Holding, Scanning, At, Running, scanVars
  <2> QED
    BY <1>0, <2>1, TakeNextKeeps DEF IInv
<1>4. CASE \/ MarkParent \/ JoinNewParent \/ SkipFinished \/ RunScan \/ ScanReturned
           \/ TraceSolution \/ StartOptimizing \/ OptimizationReturned \/ Resume
           \/ UNCHANGED vars
  BY <1>4 DEF MarkParent, JoinNewParent, SkipFinished, RunScan, ScanReturned, TraceSolution,
              StartOptimizing, OptimizationReturned, Resume, vars, scanVars
<1> QED
  BY <1>1, <1>2, <1>3, <1>4 DEF Next, Solve, Stopped

\* A visited state stays visited.
LEMMA VisitedGrows ==
    ASSUME IInv, [Next]_vars, NEW s \in SoftThreads
    PROVE  scan_visited[s] \subseteq scan_visited'[s]
<1>t. scan_visited \in [SoftThreads -> SUBSET Stored] /\ Scans \subseteq SoftThreads
  BY OptIsNoScan DEF IInv, TypeOK
<1>1. ASSUME NEW x \in todo, CheckState(x)
      PROVE  scan_visited' = scan_visited
  BY <1>1 DEF CheckState, AddNewState, KnownState, LeaveOldParent
<1>2. ASSUME NEW d \in Scans, DfsStep(d)
      PROVE  scan_visited[s] \subseteq scan_visited'[s]
  BY <1>2, <1>t DEF DfsStep, DfsEnter, DfsSolved, DfsRunMoves, DfsBacktrack, DfsDerived
<1>3. ASSUME NEW d \in SoftThreads, BefsStep(d)
      PROVE  scan_visited[s] \subseteq scan_visited'[s]
  BY <1>3, <1>t DEF BefsStep, BefsPassOver, BefsSuspend, BefsSolved, BefsPerformMoves,
                    BefsExpanded, BefsExhausted
<1>4. CASE RunScan
  BY <1>4, <1>t DEF RunScan
<1>5. CASE \/ MarkParent \/ JoinNewParent \/ SkipFinished \/ ScanReturned
           \/ TraceSolution \/ StartOptimizing \/ OptimizationReturned \/ Resume
           \/ UNCHANGED vars
  BY <1>5 DEF MarkParent, JoinNewParent, SkipFinished, ScanReturned, TraceSolution,
              StartOptimizing, OptimizationReturned, Resume, vars
<1> QED
  BY <1>1, <1>2, <1>3, <1>4, <1>5 DEF Next, Solve, Stopped

\* A state whose tests are all done was followed by the scan that did them.
LEMMA StepTested ==
    ASSUME IInv, MarksInv, TestedInv, Plain, Plain', [Next]_vars,
           \A s \in Scans : Complete(s) => Knows(s)
    PROVE  TestedInv'
<1> SUFFICES ASSUME NEW k, k \in AllTested'
             PROVE  \E s \in Scans : /\ Complete(s)
                                     /\ k \in scan_visited'[s] /\ Follows(s, k)'
  BY DEF TestedInv, Complete, AllMoves, MovesOf
<1>0. DeadSet \subseteq DeadSet' /\ ~optimizing
  BY StepMarks DEF Plain
<1>1. CASE k \in AllTested
  <2>1. PICK s \in Scans : Complete(s) /\ k \in scan_visited[s] /\ Follows(s, k)
    BY <1>1 DEF TestedInv
  <2>2. Known(s) \subseteq Known(s)'
    BY <2>1, StepKnows
  <2>3. scan_visited[s] \subseteq scan_visited'[s]
    BY OptIsNoScan, VisitedGrows
  <2>4. Follows(s, k)'
    BY <2>1, <2>2 DEF Follows, Derived, AllMoves, MovesOf
  <2> QED
    BY <2>1, <2>3, <2>4
<1>2. ASSUME NEW s \in Scans, Complete(s), DfsBacktrack(s), k = Top(s).state
      PROVE  k \in scan_visited'[s] /\ Follows(s, k)'
  BY <1>0, <1>2, DfsBacktrackKnows
<1>3. ASSUME NEW s \in SoftThreads, Complete(s), BefsExpanded(s), k = ptr_state[s]
      PROVE  s \in Scans /\ k \in scan_visited'[s] /\ Follows(s, k)'
  <2>1. s \in Scans
    BY <1>0, <1>3, CurrentIsScan DEF BefsExpanded, IInv
  <2> QED
    BY <1>0, <1>3, <2>1, BefsExpandedKnows
<1> QED
  BY <1>1, <1>2, <1>3, StepMarks

\* A scan that is at its end has nothing ahead.
LEMMA StepEnd ==
    ASSUME IInv, MarksInv, EndInv, Plain, Plain', [Next]_vars,
           \A s \in Scans : Complete(s) => Knows(s)
    PROVE  EndInv'
<1>0. /\ ~optimizing /\ ~optimizing' /\ Current = st_idx /\ Current \in Scans
      /\ Synergy' = Synergy
  BY StepFixed, CurrentIsScan DEF Plain, Current, IInv, Synergy
<1>1. ASSUME NEW s \in Scans, AtItsEnd(s), Complete(s)
      PROVE  Exhausted(s)'
  <2>1. Exhausted(s)
    BY <1>1 DEF EndInv
  <2>2. ~(Running /\ s = Current)
    BY <1>0, <1>1 DEF AtItsEnd, IInv, PlaceInv, Running
  <2>3. /\ soft_dfs_info'[s] = soft_dfs_info[s]
        /\ queue'[s] = queue[s] /\ ptr_state'[s] = ptr_state[s]
    BY <2>2, OnlyCurrentMoves
  <2> QED
    BY <2>1, <2>3 DEF Exhausted, IsDfs
<1>2. \/ UNCHANGED <<pc, ret, st_idx, finished>>
      \/ \E s \in Scans : DfsBacktrack(s)
      \/ \E s \in SoftThreads : BefsExhausted(s)
      \/ ScanReturned
      \/ finished' = finished /\ (pc' = "returned" => ret' # "unsolvable") /\ pc' # "stopped"
  <2>1. ASSUME NEW x \in todo, CheckState(x)
        PROVE  UNCHANGED <<pc, ret, st_idx, finished>>
    BY <2>1 DEF CheckState, AddNewState, KnownState, LeaveOldParent, hardVars
  <2>2. ASSUME NEW d \in Scans, DfsStep(d), ~DfsBacktrack(d)
        PROVE  finished' = finished /\ (pc' = "returned" => ret' # "unsolvable")
               /\ pc' # "stopped"
    BY <2>2 DEF DfsStep, DfsEnter, DfsSolved, DfsRunMoves, DfsDerived, Scanning, At,
                Return, hardVars
  <2>3. ASSUME NEW d \in SoftThreads, BefsStep(d), ~BefsExhausted(d)
        PROVE  finished' = finished /\ (pc' = "returned" => ret' # "unsolvable")
               /\ pc' # "stopped"
    BY <2>3 DEF BefsStep, BefsPassOver, BefsSuspend, BefsSolved, BefsPerformMoves,
                BefsExpanded, Holding, Scanning, At, Return, hardVars
  <2>4. CASE MarkParent \/ JoinNewParent \/ TraceSolution \/ UNCHANGED vars
    BY <2>4 DEF MarkParent, JoinNewParent, TraceSolution, hardVars, vars
  <2>5. CASE SkipFinished \/ RunScan \/ Resume
    BY <1>0, <2>5 DEF SkipFinished, RunScan, Resume, At, hardVars
  <2>6. CASE StartOptimizing \/ OptimizationReturned
    BY <1>0, <2>6 DEF StartOptimizing, OptimizationReturned
  <2> QED
    BY <2>1, <2>2, <2>3, <2>4, <2>5, <2>6 DEF Next, Solve, Stopped
<1>3. CASE UNCHANGED <<pc, ret, st_idx, finished>>
  BY <1>0, <1>1, <1>3 DEF EndInv, AtItsEnd, Complete, AllMoves, MovesOf
<1>4. CASE finished' = finished /\ (pc' = "returned" => ret' # "unsolvable")
           /\ pc' # "stopped"
  BY <1>1, <1>4 DEF EndInv, AtItsEnd, Complete, AllMoves, MovesOf
<1>5. ASSUME NEW d \in Scans, DfsBacktrack(d)
      PROVE  EndInv'
  <2>1. /\ d = Current /\ st_idx' = st_idx /\ finished' = finished /\ pc = "scan"
        /\ IsDfs(d) /\ pc' # "stopped"
    BY <1>5 DEF DfsBacktrack, Scanning, At, hardVars
  <2>2. ASSUME pc' = "returned"
        PROVE  Exhausted(d)'
    <3>1. soft_dfs_info[d] \in Seq(LevelOf(Stored)) /\ soft_dfs_info[d] # <<>>
      BY <2>1, LevelsOfCurrent DEF IInv, Running
    <3>2. ~(Len(soft_dfs_info[d]) > 1)
      BY <1>5, <2>1, <2>2 DEF DfsBacktrack
    <3>3. Len(soft_dfs_info[d]) = 1
      <4> DEFINE ls == soft_dfs_info[d]
      <4>1. ls \in Seq(LevelOf(Stored)) /\ ls # <<>> /\ ~(Len(ls) > 1)
        BY <3>1, <3>2
      <4> HIDE DEF ls
      <4>2. Len(ls) \in Nat /\ Len(ls) # 0
        BY <4>1
      <4>3. \A n \in Nat : n # 0 /\ ~(n > 1) => n = 1
        OBVIOUS
      <4>4. Len(ls) = 1
        BY <4>1, <4>2, <4>3
      <4> QED
        BY <4>4 DEF ls
    <3>4. soft_dfs_info'[d] = SubSeq(soft_dfs_info[d], 1, Len(soft_dfs_info[d]) - 1)
      BY <1>5 DEF DfsBacktrack, IInv, TypeOK
    <3>5. soft_dfs_info'[d] = <<>>
      BY <3>1, <3>3, <3>4
    <3> QED
      BY <2>1, <3>5 DEF Exhausted, IsDfs
  <2> QED
    BY <1>0, <1>1, <2>1, <2>2, ZenonT(60) DEF EndInv, AtItsEnd, Complete, AllMoves, MovesOf
<1>6. ASSUME NEW d \in SoftThreads, BefsExhausted(d)
      PROVE  EndInv'
  <2>1. /\ d = Current /\ st_idx' = st_idx /\ finished' = finished /\ pc' = "returned"
        /\ ~IsDfs(d) /\ ptr_state[d] = NoState /\ queue' = queue /\ ptr_state' = ptr_state
    BY <1>6 DEF BefsExhausted, Scanning, At, hardVars, scanVars, Return
  <2>2. Complete(d) => Exhausted(d)'
    <3> HAVE Complete(d)
    <3>1. BefsKnows(d)
      BY <1>0, <2>1 DEF Knows
    <3>2. queue[d] = <<>>
      BY <2>1, <3>1 DEF BefsKnows
    <3> QED
      BY <2>1, <3>2 DEF Exhausted, IsDfs
  <2> QED
    BY <1>0, <1>1, <2>1, <2>2, ZenonT(60) DEF EndInv, AtItsEnd, Complete, AllMoves, MovesOf
<1>7. CASE ScanReturned
  <2>1. /\ pc = "returned" /\ pc' \in {"switch", "trace", "stopped"}
        /\ finished' = IF ret = "unsolvable" THEN finished \cup {st_idx} ELSE finished
        /\ ret' = InstanceRet(finished')
    BY <1>7 DEF ScanReturned, At
  <2>2. \A s \in Scans : AtItsEnd(s)' => AtItsEnd(s)
    BY <2>1 DEF AtItsEnd
  <2>3. ret' = "unsolvable" =>
           \/ finished' = Scans
           \/ ret = "unsolvable" /\ Complete(st_idx) /\ ~Synergy
    BY <2>1 DEF InstanceRet
  <2>4. ret' = "unsolvable" =>
           \/ finished' = Scans
           \/ ~Synergy /\ \E s \in finished' : Complete(s)
    BY <2>1, <2>3
  <2> QED
    BY <1>0, <1>1, <2>2, <2>4 DEF EndInv, Complete, AllMoves, MovesOf
<1> QED
  BY <1>2, <1>3, <1>4, <1>5, <1>6, <1>7

\* No state is marked, and every scan has the deal ahead.
LEMMA InitVerdictInv == Init => VerdictInv
<1> SUFFICES ASSUME Init PROVE VerdictInv
  OBVIOUS
<1>0. /\ info = [k \in {state_copy} |-> NewInfo(NoState, 0)]
      /\ pc = "switch" /\ ret = "none" /\ finished = {} /\ reparented = NoState
      /\ mark_at = NoState
  BY DEF Init
<1>1. DeadSet = {} /\ AllTested = {}
  BY <1>0 DEF DeadSet, AllTested, Flagged, NewInfo
<1>2. MarksInv /\ TestedInv /\ EndInv
  BY <1>0, <1>1 DEF MarksInv, TestedInv, EndInv, AtItsEnd
<1>3. ASSUME NEW s \in Scans
      PROVE  Knows(s)
  <2>1. scan_visited[s] = {} /\ Unchecked(s) = {}
    BY <1>0, OptIsNoScan DEF Init, Unchecked
  <2>2. CASE IsDfs(s)
    <3> DEFINE ls == soft_dfs_info[s]
    <3>1. ls = <<NewLevel(state_copy)>>
      BY DEF Init
    <3>2. /\ DOMAIN ls = {1} /\ Len(ls) = 1 /\ ls[1].state = state_copy /\ ls[1].test = 0
      BY <3>1 DEF NewLevel
    <3> HIDE DEF ls
    <3>3. StatesOf(ls) = {state_copy}
      BY <3>2 DEF StatesOf
    <3>4. Len(Tests[s]) \in Nat
      BY TestsOfScan
    <3>5. Explored(s, ls, Known(s), Unchecked(s))
      BY <3>2, <3>4 DEF Explored
    <3>6. ~Running
      BY <1>0 DEF Running
    <3> QED
      BY <2>1, <2>2, <3>2, <3>3, <3>5, <3>6, PendingOfDfs DEF Knows, DfsKnows, ls
  <2>3. CASE ~IsDfs(s)
    <3>1. ptr_state[s] = state_copy /\ queue[s] = <<>>
      BY OptIsNoScan DEF Init
    <3> QED
      BY <1>0, <2>1, <2>3, <3>1, PendingOfBefs DEF Knows, BefsKnows
  <2> QED
    BY <2>2, <2>3
<1> QED
  BY <1>2, <1>3 DEF VerdictInv

\* The steps of the verdict invariant, part by part.
LEMMA StepVerdictInv ==
    ASSUME IInv, VerdictInv, [Next]_vars
    PROVE  VerdictInv'
<1> SUFFICES ASSUME Plain'
             PROVE  /\ MarksInv' /\ TestedInv' /\ EndInv'
                    /\ \A s \in Scans : Complete(s) => Knows(s)'
  BY DEF VerdictInv, Complete, AllMoves, MovesOf
<1>1. Plain
  BY StepFixed DEF Plain
<1>2. /\ MarksInv /\ TestedInv /\ EndInv
      /\ \A s \in Scans : Complete(s) => Knows(s)
  BY <1>1 DEF VerdictInv
<1>3. MarksInv'
  BY <1>1, <1>2, StepMarks
<1>4. TestedInv'
  BY <1>1, <1>2, StepTested
<1>5. EndInv'
  BY <1>1, <1>2, StepEnd
<1>6. \A s \in Scans : Complete(s) => Knows(s)'
  BY <1>1, <1>2, StepKnows
<1> QED
  BY <1>3, <1>4, <1>5, <1>6

-----------------------------------------------------------------------------
(***************************************************************************)
(* What can be reached from the deal lies in every set that contains the   *)
(* deal and is closed under moves.                                         *)
(***************************************************************************)
After(K) == K \cup UNION {Derived(k, AllMoves) : k \in K}
Within(f, m) == f = [n \in 0..m |-> IF n = 0 THEN {state_copy} ELSE After(f[n - 1])]

\* The states within m moves of the deal, as a function of m.
LEMMA WithinExists ==
    ASSUME NEW m \in Nat
    PROVE  \E f : Within(f, m)
<1> DEFINE S == {n \in 0..m : \E f : Within(f, n)}
<1>1. 0 \in S
  <2>1. Within([n \in 0..0 |-> {state_copy}], 0)
    BY DEF Within
  <2> QED
    BY <2>1
<1>2. ASSUME NEW i \in 0..(m - 1), i \in S
      PROVE  i + 1 \in S
  <2>1. PICK f : Within(f, i)
    BY <1>2
  <2>2. \A n \in 0..i : f[n] = IF n = 0 THEN {state_copy} ELSE After(f[n - 1])
    BY <2>1 DEF Within
  <2> DEFINE g == [n \in 0..(i + 1) |-> IF n = i + 1 THEN After(f[i]) ELSE f[n]]
  <2>3. \A n \in 0..(i + 1) : g[n] = IF n = 0 THEN {state_copy} ELSE After(g[n - 1])
    <3> SUFFICES ASSUME NEW n \in 0..(i + 1)
                 PROVE  g[n] = IF n = 0 THEN {state_copy} ELSE After(g[n - 1])
      OBVIOUS
    <3>1. CASE n = i + 1
      BY <3>1
    <3>2. CASE n # i + 1
      <4>1. n \in 0..i /\ g[n] = f[n]
        BY <3>2
      <4>2. n # 0 => n - 1 \in 0..(i + 1) /\ n - 1 # i + 1
        BY <4>1
      <4>3. n # 0 => g[n - 1] = f[n - 1]
        BY <4>2
      <4> QED
        BY <2>2, <4>1, <4>3
    <3> QED
      BY <3>1, <3>2
  <2>4. g = [n \in 0..(i + 1) |-> IF n = 0 THEN {state_copy} ELSE After(g[n - 1])]
    BY <2>3
  <2> HIDE DEF g
  <2>5. Within(g, i + 1)
    BY <2>4 DEF Within
  <2> QED
    BY <2>5
<1> HIDE DEF S
<1>3. m \in S
  BY <1>1, <1>2, UpAnInterval
<1> QED
  BY <1>3 DEF S

\* A set that holds the deal and is closed under moves holds all that is reachable.
LEMMA ReachableInClosed ==
    ASSUME NEW W, state_copy \in W, \A k \in W : Derived(k, AllMoves) \subseteq W
    PROVE  Reachable \subseteq W
<1> DEFINE N == Cardinality(States)
           R(f) == f = [n \in 0..Cardinality(States) |->
                          IF n = 0 THEN {state_copy}
                          ELSE f[n - 1] \cup UNION {Derived(k, AllMoves) : k \in f[n - 1]}]
           w == CHOOSE f : R(f)
<1>1. Reachable = w[N]
  BY Zenon DEF Reachable
<1>2. N \in Nat
  BY StatesAssumption, FS_CardinalityType
<1>3. \E f : R(f)
  <2>1. PICK f : Within(f, N)
    BY <1>2, WithinExists
  <2>2. R(f)
    BY <2>1 DEF Within, After
  <2> QED
    BY <2>2
<1>4. R(w)
  <2> HIDE DEF R
  <2> QED
    BY <1>3
<1> HIDE DEF w
<1>5. \A n \in 0..N : w[n] = IF n = 0 THEN {state_copy}
                             ELSE w[n - 1] \cup UNION {Derived(k, AllMoves) : k \in w[n - 1]}
  BY <1>4
<1> HIDE DEF R
<1> DEFINE S == {n \in 0..N : w[n] \subseteq W}
<1>6. 0 \in S
  <2>1. 0 \in 0..N
    BY <1>2
  <2>2. w[0] = {state_copy}
    BY <1>5, <2>1
  <2> QED
    BY <2>1, <2>2
<1>7. ASSUME NEW i \in 0..(N - 1), i \in S
      PROVE  i + 1 \in S
  <2>1. i + 1 \in 0..N /\ i + 1 # 0 /\ (i + 1) - 1 = i
    BY <1>2
  <2>2. w[i + 1] = w[i] \cup UNION {Derived(k, AllMoves) : k \in w[i]}
    BY <1>5, <2>1
  <2>3. w[i] \subseteq W
    BY <1>7
  <2>4. w[i + 1] \subseteq W
    BY <2>2, <2>3
  <2> QED
    BY <2>1, <2>4
<1> HIDE DEF S
<1>8. N \in S
  BY <1>2, <1>6, <1>7, UpAnInterval
<1> QED
  BY <1>1, <1>8 DEF S

\* All that the exhausted complete scans have visited, and the dead ends.
LEMMA VerdictOfExhausted ==
    ASSUME IInv, MarksInv, TestedInv, EndInv, \A s \in Scans : Complete(s) => Knows(s),
           pc = "stopped", ret = "unsolvable", NEW c \in Scans, Complete(c)
    PROVE  Solved \notin Reachable
<1> DEFINE F == {s \in finished : Complete(s)}
           V == UNION {scan_visited[t] : t \in F}
           W == V \cup DeadSet
<1>0. /\ finished \subseteq Scans /\ Scans \subseteq SoftThreads
      /\ scan_visited \in [SoftThreads -> SUBSET Stored] /\ Stored \subseteq States
      /\ NoState \notin States
  BY OptIsNoScan, StatesAssumption DEF IInv, TypeOK
<1>1. /\ F \subseteq Scans /\ F # {}
      /\ Synergy => F = {s \in Scans : Complete(s)}
      /\ ~Synergy => DeadSet = {}
  BY <1>0 DEF EndInv, MarksInv
<1>w. /\ \A s \in F : scan_visited[s] \subseteq W
      /\ \A k \in W : k \in DeadSet \/ \E s \in F : k \in scan_visited[s]
      /\ DeadSet \subseteq W
  <2> HIDE DEF F
  <2>1. \A s \in F : scan_visited[s] \subseteq V
    BY Zenon
  <2>2. \A k \in V : \E s \in F : k \in scan_visited[s]
    BY Zenon
  <2> HIDE DEF V
  <2> QED
    BY <2>1, <2>2
<1>2. ASSUME NEW s \in F
      PROVE  /\ Known(s) \subseteq W \cup {NoState} /\ state_copy \in Known(s)
             /\ \A k \in scan_visited[s] : Follows(s, k)
  <2>1. Exhausted(s) /\ Knows(s) /\ s \in Scans
    BY <1>0, <1>1 DEF EndInv, AtItsEnd
  <2> HIDE DEF F, V, W
  <2>2. scan_visited[s] \cup DeadSet \subseteq W
    BY <1>w
  <2>3. CASE IsDfs(s)
    <3>1. soft_dfs_info[s] = <<>>
      BY <2>1, <2>3 DEF Exhausted
    <3>2. DOMAIN soft_dfs_info[s] = {}
      BY <3>1
    <3>3. StatesOf(soft_dfs_info[s]) = {} /\ RestsOf(soft_dfs_info[s]) = {}
      BY <3>2 DEF StatesOf, RestsOf
    <3> QED
      BY <2>1, <2>2, <2>3, <3>3, PendingOfDfs DEF Knows, DfsKnows
  <2>4. CASE ~IsDfs(s)
    <3>1. ptr_state[s] = NoState /\ Items(queue[s]) = {}
      BY <2>1, <2>4, EmptyHasNoItems DEF Exhausted
    <3> QED
      BY <2>1, <2>2, <2>4, <3>1, PendingOfBefs DEF Knows, BefsKnows
  <2> QED
    BY <2>3, <2>4
<1>3. ASSUME NEW k \in W
      PROVE  \E s \in F : Follows(s, k)
  <2>1. CASE k \in DeadSet
    <3>1. Synergy /\ k \in AllTested
      BY <1>1, <2>1 DEF MarksInv
    <3>2. PICK s \in Scans : Complete(s) /\ Follows(s, k)
      BY <3>1 DEF TestedInv
    <3>3. s \in F
      BY <1>1, <3>1, <3>2
    <3> QED
      BY <3>2, <3>3
  <2>2. CASE k \notin DeadSet
    <3> HIDE DEF F, V, W
    <3> QED
      BY <1>2, <1>w, <2>2
  <2> QED
    BY <2>1, <2>2
<1>4. \A k \in States : Derived(k, AllMoves) \subseteq States
  <2>1. AllMoves \subseteq MoveFuncs
    <3>1. \A s \in Scans : \A i \in DOMAIN Tests[s] : Tests[s][i] \subseteq MoveFuncs
      BY TestsOfScan
    <3> QED
      BY <3>1 DEF AllMoves, MovesOf
  <2> QED
    BY <2>1, StatesAssumption DEF Derived
<1>5. W \subseteq States
  <2>1. DeadSet \subseteq Stored
    BY DEF DeadSet, Flagged, Stored
  <2>2. \A s \in F : scan_visited[s] \subseteq Stored
    BY <1>0, <1>1
  <2> HIDE DEF F, V, W
  <2> QED
    BY <1>0, <1>w, <2>1, <2>2
<1>6. state_copy \in States
  BY StatesAssumption DEF IInv, TypeOK
<1> HIDE DEF F, V, W
<1>7. state_copy \in W
  BY <1>0, <1>1, <1>2, <1>6
<1>8. ASSUME NEW k \in W
      PROVE  k # Solved /\ Derived(k, AllMoves) \subseteq W
  <2>1. PICK s \in F : Follows(s, k)
    BY <1>3
  <2>2. Derived(k, AllMoves) \subseteq W \cup {NoState}
    BY <1>2, <2>1 DEF Follows
  <2> QED
    BY <1>0, <1>4, <1>5, <2>1, <2>2 DEF Follows
<1>9. Reachable \subseteq W
  BY <1>7, <1>8, ReachableInClosed
<1> QED
  BY <1>8, <1>9

\* VerdictSound, without re-parenting: however the scans are interleaved and
\* whatever dead ends they hide from each other, the deal is only said to have
\* no solution if none of the moves leads to one.
THEOREM VerdictIsTrue == Spec => []("reparent" \notin options => VerdictSound)
<1>1. Init => IInv /\ PathInv /\ FrontierInv /\ VerdictInv
  BY InitIInv, InitPathInv, InitVerdictInv
<1>2. IInv /\ PathInv /\ FrontierInv /\ VerdictInv /\ [Next]_vars =>
         IInv' /\ PathInv' /\ FrontierInv' /\ VerdictInv'
  BY StepTypeOK, StepPlaceInv, StepTreeInv, StepPathInv, StepVerdictInv DEF IInv
<1>3. IInv /\ FrontierInv /\ VerdictInv => ("reparent" \notin options => VerdictSound)
  <2> SUFFICES ASSUME IInv, FrontierInv, VerdictInv, "reparent" \notin options,
                      pc = "stopped", ret = "unsolvable", NEW c \in Scans, Complete(c)
               PROVE  Solved \notin Reachable
    BY DEF VerdictSound
  <2>1. Plain
    BY DEF Plain, FrontierInv
  <2> QED
    BY <2>1, VerdictOfExhausted DEF VerdictInv
<1> QED
  BY <1>1, <1>2, <1>3, PTL DEF Spec

-----------------------------------------------------------------------------
(***************************************************************************)
(* The counts of children.  A state's count is that of its children which  *)
(* are no dead ends, and one more while it has yet to hear of the latest   *)
(* of them; no child hangs alive below a dead end.  That takes that a      *)
(* state is marked once, when nothing live hangs below it.  A best-first   *)
(* scan marks a state that derives nothing, before anybody else can: any   *)
(* number of them may be at work, beside incomplete DFS scans, which mark  *)
(* nothing.  A DFS scan marks a state when it leaves it.  If it is alone,  *)
(* the children of the state were found by it, entered after it, and left. *)
(***************************************************************************)
Orderly == NumScans = 1 \/ \A s \in Scans : Complete(s) => ~IsDfs(s)

LiveChildren(i, k) == {c \in DOMAIN i : i[c].parent = k /\ "dead_end" \notin i[c].visited}

\* Of a version i of the collection, where m has to hear of a dead end.
Counts(i, m) ==
    /\ \A k \in DOMAIN i :
          i[k].num_active_children
             = Cardinality(LiveChildren(i, k)) + (IF k = m THEN 1 ELSE 0)
    /\ \A k \in Flagged(i, "dead_end") : LiveChildren(i, k) = {}
    /\ m \notin Flagged(i, "dead_end")

\* A DFS scan that is alone, with the levels ls, the states it has visited and
\* those it has done with.
Alone(ls, visited, i, done) ==
    /\ \A m, n \in DOMAIN ls : ls[m].state = ls[n].state => m = n
    /\ StatesOf(ls) \cap done = {}
    /\ visited \subseteq StatesOf(ls) \cup done
    /\ \A m, n \in DOMAIN ls : i[ls[m].state].parent = ls[n].state => n < m
    /\ \A n \in DOMAIN ls : \A c \in DOMAIN i :
          i[c].parent = ls[n].state => c \in ls[n].rest \cup visited
    /\ \A k \in DOMAIN i : i[k].parent \in visited \cup {NoState}

AloneInv == NumScans = 1 /\ IsDfs(1) =>
    /\ Alone(soft_dfs_info[1], scan_visited[1], info, AllTested)
    /\ Synergy => AllTested \subseteq DeadSet

\* No dead end is expanded.
DeriveInv == pc = "derive" =>
    /\ mark_at = NoState
    /\ ~IsDfs(Current) => ptr_state[Current] \notin DeadSet

CountsInv == Plain /\ Orderly =>
    /\ Counts(info, mark_at)
    /\ DeriveInv
    /\ AloneInv

-----------------------------------------------------------------------------
\* Counts below the width of the field do not wrap.
LEMMA CountedOff ==
    ASSUME NEW q \in Nat, NEW W \in Nat, q + 1 < W
    PROVE  (q + 1 + W - 1) % W = q /\ (q + 1) % W = q + 1
<1>1. q + 1 + W - 1 = 1 * W + q /\ q + 1 = 0 * W + (q + 1)
  OBVIOUS
<1>2. q \in 0..(W - 1) /\ q + 1 \in 0..(W - 1) /\ W \in Nat \ {0} /\ 0 \in Nat /\ 1 \in Nat
  OBVIOUS
<1>3. \A a \in Nat, b \in 0..(W - 1) : (a * W + b) % W = b
  BY <1>2
<1> QED
  BY <1>1, <1>2, <1>3

\* What changes neither parents, nor counts, nor dead ends.
LEMMA SameCounts ==
    ASSUME NEW i, NEW j, NEW m, Counts(i, m), DOMAIN j = DOMAIN i,
           \A k \in DOMAIN i : /\ j[k].parent = i[k].parent
                               /\ j[k].num_active_children = i[k].num_active_children,
           Flagged(j, "dead_end") = Flagged(i, "dead_end")
    PROVE  Counts(j, m)
<1>1. \A c \in DOMAIN i : "dead_end" \in j[c].visited <=> "dead_end" \in i[c].visited
  BY DEF Flagged
<1>2. \A k : LiveChildren(j, k) = LiveChildren(i, k)
  BY <1>1 DEF LiveChildren
<1> QED
  BY <1>2 DEF Counts

\* A state below which nothing is alive becomes a dead end, and its parent has
\* to hear of it.
LEMMA DeadEndCounts ==
    ASSUME NEW D, IsFiniteSet(D), NoState \notin D, NEW i \in [D -> InfoOf(D)], NEW k \in D,
           Counts(i, NoState), k \notin Flagged(i, "dead_end"), LiveChildren(i, k) = {},
           i[k].parent # k
    PROVE  Counts(WithFlag(i, k, "dead_end"), i[k].parent)
<1> DEFINE j == WithFlag(i, k, "dead_end")
           p == i[k].parent
<1>0. "dead_end" \in Flags
  BY DEF Flags
<1>1. /\ j \in [D -> InfoOf(D)] /\ SameTree(j, i)
      /\ \A c \in D : c # k => j[c] = i[c]
      /\ j[k].visited = i[k].visited \cup {"dead_end"}
      /\ Flagged(j, "dead_end") = Flagged(i, "dead_end") \cup {k}
  BY <1>0, WithFlagKeeps, WithFlagFlags
<1>2. j[k].num_active_children = i[k].num_active_children
  BY DEF WithFlag, InfoOf
<1>3. DOMAIN i = D /\ DOMAIN j = D /\ p \in D \cup {NoState}
  BY <1>1 DEF InfoOf
<1> HIDE DEF j
<1>4. \A c \in D : j[c].parent = i[c].parent
                   /\ j[c].num_active_children = i[c].num_active_children
  BY <1>1, <1>2, <1>3 DEF SameTree
<1>5. \A n : LiveChildren(j, n) = LiveChildren(i, n) \ {k}
  BY <1>1, <1>3, <1>4 DEF LiveChildren
<1>6. \A n : n # p => LiveChildren(j, n) = LiveChildren(i, n)
  BY <1>5 DEF LiveChildren
<1>7. k \in LiveChildren(i, p)
  BY <1>3 DEF LiveChildren, Flagged
<1>8. p \notin Flagged(j, "dead_end")
  <2>1. p \notin Flagged(i, "dead_end")
    BY <1>7 DEF Counts
  <2> QED
    BY <1>1, <2>1
<1>9. \A n \in Flagged(j, "dead_end") : LiveChildren(j, n) = {}
  BY <1>1, <1>5 DEF Counts
<1>10. ASSUME NEW n \in D
       PROVE  j[n].num_active_children
                 = Cardinality(LiveChildren(j, n)) + (IF n = p THEN 1 ELSE 0)
  <2>1. i[n].num_active_children = Cardinality(LiveChildren(i, n)) + 0
    BY <1>3 DEF Counts
  <2>2. CASE n # p
    BY <1>4, <1>6, <2>1, <2>2
  <2>3. CASE n = p
    <3>1. IsFiniteSet(LiveChildren(i, n))
      BY <1>3, FS_Subset DEF LiveChildren
    <3>2. Cardinality(LiveChildren(i, n)) \in Nat
      BY <3>1, FS_CardinalityType
    <3>3. Cardinality(LiveChildren(j, n)) = Cardinality(LiveChildren(i, n)) - 1
      BY <1>5, <1>7, <2>3, <3>1, FS_RemoveElement
    <3> QED
      BY <1>4, <2>1, <2>3, <3>2, <3>3
  <2> QED
    BY <2>2, <2>3
<1> QED
  BY <1>3, <1>8, <1>9, <1>10 DEF Counts, j

\* A state hears of a dead end among its children.
LEMMA ChildLessCounts ==
    ASSUME NEW D, IsFiniteSet(D), NoState \notin D, NEW i \in [D -> InfoOf(D)], NEW m \in D,
           Counts(i, m)
    PROVE  /\ Counts(OneChildLess(i, m), NoState)
           /\ \A k : LiveChildren(OneChildLess(i, m), k) = LiveChildren(i, k)
           /\ Flagged(OneChildLess(i, m), "dead_end") = Flagged(i, "dead_end")
<1> DEFINE j == OneChildLess(i, m)
           n == i[m].num_active_children
           v == (n + USHRT - 1) % USHRT
<1>1. /\ j \in [D -> InfoOf(D)] /\ SameTree(j, i)
      /\ \A c \in D : j[c].visited = i[c].visited
      /\ Flagged(j, "dead_end") = Flagged(i, "dead_end")
  BY OneChildLessKeeps, CountsKeepFlags
<1>2. DOMAIN i = D /\ DOMAIN j = D
  BY <1>1
<1>3. IsFiniteSet(LiveChildren(i, m)) /\ Cardinality(LiveChildren(i, m)) \in Nat
  BY <1>2, FS_Subset, FS_CardinalityType DEF LiveChildren
<1>4. n = Cardinality(LiveChildren(i, m)) + 1 /\ n \in 0..(USHRT - 1)
  BY <1>2 DEF Counts, InfoOf
<1>5. v = n - 1
  <2>1. PICK q \in Nat : n = q + 1
    BY <1>3, <1>4
  <2>2. USHRT \in Nat
    BY DEF USHRT
  <2> HIDE DEF n
  <2>3. n - 1 = q
    BY <2>1
  <2>4. q + 1 < USHRT
    BY <1>4, <2>1, <2>2
  <2>5. (q + 1 + USHRT - 1) % USHRT = q
    BY <2>2, <2>4, CountedOff
  <2> QED
    BY <2>1, <2>3, <2>5
<1>6. /\ j[m].num_active_children = v
      /\ \A c \in D : c # m => j[c].num_active_children = i[c].num_active_children
  <2>1. j = [i EXCEPT ![m].num_active_children = v]
    BY DEF OneChildLess
  <2> HIDE DEF v, j
  <2> QED
    BY <2>1 DEF InfoOf
<1> HIDE DEF j, n, v
<1>7. \A k : LiveChildren(j, k) = LiveChildren(i, k)
  BY <1>1, <1>2 DEF LiveChildren, SameTree
<1>8. ASSUME NEW k \in D
      PROVE  j[k].num_active_children = Cardinality(LiveChildren(j, k))
  <2>1. CASE k = m
    BY <1>3, <1>4, <1>5, <1>6, <1>7, <2>1
  <2>2. CASE k # m
    <3>1. i[k].num_active_children = Cardinality(LiveChildren(i, k)) + 0
      BY <1>2, <2>2 DEF Counts
    <3>2. Cardinality(LiveChildren(i, k)) \in Nat
      BY <1>2, FS_Subset, FS_CardinalityType DEF LiveChildren
    <3> QED
      BY <1>6, <1>7, <2>2, <3>1, <3>2
  <2> QED
    BY <2>1, <2>2
<1>9. Counts(j, NoState)
  <2>1. \A k \in D : k # NoState /\ Cardinality(LiveChildren(j, k)) \in Nat
    BY <1>2, FS_Subset, FS_CardinalityType DEF LiveChildren
  <2>2. NoState \notin Flagged(j, "dead_end")
    BY <1>2 DEF Flagged
  <2>3. \A k \in Flagged(j, "dead_end") : LiveChildren(j, k) = {}
    BY <1>1, <1>7 DEF Counts
  <2> QED
    BY <1>2, <1>8, <2>1, <2>2, <2>3 DEF Counts
<1> QED
  BY <1>1, <1>7, <1>9 DEF j

\* A state that is not a dead end has one child more, a new one.
LEMMA ChildMoreCounts ==
    ASSUME NEW D, IsFiniteSet(D), NoState \notin D, NEW i \in [D -> InfoOf(D)], NEW k \in D,
           Counts(i, NoState), k \notin Flagged(i, "dead_end"),
           Cardinality(LiveChildren(i, k)) + 1 < USHRT,
           NEW x, x \notin D, x # NoState, NEW d,
           NEW j, DOMAIN j = D \cup {x}, j[x] = NewInfo(k, d),
           \A c \in D : j[c] = OneChildMore(i, k)[c]
    PROVE  Counts(j, NoState) /\ Flagged(j, "dead_end") = Flagged(i, "dead_end")
<1> DEFINE l == OneChildMore(i, k)
           n == i[k].num_active_children
           v == (n + 1) % USHRT
<1>1. /\ l \in [D -> InfoOf(D)] /\ SameTree(l, i)
      /\ \A c \in D : l[c].visited = i[c].visited
  BY OneChildMoreKeeps
<1>2. DOMAIN i = D /\ DOMAIN l = D
  BY <1>1
<1>3. \A c \in D : IsFiniteSet(LiveChildren(i, c)) /\ Cardinality(LiveChildren(i, c)) \in Nat
  BY <1>2, FS_Subset, FS_CardinalityType DEF LiveChildren
<1>4. \A c \in D : i[c].num_active_children = Cardinality(LiveChildren(i, c))
  BY <1>2, <1>3 DEF Counts
<1>5. v = n + 1
  <2>1. PICK q \in Nat : n = q /\ q + 1 < USHRT
    BY <1>3, <1>4
  <2>2. USHRT \in Nat
    BY DEF USHRT
  <2> HIDE DEF n
  <2>3. (q + 1) % USHRT = q + 1
    BY <2>1, <2>2, CountedOff
  <2> QED
    BY <2>1, <2>3
<1>6. /\ l[k].num_active_children = v
      /\ \A c \in D : c # k => l[c].num_active_children = i[c].num_active_children
  <2>1. l = [i EXCEPT ![k].num_active_children = v]
    BY DEF OneChildMore
  <2> HIDE DEF v, l
  <2> QED
    BY <2>1 DEF InfoOf
<1>7. \A c \in D : /\ j[c].parent = i[c].parent /\ j[c].visited = i[c].visited
                   /\ j[c].num_active_children = l[c].num_active_children
  BY <1>1, <1>2 DEF SameTree
<1>8. j[x].parent = k /\ j[x].visited = {} /\ j[x].num_active_children = 0
  BY DEF NewInfo
<1> HIDE DEF l, n, v
<1>9. Flagged(j, "dead_end") = Flagged(i, "dead_end")
  BY <1>2, <1>7, <1>8 DEF Flagged
<1>10. /\ LiveChildren(j, k) = LiveChildren(i, k) \cup {x}
       /\ x \notin LiveChildren(i, k)
       /\ \A c : c # k => LiveChildren(j, c) = LiveChildren(i, c)
  BY <1>2, <1>7, <1>8 DEF LiveChildren
<1>11. LiveChildren(i, x) = {}
  BY <1>2 DEF LiveChildren, InfoOf
<1>12. ASSUME NEW c \in D \cup {x}
       PROVE  j[c].num_active_children = Cardinality(LiveChildren(j, c)) + 0
  <2>1. CASE c = x
    BY <1>8, <1>10, <1>11, <2>1, FS_EmptySet
  <2>2. CASE c = k
    <3>1. Cardinality(LiveChildren(j, k)) = Cardinality(LiveChildren(i, k)) + 1
      BY <1>3, <1>10, FS_AddElement
    <3> QED
      BY <1>3, <1>4, <1>5, <1>6, <1>7, <2>2, <3>1 DEF n
  <2>3. CASE c # x /\ c # k
    BY <1>3, <1>4, <1>6, <1>7, <1>10, <2>3
  <2> QED
    BY <2>1, <2>2, <2>3
<1>13. \A c \in Flagged(j, "dead_end") : LiveChildren(j, c) = {}
  <2>1. \A c \in Flagged(i, "dead_end") : c # k
    OBVIOUS
  <2> QED
    BY <1>9, <1>10, <2>1 DEF Counts
<1>14. NoState \notin Flagged(j, "dead_end")
  BY <1>9 DEF Counts
<1>15. \A c \in D \cup {x} : c # NoState
  OBVIOUS
<1> QED
  BY <1>9, <1>12, <1>13, <1>14, <1>15 DEF Counts

-----------------------------------------------------------------------------
(***************************************************************************)
(* The DFS scan that is alone, step by step.                               *)
(***************************************************************************)
\* Nothing but parents and the states in hand matter.
LEMMA AloneSame ==
    ASSUME NEW ls, NEW visited, NEW i, NEW j, NEW done,
           Alone(ls, visited, i, done), DOMAIN j = DOMAIN i,
           \A k \in DOMAIN i : j[k].parent = i[k].parent,
           StatesOf(ls) \subseteq DOMAIN i
    PROVE  Alone(ls, visited, j, done)
<1>1. \A n \in DOMAIN ls : ls[n].state \in DOMAIN i
  BY DEF StatesOf
<1> QED
  BY <1>1, Zenon DEF Alone

\* Of such a scan that lists the derived state x in its deepest level, which
\* becomes l, while the collection becomes j.
Lists(D, ls, visited, i, done, l, x, e, j) ==
    /\ ls \in Seq(LevelOf(D)) /\ ls # <<>>
    /\ Alone(ls, visited, i, done)
    /\ StatesOf(ls) \subseteq visited /\ StatesOf(ls) \subseteq DOMAIN i
    /\ l \in LevelOf(D) /\ l.state = ls[Len(ls)].state
    /\ l.rest = ls[Len(ls)].rest \cup {x}
    /\ e = [ls EXCEPT ![Len(ls)] = l]
    /\ DOMAIN j = DOMAIN i \cup {x}
    /\ \A k \in DOMAIN i : j[k].parent = i[k].parent
    /\ x \notin DOMAIN i => j[x].parent = l.state

LEMMA AloneListing ==
    ASSUME NEW D, NEW ls, NEW visited, NEW i, NEW done, NEW l, NEW x, NEW e, NEW j,
           Lists(D, ls, visited, i, done, l, x, e, j)
    PROVE  Alone(e, visited, j, done)
<1>0. /\ ls \in Seq(LevelOf(D)) /\ ls # <<>>
      /\ Alone(ls, visited, i, done)
      /\ StatesOf(ls) \subseteq visited /\ StatesOf(ls) \subseteq DOMAIN i
      /\ l \in LevelOf(D) /\ l.state = ls[Len(ls)].state
      /\ l.rest = ls[Len(ls)].rest \cup {x}
      /\ e = [ls EXCEPT ![Len(ls)] = l]
      /\ DOMAIN j = DOMAIN i \cup {x}
      /\ \A k \in DOMAIN i : j[k].parent = i[k].parent
      /\ x \notin DOMAIN i => j[x].parent = l.state
  BY DEF Lists
<1>1. /\ e \in Seq(LevelOf(D)) /\ Len(e) = Len(ls) /\ Len(ls) \in 1..Len(ls)
      /\ DOMAIN ls = 1..Len(ls) /\ DOMAIN e = 1..Len(ls) /\ e[Len(ls)] = l
      /\ \A n \in 1..Len(ls) : n # Len(ls) => e[n] = ls[n]
  BY <1>0, TopReplaced
<1>2. /\ \A n \in 1..Len(ls) : e[n].state = ls[n].state /\ ls[n].rest \subseteq e[n].rest
      /\ x \in e[Len(ls)].rest
  BY <1>0, <1>1
<1>3. StatesOf(e) = StatesOf(ls)
  BY <1>0, TopReplacedHolds
<1>4. \A n \in 1..Len(ls) : ls[n].state \in StatesOf(ls) /\ ls[n].state \in DOMAIN i
  BY <1>0, <1>1 DEF StatesOf
<1>5. \A m, n \in 1..Len(ls) : ls[m].state = ls[n].state => m = n
  BY <1>0, <1>1 DEF Alone
<1>6. \A m, n \in 1..Len(ls) : i[ls[m].state].parent = ls[n].state => n < m
  BY <1>0, <1>1 DEF Alone
<1>7. ASSUME NEW n \in 1..Len(ls), NEW c \in DOMAIN j, j[c].parent = e[n].state
      PROVE  c \in e[n].rest \cup visited
  <2>1. CASE c \in DOMAIN i
    <3>1. i[c].parent = ls[n].state
      BY <1>0, <1>2, <1>7, <2>1
    <3>2. c \in ls[n].rest \cup visited
      BY <1>0, <1>1, <2>1, <3>1 DEF Alone
    <3> QED
      BY <1>0, <1>2, <3>2
  <2>2. CASE c \notin DOMAIN i
    <3>1. c = x /\ ls[n].state = ls[Len(ls)].state
      BY <1>0, <1>2, <1>7, <2>2
    <3>2. n = Len(ls)
      BY <1>0, <1>1, <1>5, <3>1
    <3> QED
      BY <1>0, <1>2, <3>1, <3>2
  <2> QED
    BY <1>0, <2>1, <2>2
<1>8. l.state \in visited
  BY <1>0, <1>1, <1>4
<1>9. \A k \in DOMAIN j : j[k].parent \in visited \cup {NoState}
  BY <1>0, <1>8 DEF Alone
<1>10. \A m, n \in 1..Len(ls) : j[e[m].state].parent = e[n].state => n < m
  BY <1>0, <1>2, <1>4, <1>6
<1>11. \A m, n \in 1..Len(ls) : e[m].state = e[n].state => m = n
  BY <1>0, <1>2, <1>5
<1>12. StatesOf(e) \cap done = {} /\ visited \subseteq StatesOf(e) \cup done
  BY <1>0, <1>3 DEF Alone
<1>13. DOMAIN e = 1..Len(ls)
  BY <1>0, <1>1
<1> QED
  BY ONLY <1>7, <1>9, <1>10, <1>11, <1>12, <1>13 DEF Alone

\* Going on to the next test, when what the last one derived was visited.
LEMMA AloneTesting ==
    ASSUME NEW D, NEW ls \in Seq(LevelOf(D)), ls # <<>>, NEW visited, NEW i, NEW done,
           Alone(ls, visited, i, done),
           NEW l \in LevelOf(D), l.state = ls[Len(ls)].state,
           ls[Len(ls)].rest \subseteq visited,
           NEW e, e = [ls EXCEPT ![Len(ls)] = l]
    PROVE  Alone(e, visited, i, done)
<1>1. /\ e \in Seq(LevelOf(D)) /\ Len(e) = Len(ls) /\ Len(ls) \in 1..Len(ls)
      /\ DOMAIN ls = 1..Len(ls) /\ DOMAIN e = 1..Len(ls) /\ e[Len(ls)] = l
      /\ \A n \in 1..Len(ls) : n # Len(ls) => e[n] = ls[n]
  BY TopReplaced
<1>2. \A n \in 1..Len(ls) : e[n].state = ls[n].state
  BY <1>1
<1>3. StatesOf(e) = StatesOf(ls)
  BY TopReplacedHolds
<1>4. ASSUME NEW n \in 1..Len(ls), NEW c \in DOMAIN i, i[c].parent = e[n].state
      PROVE  c \in e[n].rest \cup visited
  <2>1. c \in ls[n].rest \cup visited
    BY <1>1, <1>2, <1>4 DEF Alone
  <2> QED
    BY <1>1, <2>1
<1>5. /\ \A m, n \in 1..Len(ls) : e[m].state = e[n].state => m = n
      /\ \A m, n \in 1..Len(ls) : i[e[m].state].parent = e[n].state => n < m
  <2>1. /\ \A m, n \in 1..Len(ls) : ls[m].state = ls[n].state => m = n
        /\ \A m, n \in 1..Len(ls) : i[ls[m].state].parent = ls[n].state => n < m
    BY <1>1 DEF Alone
  <2> QED
    BY <1>2, <2>1
<1>6. /\ StatesOf(e) \cap done = {} /\ visited \subseteq StatesOf(e) \cup done
      /\ \A k \in DOMAIN i : i[k].parent \in visited \cup {NoState}
  BY <1>3 DEF Alone
<1>7. DOMAIN e = 1..Len(ls)
  BY <1>1
<1> QED
  BY ONLY <1>4, <1>5, <1>6, <1>7 DEF Alone

\* Entering a state that was not visited before.
LEMMA AloneEntering ==
    ASSUME NEW D, NEW ls \in Seq(LevelOf(D)), NEW visited, NEW i, NEW done,
           DOMAIN i = D, NoState \notin D,
           Alone(ls, visited, i, done), StatesOf(ls) \subseteq visited, done \subseteq visited,
           NEW x \in D, x \notin visited, i[x].parent # x
    PROVE  Alone(Append(ls, NewLevel(x)), visited \cup {x}, i, done)
<1> DEFINE e == Append(ls, NewLevel(x))
           L == Len(ls)
<1>0. NewLevel(x) \in LevelOf(D) /\ NewLevel(x).state = x
  BY DEF NewLevel, LevelOf
<1>1. /\ DOMAIN ls = 1..L /\ L \in Nat /\ DOMAIN e = 1..(L + 1)
      /\ \A n \in 1..L : e[n] = ls[n]
      /\ e[L + 1] = NewLevel(x)
  BY <1>0
<1>2. StatesOf(e) = StatesOf(ls) \cup {x}
  BY LevelAppended
<1> HIDE DEF e, L
<1>3. /\ \A n \in 1..(L + 1) : n \in 1..L \/ n = L + 1
      /\ \A n \in 1..L : n \in 1..(L + 1) /\ n # L + 1 /\ n < L + 1
      /\ L + 1 \in 1..(L + 1)
  BY <1>1
<1>4. \A n \in 1..L : e[n].state = ls[n].state /\ ls[n].state \in visited /\ ls[n].state \in D
                      /\ e[n].rest = ls[n].rest
  <2>1. \A n \in 1..L : ls[n].state \in StatesOf(ls)
    BY <1>1 DEF StatesOf
  <2>2. \A n \in 1..L : ls[n] \in LevelOf(D)
    BY DEF L
  <2>3. \A n \in 1..L : ls[n].state \in D
    BY <2>2 DEF LevelOf
  <2> QED
    BY <1>1, <2>1, <2>3
<1>5. e[L + 1].state = x
  BY <1>0, <1>1
<1>6. \A c \in D : i[c].parent # x
  BY DEF Alone
<1>7. ASSUME NEW m \in 1..(L + 1), NEW n \in 1..(L + 1), e[m].state = e[n].state
      PROVE  m = n
  <2>1. \A a, b \in 1..L : ls[a].state = ls[b].state => a = b
    BY <1>1 DEF Alone
  <2>2. CASE m \in 1..L /\ n \in 1..L
    BY <1>4, <1>7, <2>1, <2>2
  <2>3. CASE ~(m \in 1..L /\ n \in 1..L)
    BY <1>3, <1>4, <1>5, <1>7, <2>3
  <2> QED
    BY <2>2, <2>3
<1>8. ASSUME NEW m \in 1..(L + 1), NEW n \in 1..(L + 1), i[e[m].state].parent = e[n].state
      PROVE  n < m
  <2>1. \A a, b \in 1..L : i[ls[a].state].parent = ls[b].state => b < a
    BY <1>1 DEF Alone
  <2>2. CASE n = L + 1
    <3>1. e[m].state \in D
      BY <1>3, <1>4, <1>5
    <3> QED
      BY <1>5, <1>6, <1>8, <2>2, <3>1
  <2>3. CASE n \in 1..L /\ m \in 1..L
    BY <1>4, <1>8, <2>1, <2>3
  <2>4. CASE n \in 1..L /\ m = L + 1
    BY <1>3, <2>4
  <2> QED
    BY <1>3, <2>2, <2>3, <2>4
<1>9. ASSUME NEW n \in 1..(L + 1), NEW c \in DOMAIN i, i[c].parent = e[n].state
      PROVE  c \in e[n].rest \cup (visited \cup {x})
  <2>1. n \in 1..L
    BY <1>3, <1>5, <1>6, <1>9
  <2>2. i[c].parent = ls[n].state
    BY <1>4, <1>9, <2>1
  <2>3. c \in ls[n].rest \cup visited
    BY <1>1, <2>1, <2>2 DEF Alone
  <2> QED
    BY <1>4, <2>1, <2>3
<1>10. /\ StatesOf(e) \cap done = {}
       /\ visited \cup {x} \subseteq StatesOf(e) \cup done
       /\ \A k \in DOMAIN i : i[k].parent \in (visited \cup {x}) \cup {NoState}
  BY <1>2 DEF Alone
<1> QED
  BY <1>1, <1>7, <1>8, <1>9, <1>10 DEF Alone, e

\* Of a scan as above that goes on with the levels e and has done with left, too.
Leaves(D, ls, visited, i, done, k, e, left) ==
    /\ ls \in Seq(LevelOf(D)) /\ ls # <<>>
    /\ Alone(ls, visited, i, done)
    /\ k = ls[Len(ls)].state /\ ls[Len(ls)].rest \subseteq visited
    /\ e = SubSeq(ls, 1, Len(ls) - 1)
    /\ left = done \cup {k}

\* Leaving the deepest level: no child of its state is on the way to it, so
\* that all of them were left before.
LEMMA AloneLeaving ==
    ASSUME NEW D, NEW ls, NEW visited, NEW i, NEW done, NEW k, NEW e, NEW left,
           Leaves(D, ls, visited, i, done, k, e, left)
    PROVE  /\ Alone(e, visited, i, left)
           /\ \A c \in DOMAIN i : i[c].parent = k => c \in done
           /\ k \notin done
<1>0. /\ ls \in Seq(LevelOf(D)) /\ ls # <<>> /\ Alone(ls, visited, i, done)
      /\ e = SubSeq(ls, 1, Len(ls) - 1) /\ left = done \cup {k}
  BY DEF Leaves
<1> DEFINE L == Len(ls)
<1>1. /\ DOMAIN ls = 1..L /\ L \in Nat /\ L \in 1..L /\ L - 1 \in Nat
      /\ DOMAIN e = 1..(L - 1)
      /\ \A n \in 1..(L - 1) : e[n] = ls[n]
      /\ \A n \in 1..(L - 1) : n \in 1..L /\ n # L
      /\ \A n \in 1..L : n \in 1..(L - 1) \/ n = L
  <2>1. /\ e \in Seq(LevelOf(D)) /\ Len(e) = Len(ls) - 1
        /\ \A n \in 1..(Len(ls) - 1) : e[n] = ls[n]
        /\ Len(ls) - 1 \in Nat
    BY <1>0, WithoutLast
  <2> QED
    BY <1>0, <2>1
<1>2. k = ls[L].state /\ ls[L].rest \subseteq visited
  BY DEF Leaves
<1> HIDE DEF L
<1>3. \A n \in 1..(L - 1) : e[n].state = ls[n].state /\ e[n].rest = ls[n].rest
  BY <1>1
<1>4. /\ \A m, n \in 1..L : ls[m].state = ls[n].state => m = n
      /\ \A m, n \in 1..L : i[ls[m].state].parent = ls[n].state => n < m
  BY <1>0, <1>1 DEF Alone
<1>5. StatesOf(ls) = StatesOf(e) \cup {k} /\ k \notin StatesOf(e)
  <2>1. \A n \in 1..L : ls[n].state \in StatesOf(e) \cup {k}
    BY <1>1, <1>2, <1>3 DEF StatesOf
  <2>2. \A n \in 1..(L - 1) : e[n].state \in StatesOf(ls)
    BY <1>1, <1>3 DEF StatesOf
  <2>3. k \in StatesOf(ls)
    BY <1>1, <1>2 DEF StatesOf
  <2>4. \A n \in 1..(L - 1) : e[n].state # k
    BY <1>1, <1>2, <1>3, <1>4
  <2>5. StatesOf(ls) \subseteq StatesOf(e) \cup {k}
    BY <1>1, <2>1 DEF StatesOf
  <2>6. StatesOf(e) \subseteq StatesOf(ls) /\ k \notin StatesOf(e)
    BY <1>1, <2>2, <2>4 DEF StatesOf
  <2> QED
    BY <2>3, <2>5, <2>6
<1>6. ASSUME NEW c \in DOMAIN i, i[c].parent = k
      PROVE  c \in done
  <2>1. c \in visited
    BY <1>0, <1>1, <1>2, <1>6 DEF Alone
  <2>2. ASSUME c \in StatesOf(ls) PROVE FALSE
    <3>1. PICK m \in 1..L : ls[m].state = c
      BY <1>1, <2>2 DEF StatesOf
    <3>2. L < m
      BY <1>1, <1>2, <1>4, <1>6, <3>1
    <3> QED
      BY <1>1, <3>2
  <2> QED
    BY <1>0, <2>1, <2>2 DEF Alone
<1>7. k \notin done
  BY <1>0, <1>5 DEF Alone
<1>8. ASSUME NEW n \in 1..(L - 1), NEW c \in DOMAIN i, i[c].parent = e[n].state
      PROVE  c \in e[n].rest \cup visited
  <2>1. i[c].parent = ls[n].state
    BY <1>3, <1>8
  <2>2. c \in ls[n].rest \cup visited
    BY <1>0, <1>1, <2>1 DEF Alone
  <2> QED
    BY <1>3, <2>2
<1>9. /\ \A m, n \in 1..(L - 1) : e[m].state = e[n].state => m = n
      /\ \A m, n \in 1..(L - 1) : i[e[m].state].parent = e[n].state => n < m
  BY <1>1, <1>3, <1>4
<1>10. /\ StatesOf(e) \cap left = {}
       /\ visited \subseteq StatesOf(e) \cup left
       /\ \A c \in DOMAIN i : i[c].parent \in visited \cup {NoState}
  BY <1>0, <1>5 DEF Alone
<1>11. Alone(e, visited, i, left)
  BY <1>1, <1>8, <1>9, <1>10 DEF Alone
<1> QED
  BY <1>6, <1>7, <1>11

\* Taking up the first state.
LEMMA AloneVisiting ==
    ASSUME NEW ls, NEW visited, NEW i, NEW done, Alone(ls, visited, i, done),
           NEW x \in StatesOf(ls)
    PROVE  Alone(ls, visited \cup {x}, i, done)
BY Zenon DEF Alone

-----------------------------------------------------------------------------
(***************************************************************************)
(* What the counts rest on.                                                *)
(***************************************************************************)
\* No state is its own parent, and the children of a state are derived from it.
LEMMA ParentsApart ==
    ASSUME IInv, NEW k \in Stored
    PROVE  /\ info[k].parent # k /\ info[k].parent \in Stored \cup {NoState}
           /\ info[k].parent # NoState => k \in Derived(info[k].parent, AllMoves)
<1>1. CASE k = state_copy
  <2>1. info[k].parent = NoState
    BY <1>1 DEF IInv, TreeInv, ParentsDerive
  <2>2. k # NoState
    BY StatesAssumption DEF IInv, TypeOK
  <2> QED
    BY <2>1, <2>2
<1>2. CASE k # state_copy
  <2>1. /\ info[k].parent \in Stored /\ k \in Derived(info[k].parent, AllMoves)
        /\ info[info[k].parent].depth < info[k].depth
    BY <1>2 DEF IInv, TreeInv, ParentsDerive
  <2>2. info[k].depth \in Nat
    BY TypesOfStored DEF IInv, TypeOK, InfoOf
  <2> QED
    BY <2>1, <2>2
<1> QED
  BY <1>1, <1>2

\* The collection.
LEMMA Collection ==
    ASSUME IInv
    PROVE  /\ info \in [Stored -> InfoOf(Stored)] /\ IsFiniteSet(Stored)
           /\ Stored \subseteq States /\ NoState \notin Stored /\ DOMAIN info = Stored
<1>1. info \in [Stored -> InfoOf(Stored)] /\ Stored \subseteq States
  BY TypesOfStored DEF IInv, TypeOK
<1>2. IsFiniteSet(Stored) /\ NoState \notin Stored
  BY <1>1, StatesAssumption, FS_Subset
<1> QED
  BY <1>1, <1>2 DEF Stored

\* The scan that is alone is complete, and runs until the optimization.
LEMMA TheOneScan ==
    ASSUME NumScans = 1, TypeOK, ~optimizing
    PROVE  1 \in Scans /\ 1 \in SoftThreads /\ Complete(1) /\ Current = 1 /\ \A s \in Scans : s = 1
<1>1. 1 \in Scans /\ \A s \in Scans : s = 1
  BY DEF Scans
<1>2. MovesOf(1) = AllMoves
  <2>1. MovesOf(1) \subseteq AllMoves
    BY <1>1, MovesAreAll
  <2>2. AllMoves \subseteq MovesOf(1)
    BY <1>1 DEF AllMoves
  <2> QED
    BY <2>1, <2>2
<1> QED
  BY <1>1, <1>2, OptIsNoScan DEF Complete, Current, TypeOK

\* What a dead end derives is stored.
LEMMA DeadIsClosed ==
    ASSUME IInv, MarksInv, TestedInv, NEW k \in DeadSet
    PROVE  Derived(k, AllMoves) \subseteq Stored \cup {NoState}
<1>1. PICK s \in Scans : Follows(s, k)
  BY DEF MarksInv, TestedInv
<1>2. scan_visited[s] \subseteq Stored /\ DeadSet \subseteq Stored
  BY OptIsNoScan DEF IInv, TypeOK, DeadSet, Flagged, Stored
<1>3. Pending(s) \subseteq Stored \cup {NoState}
  <2>1. CASE IsDfs(s)
    <3> DEFINE ls == soft_dfs_info[s]
    <3>1. ls \in Seq(LevelOf(Stored))
      BY TypesOfStored DEF IInv, TypeOK
    <3>2. \A n \in DOMAIN ls : ls[n].state \in Stored /\ ls[n].rest \subseteq Stored
      <4> HIDE DEF ls
      <4>1. \A n \in DOMAIN ls : ls[n] \in LevelOf(Stored)
        BY <3>1
      <4> QED
        BY <4>1 DEF LevelOf
    <3> HIDE DEF ls
    <3>3. StatesOf(ls) \subseteq Stored /\ RestsOf(ls) \subseteq Stored
      BY <3>2 DEF StatesOf, RestsOf
    <3> QED
      BY <2>1, <3>3 DEF Pending, ls
  <2>2. CASE ~IsDfs(s)
    <3>1. queue[s] \in Seq(Stored) /\ ptr_state[s] \in Stored \cup {NoState}
      BY OptIsNoScan DEF IInv, TypeOK, StatePtr
    <3>2. Items(queue[s]) \subseteq Stored
      BY <3>1 DEF Items
    <3> QED
      BY <2>2, <3>1, <3>2 DEF Pending
  <2> QED
    BY <2>1, <2>2
<1> QED
  BY <1>1, <1>2, <1>3 DEF Follows, Known

\* Only four steps touch parents and counts.
LEMMA OthersKeepCounts ==
    ASSUME IInv, MarksInv, Plain, [Next]_vars, ~MarkParent,
           \A s \in Scans : ~DfsBacktrack(s), \A s \in SoftThreads : ~BefsExpanded(s),
           \A x \in todo : ~AddNewState(x)
    PROVE  /\ DOMAIN info' = DOMAIN info
           /\ \A k \in DOMAIN info :
                 /\ info'[k].parent = info[k].parent
                 /\ info'[k].num_active_children = info[k].num_active_children
<1>0. info \in [Stored -> InfoOf(Stored)] /\ DOMAIN info = Stored
  BY Collection
<1>1. ASSUME NEW x \in todo, CheckState(x)
      PROVE  info' = info
  <2>1. ~LeaveOldParent(x)
    BY DEF LeaveOldParent, CanReparent, Reparent, Plain
  <2> QED
    BY <1>1, <2>1 DEF CheckState, KnownState
<1>2. ASSUME NEW s \in Scans, DfsStep(s)
      PROVE  info' = info
  BY <1>2 DEF DfsStep, DfsEnter, DfsSolved, DfsRunMoves, DfsDerived
<1>3. ASSUME NEW s \in SoftThreads, BefsStep(s)
      PROVE  info' = info
  BY <1>3 DEF BefsStep, BefsPassOver, BefsSuspend, BefsSolved, BefsPerformMoves, BefsExhausted
<1>4. CASE TraceSolution
  <2>1. info' = WithFlag(info, trace_at, "in_solution_path")
    BY <1>4 DEF TraceSolution
  <2> QED
    BY <1>0, <2>1 DEF WithFlag, InfoOf
<1>5. CASE JoinNewParent
  BY <1>5 DEF JoinNewParent, MarksInv
<1>6. CASE SkipFinished \/ RunScan \/ StartOptimizing \/ OptimizationReturned \/ Resume
           \/ UNCHANGED vars
  BY <1>6 DEF SkipFinished, RunScan, StartOptimizing, OptimizationReturned, Resume, vars
<1>7. CASE ScanReturned
  BY <1>7 DEF ScanReturned
<1> QED
  BY <1>1, <1>2, <1>3, <1>4, <1>5, <1>6, <1>7 DEF Next, Solve, Stopped

-----------------------------------------------------------------------------
(***************************************************************************)
(* The counts, step by step.                                               *)
(***************************************************************************)
\* A parent hears of a dead end, and may become one.
LEMMA MarkParentCounts ==
    ASSUME IInv, MarkParent, Counts(info, mark_at)
    PROVE  Counts(info', mark_at')
<1> DEFINE i == OneChildLess(info, mark_at)
           m == mark_at
<1>0. /\ info \in [Stored -> InfoOf(Stored)] /\ IsFiniteSet(Stored) /\ NoState \notin Stored
      /\ m \in Stored
  BY Collection DEF IInv, TypeOK, MarkParent, StatePtr
<1>1. /\ i \in [Stored -> InfoOf(Stored)] /\ SameTree(i, info)
      /\ Counts(i, NoState)
      /\ \A k : LiveChildren(i, k) = LiveChildren(info, k)
      /\ Flagged(i, "dead_end") = Flagged(info, "dead_end")
  BY <1>0, OneChildLessKeeps, ChildLessCounts
<1>2. \/ info' = i /\ mark_at' = NoState
      \/ /\ i[m].num_active_children = 0
         /\ info' = WithFlag(i, m, "dead_end") /\ mark_at' = i[m].parent
  BY DEF MarkParent
<1>3. i[m].parent # m /\ m \notin Flagged(i, "dead_end")
  BY <1>0, <1>1, ParentsApart DEF SameTree, Counts
<1> HIDE DEF i, m
<1>4. CASE info' = i /\ mark_at' = NoState
  BY <1>1, <1>4
<1>5. CASE /\ i[m].num_active_children = 0
           /\ info' = WithFlag(i, m, "dead_end") /\ mark_at' = i[m].parent
  <2>1. DOMAIN i = Stored
    BY <1>1
  <2>2. IsFiniteSet(LiveChildren(i, m)) /\ Cardinality(LiveChildren(i, m)) \in Nat
    BY <1>0, <2>1, FS_Subset, FS_CardinalityType DEF LiveChildren
  <2>3. Cardinality(LiveChildren(i, m)) = 0
    BY <1>0, <1>1, <1>5, <2>1, <2>2 DEF Counts
  <2>4. LiveChildren(i, m) = {}
    BY <2>2, <2>3, FS_EmptySet
  <2> QED
    BY <1>0, <1>1, <1>3, <1>5, <2>4, DeadEndCounts
<1> QED
  BY <1>2, <1>4, <1>5

\* A state is marked as tested, and as a dead end if nothing below it is alive.
LEMMA TestedCounts ==
    ASSUME IInv, Counts(info, NoState), mark_at = NoState, NEW k \in Stored,
           NEW i, i = WithFlag(info, k, "all_tests_done"),
           \/ info' = i /\ mark_at' = mark_at
           \/ /\ MarkAsDeadEnd(i, k)
              /\ Synergy => k \notin DeadSet /\ LiveChildren(info, k) = {}
    PROVE  Counts(info', mark_at')
<1>0. /\ info \in [Stored -> InfoOf(Stored)] /\ IsFiniteSet(Stored) /\ NoState \notin Stored
      /\ DOMAIN info = Stored
      /\ "all_tests_done" \in Flags /\ "dead_end" # "all_tests_done"
  BY Collection DEF Flags
<1>1. /\ i \in [Stored -> InfoOf(Stored)] /\ SameTree(i, info)
      /\ Flagged(i, "dead_end") = Flagged(info, "dead_end")
  BY <1>0, WithFlagKeeps, WithFlagFlags
<1>2. \A c \in Stored : /\ i[c].parent = info[c].parent
                        /\ i[c].num_active_children = info[c].num_active_children
  BY <1>0 DEF WithFlag, InfoOf
<1>3. Counts(i, NoState) /\ DOMAIN i = Stored
  BY <1>0, <1>1, <1>2, SameCounts
<1>4. LiveChildren(i, k) = LiveChildren(info, k)
  <2>1. \A c \in Stored : "dead_end" \in i[c].visited <=> "dead_end" \in info[c].visited
    BY <1>0, <1>1, <1>3 DEF Flagged
  <2> QED
    BY <1>0, <1>2, <1>3, <2>1 DEF LiveChildren
<1>5. CASE info' = i /\ mark_at' = mark_at
  BY <1>3, <1>5
<1>6. CASE MarkAsDeadEnd(i, k) /\ ~Synergy
  BY <1>3, <1>6 DEF MarkAsDeadEnd
<1>7. CASE /\ MarkAsDeadEnd(i, k) /\ Synergy
           /\ k \notin DeadSet /\ LiveChildren(info, k) = {}
  <2>1. info' = WithFlag(i, k, "dead_end") /\ mark_at' = i[k].parent
    BY <1>7 DEF MarkAsDeadEnd
  <2>2. i[k].parent # k /\ k \notin Flagged(i, "dead_end")
    BY <1>1, <1>2, <1>7, ParentsApart DEF DeadSet
  <2> QED
    BY <1>0, <1>1, <1>3, <1>4, <1>7, <2>1, <2>2, DeadEndCounts
<1> QED
  BY <1>5, <1>6, <1>7

\* A best-first scan is done with a state.
LEMMA BefsExpandedCounts ==
    ASSUME IInv, ~optimizing, NEW s \in SoftThreads, BefsExpanded(s), Counts(info, mark_at),
           ptr_state[s] \notin DeadSet
    PROVE  Counts(info', mark_at')
<1> DEFINE k == ptr_state[s]
           i == WithFlag(info, k, "all_tests_done")
           none == Derived(k, IF s = Opt THEN AllMoves ELSE MovesOf(s)) = {}
<1>1. mark_at = NoState /\ pc = "derive" /\ s = Current /\ ~IsDfs(s)
  BY DEF BefsExpanded, At
<1>2. k \in Stored /\ s # Opt
  BY <1>1, ExpandedIsStored, CurrentIsScan, OptIsNoScan DEF IInv, Expanded
<1>3. CASE ~Complete(s)
  BY <1>1, <1>3 DEF BefsExpanded
<1>4. CASE Complete(s)
  <2>1. \/ info' = i /\ mark_at' = mark_at
        \/ MarkAsDeadEnd(i, k) /\ none
    BY <1>4 DEF BefsExpanded
  <2>2. ASSUME none PROVE LiveChildren(info, k) = {}
    <3>1. Derived(k, AllMoves) = {}
      BY <1>2, <1>4, <2>2 DEF Complete
    <3>2. \A c \in Stored : info[c].parent # k
      BY <1>2, <3>1, ParentsApart, Collection
    <3> QED
      BY <3>2 DEF LiveChildren, Stored
  <2> HIDE DEF i, k, none
  <2>3. k \notin DeadSet
    BY DEF k
  <2> QED
    BY <1>1, <1>2, <2>1, <2>2, <2>3, TestedCounts DEF i
<1> QED
  BY <1>3, <1>4

\* A new state is stored as a child of the one that is expanded.
LEMMA AddNewStateCounts ==
    ASSUME IInv, MarksInv, TestedInv, NEW x, AddNewState(x), Counts(info, mark_at)
    PROVE  Counts(info', mark_at')
<1> DEFINE k == Expanded
           n == NewInfo(k, info[k].depth + 1)
           i == OneChildMore(info, k)
<1>0. /\ info \in [Stored -> InfoOf(Stored)] /\ IsFiniteSet(Stored) /\ NoState \notin Stored
      /\ DOMAIN info = Stored /\ Stored \subseteq States
  BY Collection
<1>1. /\ pc = "derive" /\ mark_at = NoState /\ mark_at' = NoState /\ x \in todo /\ x \notin Stored
      /\ info' = [j \in Stored \cup {x} |-> IF j = x THEN n ELSE i[j]]
  BY DEF AddNewState, At
<1>2. k \in Stored /\ x \in Derived(k, AllMoves) /\ x \in States /\ x # NoState
  BY <1>1, ExpandedIsStored, StatesAssumption DEF IInv, TreeInv, TypeOK
<1> HIDE DEF k
<1>3. k \notin DeadSet
  BY <1>1, <1>2, DeadIsClosed
<1>4. Cardinality(LiveChildren(info, k)) + 1 < USHRT
  <2>1. \A c \in LiveChildren(info, k) : c \in Derived(k, AllMoves) /\ c \in Stored
    BY <1>0, <1>2, ParentsApart DEF LiveChildren
  <2>2. IsFiniteSet(LiveChildren(info, k)) /\ x \notin LiveChildren(info, k)
    BY <1>0, <1>1, <2>1, FS_Subset
  <2>3. IsFiniteSet(Derived(k, AllMoves))
    <3>1. AllMoves \subseteq MoveFuncs
      <4>1. \A s \in Scans : \A m \in DOMAIN Tests[s] : Tests[s][m] \subseteq MoveFuncs
        BY TestsOfScan
      <4> QED
        BY <4>1 DEF AllMoves, MovesOf
    <3>2. Derived(k, AllMoves) \subseteq States
      BY <1>0, <1>2, <3>1, StatesAssumption DEF Derived
    <3> QED
      BY <3>2, StatesAssumption, FS_Subset
  <2>4. /\ IsFiniteSet(LiveChildren(info, k) \cup {x})
        /\ Cardinality(LiveChildren(info, k) \cup {x}) = Cardinality(LiveChildren(info, k)) + 1
    BY <2>2, FS_AddElement
  <2>5. Cardinality(LiveChildren(info, k) \cup {x}) <= Cardinality(Derived(k, AllMoves))
    BY <1>2, <2>1, <2>3, FS_Subset
  <2>6. Cardinality(Derived(k, AllMoves)) < USHRT
    BY <1>0, <1>2, FewChildrenAssumption
  <2>7. /\ Cardinality(LiveChildren(info, k)) \in Nat
        /\ Cardinality(Derived(k, AllMoves)) \in Nat /\ USHRT \in Nat
    BY <2>2, <2>3, FS_CardinalityType DEF USHRT
  <2> QED
    BY <2>4, <2>5, <2>6, <2>7
<1>5. /\ DOMAIN info' = Stored \cup {x} /\ info'[x] = n
      /\ \A c \in Stored : info'[c] = i[c]
  BY <1>1
<1>6. n = NewInfo(k, info[k].depth + 1) /\ i = OneChildMore(info, k)
  OBVIOUS
<1> HIDE DEF n, i
<1>7. Counts(info', NoState)
  BY <1>0, <1>1, <1>2, <1>3, <1>4, <1>5, <1>6, ChildMoreCounts DEF DeadSet
<1> QED
  BY <1>1, <1>7

-----------------------------------------------------------------------------
(***************************************************************************)
(* The steps of the DFS scan that is alone.                                *)
(***************************************************************************)
\* What it holds, and what it has done with.
LEMMA AloneHolds ==
    ASSUME IInv, VerdictInv, Plain, NumScans = 1, IsDfs(1)
    PROVE  /\ 1 \in Scans /\ 1 \in SoftThreads /\ Complete(1) /\ Current = 1 /\ ~optimizing
           /\ soft_dfs_info[1] \in Seq(LevelOf(Stored))
           /\ StatesOf(soft_dfs_info[1]) \subseteq Stored
           /\ AllTested \subseteq scan_visited[1] /\ DeadSet \subseteq AllTested
           /\ Running => /\ soft_dfs_info[1] # <<>>
                         /\ StatesOf(soft_dfs_info[1]) \subseteq scan_visited[1]
                         /\ Top(1) = soft_dfs_info[1][Len(soft_dfs_info[1])]
                         /\ Top(1) \in LevelOf(Stored)
                         /\ Enterable(1) = {} => Top(1).rest \subseteq scan_visited[1]
<1>1. /\ 1 \in Scans /\ 1 \in SoftThreads /\ Complete(1) /\ Current = 1 /\ ~optimizing
      /\ \A s \in Scans : s = 1
  BY TheOneScan DEF IInv, Plain
<1>2. soft_dfs_info[1] \in Seq(LevelOf(Stored))
  BY <1>1, TypesOfStored DEF IInv, TypeOK
<1>3. StatesOf(soft_dfs_info[1]) \subseteq Stored
  <2> DEFINE ls == soft_dfs_info[1]
  <2>1. ls \in Seq(LevelOf(Stored))
    BY <1>2
  <2> HIDE DEF ls
  <2>2. \A n \in DOMAIN ls : ls[n] \in LevelOf(Stored)
    BY <2>1
  <2>3. \A n \in DOMAIN ls : ls[n].state \in Stored
    BY <2>2 DEF LevelOf
  <2> QED
    BY <2>3 DEF StatesOf, ls
<1>4. AllTested \subseteq scan_visited[1] /\ DeadSet \subseteq AllTested
  BY <1>1 DEF VerdictInv, TestedInv, MarksInv
<1>5. ASSUME Running
      PROVE  /\ soft_dfs_info[1] # <<>>
             /\ StatesOf(soft_dfs_info[1]) \subseteq scan_visited[1]
             /\ Top(1) = soft_dfs_info[1][Len(soft_dfs_info[1])]
             /\ Top(1) \in LevelOf(Stored)
             /\ Enterable(1) = {} => Top(1).rest \subseteq scan_visited[1]
  <2>1. soft_dfs_info[1] # <<>> /\ Top(1) \in LevelOf(Stored)
        /\ Top(1) = soft_dfs_info[1][Len(soft_dfs_info[1])]
    BY <1>1, <1>5, LevelsOfCurrent DEF IInv, Top, Deepest
  <2>2. DfsKnows(1)
    BY <1>1 DEF VerdictInv, Knows
  <2>3. StatesOf(soft_dfs_info[1]) \subseteq scan_visited[1]
    BY <1>1, <1>5, <2>2 DEF DfsKnows
  <2>4. ASSUME Enterable(1) = {}, NEW x \in Top(1).rest
        PROVE  x \in scan_visited[1]
    <3>1. Dead(x) \/ x \in scan_visited[1]
      BY <2>4 DEF Enterable
    <3>2. x \in Stored
      BY <2>1 DEF LevelOf
    <3> QED
      BY <1>4, <3>1, <3>2 DEF Dead, DeadSet, Flagged, Stored
  <2> QED
    BY <2>1, <2>3, <2>4
<1> QED
  BY <1>1, <1>2, <1>3, <1>4, <1>5

\* A state is only left when nothing below it is alive.
LEMMA AloneBacktracks ==
    ASSUME IInv, VerdictInv, Plain, AloneInv, NumScans = 1, IsDfs(1), DfsBacktrack(1)
    PROVE  /\ AloneInv' /\ mark_at = NoState
           /\ Top(1).state \in Stored /\ Top(1).state \notin DeadSet
           /\ Synergy => LiveChildren(info, Top(1).state) = {}
           /\ MarkAsDeadEnd(WithFlag(info, Top(1).state, "all_tests_done"), Top(1).state)
<1> DEFINE ls == soft_dfs_info[1]
           k == Top(1).state
           i == WithFlag(info, k, "all_tests_done")
           e == SubSeq(ls, 1, Len(ls) - 1)
<1>0. /\ info \in [Stored -> InfoOf(Stored)] /\ DOMAIN info = Stored /\ NoState \notin Stored
      /\ "all_tests_done" \in Flags /\ "dead_end" \in Flags /\ "dead_end" # "all_tests_done"
  BY Collection DEF Flags
<1>1. /\ pc = "scan" /\ Enterable(1) = {} /\ scan_visited' = scan_visited
      /\ soft_dfs_info' = [soft_dfs_info EXCEPT ![1] = e]
      /\ mark_at = NoState /\ options' = options
  BY DEF DfsBacktrack, Scanning, At, fixedVars
<1>2. MarkAsDeadEnd(i, k)
  BY AloneHolds DEF DfsBacktrack
<1>3. soft_dfs_info'[1] = e
  BY <1>1, AloneHolds DEF IInv, TypeOK
<1>4. /\ ls \in Seq(LevelOf(Stored)) /\ ls # <<>> /\ k = ls[Len(ls)].state /\ k \in Stored
      /\ ls[Len(ls)].rest \subseteq scan_visited[1]
      /\ StatesOf(ls) \subseteq Stored
  BY <1>1, AloneHolds DEF Running, LevelOf
<1>5. /\ Alone(ls, scan_visited[1], info, AllTested)
      /\ Synergy => AllTested \subseteq DeadSet
  BY DEF AloneInv
<1> HIDE DEF ls, k, e, i
<1>6. /\ Alone(e, scan_visited[1], info, AllTested \cup {k})
      /\ \A c \in DOMAIN info : info[c].parent = k => c \in AllTested
      /\ k \notin AllTested
  <2>1. Leaves(Stored, ls, scan_visited[1], info, AllTested, k, e, AllTested \cup {k})
    BY <1>4, <1>5 DEF Leaves, e
  <2> QED
    BY <2>1, AloneLeaving
<1>7. /\ i \in [Stored -> InfoOf(Stored)] /\ SameTree(i, info)
      /\ Flagged(i, "all_tests_done") = AllTested \cup {k}
      /\ Flagged(i, "dead_end") = DeadSet
  BY <1>0, <1>4, WithFlagKeeps, WithFlagFlags DEF i, AllTested, DeadSet
<1>8. /\ DOMAIN info' = DOMAIN info
      /\ \A c \in DOMAIN info : info'[c].parent = info[c].parent
  <2>1. mark_at \in Stored \cup {NoState}
    BY <1>1
  <2>2. SameTree(info', i)
    BY <1>2, <1>4, <1>7, <2>1, MarkAsDeadEndKeeps
  <2> QED
    BY <1>7, <2>2 DEF SameTree
<1>9. /\ AllTested' = AllTested \cup {k}
      /\ Synergy => DeadSet' = DeadSet \cup {k}
  <2>1. CASE Synergy
    <3>1. info' = WithFlag(i, k, "dead_end")
      BY <1>2, <2>1 DEF MarkAsDeadEnd
    <3> QED
      BY <1>0, <1>4, <1>7, <3>1, WithFlagFlags DEF AllTested, DeadSet
  <2>2. CASE ~Synergy
    BY <1>2, <1>7, <2>2 DEF MarkAsDeadEnd, AllTested, DeadSet
  <2> QED
    BY <2>1, <2>2
<1>10. Alone(soft_dfs_info'[1], scan_visited'[1], info', AllTested')
  <2>1. StatesOf(e) \subseteq Stored
    BY <1>4, LastLevelDropped DEF e
  <2>2. Alone(e, scan_visited[1], info', AllTested \cup {k})
    BY <1>0, <1>6, <1>8, <2>1, AloneSame
  <2> QED
    BY <1>1, <1>3, <1>9, <2>2
<1>11. AloneInv'
  BY <1>1, <1>5, <1>9, <1>10 DEF AloneInv, Synergy, IsDfs
<1>12. k \notin DeadSet
  BY <1>6, AloneHolds
<1>13. Synergy => LiveChildren(info, k) = {}
  BY <1>0, <1>5, <1>6 DEF LiveChildren, DeadSet, Flagged
<1> QED
  BY <1>1, <1>2, <1>4, <1>11, <1>12, <1>13 DEF k, i

\* What changes neither parents nor what it holds or has visited or done.
LEMMA AloneUnmoved ==
    ASSUME IInv, VerdictInv, Plain, AloneInv, NumScans = 1, IsDfs(1),
           StatesOf(soft_dfs_info'[1]) \subseteq DOMAIN info,
           Alone(soft_dfs_info'[1], scan_visited'[1], info, AllTested),
           DOMAIN info' = DOMAIN info,
           \A k \in DOMAIN info : info'[k].parent = info[k].parent,
           AllTested' = AllTested, DeadSet \subseteq DeadSet', options' = options
    PROVE  AloneInv'
<1>1. Alone(soft_dfs_info'[1], scan_visited'[1], info', AllTested')
  BY AloneSame
<1>2. Synergy' => AllTested' \subseteq DeadSet'
  BY DEF AloneInv, Synergy
<1> QED
  BY <1>1, <1>2 DEF AloneInv, IsDfs

\* It lists what its last test derived ...
LEMMA AloneLists ==
    ASSUME IInv, VerdictInv, Plain, AloneInv, NumScans = 1, IsDfs(1),
           NEW x, AddNewState(x) \/ KnownState(x)
    PROVE  AloneInv'
<1> DEFINE D == Stored \cup {x}
           ls == soft_dfs_info[1]
           t == Top(1)
           l == [ls[Len(ls)] EXCEPT !.rest = @ \cup {x}]
           e == [ls EXCEPT ![Len(ls)] = l]
<1>0. /\ info \in [Stored -> InfoOf(Stored)] /\ DOMAIN info = Stored
      /\ Stored \subseteq States
  BY Collection
<1>1. /\ pc = "derive" /\ x \in todo /\ ListDerived(x) /\ scan_visited' = scan_visited
      /\ options' = options
  BY DEF AddNewState, KnownState, At, fixedVars
<1>2. /\ ls \in Seq(LevelOf(Stored)) /\ ls # <<>> /\ t \in LevelOf(Stored)
      /\ t = ls[Len(ls)] /\ Deepest(1) = Len(ls)
      /\ StatesOf(ls) \subseteq Stored /\ StatesOf(ls) \subseteq scan_visited[1]
  BY <1>1, AloneHolds DEF Running, Deepest
<1>3. soft_dfs_info'[1] = e
  <2>1. soft_dfs_info' = [soft_dfs_info EXCEPT ![1] = e]
    BY <1>1, <1>2, AloneHolds DEF ListDerived
  <2> HIDE DEF e
  <2> QED
    BY <2>1, AloneHolds DEF IInv, TypeOK
<1>4. /\ Alone(ls, scan_visited[1], info, AllTested)
      /\ Synergy => AllTested \subseteq DeadSet
  BY DEF AloneInv
<1>5. Stored \subseteq D /\ x \in D /\ NoState \notin D /\ Expanded = t.state
  <2>1. x \in States
    BY <1>1 DEF IInv, TypeOK
  <2> QED
    BY <1>0, <2>1, StatesAssumption, AloneHolds DEF Expanded
<1> HIDE DEF D
<1>6. /\ l \in LevelOf(D) /\ l.state = t.state /\ l.rest = t.rest \cup {x}
  <2>1. l = [t EXCEPT !.rest = @ \cup {x}] /\ t \in LevelOf(D)
    BY <1>2, <1>5, LevelsGrow
  <2> HIDE DEF l, t
  <2> QED
    BY <1>5, <2>1 DEF LevelOf
<1>7. ls \in Seq(LevelOf(D))
  <2>1. LevelOf(Stored) \subseteq LevelOf(D)
    BY <1>5, LevelsGrow
  <2> HIDE DEF ls
  <2> QED
    BY <1>2, <2>1
<1>8. /\ DOMAIN info' = DOMAIN info \cup {x}
      /\ \A k \in DOMAIN info : info'[k].parent = info[k].parent
      /\ x \notin DOMAIN info => info'[x].parent = t.state
      /\ AllTested' = AllTested /\ DeadSet' = DeadSet
  <2>1. CASE KnownState(x)
    BY <1>0, <2>1 DEF KnownState, AllTested, DeadSet
  <2>2. CASE AddNewState(x)
    <3> DEFINE i == OneChildMore(info, Expanded)
               n == NewInfo(Expanded, info[Expanded].depth + 1)
    <3>1. /\ i \in [Stored -> InfoOf(Stored)] /\ SameTree(i, info)
          /\ \A j \in Stored : i[j].visited = info[j].visited
      BY <1>0, OneChildMoreKeeps
    <3>2. info' = [j \in Stored \cup {x} |-> IF j = x THEN n ELSE i[j]] /\ x \notin Stored
      BY <2>2 DEF AddNewState
    <3>3. n.visited = {} /\ n.parent = t.state
      BY <1>5 DEF NewInfo
    <3> HIDE DEF i, n
    <3>4. /\ DOMAIN info' = Stored \cup {x} /\ info'[x].visited = {}
          /\ info'[x].parent = t.state
          /\ \A j \in Stored : info'[j] = i[j]
      BY <3>2, <3>3
    <3>5. \A g : Flagged(info', g) = Flagged(info, g)
      BY <1>0, <3>1, <3>2, <3>4 DEF Flagged
    <3>6. \A k \in Stored : info'[k].parent = info[k].parent
      BY <1>0, <3>1, <3>4 DEF SameTree
    <3> QED
      BY <1>0, <3>4, <3>5, <3>6 DEF AllTested, DeadSet
  <2> QED
    BY <2>1, <2>2
<1>9. Alone(soft_dfs_info'[1], scan_visited'[1], info', AllTested')
  <2> HIDE DEF ls, l, e, t
  <2>1. DOMAIN info \subseteq D /\ StatesOf(ls) \subseteq DOMAIN info
    BY <1>0, <1>2, <1>5
  <2>2. l.state = ls[Len(ls)].state /\ l.rest = ls[Len(ls)].rest \cup {x}
    BY <1>2, <1>6
  <2>3. x \notin DOMAIN info => info'[x].parent = l.state
    BY <1>6, <1>8
  <2>4. Lists(D, ls, scan_visited[1], info, AllTested, l, x, e, info')
    BY <1>2, <1>4, <1>6, <1>7, <1>8, <2>1, <2>2, <2>3 DEF Lists, e
  <2>5. Alone(e, scan_visited[1], info', AllTested)
    BY <2>4, AloneListing
  <2> QED
    BY <1>1, <1>3, <1>8, <2>5
<1> QED
  BY <1>1, <1>4, <1>8, <1>9 DEF AloneInv, Synergy, IsDfs

\* ... enters a state ...
LEMMA AloneEnters ==
    ASSUME IInv, VerdictInv, Plain, AloneInv, NumScans = 1, IsDfs(1), NEW x, DfsEnter(1, x)
    PROVE  AloneInv'
<1> DEFINE ls == soft_dfs_info[1]
           e == Append(ls, NewLevel(x))
           v == scan_visited[1]
<1>0. /\ info \in [Stored -> InfoOf(Stored)] /\ DOMAIN info = Stored /\ NoState \notin Stored
  BY Collection
<1>1. /\ pc = "scan" /\ x \in Top(1).rest /\ x \notin v
      /\ options' = options /\ info' = info
  BY DEF DfsEnter, Scanning, At, Enterable, fixedVars
<1>2. /\ ls \in Seq(LevelOf(Stored)) /\ ls # <<>> /\ Top(1) \in LevelOf(Stored)
      /\ StatesOf(ls) \subseteq Stored /\ StatesOf(ls) \subseteq v /\ AllTested \subseteq v
  BY <1>1, AloneHolds DEF Running
<1>3. x \in Stored
  BY <1>1, <1>2 DEF LevelOf
<1>4. soft_dfs_info'[1] = e /\ scan_visited'[1] = v \cup {x}
  <2>1. /\ soft_dfs_info' = [soft_dfs_info EXCEPT ![1] = e]
        /\ scan_visited' = [scan_visited EXCEPT ![1] = v \cup {x}]
    BY DEF DfsEnter
  <2> HIDE DEF e, v
  <2> QED
    BY <2>1, AloneHolds DEF IInv, TypeOK
<1>5. Alone(ls, v, info, AllTested)
  BY DEF AloneInv
<1>6. info[x].parent # x
  BY <1>3, ParentsApart
<1>7. AllTested' = AllTested /\ DeadSet' = DeadSet
  BY <1>1 DEF AllTested, DeadSet
<1>8. StatesOf(e) \subseteq DOMAIN info
  <2>1. StatesOf(e) = StatesOf(ls) \cup {x}
    BY <1>2, <1>3, LevelAppended
  <2> QED
    BY <1>0, <1>2, <1>3, <2>1
<1> HIDE DEF ls, v
<1>9. Alone(e, v \cup {x}, info, AllTested)
  BY <1>0, <1>1, <1>2, <1>3, <1>5, <1>6, AloneEntering
<1> HIDE DEF e
<1> QED
  BY <1>1, <1>4, <1>7, <1>8, <1>9, AloneUnmoved

\* ... runs a test ...
LEMMA AloneRunsMoves ==
    ASSUME IInv, VerdictInv, Plain, AloneInv, NumScans = 1, IsDfs(1), DfsRunMoves(1)
    PROVE  AloneInv'
<1> DEFINE ls == soft_dfs_info[1]
           l == [ls[Len(ls)] EXCEPT !.test = @ + 1, !.rest = {}]
           e == [ls EXCEPT ![Len(ls)] = l]
           v == scan_visited[1]
<1>1. /\ pc = "scan" /\ Enterable(1) = {} /\ scan_visited' = scan_visited
      /\ options' = options /\ info' = info
  BY DEF DfsRunMoves, Scanning, At, fixedVars
<1>2. /\ ls \in Seq(LevelOf(Stored)) /\ ls # <<>> /\ Top(1) \in LevelOf(Stored)
      /\ Top(1) = ls[Len(ls)] /\ Top(1).rest \subseteq v
      /\ StatesOf(ls) \subseteq Stored
  BY <1>1, AloneHolds DEF Running
<1>3. soft_dfs_info'[1] = e
  <2>1. soft_dfs_info' = [soft_dfs_info EXCEPT ![1] = e]
    BY <1>2 DEF DfsRunMoves, Deepest
  <2> HIDE DEF e
  <2> QED
    BY <2>1, AloneHolds DEF IInv, TypeOK
<1>4. l \in LevelOf(Stored) /\ l.state = ls[Len(ls)].state
  <2> DEFINE t == ls[Len(ls)]
  <2>1. l = [t EXCEPT !.test = @ + 1, !.rest = {}] /\ t \in LevelOf(Stored)
    BY <1>2
  <2> HIDE DEF l, t
  <2>2. l \in LevelOf(Stored) /\ l.state = t.state
    BY Zenon, <2>1, NextTestFields
  <2> QED
    BY <2>2 DEF t
<1>5. Alone(ls, v, info, AllTested)
  BY DEF AloneInv
<1>6. AllTested' = AllTested /\ DeadSet' = DeadSet
  BY <1>1 DEF AllTested, DeadSet
<1>7. StatesOf(e) \subseteq DOMAIN info
  <2> HIDE DEF l, ls
  <2>1. StatesOf(e) = StatesOf(ls)
    BY <1>2, <1>4, TopReplacedHolds
  <2> QED
    BY <1>2, <2>1, Collection
<1>8. Alone(e, v, info, AllTested)
  <2>1. ls[Len(ls)].rest \subseteq v
    BY <1>2
  <2> HIDE DEF ls, l, v, e
  <2>2. e = [ls EXCEPT ![Len(ls)] = l]
    BY DEF e
  <2> QED
    BY <1>2, <1>4, <1>5, <2>1, <2>2, AloneTesting
<1> HIDE DEF e
<1> QED
  BY <1>1, <1>3, <1>6, <1>7, <1>8, AloneUnmoved

\* ... and takes up the deal.
LEMMA AloneStarts ==
    ASSUME IInv, VerdictInv, Plain, AloneInv, NumScans = 1, IsDfs(1), RunScan
    PROVE  AloneInv'
<1> DEFINE ls == soft_dfs_info[1]
           v == scan_visited[1]
<1>1. /\ pc = "switch" /\ soft_dfs_info' = soft_dfs_info /\ options' = options /\ info' = info
      /\ st_idx = 1 /\ 1 \notin finished
      /\ scan_visited' = [scan_visited EXCEPT ![1] = v \cup {Top(1).state}]
  BY AloneHolds DEF RunScan, At, scanVars, fixedVars, Current
<1>2. ls \in Seq(LevelOf(Stored)) /\ ls # <<>> /\ StatesOf(ls) \subseteq Stored
  BY <1>1, AloneHolds DEF IInv, PlaceInv
<1>3. Top(1).state \in StatesOf(ls)
  <2>1. Len(ls) \in DOMAIN ls /\ Top(1) = ls[Len(ls)]
    BY <1>2 DEF Top, Deepest
  <2> QED
    BY <2>1 DEF StatesOf
<1>4. scan_visited'[1] = v \cup {Top(1).state}
  BY <1>1, AloneHolds DEF IInv, TypeOK
<1>5. Alone(ls, v \cup {Top(1).state}, info, AllTested)
  <2>1. Alone(ls, v, info, AllTested)
    BY DEF AloneInv
  <2> HIDE DEF ls, v
  <2> QED
    BY <1>3, <2>1, AloneVisiting
<1>6. AllTested' = AllTested /\ DeadSet' = DeadSet
  BY <1>1 DEF AllTested, DeadSet
<1> QED
  BY <1>1, <1>2, <1>4, <1>5, <1>6, AloneUnmoved, Collection

\* All steps together.
LEMMA StepAlone ==
    ASSUME IInv, VerdictInv, Plain, Plain', AloneInv, [Next]_vars
    PROVE  AloneInv'
<1> SUFFICES ASSUME NumScans = 1, IsDfs(1) PROVE AloneInv'
  BY DEF AloneInv, IsDfs
<1>0. /\ 1 \in Scans /\ Current = 1 /\ st_idx = 1 /\ \A s \in Scans : s = 1
      /\ MarksInv /\ options' = options /\ DeadSet \subseteq DeadSet' /\ DOMAIN info = Stored
      /\ StatesOf(soft_dfs_info[1]) \subseteq Stored
      /\ Alone(soft_dfs_info[1], scan_visited[1], info, AllTested)
  BY AloneHolds, TheOneScan, StepMarks, StepFixed, Collection
  DEF IInv, VerdictInv, AloneInv, Current
<1>1. CASE MarkParent
  <2> DEFINE i == OneChildLess(info, mark_at)
  <2>1. /\ soft_dfs_info' = soft_dfs_info /\ scan_visited' = scan_visited /\ Synergy
        /\ mark_at \in Stored
    BY <1>0, <1>1 DEF MarkParent, scanVars, MarksInv, IInv, TypeOK, StatePtr
  <2>2. AllTested' = AllTested
    BY <1>1, <2>1, MarkParentMarks
  <2>3. i \in [Stored -> InfoOf(Stored)] /\ SameTree(i, info)
    BY Collection, OneChildLessKeeps
  <2>4. info' = i \/ info' = WithFlag(i, mark_at, "dead_end")
    BY <1>1 DEF MarkParent
  <2> HIDE DEF i
  <2>5. SameTree(WithFlag(i, mark_at, "dead_end"), i)
    BY <2>3, WithFlagKeeps DEF Flags
  <2>6. SameTree(info', info)
    BY <2>3, <2>4, <2>5 DEF SameTree
  <2> QED
    BY <1>0, <2>1, <2>2, <2>6, AloneUnmoved DEF SameTree
<1>2. ASSUME NEW x \in todo, CheckState(x)
      PROVE  AloneInv'
  <2>1. ~LeaveOldParent(x)
    BY DEF LeaveOldParent, CanReparent, Reparent, Plain
  <2> QED
    BY <1>2, <2>1, AloneLists DEF CheckState
<1>3. ASSUME NEW s \in Scans, DfsBacktrack(s)
      PROVE  AloneInv'
  BY <1>0, <1>3, AloneBacktracks
<1>4. ASSUME NEW s \in Scans, \/ \E x \in Enterable(s) : DfsEnter(s, x)
                              \/ DfsRunMoves(s)
      PROVE  AloneInv'
  BY <1>0, <1>4, AloneEnters, AloneRunsMoves
<1>5. ASSUME NEW s \in SoftThreads PROVE ~BefsStep(s)
  BY <1>0 DEF BefsStep, BefsPassOver, BefsSuspend, BefsSolved, BefsPerformMoves,
              BefsExpanded, BefsExhausted, Holding, Scanning
<1>6. CASE RunScan
  BY <1>6, AloneStarts
<1>7. CASE /\ \/ \E s \in Scans : DfsSolved(s) \/ DfsDerived(s)
              \/ JoinNewParent \/ SkipFinished \/ ScanReturned \/ TraceSolution
              \/ StartOptimizing \/ OptimizationReturned \/ Resume \/ UNCHANGED vars
           /\ ~MarkParent /\ ~RunScan
           /\ \A s \in Scans : ~DfsBacktrack(s)
           /\ \A x \in todo : ~CheckState(x)
  <2>1. soft_dfs_info' = soft_dfs_info /\ scan_visited' = scan_visited
    BY <1>7 DEF DfsSolved, DfsDerived, JoinNewParent, SkipFinished, ScanReturned,
                TraceSolution, StartOptimizing, OptimizationReturned, Resume, vars, scanVars
  <2>2. \A s \in SoftThreads : ~BefsExpanded(s)
    BY <1>5 DEF BefsStep
  <2>3. SameMarks
    BY <1>0, <1>7, <2>2, OtherStepsMarks
  <2>4. /\ DOMAIN info' = DOMAIN info
        /\ \A k \in DOMAIN info : info'[k].parent = info[k].parent
    BY <1>0, <1>7, <2>2, OthersKeepCounts DEF CheckState
  <2> QED
    BY <1>0, <2>1, <2>3, <2>4, AloneUnmoved DEF SameMarks
<1> QED
  BY <1>1, <1>2, <1>3, <1>4, <1>5, <1>6, <1>7 DEF Next, Solve, Stopped, DfsStep

-----------------------------------------------------------------------------
(***************************************************************************)
(* The invariant of the counts.                                            *)
(***************************************************************************)
LEMMA StepCounts ==
    ASSUME IInv, VerdictInv, Plain, Orderly, CountsInv, [Next]_vars
    PROVE  Counts(info', mark_at')
<1>0. /\ MarksInv /\ TestedInv /\ Counts(info, mark_at) /\ DeriveInv /\ AloneInv
      /\ ~optimizing
  BY DEF VerdictInv, CountsInv, Plain
<1>1. CASE MarkParent
  BY <1>0, <1>1, MarkParentCounts
<1>2. ASSUME NEW x \in todo, AddNewState(x)
      PROVE  Counts(info', mark_at')
  BY <1>0, <1>2, AddNewStateCounts
<1>3. ASSUME NEW s \in SoftThreads, BefsExpanded(s)
      PROVE  Counts(info', mark_at')
  <2>1. ptr_state[s] \notin DeadSet
    BY <1>0, <1>3 DEF BefsExpanded, At, DeriveInv
  <2> QED
    BY <1>0, <1>3, <2>1, BefsExpandedCounts
<1>4. ASSUME NEW s \in Scans, DfsBacktrack(s)
      PROVE  Counts(info', mark_at')
  <2>1. CASE ~Complete(s)
    <3>1. info' = info /\ mark_at' = mark_at
      BY <1>4, <2>1 DEF DfsBacktrack
    <3> QED
      BY <1>0, <3>1
  <2>2. CASE Complete(s)
    <3>1. IsDfs(s)
      BY <1>4 DEF DfsBacktrack
    <3>2. NumScans = 1
      BY <2>2, <3>1 DEF Orderly
    <3>3. s = 1
      BY <3>2 DEF Scans
    <3> DEFINE k == Top(1).state
               i == WithFlag(info, k, "all_tests_done")
    <3>4. /\ mark_at = NoState
          /\ k \in Stored /\ k \notin DeadSet
          /\ Synergy => LiveChildren(info, k) = {}
          /\ MarkAsDeadEnd(i, k)
      BY <1>0, <1>4, <3>1, <3>2, <3>3, AloneBacktracks
    <3> HIDE DEF k
    <3>5. Counts(info, NoState)
      BY <1>0, <3>4
    <3> QED
      BY <3>4, <3>5, TestedCounts
  <2> QED
    BY <2>1, <2>2
<1>5. CASE /\ ~MarkParent
           /\ \A s \in Scans : ~DfsBacktrack(s)
           /\ \A s \in SoftThreads : ~BefsExpanded(s)
           /\ \A x \in todo : ~AddNewState(x)
  <2>1. SameMarks /\ mark_at' = mark_at
    BY <1>0, <1>5, OtherStepsMarks
  <2>2. /\ DOMAIN info' = DOMAIN info
        /\ \A k \in DOMAIN info :
              /\ info'[k].parent = info[k].parent
              /\ info'[k].num_active_children = info[k].num_active_children
    BY <1>0, <1>5, OthersKeepCounts
  <2>3. Flagged(info', "dead_end") = Flagged(info, "dead_end")
    BY <2>1 DEF SameMarks, DeadSet
  <2>4. Counts(info', mark_at)
    BY <1>0, <2>2, <2>3, SameCounts
  <2> QED
    BY <2>1, <2>4
<1> QED
  BY <1>1, <1>2, <1>3, <1>4, <1>5

LEMMA StepDerive ==
    ASSUME IInv, VerdictInv, Plain, Plain', DeriveInv, [Next]_vars
    PROVE  DeriveInv'
<1>0. ~optimizing /\ MarksInv
  BY DEF Plain, VerdictInv
<1>1. ASSUME NEW x \in todo, CheckState(x)
      PROVE  DeriveInv'
  <2>1. ~LeaveOldParent(x)
    BY DEF LeaveOldParent, CanReparent, Reparent, Plain
  <2>2. /\ pc = "derive" /\ mark_at' = mark_at /\ ptr_state' = ptr_state /\ Current' = Current
    BY <1>1, <2>1 DEF CheckState, AddNewState, KnownState, At, Current, hardVars
  <2>3. DeadSet' = DeadSet
    <3>1. /\ ~MarkParent
          /\ \A s \in Scans : ~DfsBacktrack(s)
          /\ \A s \in SoftThreads : ~BefsExpanded(s)
      BY <2>2, <1>1, <2>1 DEF MarkParent, DfsBacktrack, BefsExpanded, Scanning, At,
                              CheckState, AddNewState, KnownState
    <3> QED
      BY <1>0, <3>1, OtherStepsMarks DEF SameMarks
  <2> QED
    BY <2>2, <2>3 DEF DeriveInv, IsDfs
<1>2. ASSUME NEW s \in Scans, DfsStep(s)
      PROVE  DeriveInv'
  <2>1. CASE DfsRunMoves(s)
    <3>1. IsDfs(Current') /\ mark_at' = NoState
      BY <2>1 DEF DfsRunMoves, Scanning, At, Current, hardVars
    <3> QED
      BY <3>1 DEF DeriveInv, IsDfs
  <2>2. CASE ~DfsRunMoves(s)
    <3>1. pc' # "derive"
      BY <1>2, <2>2 DEF DfsStep, DfsEnter, DfsSolved, DfsBacktrack, DfsDerived, Scanning, At,
                        Return
    <3> QED
      BY <3>1 DEF DeriveInv
  <2> QED
    BY <2>1, <2>2
<1>3. ASSUME NEW s \in SoftThreads, BefsStep(s)
      PROVE  DeriveInv'
  <2>1. CASE BefsPerformMoves(s)
    <3>1. /\ mark_at' = NoState /\ Current' = Current /\ s = Current
          /\ ptr_state' = ptr_state /\ info' = info
      BY <2>1 DEF BefsPerformMoves, Holding, Scanning, At, Current, hardVars, scanVars,
                  localVars
    <3>2. ptr_state[s] \notin DeadSet
      BY <1>0, <2>1 DEF BefsPerformMoves, PassOver, Dead, DeadSet, Flagged
    <3>3. DeadSet' = DeadSet
      BY <3>1 DEF DeadSet
    <3> QED
      BY <3>1, <3>2, <3>3 DEF DeriveInv, IsDfs
  <2>2. CASE ~BefsPerformMoves(s)
    <3>1. pc' # "derive"
      BY <1>3, <2>2 DEF BefsStep, BefsPassOver, BefsSuspend, BefsSolved, BefsExpanded,
                        BefsExhausted, Holding, Scanning, At, Return
    <3> QED
      BY <3>1 DEF DeriveInv
  <2> QED
    BY <2>1, <2>2
<1>4. CASE MarkParent
  BY <1>4 DEF MarkParent, DeriveInv
<1>5. CASE \/ SkipFinished \/ RunScan \/ ScanReturned \/ TraceSolution \/ StartOptimizing
           \/ OptimizationReturned \/ Resume
  <2>1. pc' # "derive"
    BY <1>5 DEF SkipFinished, RunScan, ScanReturned, TraceSolution, StartOptimizing,
                OptimizationReturned, Resume, At
  <2> QED
    BY <2>1 DEF DeriveInv
<1>6. CASE JoinNewParent
  BY <1>0, <1>6 DEF JoinNewParent, MarksInv
<1>7. CASE UNCHANGED vars
  <2>1. /\ pc' = pc /\ mark_at' = mark_at /\ ptr_state' = ptr_state /\ info' = info
        /\ st_idx' = st_idx /\ optimizing' = optimizing
    BY <1>7 DEF vars, localVars, scanVars, hardVars
  <2>2. Current' = Current /\ DeadSet' = DeadSet
    BY <2>1 DEF Current, DeadSet
  <2> QED
    BY <2>1, <2>2 DEF DeriveInv, IsDfs
<1> QED
  BY <1>1, <1>2, <1>3, <1>4, <1>5, <1>6, <1>7 DEF Next, Solve, Stopped

LEMMA StepCountsInv ==
    ASSUME IInv, VerdictInv, CountsInv, [Next]_vars
    PROVE  CountsInv'
<1> SUFFICES ASSUME Plain', Orderly
             PROVE  Counts(info', mark_at') /\ DeriveInv' /\ AloneInv'
  BY DEF CountsInv, Orderly, Complete, MovesOf, AllMoves, IsDfs
<1>1. Plain
  BY StepFixed DEF Plain
<1>2. DeriveInv /\ AloneInv
  BY <1>1 DEF CountsInv
<1> QED
  BY <1>1, <1>2, StepCounts, StepDerive, StepAlone

LEMMA InitCountsInv == Init => CountsInv
<1> SUFFICES ASSUME Init PROVE CountsInv
  OBVIOUS
<1>0. /\ info = [k \in {state_copy} |-> NewInfo(NoState, 0)]
      /\ pc = "switch" /\ mark_at = NoState /\ state_copy # NoState
      /\ \A s \in Scans : soft_dfs_info[s] = <<NewLevel(state_copy)>>
      /\ \A s \in Scans : scan_visited[s] = {}
  BY StatesAssumption, OptIsNoScan DEF Init
<1>1. /\ DOMAIN info = {state_copy} /\ info[state_copy].parent = NoState
      /\ info[state_copy].visited = {} /\ info[state_copy].num_active_children = 0
  BY <1>0 DEF NewInfo
<1>2. DeadSet = {} /\ AllTested = {} /\ Flagged(info, "dead_end") = {}
  BY <1>1 DEF DeadSet, AllTested, Flagged
<1>3. \A k \in DOMAIN info : LiveChildren(info, k) = {}
  BY <1>0, <1>1 DEF LiveChildren
<1>4. Counts(info, mark_at)
  <2>1. Cardinality({}) = 0
    BY FS_EmptySet
  <2>2. ASSUME NEW k \in DOMAIN info
        PROVE  info[k].num_active_children
                  = Cardinality(LiveChildren(info, k)) + (IF k = NoState THEN 1 ELSE 0)
    <3>1. info[k].num_active_children = 0 /\ k # NoState
      BY <1>0, <1>1
    <3>2. Cardinality(LiveChildren(info, k)) = 0
      BY <1>3, <2>1
    <3> HIDE DEF Init
    <3> QED
      BY <3>1, <3>2
  <2>3. \A k \in Flagged(info, "dead_end") : LiveChildren(info, k) = {}
    BY <1>2
  <2>4. NoState \notin Flagged(info, "dead_end")
    BY <1>2
  <2> QED
    BY <1>0, <2>2, <2>3, <2>4 DEF Counts
<1>5. DeriveInv
  BY <1>0 DEF DeriveInv
<1>6. ASSUME NumScans = 1, IsDfs(1) PROVE Alone(soft_dfs_info[1], scan_visited[1], info, AllTested)
  <2> DEFINE ls == soft_dfs_info[1]
  <2>1. 1 \in Scans
    BY <1>6 DEF Scans
  <2>2. ls = <<NewLevel(state_copy)>> /\ scan_visited[1] = {}
    BY <1>0, <2>1
  <2>3. DOMAIN ls = {1} /\ ls[1].state = state_copy
    BY <2>2 DEF NewLevel
  <2> HIDE DEF ls
  <2>4. \A k \in DOMAIN info : info[k].parent = NoState
    BY <1>1
  <2>5. Alone(ls, scan_visited[1], info, AllTested)
    BY <1>0, <1>1, <1>2, <2>2, <2>3, <2>4 DEF Alone
  <2> QED
    BY <2>5 DEF ls
<1>7. AloneInv
  BY <1>2, <1>6 DEF AloneInv
<1> QED
  BY <1>4, <1>5, <1>7 DEF CountsInv

\* What the invariant says of the counts when no marking is under way.
LEMMA CountsOfChildren ==
    ASSUME IInv, Counts(info, mark_at)
    PROVE  ActiveChildrenExact /\ DeadEndsClosed
<1>1. DOMAIN info = Stored /\ NoState \notin Stored /\ IsFiniteSet(Stored)
  BY Collection
<1>2. \A k : LiveChildren(info, k) = {c \in Children(k) : ~Dead(c)}
  BY <1>1 DEF LiveChildren, Children, Dead
<1>3. ActiveChildrenExact
  <2> SUFFICES ASSUME mark_at = NoState, NEW k \in Stored
               PROVE  info[k].num_active_children = Cardinality(LiveChildren(info, k))
    BY <1>2 DEF ActiveChildrenExact
  <2>1. info[k].num_active_children = Cardinality(LiveChildren(info, k)) + 0
    BY <1>1 DEF Counts
  <2>2. Cardinality(LiveChildren(info, k)) \in Nat
    BY <1>1, FS_Subset, FS_CardinalityType DEF LiveChildren
  <2> QED
    BY <2>1, <2>2
<1>4. DeadEndsClosed
  <2> SUFFICES ASSUME NEW k \in Stored, Dead(k), NEW c \in Children(k)
               PROVE  Dead(c)
    BY DEF DeadEndsClosed
  <2>1. LiveChildren(info, k) = {}
    BY <1>1 DEF Counts, Flagged, Dead
  <2> QED
    BY <1>2, <2>1
<1> QED
  BY <1>3, <1>4

LEMMA CountsInvariance == Spec => [](IInv /\ CountsInv)
<1>1. Init => IInv /\ VerdictInv /\ CountsInv
  BY InitIInv, InitVerdictInv, InitCountsInv
<1>2. IInv /\ VerdictInv /\ CountsInv /\ [Next]_vars => IInv' /\ VerdictInv' /\ CountsInv'
  BY StepTypeOK, StepPlaceInv, StepTreeInv, StepVerdictInv, StepCountsInv DEF IInv
<1> QED
  BY <1>1, <1>2, PTL DEF Spec

\* ActiveChildrenExact, without re-parenting and until the optimization.  If a
\* scan is alone, or none of the complete scans is a DFS scan, each state's
\* num_active_children is the number of its children that are no dead ends,
\* whatever the order of the scans' turns.
THEOREM CountsAreExact == Spec => [](Orderly /\ Plain => ActiveChildrenExact)
<1>1. IInv /\ CountsInv => (Orderly /\ Plain => ActiveChildrenExact)
  BY CountsOfChildren DEF CountsInv
<1> QED
  BY <1>1, CountsInvariance, PTL

\* DeadEndsClosed, in the same searches: synergy hides no live state below one
\* that it calls a dead end.
THEOREM DeadEndsAreClosed == Spec => [](Orderly /\ Plain => DeadEndsClosed)
<1>1. IInv /\ CountsInv => (Orderly /\ Plain => DeadEndsClosed)
  BY CountsOfChildren DEF CountsInv
<1> QED
  BY <1>1, CountsInvariance, PTL

=============================================================================
