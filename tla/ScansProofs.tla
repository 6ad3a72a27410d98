---------------------------- MODULE ScansProofs ----------------------------
(***************************************************************************)
(* Theorems about Scans, for any game, any number of scans with any        *)
(* methods, moves, quotas and prelude, any options and any limits.         *)
(***************************************************************************)
EXTENDS Scans, FiniteSetTheorems, SequenceTheorems, WellFoundedInduction, TLAPS

(***************************************************************************)
(* Where the hard thread is.  The scan that runs has a level or a state to *)
(* go on with; a DFS scan without levels has returned "unsolvable" and is  *)
(* finished as soon as the hard thread hears of it; a derived state is     *)
(* re-parented only while its new parent is being expanded.                *)
(***************************************************************************)
Running == pc \in {"scan", "derive"}

PlaceInv ==
    /\ Running \/ pc = "switch" => ret = "none"
    /\ pc = "returned" => ret \in {"suspended", "solved", "unsolvable"}
    /\ pc = "switch" => ~optimizing
    /\ pc = "trace" => ~optimizing
    /\ Running /\ ~optimizing => st_idx \notin finished
    /\ \A s \in Scans : soft_dfs_info[s] = <<>> =>
          \/ s \in finished
          \/ pc = "returned" /\ ret = "unsolvable" /\ ~optimizing /\ s = st_idx
    /\ pc = "derive" /\ ~IsDfs(Current) => ptr_state[Current] # NoState
    /\ reparented # NoState => pc = "derive"

(***************************************************************************)
(* The tree of parents.  What is derived from a state is derived by moves, *)
(* and a state that is about to be re-parented lies deeper than its new    *)
(* parent will put it.                                                     *)
(***************************************************************************)
TreeInv ==
    /\ state_copy \in Stored /\ info[state_copy].depth = 0
    /\ ParentsDerive
    /\ pc = "derive" => todo \subseteq Derived(Expanded, AllMoves)
    /\ reparented # NoState =>
          /\ reparented # state_copy
          /\ reparented \in Derived(Expanded, AllMoves)
          /\ info[reparented].depth > info[Expanded].depth + 1

IInv == TypeOK /\ PlaceInv /\ TreeInv

-----------------------------------------------------------------------------
(***************************************************************************)
(* The records of the collection and the levels of a DFS scan over a set D *)
(* of stored states, and what the operators on them keep.                  *)
(***************************************************************************)
InfoOf(D) == [parent : D \cup {NoState}, depth : Nat, visited : SUBSET Flags,
              num_active_children : 0..(USHRT - 1)]
LevelOf(D) == [state : D, test : Nat, rest : SUBSET D]

\* Two versions of the collection have the same parents and depths.
SameTree(i, j) ==
    /\ DOMAIN i = DOMAIN j
    /\ \A k \in DOMAIN j : i[k].parent = j[k].parent /\ i[k].depth = j[k].depth

\* The sets of records in terms of the set of stored states.
LEMMA TypesOfStored == Info = InfoOf(Stored) /\ Level = LevelOf(Stored)
BY DEF Info, Level, InfoOf, LevelOf, StatePtr

\* A level that goes to its next test is a level of the same state.
LEMMA NextTestKeeps ==
    ASSUME NEW D, NEW l \in LevelOf(D)
    PROVE  /\ [l EXCEPT !.test = @ + 1, !.rest = {}] \in LevelOf(D)
           /\ [l EXCEPT !.test = @ + 1, !.rest = {}]
                 = [state |-> l.state, test |-> l.test + 1, rest |-> {}]
<1>1. l.state \in D /\ l.test + 1 \in Nat
  BY DEF LevelOf
<1> DEFINE m == [l EXCEPT !.test = @ + 1]
<1>2. l = [state |-> l.state, test |-> l.test, rest |-> l.rest]
  BY DEF LevelOf
<1>3. m = [state |-> l.state, test |-> l.test + 1, rest |-> l.rest]
  BY <1>2
<1>4. [l EXCEPT !.test = @ + 1, !.rest = {}] = [m EXCEPT !.rest = {}]
  OBVIOUS
<1> HIDE DEF m
<1>5. [m EXCEPT !.rest = {}] = [state |-> l.state, test |-> l.test + 1, rest |-> {}]
  BY <1>3
<1>6. [state |-> l.state, test |-> l.test + 1, rest |-> {}] \in LevelOf(D)
  BY <1>1 DEF LevelOf
<1> QED
  BY <1>4, <1>5, <1>6

\* SameTree is transitive.
LEMMA SameTreeTrans ==
    ASSUME NEW i, NEW j, NEW l, SameTree(i, j), SameTree(j, l)
    PROVE  SameTree(i, l)
BY DEF SameTree

\* Setting a flag changes neither parents nor depths.
LEMMA WithFlagKeeps ==
    ASSUME NEW D, NEW i \in [D -> InfoOf(D)], NEW k, NEW flag \in Flags
    PROVE  /\ WithFlag(i, k, flag) \in [D -> InfoOf(D)]
           /\ SameTree(WithFlag(i, k, flag), i)
           /\ \A j \in D : j # k => WithFlag(i, k, flag)[j] = i[j]
           /\ k \in D => WithFlag(i, k, flag)[k].visited = i[k].visited \cup {flag}
BY DEF WithFlag, InfoOf, SameTree

\* Nor does counting a child off its parent ...
LEMMA OneChildLessKeeps ==
    ASSUME NEW D, NEW i \in [D -> InfoOf(D)], NEW k
    PROVE  /\ OneChildLess(i, k) \in [D -> InfoOf(D)]
           /\ SameTree(OneChildLess(i, k), i)
           /\ \A j \in D : OneChildLess(i, k)[j].visited = i[j].visited
<1>1. \A n \in 0..(USHRT - 1) : (n + USHRT - 1) % USHRT \in 0..(USHRT - 1)
  <2>0. USHRT \in Nat \ {0}
    BY DEF USHRT
  <2>1. \A n \in Nat : n % USHRT \in 0..(USHRT - 1)
    BY <2>0
  <2>2. \A n \in 0..(USHRT - 1) : (n + USHRT - 1) \in Nat
    BY <2>0
  <2> QED
    BY <2>1, <2>2
<1>2. k \in D => i[k].num_active_children \in 0..(USHRT - 1)
  BY DEF InfoOf
<1> DEFINE v == (i[k].num_active_children + USHRT - 1) % USHRT
<1>3. k \in D => v \in 0..(USHRT - 1)
  BY <1>1, <1>2
<1>4. OneChildLess(i, k) = [i EXCEPT ![k].num_active_children = v]
  BY DEF OneChildLess
<1> HIDE DEF v
<1> QED
  BY <1>3, <1>4, ZenonT(60) DEF InfoOf, SameTree

\* ... or counting one in ...
LEMMA OneChildMoreKeeps ==
    ASSUME NEW D, NEW i \in [D -> InfoOf(D)], NEW k
    PROVE  /\ OneChildMore(i, k) \in [D -> InfoOf(D)]
           /\ SameTree(OneChildMore(i, k), i)
           /\ \A j \in D : OneChildMore(i, k)[j].visited = i[j].visited
<1>1. \A n \in 0..(USHRT - 1) : (n + 1) % USHRT \in 0..(USHRT - 1)
  <2>0. USHRT \in Nat \ {0}
    BY DEF USHRT
  <2>1. \A n \in Nat : n % USHRT \in 0..(USHRT - 1)
    BY <2>0
  <2>2. \A n \in 0..(USHRT - 1) : (n + 1) \in Nat
    BY <2>0
  <2> QED
    BY <2>1, <2>2
<1>2. k \in D => i[k].num_active_children \in 0..(USHRT - 1)
  BY DEF InfoOf
<1> DEFINE v == (i[k].num_active_children + 1) % USHRT
<1>3. k \in D => v \in 0..(USHRT - 1)
  BY <1>1, <1>2
<1>4. OneChildMore(i, k) = [i EXCEPT ![k].num_active_children = v]
  BY DEF OneChildMore
<1> HIDE DEF v
<1> QED
  BY <1>3, <1>4, ZenonT(60) DEF InfoOf, SameTree

\* ... or marking a dead end, which takes the parent along at most.
LEMMA MarkAsDeadEndKeeps ==
    ASSUME NEW D, NEW i \in [D -> InfoOf(D)], NEW k \in D,
           mark_at \in D \cup {NoState}, MarkAsDeadEnd(i, k)
    PROVE  /\ info' \in [D -> InfoOf(D)]
           /\ SameTree(info', i)
           /\ mark_at' \in D \cup {NoState}
           /\ \A j \in D : /\ i[j].visited \subseteq info'[j].visited
                           /\ info'[j].visited \subseteq i[j].visited \cup {"dead_end"}
                           /\ j # k => info'[j] = i[j]
<1>1. "dead_end" \in Flags
  BY DEF Flags
<1>2. i[k].parent \in D \cup {NoState}
  BY DEF InfoOf
<1>3. CASE Synergy
  <2>1. info' = WithFlag(i, k, "dead_end") /\ mark_at' = i[k].parent
    BY <1>3 DEF MarkAsDeadEnd
  <2> QED
    BY <1>1, <1>2, <2>1, WithFlagKeeps
<1>4. CASE ~Synergy
  <2>1. info' = i /\ mark_at' = mark_at
    BY <1>4 DEF MarkAsDeadEnd
  <2> QED
    BY <2>1 DEF SameTree
<1> QED
  BY <1>3, <1>4

\* Nothing but the position of a stored state is in the types, so that they
\* stay when the collection keeps its states, and grow with it.
LEMMA SameTypes ==
    ASSUME Stored' = Stored
    PROVE  StatePtr' = StatePtr /\ Info' = Info /\ Level' = Level
BY DEF StatePtr, Info, Level

\* Levels and records stay what they are when states are stored.
LEMMA LevelsGrow ==
    ASSUME NEW C, NEW D, C \subseteq D
    PROVE  LevelOf(C) \subseteq LevelOf(D) /\ InfoOf(C) \subseteq InfoOf(D)
BY DEF LevelOf, InfoOf

-----------------------------------------------------------------------------
\* The scan that runs has a state to go on with.
LEMMA CurrentIsScan ==
    ASSUME TypeOK PROVE Current \in SoftThreads /\ (~optimizing => Current \in Scans)
BY DEF TypeOK, Current, SoftThreads

\* The optimization scan is not a DFS scan.
LEMMA DfsIsScan ==
    ASSUME NEW s \in SoftThreads, IsDfs(s)
    PROVE  s \in Scans /\ s # Opt
BY DEF SoftThreads, IsDfs

\* The optimization scan is not one of the scans of the instance.
LEMMA OptIsNoScan == Opt \notin Scans /\ Scans \subseteq SoftThreads
BY ScansAssumption DEF Opt, Scans, SoftThreads

\* A DFS scan that runs has a deepest level.
LEMMA LevelsOfCurrent ==
    ASSUME TypeOK, PlaceInv, Running, IsDfs(Current)
    PROVE  /\ Current \in Scans /\ ~optimizing
           /\ soft_dfs_info[Current] \in Seq(LevelOf(Stored))
           /\ soft_dfs_info[Current] # <<>>
           /\ Deepest(Current) \in 1..Len(soft_dfs_info[Current])
           /\ Top(Current) \in LevelOf(Stored)
<1>1. Current \in Scans /\ ~optimizing
  BY CurrentIsScan, DfsIsScan DEF Current
<1>2. soft_dfs_info[Current] # <<>>
  BY <1>1 DEF PlaceInv, Running, Current
<1>3. soft_dfs_info[Current] \in Seq(LevelOf(Stored))
  BY <1>1, TypesOfStored DEF TypeOK
<1> QED
  BY <1>1, <1>2, <1>3 DEF Deepest, Top

\* The state that is being expanded is stored.
LEMMA ExpandedIsStored ==
    ASSUME TypeOK, PlaceInv, pc = "derive"
    PROVE  Expanded \in Stored
<1>1. CASE IsDfs(Current)
  BY <1>1, LevelsOfCurrent DEF Expanded, Running, LevelOf
<1>2. CASE ~IsDfs(Current)
  <2>1. Expanded = ptr_state[Current] /\ ptr_state[Current] \in Stored
    BY <1>2, CurrentIsScan DEF Expanded, PlaceInv, TypeOK, StatePtr
  <2> QED
    BY <2>1
<1> QED
  BY <1>1, <1>2

\* Listing a derived state keeps the levels and the queues, and the state that
\* is being expanded.
LEMMA ListDerivedKeeps ==
    ASSUME TypeOK, PlaceInv, pc = "derive", NEW D, Stored \subseteq D, NEW x \in D,
           ListDerived(x)
    PROVE  /\ soft_dfs_info' \in [Scans -> Seq(LevelOf(D))]
           /\ queue' \in [SoftThreads -> Seq(D)]
           /\ \A s \in Scans : soft_dfs_info'[s] = <<>> <=> soft_dfs_info[s] = <<>>
           /\ ptr_state' = ptr_state /\ optimizing' = optimizing /\ st_idx' = st_idx =>
                 Expanded' = Expanded
<1>0. /\ soft_dfs_info \in [Scans -> Seq(LevelOf(Stored))]
      /\ queue \in [SoftThreads -> Seq(Stored)]
  BY TypesOfStored DEF TypeOK
<1>a. \A s \in Scans : soft_dfs_info[s] \in Seq(LevelOf(D))
  BY <1>0, LevelsGrow
<1>b. \A s \in SoftThreads : queue[s] \in Seq(D)
  BY <1>0
<1>1. CASE IsDfs(Current)
  <2> DEFINE d == soft_dfs_info[Current]
             n == Deepest(Current)
             l == [d[n] EXCEPT !.rest = @ \cup {x}]
             e == [d EXCEPT ![n] = l]
  <2>1. /\ Current \in Scans /\ d \in Seq(LevelOf(D)) /\ n \in 1..Len(d)
        /\ d[n] \in LevelOf(D) /\ n = Len(d) /\ d # <<>>
    BY <1>1, <1>a, LevelsOfCurrent, LevelsGrow DEF Running, Deepest, Top
  <2>2. l \in LevelOf(D) /\ l.state = d[n].state
    BY <2>1 DEF LevelOf
  <2>3. /\ e \in Seq(LevelOf(D)) /\ Len(e) = Len(d) /\ e[n] = l
    BY <2>1, <2>2
  <2>4. soft_dfs_info' = [soft_dfs_info EXCEPT ![Current] = e] /\ queue' = queue
    BY <1>1 DEF ListDerived
  <2>5. soft_dfs_info'[Current] = e /\ e # <<>>
    BY <1>0, <2>1, <2>3, <2>4
  <2>6. \A s \in Scans : s # Current => soft_dfs_info'[s] = soft_dfs_info[s]
    BY <1>0, <2>4
  <2>7. soft_dfs_info' \in [Scans -> Seq(LevelOf(D))]
    BY <1>0, <1>a, <2>1, <2>3, <2>4
  <2>8. ASSUME ptr_state' = ptr_state, optimizing' = optimizing, st_idx' = st_idx
        PROVE  Expanded' = Expanded
    <3>1. Current' = Current
      BY <2>8 DEF Current
    <3>2. Expanded' = soft_dfs_info'[Current][Len(soft_dfs_info'[Current])].state
      BY <1>1, <3>1 DEF Expanded, Top, Deepest
    <3> QED
      BY <1>1, <2>1, <2>2, <2>3, <2>5, <3>2 DEF Expanded, Top, Deepest
  <2> QED
    BY <1>b, <1>0, <2>1, <2>4, <2>5, <2>6, <2>7, <2>8
<1>2. CASE ~IsDfs(Current)
  <2>1. /\ queue' = [queue EXCEPT ![Current] = Append(@, x)]
        /\ soft_dfs_info' = soft_dfs_info
    BY <1>2 DEF ListDerived
  <2>2. queue' \in [SoftThreads -> Seq(D)]
    BY <1>0, <1>b, <2>1, CurrentIsScan
  <2>3. ASSUME ptr_state' = ptr_state, optimizing' = optimizing, st_idx' = st_idx
        PROVE  Expanded' = Expanded
    <3>1. Current' = Current
      BY <2>3 DEF Current
    <3> QED
      BY <1>2, <2>3, <3>1 DEF Expanded
  <2> QED
    BY <1>0, <1>a, <2>1, <2>2, <2>3
<1> QED
  BY <1>1, <1>2

\* What does not touch the collection leaves the sets of records.
LEMMA SameCollection ==
    ASSUME info' = info
    PROVE  Stored' = Stored /\ StatePtr' = StatePtr /\ Info' = Info /\ Level' = Level
<1>1. Stored' = Stored
  BY DEF Stored
<1> QED
  BY <1>1, SameTypes

\* A sequence without its last element.
LEMMA WithoutLast ==
    ASSUME NEW S, NEW q \in Seq(S), q # <<>>
    PROVE  /\ SubSeq(q, 1, Len(q) - 1) \in Seq(S)
           /\ Len(SubSeq(q, 1, Len(q) - 1)) = Len(q) - 1
           /\ \A i \in 1..(Len(q) - 1) : SubSeq(q, 1, Len(q) - 1)[i] = q[i]
           /\ Len(q) - 1 \in Nat /\ (Len(q) > 1 => Len(q) - 1 # 0)
<1>1. Len(q) \in Nat /\ Len(q) # 0 /\ \A i \in 1..Len(q) : q[i] \in S
  OBVIOUS
<1>2. Len(q) - 1 \in Nat
  BY <1>1
<1>3. \A i \in 1..(Len(q) - 1) : i \in 1..Len(q)
  BY <1>1
<1>4. \A i \in 1..(Len(q) - 1) : q[i] \in S
  BY <1>1, <1>3
<1> DEFINE r == SubSeq(q, 1, Len(q) - 1)
           n == Len(q) - 1
<1>5. /\ r \in Seq(S)
      /\ Len(r) = IF 1 <= n THEN n - 1 + 1 ELSE 0
      /\ \A i \in 1..(n - 1 + 1) : r[i] = q[1 + i - 1]
  BY <1>2, <1>4, SubSeqProperties
<1>a. n \in Nat
  BY <1>2
<1> HIDE DEF r, n
<1>6. Len(r) = n
  BY <1>a, <1>5
<1>7. \A i \in 1..n : r[i] = q[i]
  BY <1>a, <1>5
<1> QED
  BY <1>1, <1>2, <1>5, <1>6, <1>7 DEF r, n

\* What an item of the prelude holds.
LEMMA PreludeItems ==
    /\ Len(Prelude) \in Nat
    /\ \A i \in 1..Len(Prelude) :
          Prelude[i].scan \in Scans /\ Prelude[i].quota \in Nat \ {0}
<1> DEFINE R == [scan : Scans, quota : Nat \ {0}]
<1>1. Prelude \in Seq(R)
  BY ScansAssumption
<1>2. \A r \in R : r.scan \in Scans /\ r.quota \in Nat \ {0}
  OBVIOUS
<1> HIDE DEF R
<1>3. Len(Prelude) \in Nat /\ \A i \in 1..Len(Prelude) : Prelude[i] \in R
  BY <1>1
<1> QED
  BY <1>2, <1>3

\* The hard thread turns to a scan with a quota of at least one iteration.
LEMMA SwitchKeepsTypes ==
    ASSUME TypeOK, SwitchToNextSoftThread
    PROVE  /\ st_idx' \in Scans
           /\ ht_max' \in Nat /\ ht_max' > num_checked_states
           /\ prelude_idx' \in 0..Len(Prelude)
<1>1. Len(Prelude) \in Nat /\ prelude_idx \in 0..Len(Prelude) /\ num_checked_states \in Nat
  BY ScansAssumption DEF TypeOK
<1>2. CASE prelude_idx < Len(Prelude)
  <2>1. prelude_idx + 1 \in 1..Len(Prelude)
    BY <1>1, <1>2
  <2>3. NextTurn = Prelude[prelude_idx + 1] /\ prelude_idx' = prelude_idx + 1
    BY <1>2 DEF NextTurn, SwitchToNextSoftThread
  <2>4. NextTurn.scan \in Scans /\ NextTurn.quota \in Nat \ {0}
    BY <2>1, <2>3, PreludeItems
  <2> QED
    BY <1>1, <2>1, <2>3, <2>4 DEF SwitchToNextSoftThread
<1>3. CASE ~(prelude_idx < Len(Prelude))
  <2> DEFINE s == (st_idx % NumScans) + 1
  <2>1. s \in Scans
    <3>1. \A n \in Nat, m \in Nat \ {0} : n % m \in 0..(m - 1)
      OBVIOUS
    <3>2. st_idx \in Nat /\ NumScans \in Nat \ {0}
      BY ScansAssumption DEF TypeOK, Scans
    <3>3. st_idx % NumScans \in 0..(NumScans - 1)
      BY <3>1, <3>2
    <3> QED
      BY <3>2, <3>3 DEF Scans
  <2>2. NextTurn = [scan |-> s, quota |-> Step[s]]
    BY <1>3 DEF NextTurn
  <2>3. Step[s] \in Nat \ {0}
    BY <2>1, ScansAssumption
  <2> HIDE DEF s
  <2>4. NextTurn.scan = s /\ NextTurn.quota = Step[s] /\ prelude_idx' = prelude_idx
    BY <1>3, <2>2 DEF SwitchToNextSoftThread
  <2> QED
    BY <1>1, <2>1, <2>3, <2>4 DEF SwitchToNextSoftThread
<1> QED
  BY <1>2, <1>3

\* Taking the next state keeps the queue's type and loses nothing else.
LEMMA TakeNextKeeps ==
    ASSUME TypeOK, NEW s \in SoftThreads, TakeNext(s)
    PROVE  /\ queue' \in [SoftThreads -> Seq(Stored)]
           /\ ptr_state' \in [SoftThreads -> StatePtr]
           /\ \A t \in SoftThreads : t # s => queue'[t] = queue[t] /\ ptr_state'[t] = ptr_state[t]
<1>0. /\ queue \in [SoftThreads -> Seq(Stored)]
      /\ ptr_state \in [SoftThreads -> StatePtr]
      /\ Stored \subseteq StatePtr /\ NoState \in StatePtr
  BY DEF TypeOK, StatePtr
<1>1. CASE queue[s] = <<>>
  BY <1>0, <1>1 DEF TakeNext
<1>2. CASE queue[s] # <<>>
  <2>1. PICK i \in DOMAIN queue[s] :
           /\ ptr_state' = [ptr_state EXCEPT ![s] = queue[s][i]]
           /\ queue' = [queue EXCEPT ![s] = SubSeq(@, 1, i - 1) \o SubSeq(@, i + 1, Len(@))]
    BY <1>2 DEF TakeNext
  <2> DEFINE q == queue[s]
  <2>2. q \in Seq(Stored) /\ i \in 1..Len(q)
    BY <1>0, <2>1
  <2>3. q[i] \in Stored /\ SubSeq(q, 1, i - 1) \in Seq(Stored)
        /\ SubSeq(q, i + 1, Len(q)) \in Seq(Stored)
    BY <2>2
  <2>4. SubSeq(q, 1, i - 1) \o SubSeq(q, i + 1, Len(q)) \in Seq(Stored)
    BY <2>3
  <2> QED
    BY <1>0, <2>1, <2>3, <2>4
<1> QED
  BY <1>1, <1>2

-----------------------------------------------------------------------------
\* The collection holds the deal alone, and every scan is about to begin.
LEMMA InitIInv == Init => IInv
<1> SUFFICES ASSUME Init PROVE IInv
  OBVIOUS
<1> USE DEF Init
<1>1. Stored = {state_copy} /\ state_copy \in States /\ state_copy # NoState
  BY StatesAssumption DEF Stored
<1>2. TypeOK
  <2>1. info \in [Stored -> Info]
    BY <1>1 DEF NewInfo, Info, StatePtr, Flags, USHRT
  <2>2. soft_dfs_info \in [Scans -> Seq(Level)]
    <3>1. NewLevel(state_copy) \in Level
      BY <1>1 DEF NewLevel, Level
    <3>2. <<NewLevel(state_copy)>> \in Seq(Level)
      BY <3>1
    <3> QED
      BY <3>2
  <2>3. /\ scan_visited \in [SoftThreads -> SUBSET Stored]
        /\ queue \in [SoftThreads -> Seq(Stored)]
        /\ ptr_state \in [SoftThreads -> StatePtr]
    BY <1>1 DEF StatePtr
  <2>4. st_idx \in Scans /\ ht_max \in Nat /\ prelude_idx \in 0..Len(Prelude)
    <3>1. CASE Prelude = <<>>
      BY <3>1, ScansAssumption DEF Scans
    <3>2. CASE Prelude # <<>>
      <4>1. Len(Prelude) \in Nat /\ 1 \in 1..Len(Prelude)
        BY <3>2, ScansAssumption
      <4> QED
        BY <3>2, <4>1, PreludeItems
    <3> QED
      BY <3>1, <3>2
  <2>5. max_num_checked_states \in Nat
    BY ScansAssumption
  <2>6. state_copy \in Deals /\ options \in Options /\ Stored \subseteq States
    BY <1>1
  <2>7. /\ finished \subseteq Scans /\ num_checked_states \in Nat /\ optimizing \in BOOLEAN
        /\ final_state \in StatePtr /\ ret \in {"none", "suspended", "solved", "unsolvable"}
        /\ pc \in {"switch", "scan", "derive", "returned", "trace", "stopped"}
        /\ todo \subseteq States /\ reparented \in StatePtr /\ mark_at \in StatePtr
        /\ trace_at \in StatePtr
    BY DEF StatePtr
  <2> QED
    BY <2>1, <2>2, <2>3, <2>4, <2>5, <2>6, <2>7 DEF TypeOK
<1>3. PlaceInv
  <2>1. \A s \in Scans : soft_dfs_info[s] # <<>>
    OBVIOUS
  <2> QED
    BY <2>1 DEF PlaceInv, Running
<1>4. TreeInv
  BY <1>1 DEF TreeInv, ParentsDerive, NewInfo
<1> QED
  BY <1>2, <1>3, <1>4 DEF IInv

-----------------------------------------------------------------------------
\* Every step keeps the types.
LEMMA StepTypeOK ==
    ASSUME IInv, [Next]_vars
    PROVE  TypeOK'
<1> USE DEF IInv
<1>0. /\ info \in [Stored -> InfoOf(Stored)]
      /\ Stored \cup {NoState} = StatePtr /\ mark_at \in StatePtr
      /\ "all_tests_done" \in Flags /\ "in_solution_path" \in Flags
      /\ "in_optimized_path" \in Flags /\ "dead_end" \in Flags
  BY TypesOfStored DEF TypeOK, StatePtr, Flags
<1>a. ASSUME info' \in [Stored -> InfoOf(Stored)]
      PROVE  /\ Stored' = Stored /\ StatePtr' = StatePtr /\ Level' = Level
             /\ info' \in [Stored' -> Info']
  <2>1. Stored' = Stored
    BY <1>a DEF Stored
  <2> QED
    BY <1>a, <2>1, SameTypes, TypesOfStored
<1>1. CASE MarkParent
  <2>1. mark_at \in Stored /\ info[mark_at].parent \in StatePtr
    BY <1>0, <1>1 DEF MarkParent, InfoOf
  <2> DEFINE i == OneChildLess(info, mark_at)
  <2>2. i \in [Stored -> InfoOf(Stored)] /\ i[mark_at].parent = info[mark_at].parent
    BY <1>0, <2>1, OneChildLessKeeps DEF SameTree
  <2>3. info' = i \/ info' = WithFlag(i, mark_at, "dead_end")
    BY <1>1 DEF MarkParent
  <2>4. mark_at' \in StatePtr
    BY <1>0, <1>1, <2>1, <2>2 DEF MarkParent
  <2>5. info' \in [Stored -> InfoOf(Stored)]
    BY <1>0, <2>2, <2>3, WithFlagKeeps
  <2> QED
    BY <1>1, <1>a, <2>4, <2>5 DEF TypeOK, MarkParent, fixedVars, scanVars, hardVars, limitVars
<1>2. CASE JoinNewParent
  <2>1. pc = "derive" /\ Expanded \in Stored
    BY <1>2, ExpandedIsStored DEF JoinNewParent, PlaceInv
  <2> DEFINE i == IF Dead(reparented) THEN info ELSE OneChildMore(info, Expanded)
             n == info[Expanded].depth + 1
  <2>2. i \in [Stored -> InfoOf(Stored)] /\ n \in Nat
    BY <1>0, <2>1, OneChildMoreKeeps DEF InfoOf
  <2>3. info' = [i EXCEPT ![reparented].parent = Expanded, ![reparented].depth = n]
    BY <1>2 DEF JoinNewParent
  <2> HIDE DEF i, n
  <2>4. info' \in [Stored -> InfoOf(Stored)]
    BY <2>1, <2>2, <2>3 DEF InfoOf
  <2> QED
    BY <1>2, <1>0, <1>a, <2>4 DEF TypeOK, JoinNewParent, fixedVars, scanVars, hardVars, limitVars
<1>3. ASSUME NEW x \in todo, AddNewState(x)
      PROVE  TypeOK'
  <2> DEFINE D == Stored \cup {x}
             i == OneChildMore(info, Expanded)
             n == NewInfo(Expanded, info[Expanded].depth + 1)
  <2>1. pc = "derive" /\ Expanded \in Stored /\ x \in States
    BY <1>3, ExpandedIsStored DEF AddNewState, At, TypeOK
  <2>2. i \in [Stored -> InfoOf(Stored)]
    BY <1>0, OneChildMoreKeeps
  <2>3. info' = [j \in D |-> IF j = x THEN n ELSE i[j]]
    BY <1>3 DEF AddNewState
  <2>4. n \in InfoOf(D)
    <3>1. info[Expanded].depth + 1 \in Nat
      BY <1>0, <2>1 DEF InfoOf
    <3>2. Expanded \in D \cup {NoState}
      BY <2>1
    <3> HIDE DEF D
    <3> QED
      BY <3>1, <3>2 DEF InfoOf, NewInfo, USHRT
  <2>5. InfoOf(Stored) \subseteq InfoOf(D) /\ LevelOf(Stored) \subseteq LevelOf(D)
    BY LevelsGrow
  <2> HIDE DEF n, i
  <2>6. info' \in [D -> InfoOf(D)]
    BY <2>2, <2>3, <2>4, <2>5
  <2>7. Stored' = D
    BY <2>6 DEF Stored
  <2>8. Info' = InfoOf(D) /\ Level' = LevelOf(D) /\ StatePtr' = D \cup {NoState}
    BY <2>7 DEF Info, Level, InfoOf, LevelOf, StatePtr
  <2>9. soft_dfs_info' \in [Scans -> Seq(Level')] /\ queue' \in [SoftThreads -> Seq(D)]
    BY <1>3, <2>1, <2>8, ListDerivedKeeps DEF AddNewState
  <2>10. StatePtr \subseteq StatePtr' /\ Stored \subseteq D /\ D \subseteq States
    BY <1>0, <2>1, <2>8 DEF TypeOK
  <2>11. /\ scan_visited' \in [SoftThreads -> SUBSET D]
         /\ ptr_state' \in [SoftThreads -> StatePtr']
    BY <1>3, <2>10 DEF TypeOK, AddNewState
  <2> HIDE DEF D
  <2> QED
    BY <1>3, <2>6, <2>7, <2>8, <2>9, <2>10, <2>11
    DEF TypeOK, AddNewState, fixedVars, hardVars, limitVars
<1>4. ASSUME NEW x \in todo, KnownState(x)
      PROVE  TypeOK'
  <2>1. soft_dfs_info' \in [Scans -> Seq(Level)] /\ queue' \in [SoftThreads -> Seq(Stored)]
    BY <1>4, ListDerivedKeeps, TypesOfStored DEF KnownState, At
  <2> QED
    BY <1>4, <2>1, SameCollection DEF TypeOK, KnownState, fixedVars, hardVars, limitVars
<1>5. ASSUME NEW x \in todo, LeaveOldParent(x)
      PROVE  TypeOK'
  <2>1. soft_dfs_info' \in [Scans -> Seq(Level)] /\ queue' \in [SoftThreads -> Seq(Stored)]
    BY <1>5, ListDerivedKeeps, TypesOfStored DEF LeaveOldParent, At
  <2> DEFINE p == info[x].parent
             i == OneChildLess(info, p)
  <2>2. i \in [Stored -> InfoOf(Stored)]
    BY <1>0, OneChildLessKeeps
  <2>3. p \in Stored
    <3>1. x # state_copy
      <4>1. Expanded \in Stored /\ x \in Stored
        BY <1>5, ExpandedIsStored DEF LeaveOldParent, At
      <4>2. info[Expanded].depth \in Nat /\ info[x].depth > info[Expanded].depth + 1
        BY <1>0, <1>5, <4>1 DEF LeaveOldParent, CanReparent, InfoOf
      <4> QED
        BY <4>2 DEF TreeInv
    <3> QED
      BY <1>5, <3>1 DEF TreeInv, ParentsDerive, LeaveOldParent
  <2>4. info' \in [Stored -> InfoOf(Stored)] /\ mark_at' \in StatePtr
    <3>1. CASE Dead(x)
      BY <1>0, <1>5, <3>1 DEF LeaveOldParent
    <3>2. CASE ~Dead(x) /\ i[p].num_active_children = 0
      <4>1. MarkAsDeadEnd(i, p)
        BY <1>5, <3>2 DEF LeaveOldParent
      <4> QED
        BY <1>0, <2>2, <2>3, <4>1, MarkAsDeadEndKeeps
    <3>3. CASE ~Dead(x) /\ i[p].num_active_children # 0
      BY <1>0, <1>5, <2>2, <3>3 DEF LeaveOldParent
    <3> QED
      BY <3>1, <3>2, <3>3
  <2>5. x \in Stored
    BY <1>5 DEF LeaveOldParent
  <2> QED
    BY <1>5, <1>0, <1>a, <2>1, <2>4, <2>5
    DEF TypeOK, LeaveOldParent, fixedVars, hardVars, limitVars
<1>6. ASSUME NEW s \in Scans, DfsStep(s)
      PROVE  TypeOK'
  <2>0. /\ Running /\ IsDfs(s) /\ s = Current
    BY <1>6 DEF DfsStep, DfsEnter, DfsSolved, DfsRunMoves, DfsBacktrack, DfsDerived,
                Scanning, At, Running
  <2>1. /\ soft_dfs_info[s] \in Seq(LevelOf(Stored)) /\ soft_dfs_info[s] # <<>>
        /\ Deepest(s) \in 1..Len(soft_dfs_info[s])
        /\ Top(s) \in LevelOf(Stored) /\ Deepest(s) = Len(soft_dfs_info[s])
    BY <2>0, LevelsOfCurrent DEF Deepest
  <2>2. soft_dfs_info \in [Scans -> Seq(LevelOf(Stored))] /\ Level = LevelOf(Stored)
    BY TypesOfStored DEF TypeOK
  <2>3. ASSUME NEW x \in Enterable(s), DfsEnter(s, x)
        PROVE  TypeOK'
    <3>1. x \in Stored
      BY <2>1, <2>3 DEF Enterable, LevelOf
    <3>2. NewLevel(x) \in LevelOf(Stored)
      BY <3>1 DEF NewLevel, LevelOf
    <3>3. Append(soft_dfs_info[s], NewLevel(x)) \in Seq(LevelOf(Stored))
      BY <2>1, <3>2
    <3>4. soft_dfs_info' \in [Scans -> Seq(Level)]
      BY <2>2, <2>3, <3>3 DEF DfsEnter
    <3>5. scan_visited' \in [SoftThreads -> SUBSET Stored]
      BY <2>3, <3>1 DEF DfsEnter, TypeOK
    <3>6. /\ final_state' \in StatePtr
          /\ ret' \in {"none", "suspended", "solved", "unsolvable"}
          /\ pc' \in {"switch", "scan", "derive", "returned", "trace", "stopped"}
      BY <1>0, <2>3, <3>1 DEF DfsEnter, TypeOK, Return
    <3> QED
      BY <2>3, <3>4, <3>5, <3>6, SameCollection
      DEF TypeOK, DfsEnter, fixedVars, hardVars, localVars
  <2>4. CASE DfsSolved(s)
    <3>1. Solved \in StatePtr
      BY <1>0, <2>1, <2>4 DEF DfsSolved, LevelOf
    <3> QED
      BY <2>4, <3>1, SameCollection
      DEF TypeOK, DfsSolved, Return, fixedVars, scanVars, hardVars, localVars
  <2>5. CASE DfsRunMoves(s)
    <3> DEFINE d == soft_dfs_info[s]
               n == Deepest(s)
               l == [d[n] EXCEPT !.test = @ + 1, !.rest = {}]
               e == [d EXCEPT ![n] = l]
    <3>1. l \in LevelOf(Stored)
      <4>1. d[n] \in LevelOf(Stored)
        BY <2>1 DEF Top
      <4> HIDE DEF d, n
      <4> QED
        BY <4>1, NextTestKeeps
    <3>2. soft_dfs_info' = [soft_dfs_info EXCEPT ![s] = e]
      BY <2>5, <2>1, <2>2 DEF DfsRunMoves
    <3> HIDE DEF l
    <3>3. e \in Seq(LevelOf(Stored))
      BY <2>1, <3>1
    <3>4. soft_dfs_info' \in [Scans -> Seq(Level)]
      BY <2>2, <3>2, <3>3
    <3>5. todo' \subseteq States
      <4>1. Top(s).state \in States
        BY <2>1 DEF LevelOf, TypeOK
      <4>2. /\ Top(s).test + 1 \in 1..Len(Tests[s]) /\ Tests[s] \in Seq(SUBSET MoveFuncs)
        <5>1. Tests[s] \in Seq(SUBSET MoveFuncs)
          BY ScansAssumption
        <5>2. Top(s).test \in Nat /\ Top(s).test < Len(Tests[s])
          BY <2>1, <2>5 DEF LevelOf, DfsRunMoves
        <5> QED
          BY <5>1, <5>2
      <4>3. Tests[s][Top(s).test + 1] \subseteq MoveFuncs
        BY <4>2
      <4> QED
        BY <2>5, <4>1, <4>3, StatesAssumption DEF DfsRunMoves, Derived
    <3> QED
      BY <2>5, <3>4, <3>5, SameCollection
      DEF TypeOK, DfsRunMoves, fixedVars, hardVars, limitVars
  <2>6. CASE DfsBacktrack(s)
    <3> DEFINE k == Top(s).state
               i == WithFlag(info, k, "all_tests_done")
    <3>1. k \in Stored /\ i \in [Stored -> InfoOf(Stored)]
      BY <1>0, <2>1, WithFlagKeeps DEF LevelOf
    <3>2. info' \in [Stored -> InfoOf(Stored)] /\ mark_at' \in StatePtr
      <4>1. CASE Complete(s)
        <5>1. MarkAsDeadEnd(i, k)
          BY <2>6, <4>1 DEF DfsBacktrack
        <5> QED
          BY <1>0, <3>1, <5>1, MarkAsDeadEndKeeps
      <4>2. CASE ~Complete(s)
        BY <1>0, <2>6, <4>2 DEF DfsBacktrack
      <4> QED
        BY <4>1, <4>2
    <3>3. SubSeq(soft_dfs_info[s], 1, Len(soft_dfs_info[s]) - 1) \in Seq(LevelOf(Stored))
      BY <2>1
    <3>4. soft_dfs_info' \in [Scans -> Seq(Level)]
      BY <2>2, <2>6, <3>3 DEF DfsBacktrack
    <3> QED
      BY <2>6, <1>a, <3>2, <3>4 DEF TypeOK, DfsBacktrack, fixedVars, hardVars
  <2>7. CASE DfsDerived(s)
    BY <2>7, SameCollection
    DEF TypeOK, DfsDerived, fixedVars, scanVars, hardVars, limitVars, localVars
  <2> QED
    BY <1>6, <2>3, <2>4, <2>5, <2>6, <2>7 DEF DfsStep
<1>7. ASSUME NEW s \in SoftThreads, BefsStep(s)
      PROVE  TypeOK'
  <2>0. /\ ptr_state[s] \in StatePtr
        /\ ptr_state[s] # NoState => ptr_state[s] \in Stored
    BY <1>0 DEF TypeOK
  <2>1. CASE BefsPassOver(s)
    BY <2>1, SameCollection, TakeNextKeeps
    DEF TypeOK, BefsPassOver, fixedVars, hardVars, limitVars, localVars
  <2>2. CASE BefsSuspend(s)
    BY <2>0, <2>2, SameCollection
    DEF TypeOK, BefsSuspend, Return, fixedVars, scanVars, hardVars, limitVars, localVars
  <2>3. CASE BefsSolved(s)
    BY <2>0, <2>3, SameCollection
    DEF TypeOK, BefsSolved, Return, fixedVars, scanVars, hardVars, localVars
  <2>4. CASE BefsPerformMoves(s)
    <3>1. todo' \subseteq States
      <4>1. ptr_state[s] \in States
        BY <2>0, <2>4 DEF BefsPerformMoves, Holding, TypeOK
      <4>2. AllMoves \subseteq MoveFuncs /\ (s \in Scans => MovesOf(s) \subseteq MoveFuncs)
        <5>1. \A t \in Scans : MovesOf(t) \subseteq MoveFuncs
          <6> TAKE t \in Scans
          <6>1. Tests[t] \in Seq(SUBSET MoveFuncs)
            BY ScansAssumption
          <6>2. \A i \in DOMAIN Tests[t] : Tests[t][i] \in SUBSET MoveFuncs
            BY <6>1
          <6> QED
            BY <6>2 DEF MovesOf
        <5> QED
          BY <5>1 DEF AllMoves
      <4>3. (IF s = Opt THEN AllMoves ELSE MovesOf(s)) \subseteq MoveFuncs
        BY <4>2 DEF SoftThreads
      <4> QED
        BY <2>4, <4>1, <4>3, StatesAssumption DEF BefsPerformMoves, Derived
    <3> QED
      BY <2>4, <3>1, SameCollection
      DEF TypeOK, BefsPerformMoves, fixedVars, scanVars, hardVars, limitVars
  <2>5. CASE BefsExpanded(s)
    <3> DEFINE k == ptr_state[s]
               i == IF Complete(s) THEN WithFlag(info, k, "all_tests_done") ELSE info
    <3>1. k \in Stored
      BY <2>0, <2>5 DEF BefsExpanded, At, PlaceInv
    <3>2. i \in [Stored -> InfoOf(Stored)]
      BY <1>0, WithFlagKeeps
    <3>3. /\ info' \in [Stored -> InfoOf(Stored)] /\ mark_at' \in StatePtr
          /\ scan_visited' \in [SoftThreads -> SUBSET Stored]
      <4>0. scan_visited' = scan_visited
            \/ scan_visited' = [scan_visited EXCEPT ![s] = @ \cup {k}]
        BY <2>5 DEF BefsExpanded
      <4>v. scan_visited' \in [SoftThreads -> SUBSET Stored]
        <5>1. scan_visited \in [SoftThreads -> SUBSET Stored]
          BY DEF TypeOK
        <5> HIDE DEF k
        <5> QED
          BY <3>1, <4>0, <5>1
      <4>1. CASE optimizing
        <5>1. info' = WithFlag(i, k, "in_optimized_path") /\ mark_at' = mark_at
          BY <2>5, <4>1 DEF BefsExpanded
        <5> HIDE DEF i, k
        <5> QED
          BY <1>0, <3>2, <4>v, <5>1, WithFlagKeeps
      <4>2. CASE ~optimizing /\ MarkAsDeadEnd(i, k)
        <5> HIDE DEF i, k
        <5> QED
          BY <1>0, <3>1, <3>2, <4>v, <4>2, MarkAsDeadEndKeeps
      <4>3. CASE ~optimizing /\ info' = i /\ mark_at' = mark_at
        <5> HIDE DEF i, k
        <5> QED
          BY <1>0, <3>2, <4>v, <4>3
      <4> QED
        BY <2>5, <4>1, <4>2, <4>3 DEF BefsExpanded
    <3> HIDE DEF i
    <3> QED
      BY <2>5, <1>a, <3>3, TakeNextKeeps
      DEF TypeOK, BefsExpanded, fixedVars, hardVars
  <2>6. CASE BefsExhausted(s)
    BY <1>0, <2>6, SameCollection
    DEF TypeOK, BefsExhausted, Return, fixedVars, scanVars, hardVars, limitVars, localVars
  <2> QED
    BY <1>7, <2>1, <2>2, <2>3, <2>4, <2>5, <2>6 DEF BefsStep
<1>8. CASE SkipFinished
  BY <1>8, SameCollection, SwitchKeepsTypes
  DEF TypeOK, SkipFinished, fixedVars, scanVars, limitVars, localVars
<1>9. CASE RunScan
  <2>1. IsDfs(st_idx) => Top(st_idx).state \in Stored
    <3> HAVE IsDfs(st_idx)
    <3>1. soft_dfs_info[st_idx] # <<>> /\ soft_dfs_info[st_idx] \in Seq(LevelOf(Stored))
      BY <1>9, TypesOfStored DEF RunScan, At, PlaceInv, TypeOK
    <3>2. Top(st_idx) \in LevelOf(Stored)
      BY <3>1 DEF Top, Deepest
    <3> QED
      BY <3>2 DEF LevelOf
  <2>2. scan_visited' \in [SoftThreads -> SUBSET Stored]
    BY <1>9, <2>1 DEF RunScan, TypeOK
  <2> QED
    BY <1>9, <2>2, SameCollection
    DEF TypeOK, RunScan, fixedVars, scanVars, hardVars, limitVars, localVars
<1>10. CASE ScanReturned
  <2>1. st_idx' \in Scans /\ ht_max' \in Nat /\ prelude_idx' \in 0..Len(Prelude)
    BY <1>10, SwitchKeepsTypes DEF ScanReturned, TypeOK
  <2>2. /\ finished' \subseteq Scans
        /\ ret' \in {"none", "suspended", "solved", "unsolvable"}
        /\ pc' \in {"switch", "scan", "derive", "returned", "trace", "stopped"}
        /\ trace_at' \in StatePtr
    BY <1>0, <1>10 DEF ScanReturned, TypeOK, InstanceRet
  <2> QED
    BY <1>10, <2>1, <2>2, SameCollection
    DEF TypeOK, ScanReturned, fixedVars, scanVars, limitVars
<1>11. CASE TraceSolution
  <2>1. info' \in [Stored -> InfoOf(Stored)] /\ trace_at' \in StatePtr
    BY <1>0, <1>11, WithFlagKeeps DEF TraceSolution, TypeOK, InfoOf
  <2> QED
    BY <1>11, <1>a, <2>1
    DEF TypeOK, TraceSolution, fixedVars, scanVars, hardVars, limitVars
<1>12. CASE StartOptimizing
  BY <1>12, SameCollection
  DEF TypeOK, StartOptimizing, fixedVars, scanVars, hardVars, limitVars, localVars
<1>13. CASE OptimizationReturned
  BY <1>13, SameCollection
  DEF TypeOK, OptimizationReturned, fixedVars, scanVars, hardVars, limitVars, localVars
<1>14. CASE Resume
  <2>1. max_num_checked_states' \in Nat
    BY <1>14, ScansAssumption DEF Resume
  <2> QED
    BY <1>14, <2>1, SameCollection
    DEF TypeOK, Resume, fixedVars, scanVars, hardVars, limitVars, localVars
<1>15. CASE UNCHANGED vars
  BY <1>15, SameCollection
  DEF TypeOK, vars, fixedVars, scanVars, hardVars, limitVars, localVars
<1> QED
  BY <1>1, <1>2, <1>3, <1>4, <1>5, <1>6, <1>7, <1>8, <1>9, <1>10, <1>11, <1>12, <1>13,
     <1>14, <1>15 DEF Next, Solve, CheckState, Stopped

\* Every step keeps the hard thread in place.
LEMMA StepPlaceInv ==
    ASSUME IInv, [Next]_vars
    PROVE  PlaceInv'
<1> USE DEF IInv
<1> USE DEF PlaceInv, Running, Current
<1>0. \A s \in Scans : s # Opt
  BY OptIsNoScan
<1>1. CASE MarkParent
  BY <1>1 DEF MarkParent, scanVars, hardVars
<1>2. CASE JoinNewParent
  BY <1>2 DEF JoinNewParent, scanVars, hardVars
<1>3. ASSUME NEW x \in todo, CheckState(x)
      PROVE  PlaceInv'
  <2>1. /\ pc = "derive" /\ pc' = pc /\ ret' = ret /\ optimizing' = optimizing
        /\ finished' = finished /\ st_idx' = st_idx /\ ptr_state' = ptr_state
        /\ ListDerived(x)
    BY <1>3 DEF CheckState, AddNewState, KnownState, LeaveOldParent, At, hardVars
  <2>2. \A s \in Scans : soft_dfs_info'[s] = <<>> <=> soft_dfs_info[s] = <<>>
    <3>1. Stored \subseteq Stored \cup {x} /\ x \in Stored \cup {x}
      OBVIOUS
    <3> QED
      BY <2>1, <3>1, ListDerivedKeeps
  <2> QED
    BY <2>1, <2>2
<1>4. ASSUME NEW s \in Scans, DfsStep(s)
      PROVE  PlaceInv'
  <2>0. /\ Running /\ IsDfs(s) /\ s = Current /\ ret = "none" /\ reparented = NoState
    BY <1>4 DEF DfsStep, DfsEnter, DfsSolved, DfsRunMoves, DfsBacktrack, DfsDerived,
                Scanning, At
  <2>1. /\ soft_dfs_info[s] \in Seq(LevelOf(Stored)) /\ soft_dfs_info[s] # <<>>
        /\ s = st_idx /\ ~optimizing /\ st_idx \notin finished
        /\ Deepest(s) \in 1..Len(soft_dfs_info[s])
    BY <2>0, LevelsOfCurrent
  <2>2. DOMAIN soft_dfs_info = Scans
    BY DEF TypeOK
  <2>3. /\ finished' = finished /\ optimizing' = optimizing /\ st_idx' = st_idx
        /\ ptr_state' = ptr_state /\ reparented' = reparented
    BY <1>4 DEF DfsStep, DfsEnter, DfsSolved, DfsRunMoves, DfsBacktrack, DfsDerived,
                hardVars, scanVars, localVars
  <2>4. \A t \in Scans : t # s => soft_dfs_info'[t] = soft_dfs_info[t]
    BY <1>4, <2>2 DEF DfsStep, DfsEnter, DfsSolved, DfsRunMoves, DfsBacktrack, DfsDerived,
                scanVars
  <2>5. \/ soft_dfs_info'[s] # <<>>
           /\ \/ pc' \in {"scan", "derive"} /\ ret' = ret
              \/ pc' = "returned" /\ ret' \in {"suspended", "solved"}
        \/ soft_dfs_info'[s] = <<>> /\ pc' = "returned" /\ ret' = "unsolvable"
    <3>1. ASSUME NEW x \in Enterable(s), DfsEnter(s, x)
          PROVE  soft_dfs_info'[s] # <<>>
      <4>1. soft_dfs_info'[s] = Append(soft_dfs_info[s], NewLevel(x))
        BY <2>2, <3>1 DEF DfsEnter
      <4> QED
        BY <2>1, <4>1
    <3>2. ASSUME NEW x \in Enterable(s), DfsEnter(s, x)
          PROVE  \/ pc' = "scan" /\ ret' = ret
                 \/ pc' = "returned" /\ ret' = "suspended"
      BY <3>2 DEF DfsEnter, Return, Scanning, At
    <3>3. CASE DfsSolved(s)
      BY <2>1, <3>3 DEF DfsSolved, Return, scanVars
    <3>4. CASE DfsRunMoves(s)
      <4>1. soft_dfs_info'[s] # <<>>
        <5> DEFINE v == [soft_dfs_info[s][Deepest(s)] EXCEPT !.test = @ + 1, !.rest = {}]
        <5>1. soft_dfs_info'[s] = [soft_dfs_info[s] EXCEPT ![Deepest(s)] = v]
          BY <2>2, <3>4 DEF DfsRunMoves
        <5> HIDE DEF v
        <5>2. DOMAIN soft_dfs_info'[s] = 1..Len(soft_dfs_info[s])
              /\ 1 \in 1..Len(soft_dfs_info[s])
          BY <2>1, <5>1
        <5>3. DOMAIN <<>> = {}
          OBVIOUS
        <5> QED
          BY <5>2, <5>3
      <4> QED
        BY <3>4, <4>1 DEF DfsRunMoves
    <3>5. CASE DfsBacktrack(s)
      <4> DEFINE d == soft_dfs_info[s]
      <4>1. soft_dfs_info'[s] = SubSeq(d, 1, Len(d) - 1)
        BY <2>2, <3>5 DEF DfsBacktrack
      <4>0. Len(d) = 1 \/ Len(d) > 1
        <5>1. \A n \in Nat : n \in 1..n => n = 1 \/ n > 1
          OBVIOUS
        <5>2. Len(d) \in Nat /\ Deepest(s) = Len(d)
          BY <2>1 DEF Deepest
        <5> QED
          BY <5>1, <5>2, <2>1
      <4>2. CASE Len(d) > 1
        <5>1. SubSeq(d, 1, Len(d) - 1) # <<>>
          <6>1. Len(SubSeq(d, 1, Len(d) - 1)) = Len(d) - 1 /\ Len(d) - 1 # 0
            BY <2>1, <4>2, WithoutLast
          <6>2. Len(<<>>) = 0
            OBVIOUS
          <6> QED
            BY <6>1, <6>2
        <5>2. pc' = pc /\ ret' = ret /\ pc = "scan"
          BY <3>5, <4>2 DEF DfsBacktrack, Scanning, At
        <5> QED
          BY <4>1, <5>1, <5>2
      <4>3. CASE Len(d) = 1
        <5>2. soft_dfs_info'[s] = <<>>
          BY <2>1, <4>1, <4>3
        <5>3. ~(Len(d) > 1)
          BY <4>3
        <5>4. pc' = "returned" /\ ret' = "unsolvable"
          BY <3>5, <5>3 DEF DfsBacktrack
        <5> QED
          BY <5>2, <5>4
      <4> QED
        BY <4>0, <4>2, <4>3
    <3>6. CASE DfsDerived(s)
      BY <2>1, <3>6 DEF DfsDerived, scanVars
    <3> QED
      BY <1>4, <3>1, <3>2, <3>3, <3>4, <3>5, <3>6 DEF DfsStep
  <2> QED
    BY <2>0, <2>1, <2>3, <2>4, <2>5
<1>5. ASSUME NEW s \in SoftThreads, BefsStep(s)
      PROVE  PlaceInv'
  <2>0. /\ Running /\ ~IsDfs(s) /\ s = Current /\ reparented = NoState
    BY <1>5 DEF BefsStep, BefsPassOver, BefsSuspend, BefsSolved, BefsPerformMoves,
                BefsExpanded, BefsExhausted, Holding, Scanning, At
  <2>1. /\ finished' = finished /\ optimizing' = optimizing /\ st_idx' = st_idx
        /\ reparented' = reparented /\ soft_dfs_info' = soft_dfs_info
    BY <1>5 DEF BefsStep, BefsPassOver, BefsSuspend, BefsSolved, BefsPerformMoves,
                BefsExpanded, BefsExhausted, hardVars, scanVars, localVars
  <2>2. \/ pc' = "scan" /\ ret' = ret
        \/ pc' = "returned" /\ ret' \in {"suspended", "solved", "unsolvable"}
        \/ pc' = "derive" /\ ret' = ret /\ ptr_state' = ptr_state /\ ptr_state[s] # NoState
    BY <1>5 DEF BefsStep, BefsPassOver, BefsSuspend, BefsSolved, BefsPerformMoves,
                BefsExpanded, BefsExhausted, Holding, Scanning, At, Return, scanVars
  <2> QED
    BY <1>0, <2>0, <2>1, <2>2
<1>6. CASE SkipFinished
  BY <1>6 DEF SkipFinished, At, scanVars, localVars
<1>7. CASE RunScan
  BY <1>7 DEF RunScan, At, scanVars, hardVars, localVars
<1>8. CASE ScanReturned
  <2>1. /\ ~optimizing /\ optimizing' = optimizing /\ reparented = NoState
        /\ reparented' = reparented /\ soft_dfs_info' = soft_dfs_info
        /\ pc = "returned" /\ pc' \in {"switch", "trace", "stopped"}
        /\ pc' = "switch" => ret' = "none"
    BY <1>8 DEF ScanReturned, At, scanVars
  <2>2. /\ finished \subseteq finished'
        /\ ret = "unsolvable" => st_idx \in finished'
    BY <1>8 DEF ScanReturned
  <2> QED
    BY <2>1, <2>2
<1>9. CASE TraceSolution
  BY <1>9 DEF TraceSolution, scanVars, hardVars
<1>10. CASE StartOptimizing
  BY <1>10 DEF StartOptimizing, At, scanVars, hardVars, localVars
<1>11. CASE OptimizationReturned
  BY <1>11 DEF OptimizationReturned, At, scanVars, hardVars, localVars
<1>12. CASE Resume
  BY <1>12 DEF Resume, scanVars, hardVars, localVars
<1>13. CASE UNCHANGED vars
  BY <1>13 DEF vars, scanVars, hardVars, localVars
<1> QED
  BY <1>1, <1>2, <1>3, <1>4, <1>5, <1>6, <1>7, <1>8, <1>9, <1>10, <1>11, <1>12, <1>13
  DEF Next, Solve, Stopped

-----------------------------------------------------------------------------
\* The moves of a test are moves of the scan, and those are moves of some scan.
LEMMA MovesAreAll ==
    ASSUME NEW s \in Scans
    PROVE  /\ MovesOf(s) \subseteq AllMoves
           /\ \A i \in DOMAIN Tests[s] : Tests[s][i] \subseteq MovesOf(s)
<1>1. \A i \in DOMAIN Tests[s] : Tests[s][i] \subseteq MovesOf(s)
  BY DEF MovesOf
<1>2. MovesOf(s) \subseteq AllMoves
  BY DEF AllMoves
<1> QED
  BY <1>1, <1>2

\* More moves derive more.
LEMMA DerivedGrows ==
    ASSUME NEW k, NEW F, NEW G, F \subseteq G
    PROVE  Derived(k, F) \subseteq Derived(k, G)
BY DEF Derived

\* Steps that change no parent keep the tree.
LEMMA SameTreeKeeps ==
    ASSUME IInv, PlaceInv', SameTree(info', info), state_copy' = state_copy,
           reparented' \in {NoState, reparented},
           pc' = "derive" => pc = "derive" /\ todo' \subseteq todo /\ Expanded' = Expanded
    PROVE  TreeInv'
<1> USE DEF IInv
<1>1. Stored' = Stored /\ \A k \in Stored : /\ info'[k].parent = info[k].parent
                                            /\ info'[k].depth = info[k].depth
  BY DEF SameTree, Stored
<1>2. state_copy' \in Stored' /\ info'[state_copy'].depth = 0
  BY <1>1 DEF TreeInv
<1>3. ParentsDerive'
  BY <1>1 DEF TreeInv, ParentsDerive
<1>4. pc' = "derive" => todo' \subseteq Derived(Expanded', AllMoves)
  BY DEF TreeInv
<1>5. ASSUME reparented' # NoState
      PROVE  /\ reparented' # state_copy'
             /\ reparented' \in Derived(Expanded', AllMoves)
             /\ info'[reparented'].depth > info'[Expanded'].depth + 1
  <2>1. reparented' = reparented /\ pc = "derive" /\ Expanded' = Expanded
    BY <1>5 DEF PlaceInv
  <2>2. reparented \in Stored /\ Expanded \in Stored
    BY <1>5, <2>1, ExpandedIsStored DEF TypeOK, StatePtr
  <2> QED
    BY <1>1, <1>5, <2>1, <2>2 DEF TreeInv
<1>6. TreeInv' <=> /\ state_copy' \in Stored' /\ info'[state_copy'].depth = 0
                   /\ ParentsDerive'
                   /\ pc' = "derive" => todo' \subseteq Derived(Expanded', AllMoves)
                   /\ reparented' # NoState =>
                        /\ reparented' # state_copy'
                        /\ reparented' \in Derived(Expanded', AllMoves)
                        /\ info'[reparented'].depth > info'[Expanded'].depth + 1
  BY DEF TreeInv, Derived, AllMoves, MovesOf
<1> QED
  BY <1>2, <1>3, <1>4, <1>5, <1>6

\* Every step keeps the tree of parents.
LEMMA StepTreeInv ==
    ASSUME IInv, [Next]_vars
    PROVE  TreeInv'
<1> USE DEF IInv
<1>p. PlaceInv' /\ TypeOK'
  BY StepPlaceInv, StepTypeOK
<1>0. info \in [Stored -> InfoOf(Stored)]
  BY TypesOfStored DEF TypeOK
<1>r. SameTree(info, info)
  BY DEF SameTree
<1>f. "all_tests_done" \in Flags /\ "in_solution_path" \in Flags
      /\ "in_optimized_path" \in Flags /\ "dead_end" \in Flags
  BY DEF Flags
<1>e. ASSUME soft_dfs_info' = soft_dfs_info, ptr_state' = ptr_state,
             optimizing' = optimizing, st_idx' = st_idx
      PROVE  Expanded' = Expanded
  BY <1>e DEF Expanded, Current, Top, Deepest
<1>1. CASE MarkParent
  <2>1. SameTree(info', info)
    BY <1>0, <1>1, <1>f, OneChildLessKeeps, WithFlagKeeps, SameTreeTrans DEF MarkParent
  <2>2. Expanded' = Expanded /\ state_copy' = state_copy /\ todo' = todo /\ pc' = pc
        /\ reparented' = reparented
    BY <1>1, <1>e DEF MarkParent, scanVars, hardVars, fixedVars
  <2> QED
    BY <1>p, <2>1, <2>2, SameTreeKeeps
<1>2. CASE JoinNewParent
  <2>1. pc = "derive" /\ Expanded \in Stored
    BY <1>2, ExpandedIsStored DEF JoinNewParent, PlaceInv
  <2> DEFINE i == IF Dead(reparented) THEN info ELSE OneChildMore(info, Expanded)
             n == info[Expanded].depth + 1
  <2>2. i \in [Stored -> InfoOf(Stored)] /\ n \in Nat /\ SameTree(i, info)
    BY <1>0, <1>r, <2>1, OneChildMoreKeeps DEF InfoOf
  <2>3. info' = [i EXCEPT ![reparented].parent = Expanded, ![reparented].depth = n]
    BY <1>2 DEF JoinNewParent
  <2>4. reparented \in Stored /\ reparented # state_copy
        /\ reparented \in Derived(Expanded, AllMoves)
        /\ info[reparented].depth > info[Expanded].depth + 1
    BY <1>2 DEF JoinNewParent, TreeInv, TypeOK, StatePtr
  <2>5. \A j \in Stored : info[j].depth \in Nat
    BY <1>0 DEF InfoOf
  <2>6. reparented # Expanded
    BY <2>1, <2>4, <2>5
  <2> HIDE DEF i
  <2>7. Stored' = Stored
    BY <2>2, <2>3 DEF Stored
  <2>8. info'[reparented].parent = Expanded /\ info'[reparented].depth = n
    BY <2>2, <2>3, <2>4 DEF InfoOf
  <2>9. \A j \in Stored : j # reparented => /\ info'[j].parent = info[j].parent
                                            /\ info'[j].depth = info[j].depth
    BY <2>2, <2>3 DEF SameTree
  <2>10. Expanded' = Expanded /\ state_copy' = state_copy /\ todo' = todo /\ pc' = pc
         /\ reparented' = NoState
    BY <1>2, <1>e DEF JoinNewParent, scanVars, hardVars, fixedVars
  <2>11. ParentsDerive'
    <3> SUFFICES ASSUME NEW k \in Stored
                 PROVE  IF k = state_copy THEN info'[k].parent = NoState
                        ELSE /\ info'[k].parent \in Stored
                             /\ k \in Derived(info'[k].parent, AllMoves)
                             /\ info'[info'[k].parent].depth < info'[k].depth
      BY <2>7, <2>10 DEF ParentsDerive
    <3>0. IF k = state_copy THEN info[k].parent = NoState
          ELSE /\ info[k].parent \in Stored
               /\ k \in Derived(info[k].parent, AllMoves)
               /\ info[info[k].parent].depth < info[k].depth
      BY DEF TreeInv, ParentsDerive
    <3>1. CASE k = reparented
      <4>1. info'[Expanded].depth = info[Expanded].depth
        BY <2>1, <2>6, <2>9
      <4> QED
        BY <2>1, <2>4, <2>5, <2>8, <3>1, <4>1
    <3>2. CASE k # reparented /\ k = state_copy
      BY <2>9, <3>0, <3>2
    <3>3. CASE k # reparented /\ k # state_copy
      <4> DEFINE p == info[k].parent
      <4>1. p \in Stored /\ info'[k].parent = p /\ info'[k].depth = info[k].depth
        BY <2>9, <3>0, <3>3
      <4>2. info[p].depth \in Nat /\ info[k].depth \in Nat /\ info[p].depth < info[k].depth
        BY <2>5, <3>0, <3>3, <4>1
      <4>3. info'[p].depth \in Nat /\ info'[p].depth <= info[p].depth
        <5>1. n \in Nat /\ n < info[reparented].depth /\ info[reparented].depth \in Nat
          BY <2>1, <2>4, <2>5
        <5> HIDE DEF n
        <5> QED
          BY <2>8, <2>9, <4>1, <4>2, <5>1
      <4>4. info'[p].depth < info'[k].depth
        BY <4>1, <4>2, <4>3
      <4> QED
        BY <3>0, <3>3, <4>1, <4>4
    <3> QED
      BY <3>1, <3>2, <3>3
  <2>12. state_copy \in Stored /\ info'[state_copy].depth = 0
    BY <2>4, <2>9 DEF TreeInv
  <2>13. todo \subseteq Derived(Expanded, AllMoves)
    BY <2>1 DEF TreeInv
  <2> QED
    BY <2>7, <2>10, <2>11, <2>12, <2>13 DEF TreeInv, Derived, AllMoves, MovesOf
<1>3. ASSUME NEW x \in todo, AddNewState(x)
      PROVE  TreeInv'
  <2> DEFINE D == Stored \cup {x}
             i == OneChildMore(info, Expanded)
  <2>1. pc = "derive" /\ Expanded \in Stored /\ x \notin Stored
    BY <1>3, ExpandedIsStored DEF AddNewState, At
  <2>2. i \in [Stored -> InfoOf(Stored)] /\ SameTree(i, info)
    BY <1>0, OneChildMoreKeeps
  <2>3. info' = [j \in D |-> IF j = x THEN NewInfo(Expanded, info[Expanded].depth + 1)
                             ELSE i[j]]
    BY <1>3 DEF AddNewState
  <2> HIDE DEF i
  <2>4. Stored' = D
    BY <2>3 DEF Stored
  <2>5. info'[x].parent = Expanded /\ info'[x].depth = info[Expanded].depth + 1
    BY <2>3 DEF NewInfo
  <2>6. \A j \in Stored : info'[j].parent = info[j].parent /\ info'[j].depth = info[j].depth
    BY <2>1, <2>2, <2>3 DEF SameTree
  <2>7. state_copy' = state_copy /\ todo' \subseteq todo /\ pc' = pc
        /\ reparented' = reparented /\ reparented = NoState
    BY <1>3 DEF AddNewState, fixedVars, At
  <2>8. Expanded' = Expanded
    <3>1. Stored \subseteq D /\ x \in D
      OBVIOUS
    <3> HIDE DEF D
    <3> QED
      BY <1>3, <2>1, <3>1, ListDerivedKeeps DEF AddNewState, hardVars
  <2>9. todo \subseteq Derived(Expanded, AllMoves)
    BY <2>1 DEF TreeInv
  <2>10. ParentsDerive'
    <3> SUFFICES ASSUME NEW k \in D
                 PROVE  IF k = state_copy THEN info'[k].parent = NoState
                        ELSE /\ info'[k].parent \in D
                             /\ k \in Derived(info'[k].parent, AllMoves)
                             /\ info'[info'[k].parent].depth < info'[k].depth
      BY <2>4, <2>7 DEF ParentsDerive
    <3>1. CASE k = x
      <4>1. k # state_copy /\ info[Expanded].depth \in Nat
        BY <1>0, <2>1, <3>1 DEF TreeInv, InfoOf
      <4>2. info'[Expanded].depth = info[Expanded].depth
        BY <2>1, <2>6
      <4> QED
        BY <2>1, <2>5, <2>9, <3>1, <4>1, <4>2
    <3>2. CASE k # x
      <4>1. k \in Stored
        BY <3>2
      <4>2. IF k = state_copy THEN info[k].parent = NoState
            ELSE /\ info[k].parent \in Stored
                 /\ k \in Derived(info[k].parent, AllMoves)
                 /\ info[info[k].parent].depth < info[k].depth
        BY <4>1 DEF TreeInv, ParentsDerive
      <4> QED
        BY <2>6, <4>1, <4>2
    <3> QED
      BY <3>1, <3>2
  <2>11. state_copy \in D /\ info'[state_copy].depth = 0
    BY <2>6 DEF TreeInv
  <2> HIDE DEF D
  <2> QED
    BY <2>1, <2>4, <2>7, <2>8, <2>9, <2>10, <2>11 DEF TreeInv, Derived, AllMoves, MovesOf
<1>4. ASSUME NEW x \in todo, KnownState(x)
      PROVE  TreeInv'
  <2>1. Expanded' = Expanded /\ info' = info /\ state_copy' = state_copy
        /\ todo' \subseteq todo /\ pc = "derive" /\ reparented' = reparented
    BY <1>4, ListDerivedKeeps DEF KnownState, At, fixedVars, hardVars
  <2> QED
    BY <1>p, <1>r, <2>1, SameTreeKeeps
<1>5. ASSUME NEW x \in todo, LeaveOldParent(x)
      PROVE  TreeInv'
  <2> DEFINE p == info[x].parent
             i == OneChildLess(info, p)
  <2>1. Expanded' = Expanded /\ state_copy' = state_copy /\ x \in Stored
        /\ todo' \subseteq todo /\ pc = "derive" /\ pc' = pc /\ reparented' = x
    BY <1>5, ListDerivedKeeps DEF LeaveOldParent, At, fixedVars, hardVars
  <2>2. i \in [Stored -> InfoOf(Stored)] /\ SameTree(i, info)
    BY <1>0, OneChildLessKeeps
  <2>3. SameTree(info', info)
    <3>1. info' = info \/ info' = i \/ info' = WithFlag(i, p, "dead_end")
      BY <1>5 DEF LeaveOldParent, MarkAsDeadEnd
    <3> HIDE DEF i
    <3> QED
      BY <1>r, <1>f, <2>2, <3>1, WithFlagKeeps, SameTreeTrans
  <2>4. Expanded \in Stored /\ info[x].depth > info[Expanded].depth + 1
    BY <1>5, <2>1, ExpandedIsStored DEF LeaveOldParent, CanReparent
  <2>5. x # state_copy
    <3>1. info[Expanded].depth \in Nat
      BY <1>0, <2>4 DEF InfoOf
    <3> QED
      BY <2>4, <3>1 DEF TreeInv
  <2>6. x \in Derived(Expanded, AllMoves) /\ todo \subseteq Derived(Expanded, AllMoves)
    BY <2>1 DEF TreeInv
  <2>7. Stored' = Stored /\ \A k \in Stored : /\ info'[k].parent = info[k].parent
                                              /\ info'[k].depth = info[k].depth
    BY <2>3 DEF SameTree, Stored
  <2>8. ParentsDerive' /\ state_copy' \in Stored' /\ info'[state_copy'].depth = 0
    BY <2>1, <2>7 DEF TreeInv, ParentsDerive
  <2>9. info'[x].depth > info'[Expanded].depth + 1
    BY <2>1, <2>4, <2>7
  <2> QED
    BY <2>1, <2>5, <2>6, <2>8, <2>9 DEF TreeInv, Derived, AllMoves, MovesOf
<1>6. ASSUME NEW s \in Scans, DfsStep(s)
      PROVE  TreeInv'
  <2>0. /\ Running /\ IsDfs(s) /\ s = Current /\ reparented = NoState
        /\ state_copy' = state_copy /\ reparented' = reparented
    BY <1>6 DEF DfsStep, DfsEnter, DfsSolved, DfsRunMoves, DfsBacktrack, DfsDerived,
                Scanning, At, Running, fixedVars, localVars
  <2>1. CASE DfsRunMoves(s)
    <3>1. /\ soft_dfs_info[s] \in Seq(LevelOf(Stored)) /\ soft_dfs_info[s] # <<>>
          /\ Deepest(s) \in 1..Len(soft_dfs_info[s])
          /\ Top(s) \in LevelOf(Stored) /\ Deepest(s) = Len(soft_dfs_info[s])
      BY <2>0, LevelsOfCurrent DEF Deepest
    <3>2. Current' = Current
      BY <2>1 DEF DfsRunMoves, Current, hardVars
    <3> DEFINE v == [Top(s) EXCEPT !.test = @ + 1, !.rest = {}]
    <3>3. v \in LevelOf(Stored) /\ v.state = Top(s).state
      <4> DEFINE l == Top(s)
      <4>1. l \in LevelOf(Stored) /\ v = [l EXCEPT !.test = @ + 1, !.rest = {}]
        BY <3>1
      <4> HIDE DEF l, v
      <4>2. v \in LevelOf(Stored)
            /\ v = [state |-> l.state, test |-> l.test + 1, rest |-> {}]
        BY <4>1, NextTestKeeps
      <4> QED
        BY <4>2 DEF l
    <3>4. soft_dfs_info' = [soft_dfs_info EXCEPT ![s] = [@ EXCEPT ![Deepest(s)] = v]]
      BY <2>1 DEF DfsRunMoves, Top
    <3> HIDE DEF v
    <3>5. soft_dfs_info'[s] = [soft_dfs_info[s] EXCEPT ![Deepest(s)] = v]
      BY <3>4 DEF TypeOK
    <3>6. Len(soft_dfs_info'[s]) = Len(soft_dfs_info[s])
          /\ soft_dfs_info'[s][Deepest(s)] = v
      BY <3>1, <3>3, <3>5
    <3>7. Expanded' = Top(s).state /\ Expanded = Top(s).state
      BY <2>0, <3>1, <3>2, <3>3, <3>6 DEF Expanded, Top, Deepest
    <3>8. Top(s).test + 1 \in DOMAIN Tests[s]
      BY <2>1, <3>1, ScansAssumption DEF DfsRunMoves, LevelOf
    <3>9. Tests[s][Top(s).test + 1] \subseteq AllMoves
      BY <3>8, MovesAreAll
    <3>10. todo' \subseteq Derived(Top(s).state, AllMoves)
      BY <2>1, <3>9, DerivedGrows DEF DfsRunMoves
    <3>11. info' = info
      BY <2>1 DEF DfsRunMoves
    <3>12. ParentsDerive' /\ state_copy' \in Stored' /\ info'[state_copy'].depth = 0
      BY <2>0, <3>11 DEF TreeInv, ParentsDerive, Stored
    <3> QED
      BY <2>0, <3>7, <3>10, <3>12 DEF TreeInv, Derived, AllMoves, MovesOf
  <2>2. CASE DfsBacktrack(s)
    <3>1. SameTree(info', info)
      <4> DEFINE k == Top(s).state
                 i == WithFlag(info, k, "all_tests_done")
      <4>1. i \in [Stored -> InfoOf(Stored)] /\ SameTree(i, info)
        BY <1>0, <1>f, WithFlagKeeps
      <4>2. info' = info \/ info' = i \/ info' = WithFlag(i, k, "dead_end")
        BY <2>2 DEF DfsBacktrack, MarkAsDeadEnd
      <4> HIDE DEF i
      <4> QED
        BY <1>r, <1>f, <4>1, <4>2, WithFlagKeeps, SameTreeTrans
    <3>2. pc' # "derive"
      BY <2>2 DEF DfsBacktrack, Scanning, At
    <3> QED
      BY <1>p, <2>0, <3>1, <3>2, SameTreeKeeps
  <2>3. CASE ~DfsRunMoves(s) /\ ~DfsBacktrack(s)
    <3>1. info' = info /\ pc' # "derive"
      BY <1>6, <2>3 DEF DfsStep, DfsEnter, DfsSolved, DfsDerived, Return, Scanning, At
    <3> QED
      BY <1>p, <1>r, <2>0, <3>1, SameTreeKeeps
  <2> QED
    BY <2>1, <2>2, <2>3
<1>7. ASSUME NEW s \in SoftThreads, BefsStep(s)
      PROVE  TreeInv'
  <2>0. /\ ~IsDfs(s) /\ s = Current /\ reparented = NoState
        /\ state_copy' = state_copy /\ reparented' = reparented /\ Current' = Current
    BY <1>7 DEF BefsStep, BefsPassOver, BefsSuspend, BefsSolved, BefsPerformMoves,
                BefsExpanded, BefsExhausted, Holding, Scanning, At, fixedVars, localVars,
                hardVars, Current
  <2>1. CASE BefsPerformMoves(s)
    <3>1. info' = info /\ ptr_state' = ptr_state
      BY <2>1 DEF BefsPerformMoves, scanVars
    <3>2. Expanded' = ptr_state[s]
      BY <2>0, <3>1 DEF Expanded
    <3>3. (IF s = Opt THEN AllMoves ELSE MovesOf(s)) \subseteq AllMoves
      BY MovesAreAll DEF SoftThreads
    <3>4. todo' \subseteq Derived(ptr_state[s], AllMoves)
      BY <2>1, <3>3, DerivedGrows DEF BefsPerformMoves
    <3>5. ParentsDerive' /\ state_copy' \in Stored' /\ info'[state_copy'].depth = 0
      BY <2>0, <3>1 DEF TreeInv, ParentsDerive, Stored
    <3> QED
      BY <2>0, <3>2, <3>4, <3>5 DEF TreeInv, Derived, AllMoves, MovesOf
  <2>2. CASE BefsExpanded(s)
    <3>1. SameTree(info', info)
      <4> DEFINE k == ptr_state[s]
                 i == IF Complete(s) THEN WithFlag(info, k, "all_tests_done") ELSE info
      <4>1. i \in [Stored -> InfoOf(Stored)] /\ SameTree(i, info)
        BY <1>0, <1>r, <1>f, WithFlagKeeps
      <4>2. info' = i \/ info' = WithFlag(i, k, "dead_end")
            \/ info' = WithFlag(i, k, "in_optimized_path")
        BY <2>2 DEF BefsExpanded, MarkAsDeadEnd
      <4>3. SameTree(i, i)
        BY DEF SameTree
      <4> HIDE DEF i
      <4> QED
        BY <1>f, <4>1, <4>2, WithFlagKeeps, SameTreeTrans
    <3>2. pc' # "derive"
      BY <2>2 DEF BefsExpanded
    <3> QED
      BY <1>p, <2>0, <3>1, <3>2, SameTreeKeeps
  <2>3. CASE ~BefsPerformMoves(s) /\ ~BefsExpanded(s)
    <3>1. info' = info /\ pc' # "derive"
      BY <1>7, <2>3 DEF BefsStep, BefsPassOver, BefsSuspend, BefsSolved, BefsExhausted,
                        Holding, Return, Scanning, At
    <3> QED
      BY <1>p, <1>r, <2>0, <3>1, SameTreeKeeps
  <2> QED
    BY <2>1, <2>2, <2>3
<1>8. CASE TraceSolution
  <2>1. SameTree(info', info)
    BY <1>0, <1>8, <1>f, WithFlagKeeps DEF TraceSolution
  <2>2. state_copy' = state_copy /\ pc' # "derive" /\ reparented' = reparented
    BY <1>8 DEF TraceSolution, At, fixedVars
  <2> QED
    BY <1>p, <2>1, <2>2, SameTreeKeeps
<1>9. CASE \/ SkipFinished \/ RunScan \/ ScanReturned
           \/ StartOptimizing \/ OptimizationReturned \/ Resume \/ Stopped
  <2>1. info' = info /\ state_copy' = state_copy /\ reparented' = reparented
        /\ (pc' = "derive" => UNCHANGED vars)
    BY <1>9 DEF SkipFinished, RunScan, ScanReturned, StartOptimizing,
                OptimizationReturned, Resume, Stopped, At, vars, fixedVars, localVars
  <2>2. pc' = "derive" => pc = "derive" /\ todo' \subseteq todo /\ Expanded' = Expanded
    BY <1>e, <2>1 DEF vars, scanVars, hardVars, localVars
  <2> QED
    BY <1>p, <1>r, <2>1, <2>2, SameTreeKeeps
<1>10. CASE UNCHANGED vars
  <2>1. info' = info /\ state_copy' = state_copy /\ reparented' = reparented
        /\ pc' = pc /\ todo' = todo /\ Expanded' = Expanded
    BY <1>10, <1>e DEF vars, scanVars, hardVars, localVars, fixedVars
  <2> QED
    BY <1>p, <1>r, <2>1, SameTreeKeeps
<1> QED
  BY <1>1, <1>2, <1>3, <1>4, <1>5, <1>6, <1>7, <1>8, <1>9, <1>10
  DEF Next, Solve, CheckState

\* The inductive invariant: the types of the state, where the hard thread is and
\* the tree of parents.  Every step of it is a lemma above.
THEOREM Invariance == Spec => []IInv
<1>1. IInv /\ [Next]_vars => IInv'
  BY StepTypeOK, StepPlaceInv, StepTreeInv DEF IInv
<1> QED
  BY InitIInv, <1>1, PTL DEF Spec

\* ParentsDerive: along the recorded parents every state is derived from a
\* state nearer to the deal, for any scans, any interleaving and re-parenting.
THEOREM ParentsAreATree == Spec => []ParentsDerive
<1>1. IInv => ParentsDerive
  BY DEF IInv, TreeInv
<1> QED
  BY Invariance, <1>1, PTL

-----------------------------------------------------------------------------
(***************************************************************************)
(* Quotas and limits.  A scan that is about to count an iteration without  *)
(* another look at the limits is below both of them.                       *)
(***************************************************************************)
AboutToCount ==
    \/ pc \in {"switch", "derive"}
    \/ pc = "scan" /\ IsDfs(Current)

QuotaInv ==
    /\ num_checked_states <= max_num_checked_states
    /\ ~optimizing => num_checked_states <= ht_max
    /\ AboutToCount => num_checked_states < max_num_checked_states
    /\ AboutToCount \/ (pc = "stopped" /\ ret = "suspended") =>
          \/ optimizing
          \/ num_checked_states < ht_max

\* The counters begin at 0, below every limit.
LEMMA InitQuotaInv == Init => QuotaInv
<1> SUFFICES ASSUME Init PROVE QuotaInv
  OBVIOUS
<1>1. num_checked_states = 0 /\ max_num_checked_states \in Nat \ {0}
  BY ScansAssumption DEF Init
<1>2. ht_max \in Nat \ {0}
  <2>1. CASE Prelude = <<>>
    BY <2>1, ScansAssumption DEF Init, Scans
  <2>2. CASE Prelude # <<>>
    <3>1. 1 \in 1..Len(Prelude)
      BY <2>2, ScansAssumption
    <3> QED
      BY <2>2, <3>1, PreludeItems DEF Init
  <2> QED
    BY <2>1, <2>2
<1> QED
  BY <1>1, <1>2 DEF QuotaInv

\* Only AccountedStep counts, and it is taken below the limit.
LEMMA StepQuotaInv ==
    ASSUME IInv, QuotaInv, [Next]_vars
    PROVE  QuotaInv'
<1> USE DEF QuotaInv, AboutToCount, Current
<1>0. num_checked_states \in Nat /\ max_num_checked_states \in Nat /\ ht_max \in Nat
  BY DEF IInv, TypeOK
<1>o. ~IsDfs(Opt)
  BY DEF IsDfs
<1>1. CASE MarkParent \/ JoinNewParent \/ TraceSolution
  BY <1>1 DEF MarkParent, JoinNewParent, TraceSolution, hardVars, limitVars
<1>2. ASSUME NEW x \in todo, CheckState(x)
      PROVE  QuotaInv'
  BY <1>2 DEF CheckState, AddNewState, KnownState, LeaveOldParent, hardVars, limitVars
<1>3. ASSUME NEW s \in Scans, DfsStep(s)
      PROVE  QuotaInv'
  <2>1. ASSUME NEW x \in Enterable(s), DfsEnter(s, x)
        PROVE  QuotaInv'
    <3>1. num_checked_states < max_num_checked_states
          /\ (optimizing \/ num_checked_states < ht_max)
      BY <2>1 DEF DfsEnter, Scanning, At
    <3>2. pc' = "scan" => ~LimitsExceeded(num_checked_states')
      BY <2>1 DEF DfsEnter, Return
    <3>3. /\ num_checked_states' = num_checked_states + 1
          /\ max_num_checked_states' = max_num_checked_states
          /\ ht_max' = ht_max /\ optimizing' = optimizing /\ pc' \in {"scan", "returned"}
      BY <2>1 DEF DfsEnter, Return, Scanning, At, hardVars
    <3> QED
      BY <1>0, <3>1, <3>2, <3>3 DEF LimitsExceeded
  <2>2. CASE DfsSolved(s)
    BY <1>0, <2>2 DEF DfsSolved, Return, Scanning, At, hardVars
  <2>3. CASE DfsRunMoves(s)
    BY <1>0, <2>3 DEF DfsRunMoves, Scanning, At, hardVars, limitVars
  <2>4. CASE DfsBacktrack(s)
    BY <1>0, <2>4 DEF DfsBacktrack, Scanning, At, hardVars
  <2>5. CASE DfsDerived(s)
    BY <1>0, <2>5 DEF DfsDerived, At, hardVars, limitVars
  <2> QED
    BY <1>3, <2>1, <2>2, <2>3, <2>4, <2>5 DEF DfsStep
<1>4. ASSUME NEW s \in SoftThreads, BefsStep(s)
      PROVE  QuotaInv'
  <2>1. CASE BefsPassOver(s) \/ BefsSuspend(s) \/ BefsExhausted(s)
    BY <1>0, <2>1 DEF BefsPassOver, BefsSuspend, BefsExhausted, Return, Holding, Scanning,
                      At, hardVars, limitVars
  <2>2. CASE BefsSolved(s)
    BY <1>0, <2>2 DEF BefsSolved, Return, Holding, Scanning, At, LimitsExceeded, hardVars
  <2>3. CASE BefsPerformMoves(s)
    BY <1>0, <2>3 DEF BefsPerformMoves, Holding, Scanning, At, LimitsExceeded, hardVars,
                      limitVars
  <2>4. CASE BefsExpanded(s)
    BY <1>0, <2>4 DEF BefsExpanded, At, hardVars
  <2> QED
    BY <1>4, <2>1, <2>2, <2>3, <2>4 DEF BefsStep
<1>5. CASE SkipFinished
  <2>1. ht_max' > num_checked_states
    BY <1>5, SwitchKeepsTypes DEF SkipFinished, IInv
  <2>2. ht_max' \in Nat
    BY <1>5, SwitchKeepsTypes DEF SkipFinished, IInv
  <2> QED
    BY <1>0, <1>5, <2>1, <2>2 DEF SkipFinished, At, limitVars
<1>6. CASE RunScan
  BY <1>0, <1>6 DEF RunScan, At, hardVars, limitVars
<1>7. CASE ScanReturned
  <2>1. ht_max' \in Nat /\ num_checked_states < ht_max'
    BY <1>0, <1>7, SwitchKeepsTypes DEF ScanReturned, IInv
  <2>2. /\ num_checked_states' = num_checked_states
        /\ max_num_checked_states' = max_num_checked_states
        /\ pc' \in {"switch", "trace", "stopped"}
        /\ pc' = "switch" => num_checked_states < max_num_checked_states
    BY <1>0, <1>7 DEF ScanReturned, InstanceRet, limitVars
  <2> QED
    BY <1>0, <2>1, <2>2
<1>8. CASE StartOptimizing \/ OptimizationReturned
  BY <1>0, <1>o, <1>8 DEF StartOptimizing, OptimizationReturned, hardVars, limitVars
<1>9. CASE Resume
  <2>1. max_num_checked_states' \in Nat /\ max_num_checked_states' > num_checked_states
    BY <1>9, ScansAssumption DEF Resume
  <2> QED
    BY <1>0, <1>o, <1>9, <2>1 DEF Resume, hardVars
<1>10. CASE UNCHANGED vars
  BY <1>10 DEF vars, hardVars, limitVars
<1> QED
  BY <1>1, <1>2, <1>3, <1>4, <1>5, <1>6, <1>7, <1>8, <1>9, <1>10 DEF Next, Solve, Stopped

\* QuotaRespected: no scan runs over its quota and the instance never over its
\* limit, through any suspension and resumption; every count stays in range.
THEOREM QuotasAreRespected == Spec => []QuotaRespected
<1>1. Init => IInv /\ QuotaInv
  BY InitIInv, InitQuotaInv
<1>2. IInv /\ QuotaInv /\ [Next]_vars => IInv' /\ QuotaInv'
  BY StepTypeOK, StepPlaceInv, StepTreeInv, StepQuotaInv DEF IInv
<1>3. IInv /\ QuotaInv => QuotaRespected
  BY DEF IInv, QuotaInv, QuotaRespected
<1> QED
  BY <1>1, <1>2, <1>3, PTL DEF Spec

-----------------------------------------------------------------------------
(***************************************************************************)
(* What the queues hold, and what the steps do to the flags and parents.   *)
(***************************************************************************)
Items(q) == {q[i] : i \in DOMAIN q}
Flagged(i, flag) == {k \in DOMAIN i : flag \in i[k].visited}

\* What a queue holds, when it is empty, after an append and after a removal.
LEMMA EmptyHasNoItems == Items(<<>>) = {}
<1>1. DOMAIN <<>> = {}
  OBVIOUS
<1> QED
  BY <1>1 DEF Items

\* An append adds the item.
LEMMA ItemsOfAppended ==
    ASSUME NEW S, NEW q \in Seq(S), NEW x \in S
    PROVE  Items(Append(q, x)) = Items(q) \cup {x}
<1>1. /\ DOMAIN q = 1..Len(q) /\ Len(q) \in Nat
      /\ DOMAIN Append(q, x) = 1..(Len(q) + 1)
      /\ \A i \in 1..Len(q) : Append(q, x)[i] = q[i]
      /\ Append(q, x)[Len(q) + 1] = x
  OBVIOUS
<1>2. \A i \in 1..(Len(q) + 1) : i \in 1..Len(q) \/ i = Len(q) + 1
  BY <1>1
<1>3. \A i \in 1..Len(q) : i \in 1..(Len(q) + 1)
  BY <1>1
<1>4. Len(q) + 1 \in 1..(Len(q) + 1)
  BY <1>1
<1> QED
  BY <1>1, <1>2, <1>3, <1>4 DEF Items

\* A removal keeps all items except perhaps the one removed.
LEMMA ItemsWithoutOne ==
    ASSUME NEW S, NEW q \in Seq(S), NEW i \in 1..Len(q)
    PROVE  Items(q) \subseteq
              Items(SubSeq(q, 1, i - 1) \o SubSeq(q, i + 1, Len(q))) \cup {q[i]}
<1> DEFINE n == Len(q)
           f == SubSeq(q, 1, i - 1)
           r == SubSeq(q, i + 1, n)
<1>1. n \in Nat /\ i \in Nat /\ 1 <= i /\ i <= n /\ DOMAIN q = 1..n
      /\ \A j \in 1..n : q[j] \in S
  OBVIOUS
<1>2. f \in Seq(S) /\ Len(f) = i - 1 /\ \A j \in 1..(i - 1) : f[j] = q[j]
  <2>1. \A j \in 1..(i - 1) : q[j] \in S
    BY <1>1
  <2>2. /\ f \in Seq(S)
        /\ Len(f) = IF 1 <= i - 1 THEN i - 1 - 1 + 1 ELSE 0
        /\ \A j \in 1..(i - 1 - 1 + 1) : f[j] = q[1 + j - 1]
    BY <1>1, <2>1, SubSeqProperties
  <2> HIDE DEF f
  <2> QED
    BY <1>1, <2>2
<1>3. r \in Seq(S) /\ Len(r) = n - i /\ \A j \in 1..(n - i) : r[j] = q[i + j]
  <2>1. \A j \in (i + 1)..n : q[j] \in S
    BY <1>1
  <2> HIDE DEF n
  <2>2. /\ r \in Seq(S)
        /\ Len(r) = IF i + 1 <= n THEN n - (i + 1) + 1 ELSE 0
        /\ \A j \in 1..(n - (i + 1) + 1) : r[j] = q[i + 1 + j - 1]
    BY <1>1, <2>1, SubSeqProperties
  <2> HIDE DEF r
  <2> QED
    BY <1>1, <2>2
<1> HIDE DEF f, r, n
<1>4. /\ DOMAIN (f \o r) = 1..(Len(f) + Len(r))
      /\ \A j \in 1..Len(f) : (f \o r)[j] = f[j]
      /\ \A j \in 1..Len(r) : (f \o r)[Len(f) + j] = r[j]
  <2>1. ASSUME NEW F \in Seq(S), NEW R \in Seq(S)
        PROVE  /\ DOMAIN (F \o R) = 1..(Len(F) + Len(R))
               /\ \A j \in 1..Len(F) : (F \o R)[j] = F[j]
               /\ \A j \in 1..Len(R) : (F \o R)[Len(F) + j] = R[j]
    OBVIOUS
  <2> QED
    BY <1>2, <1>3, <2>1
<1>5. ASSUME NEW j \in 1..n, j # i
      PROVE  q[j] \in Items(f \o r)
  <2>1. CASE j < i
    <3>1. j \in 1..(i - 1) /\ j \in 1..(i - 1 + (n - i))
      BY <1>1, <2>1
    <3>2. j \in DOMAIN (f \o r) /\ (f \o r)[j] = q[j]
      BY <1>2, <1>3, <1>4, <3>1
    <3> QED
      BY <3>2 DEF Items
  <2>2. CASE ~(j < i)
    <3>1. j - i \in 1..(n - i) /\ (i - 1) + (j - i) \in 1..(i - 1 + (n - i))
          /\ i + (j - i) = j
      BY <1>1, <1>5, <2>2
    <3>2. (f \o r)[(i - 1) + (j - i)] = q[j]
      BY <1>2, <1>3, <1>4, <3>1
    <3> QED
      BY <1>2, <1>3, <1>4, <3>1, <3>2 DEF Items
  <2> QED
    BY <2>1, <2>2
<1> QED
  BY <1>1, <1>5 DEF Items, f, r, n

\* Taking an item off the queue moves it to ptr_state and loses nothing.
LEMMA TakeNextItems ==
    ASSUME TypeOK, NEW s \in SoftThreads, TakeNext(s)
    PROVE  /\ Items(queue[s]) \subseteq Items(queue'[s]) \cup {ptr_state'[s]}
           /\ ptr_state'[s] = NoState => queue'[s] = <<>>
<1>0. /\ queue \in [SoftThreads -> Seq(Stored)] /\ NoState \notin Stored
      /\ ptr_state \in [SoftThreads -> StatePtr]
  BY StatesAssumption DEF TypeOK
<1>1. CASE queue[s] = <<>>
  BY <1>0, <1>1, EmptyHasNoItems DEF TakeNext
<1>2. CASE queue[s] # <<>>
  <2>1. PICK i \in DOMAIN queue[s] :
           /\ ptr_state' = [ptr_state EXCEPT ![s] = queue[s][i]]
           /\ queue' = [queue EXCEPT ![s] = SubSeq(@, 1, i - 1) \o SubSeq(@, i + 1, Len(@))]
    BY <1>2 DEF TakeNext
  <2> DEFINE q == queue[s]
  <2>2. q \in Seq(Stored)
    BY <1>0
  <2>3. i \in 1..Len(q) /\ q[i] \in Stored
    BY <2>1, <2>2
  <2>4. /\ ptr_state'[s] = q[i]
        /\ queue'[s] = SubSeq(q, 1, i - 1) \o SubSeq(q, i + 1, Len(q))
    BY <1>0, <2>1
  <2> HIDE DEF q
  <2>5. Items(q) \subseteq
           Items(SubSeq(q, 1, i - 1) \o SubSeq(q, i + 1, Len(q))) \cup {q[i]}
    BY <2>2, <2>3, ItemsWithoutOne
  <2> QED
    BY <1>0, <2>3, <2>4, <2>5 DEF q
<1> QED
  BY <1>1, <1>2

\* Listing a derived state adds it to the queue of the running scan.
LEMMA ListDerivedItems ==
    ASSUME TypeOK, NEW x, ListDerived(x), NEW s \in SoftThreads
    PROVE  Items(queue'[s]) = IF s = Current /\ ~IsDfs(s) THEN Items(queue[s]) \cup {x}
                              ELSE Items(queue[s])
<1>0. queue \in [SoftThreads -> Seq(Stored)] /\ Current \in SoftThreads
  BY CurrentIsScan DEF TypeOK
<1>1. CASE IsDfs(Current)
  BY <1>1 DEF ListDerived
<1>2. CASE ~IsDfs(Current)
  <2>1. queue' = [queue EXCEPT ![Current] = Append(@, x)]
    BY <1>2 DEF ListDerived
  <2>2. CASE s = Current
    <3>1. queue'[s] = Append(queue[s], x)
      BY <1>0, <2>1, <2>2
    <3>2. queue[s] \in Seq(Stored \cup {x})
      BY <1>0
    <3> QED
      BY <1>2, <2>2, <3>1, <3>2, ItemsOfAppended
  <2>3. CASE s # Current
    BY <1>0, <2>1, <2>3
  <2> QED
    BY <2>2, <2>3
<1> QED
  BY <1>1, <1>2

\* Setting a flag on a state leaves the other flags and the other states.
LEMMA WithFlagFlags ==
    ASSUME NEW D, NEW i \in [D -> InfoOf(D)], NEW k, NEW flag \in Flags, NEW g
    PROVE  /\ g # flag => Flagged(WithFlag(i, k, flag), g) = Flagged(i, g)
           /\ k \in D => Flagged(WithFlag(i, k, flag), flag) = Flagged(i, flag) \cup {k}
<1>1. WithFlag(i, k, flag) \in [D -> InfoOf(D)]
      /\ (\A j \in D : j # k => WithFlag(i, k, flag)[j] = i[j])
      /\ (k \in D => WithFlag(i, k, flag)[k].visited = i[k].visited \cup {flag})
  BY WithFlagKeeps
<1> QED
  BY <1>1 DEF Flagged

\* Counting children leaves the flags.
LEMMA CountsKeepFlags ==
    ASSUME NEW D, NEW i \in [D -> InfoOf(D)], NEW k, NEW g
    PROVE  /\ Flagged(OneChildLess(i, k), g) = Flagged(i, g)
           /\ Flagged(OneChildMore(i, k), g) = Flagged(i, g)
<1>1. OneChildLess(i, k) \in [D -> InfoOf(D)]
      /\ \A j \in D : OneChildLess(i, k)[j].visited = i[j].visited
  BY OneChildLessKeeps
<1>2. OneChildMore(i, k) \in [D -> InfoOf(D)]
      /\ \A j \in D : OneChildMore(i, k)[j].visited = i[j].visited
  BY OneChildMoreKeeps
<1> QED
  BY <1>1, <1>2 DEF Flagged

\* Steps that change neither flag of the optimization, nor a parent.
PathFlags == {"in_solution_path", "in_optimized_path"}
SamePaths ==
    /\ Stored \subseteq Stored'
    /\ \A k \in Stored : info'[k].parent = info[k].parent
    /\ \A g \in PathFlags : Flagged(info', g) = Flagged(info, g)

\* Marking a dead end leaves the flags of the paths.
LEMMA MarkAsDeadEndKeepsPaths ==
    ASSUME NEW D, NEW i \in [D -> InfoOf(D)], NEW k, MarkAsDeadEnd(i, k)
    PROVE  /\ SameTree(info', i)
           /\ \A g \in PathFlags : Flagged(info', g) = Flagged(i, g)
<1>1. "dead_end" \in Flags /\ "dead_end" \notin PathFlags
  BY DEF Flags, PathFlags
<1>2. CASE Synergy
  <2>1. info' = WithFlag(i, k, "dead_end")
    BY <1>2 DEF MarkAsDeadEnd
  <2> QED
    BY <1>1, <2>1, WithFlagKeeps, WithFlagFlags
<1>3. CASE ~Synergy
  BY <1>3 DEF MarkAsDeadEnd, SameTree
<1> QED
  BY <1>2, <1>3

\* Only the trace, re-parenting and the optimization change the paths.
LEMMA StepKeepsPaths ==
    ASSUME IInv, [Next]_vars
    PROVE  \/ SamePaths \/ TraceSolution \/ JoinNewParent
           \/ optimizing /\ BefsExpanded(Opt)
<1> USE DEF IInv
<1>0. info \in [Stored -> InfoOf(Stored)] /\ SameTree(info, info)
  BY TypesOfStored DEF TypeOK, SameTree
<1>f. /\ "all_tests_done" \in Flags /\ "dead_end" \in Flags
      /\ "all_tests_done" \notin PathFlags /\ "dead_end" \notin PathFlags
  BY DEF Flags, PathFlags
<1>s. ASSUME SameTree(info', info), \A g \in PathFlags : Flagged(info', g) = Flagged(info, g)
      PROVE  SamePaths
  BY <1>s DEF SamePaths, SameTree, Stored
<1>u. ASSUME info' = info PROVE SamePaths
  BY <1>0, <1>s, <1>u
<1>1. CASE MarkParent
  <2> DEFINE i == OneChildLess(info, mark_at)
  <2>1. /\ i \in [Stored -> InfoOf(Stored)] /\ SameTree(i, info)
        /\ \A g : Flagged(i, g) = Flagged(info, g)
    BY <1>0, OneChildLessKeeps, CountsKeepFlags
  <2>2. info' = i \/ info' = WithFlag(i, mark_at, "dead_end")
    BY <1>1 DEF MarkParent
  <2> HIDE DEF i
  <2>3. SameTree(info', info)
    BY <1>f, <2>1, <2>2, WithFlagKeeps, SameTreeTrans
  <2>4. \A g \in PathFlags : Flagged(info', g) = Flagged(info, g)
    BY <1>f, <2>1, <2>2, WithFlagFlags
  <2> QED
    BY <1>s, <2>3, <2>4
<1>2. ASSUME NEW x \in todo, AddNewState(x)
      PROVE  SamePaths
  <2> DEFINE i == OneChildMore(info, Expanded)
             n == NewInfo(Expanded, info[Expanded].depth + 1)
  <2>1. /\ i \in [Stored -> InfoOf(Stored)] /\ SameTree(i, info)
        /\ \A j \in Stored : i[j].visited = info[j].visited
    BY <1>0, OneChildMoreKeeps
  <2>2. info' = [j \in Stored \cup {x} |-> IF j = x THEN n ELSE i[j]] /\ x \notin Stored
    BY <1>2 DEF AddNewState
  <2>3. n.visited = {}
    BY DEF NewInfo
  <2> HIDE DEF i, n
  <2>4. /\ DOMAIN info' = Stored \cup {x} /\ info'[x].visited = {}
        /\ \A j \in Stored : info'[j] = i[j]
    BY <2>2, <2>3
  <2>5. \A j \in Stored : info'[j].parent = info[j].parent
    BY <1>0, <2>1, <2>4 DEF SameTree
  <2>6. \A g : Flagged(info', g) = Flagged(info, g)
    BY <2>1, <2>2, <2>4 DEF Flagged, Stored
  <2> QED
    BY <2>4, <2>5, <2>6 DEF SamePaths, Stored
<1>3. ASSUME NEW x \in todo, LeaveOldParent(x)
      PROVE  SamePaths
  <2> DEFINE p == info[x].parent
             i == OneChildLess(info, p)
  <2>1. /\ i \in [Stored -> InfoOf(Stored)] /\ SameTree(i, info)
        /\ \A g : Flagged(i, g) = Flagged(info, g)
    BY <1>0, OneChildLessKeeps, CountsKeepFlags
  <2>2. info' = info \/ info' = i \/ MarkAsDeadEnd(i, p)
    BY <1>3 DEF LeaveOldParent
  <2> HIDE DEF i
  <2>3. SameTree(info', info) /\ \A g \in PathFlags : Flagged(info', g) = Flagged(info, g)
    BY <1>0, <2>1, <2>2, MarkAsDeadEndKeepsPaths, SameTreeTrans
  <2> QED
    BY <1>s, <2>3
<1>4. ASSUME NEW s \in Scans, DfsStep(s)
      PROVE  SamePaths
  <2>1. CASE DfsBacktrack(s)
    <3> DEFINE k == Top(s).state
               i == WithFlag(info, k, "all_tests_done")
    <3>1. /\ i \in [Stored -> InfoOf(Stored)] /\ SameTree(i, info)
          /\ \A g \in PathFlags : Flagged(i, g) = Flagged(info, g)
      BY <1>0, <1>f, WithFlagKeeps, WithFlagFlags
    <3>2. info' = info \/ MarkAsDeadEnd(i, k)
      BY <2>1 DEF DfsBacktrack
    <3> HIDE DEF i, k
    <3>3. SameTree(info', info) /\ \A g \in PathFlags : Flagged(info', g) = Flagged(info, g)
      BY <1>0, <3>1, <3>2, MarkAsDeadEndKeepsPaths, SameTreeTrans
    <3> QED
      BY <1>s, <3>3
  <2>2. CASE ~DfsBacktrack(s)
    BY <1>4, <1>u, <2>2 DEF DfsStep, DfsEnter, DfsSolved, DfsRunMoves, DfsDerived
  <2> QED
    BY <2>1, <2>2
<1>5. ASSUME NEW s \in SoftThreads, BefsStep(s), ~(optimizing /\ BefsExpanded(Opt))
      PROVE  SamePaths
  <2>1. CASE BefsExpanded(s)
    <3> DEFINE k == ptr_state[s]
               i == IF Complete(s) THEN WithFlag(info, k, "all_tests_done") ELSE info
    <3>0. ~optimizing
      BY <1>5, <2>1 DEF BefsExpanded, Current
    <3>1. /\ i \in [Stored -> InfoOf(Stored)] /\ SameTree(i, info)
          /\ \A g \in PathFlags : Flagged(i, g) = Flagged(info, g)
      BY <1>0, <1>f, WithFlagKeeps, WithFlagFlags
    <3>2. info' = i \/ MarkAsDeadEnd(i, k)
      BY <2>1, <3>0 DEF BefsExpanded
    <3> HIDE DEF i, k
    <3>3. SameTree(info', info) /\ \A g \in PathFlags : Flagged(info', g) = Flagged(info, g)
      BY <1>0, <3>1, <3>2, MarkAsDeadEndKeepsPaths, SameTreeTrans
    <3> QED
      BY <1>s, <3>3
  <2>2. CASE ~BefsExpanded(s)
    BY <1>5, <1>u, <2>2 DEF BefsStep, BefsPassOver, BefsSuspend, BefsSolved,
                            BefsPerformMoves, BefsExhausted
  <2> QED
    BY <2>1, <2>2
<1>6. CASE \/ SkipFinished \/ RunScan \/ ScanReturned \/ (\E x \in todo : KnownState(x))
           \/ StartOptimizing \/ OptimizationReturned \/ Resume \/ Stopped \/ UNCHANGED vars
  BY <1>6, <1>u DEF SkipFinished, RunScan, ScanReturned, StartOptimizing, KnownState,
                    OptimizationReturned, Resume, Stopped, vars
<1> QED
  BY <1>1, <1>2, <1>3, <1>4, <1>5, <1>6 DEF Next, Solve, CheckState

-----------------------------------------------------------------------------
(***************************************************************************)
(* The optimization scan.  The flagged path is closed under parents; what  *)
(* the scan has done has all its derived states of the path done or ahead; *)
(* so it cannot run out of states before it has come to the solved one.    *)
(***************************************************************************)
Done == Flagged(info, "in_optimized_path")
OnQueue == Items(queue[Opt])
Ahead == OnQueue \cup {ptr_state[Opt]}

PathInv ==
    /\ ret = "solved" => final_state = Solved
    /\ pc = "trace" => ret = "solved"
    /\ ~optimizing => /\ Done = {}
                      /\ queue[Opt] = <<>>
                      /\ ptr_state[Opt] = state_copy
    /\ ~optimizing /\ pc # "trace" => SolutionPath = {}
    /\ optimizing => trace_at = NoState
    /\ pc = "trace" \/ optimizing =>
          /\ Solved \in SolutionPath \cup {trace_at}
          /\ \A k \in SolutionPath : k # state_copy =>
                info[k].parent \in SolutionPath \cup {trace_at}

FrontierInv ==
    optimizing =>
    /\ ret # "unsolvable"
    /\ ptr_state[Opt] = NoState => queue[Opt] = <<>>
    /\ Solved \notin Done
    /\ state_copy \in Done \cup Ahead
    /\ \A p \in Done : \A k \in Derived(p, AllMoves) :
          k \in SolutionPath => k \in Done \cup Ahead
    /\ pc = "derive" => /\ ptr_state[Opt] \in SolutionPath /\ ptr_state[Opt] # Solved
                        /\ Derived(ptr_state[Opt], AllMoves) \subseteq todo \cup OnQueue

\* The solution path is the set of states flagged as such.
LEMMA PathIsFlagged == SolutionPath = Flagged(info, "in_solution_path")
BY DEF SolutionPath, Flagged, Stored

\* In a set of stored states one is nearest to the deal.
LEMMA LeastDepth ==
    ASSUME TypeOK, NEW T \in SUBSET Stored, T # {}
    PROVE  \E k \in T : \A j \in T : info[k].depth <= info[j].depth
<1> DEFINE R == OpToRel(<, Nat)
           D == {info[j].depth : j \in T}
<1>1. \A j \in T : info[j].depth \in Nat
  BY TypesOfStored DEF TypeOK, InfoOf
<1>2. D \subseteq Nat /\ D # {}
  BY <1>1
<1>3. IsWellFoundedOn(R, Nat)
  BY NatLessThanWellFounded
<1>4. PICK d \in D : \A e \in D : ~(<<e, d>> \in R)
  BY <1>2, <1>3, WFMin
<1>5. \A e \in D : ~(e < d)
  BY <1>2, <1>4 DEF OpToRel
<1>6. PICK k \in T : d = info[k].depth
  BY <1>4
<1>7. \A j \in T : ~(info[j].depth < info[k].depth)
  BY <1>5, <1>6
<1>8. \A j \in T : info[k].depth <= info[j].depth
  BY <1>1, <1>7
<1> QED
  BY <1>8

\* A set of stored states that is not empty has one whose parent is outside.
LEMMA SomeParentOutside ==
    ASSUME IInv, NEW T \in SUBSET Stored, T # {}
    PROVE  \E k \in T : k = state_copy \/ info[k].parent \in Stored \ T
<1>1. PICK k \in T : \A j \in T : info[k].depth <= info[j].depth
  BY LeastDepth DEF IInv
<1>2. CASE k = state_copy
  BY <1>2
<1>3. CASE k # state_copy
  <2>1. info[k].parent \in Stored /\ info[info[k].parent].depth < info[k].depth
    BY <1>3 DEF IInv, TreeInv, ParentsDerive
  <2>2. info[info[k].parent].depth \in Nat /\ info[k].depth \in Nat
    BY <2>1, TypesOfStored DEF IInv, TypeOK, InfoOf
  <2>3. info[k].parent \notin T
    <3> SUFFICES ASSUME info[k].parent \in T PROVE FALSE
      OBVIOUS
    <3>1. info[k].depth <= info[info[k].parent].depth
      BY <1>1
    <3> QED
      BY <2>1, <2>2, <3>1
  <2> QED
    BY <2>1, <2>3
<1> QED
  BY <1>2, <1>3

\* The solution path is stored.
LEMMA PathInStored ==
    ASSUME IInv
    PROVE  SolutionPath \subseteq Stored /\ NoState \notin Stored
BY StatesAssumption DEF SolutionPath, IInv, TypeOK

\* While the optimization runs, the path goes from the deal to the solved state.
LEMMA DealOnPath ==
    ASSUME IInv, PathInv, optimizing, Solved \in Stored
    PROVE  state_copy \in SolutionPath /\ Solved \in SolutionPath
<1>1. trace_at = NoState /\ Solved \in SolutionPath
  BY StatesAssumption, PathInStored DEF PathInv
<1>2. PICK k \in SolutionPath : k = state_copy \/ info[k].parent \in Stored \ SolutionPath
  BY <1>1, PathInStored, SomeParentOutside
<1>3. k = state_copy
  BY <1>1, <1>2, PathInStored DEF PathInv
<1> QED
  BY <1>1, <1>2, <1>3

\* Every state of it but the deal has a parent on it, one step nearer to the deal.
LEMMA SolvedIsOnPath ==
    ASSUME IInv, PathInv, optimizing
    PROVE  /\ state_copy \in SolutionPath /\ Solved \in SolutionPath
           /\ \A k \in SolutionPath : k # state_copy => info[k].parent \in SolutionPath
<1>1. trace_at = NoState /\ Solved \in SolutionPath
  BY StatesAssumption DEF PathInv
<1>2. \A k \in SolutionPath : k # state_copy => info[k].parent \in SolutionPath
  <2> TAKE k \in SolutionPath
  <2> HAVE k # state_copy
  <2>1. info[k].parent \in Stored
    BY PathInStored DEF IInv, TreeInv, ParentsDerive
  <2> QED
    BY <1>1, <2>1, PathInStored DEF PathInv
<1> QED
  BY <1>1, <1>2, PathInStored, DealOnPath

\* With nothing ahead, all of the path would be done, and Solved is never done.
LEMMA NeverExhausted ==
    ASSUME IInv, PathInv, FrontierInv, optimizing
    PROVE  ptr_state[Opt] # NoState
<1> SUFFICES ASSUME ptr_state[Opt] = NoState PROVE FALSE
  OBVIOUS
<1>1. OnQueue = {} /\ Ahead = {NoState}
  BY EmptyHasNoItems DEF FrontierInv, OnQueue, Ahead
<1>2. /\ state_copy \in SolutionPath /\ Solved \in SolutionPath
      /\ \A k \in SolutionPath : k # state_copy => info[k].parent \in SolutionPath
  BY SolvedIsOnPath
<1> DEFINE T == SolutionPath \ Done
<1>3. T \subseteq Stored /\ Solved \in T /\ NoState \notin Stored
  BY <1>2, PathInStored DEF FrontierInv
<1>4. PICK k \in T : k = state_copy \/ info[k].parent \in Stored \ T
  BY <1>3, SomeParentOutside
<1>5. state_copy \in Done
  BY <1>1, <1>2, <1>3, PathInStored DEF FrontierInv
<1>6. k # state_copy /\ info[k].parent \in Done
  BY <1>2, <1>4, <1>5
<1>7. k \in Derived(info[k].parent, AllMoves)
  BY <1>3, <1>6 DEF IInv, TreeInv, ParentsDerive
<1> QED
  BY <1>1, <1>3, <1>6, <1>7 DEF FrontierInv

\* There is no path yet.
LEMMA InitPathInv == Init => PathInv /\ FrontierInv
<1> SUFFICES ASSUME Init PROVE PathInv /\ FrontierInv
  OBVIOUS
<1>1. SolutionPath = {} /\ Done = {}
  BY DEF Init, SolutionPath, Done, Flagged, Stored, NewInfo
<1>2. queue[Opt] = <<>> /\ ptr_state[Opt] = state_copy
  BY DEF Init, SoftThreads
<1> QED
  BY <1>1, <1>2 DEF Init, PathInv, FrontierInv

\* What the search does before the optimization is out of the latter's way.
LEMMA OptIsIdle ==
    ASSUME IInv, ~optimizing, [Next]_vars
    PROVE  queue'[Opt] = queue[Opt] /\ ptr_state'[Opt] = ptr_state[Opt]
<1> USE DEF IInv
<1>0. queue \in [SoftThreads -> Seq(Stored)] /\ ptr_state \in [SoftThreads -> StatePtr]
      /\ Current # Opt /\ Current \in SoftThreads /\ Opt \in SoftThreads
  BY CurrentIsScan, OptIsNoScan DEF TypeOK, SoftThreads
<1>1. ASSUME NEW x \in todo, CheckState(x)
      PROVE  queue'[Opt] = queue[Opt] /\ ptr_state' = ptr_state
  BY <1>0, <1>1 DEF CheckState, AddNewState, KnownState, LeaveOldParent, ListDerived
<1>2. ASSUME NEW s \in SoftThreads, BefsStep(s)
      PROVE  queue'[Opt] = queue[Opt] /\ ptr_state'[Opt] = ptr_state[Opt]
  <2>1. s # Opt
    BY <1>0, <1>2 DEF BefsStep, BefsPassOver, BefsSuspend, BefsSolved, BefsPerformMoves,
                      BefsExpanded, BefsExhausted, Holding, Scanning
  <2>2. TakeNext(s) \/ (queue' = queue /\ ptr_state' = ptr_state)
    BY <1>2 DEF BefsStep, BefsPassOver, BefsSuspend, BefsSolved, BefsPerformMoves,
                BefsExpanded, BefsExhausted, scanVars
  <2> QED
    BY <1>0, <2>1, <2>2, TakeNextKeeps
<1>3. ASSUME NEW s \in Scans, DfsStep(s)
      PROVE  queue' = queue /\ ptr_state' = ptr_state
  BY <1>3 DEF DfsStep, DfsEnter, DfsSolved, DfsRunMoves, DfsBacktrack, DfsDerived, scanVars
<1>4. CASE \/ MarkParent \/ JoinNewParent \/ SkipFinished \/ RunScan \/ ScanReturned
           \/ TraceSolution \/ StartOptimizing \/ OptimizationReturned \/ Resume
           \/ Stopped \/ UNCHANGED vars
  BY <1>4 DEF MarkParent, JoinNewParent, SkipFinished, RunScan, ScanReturned, TraceSolution,
              StartOptimizing, OptimizationReturned, Resume, Stopped, vars, scanVars
<1> QED
  BY <1>1, <1>2, <1>3, <1>4 DEF Next, Solve

\* The search before: what ends it in "solved" has come to the solved position.
LEMMA StepPathInvSearch ==
    ASSUME IInv, PathInv, [Next]_vars, ~optimizing, ~TraceSolution, ~StartOptimizing
    PROVE  PathInv' /\ ~optimizing'
<1> USE DEF IInv
<1>1. queue'[Opt] = queue[Opt] /\ ptr_state'[Opt] = ptr_state[Opt]
  BY OptIsIdle
<1>2. SolutionPath' = SolutionPath /\ Done' = Done
  <2>1. CASE SamePaths
    BY <2>1 DEF SamePaths, PathFlags, SolutionPath, Done, Flagged, Stored
  <2>2. CASE JoinNewParent
    <3> DEFINE i == IF Dead(reparented) THEN info ELSE OneChildMore(info, Expanded)
               n == info[Expanded].depth + 1
    <3>1. info \in [Stored -> InfoOf(Stored)]
      BY TypesOfStored DEF TypeOK
    <3>2. i \in [Stored -> InfoOf(Stored)] /\ \A g : Flagged(i, g) = Flagged(info, g)
      BY <3>1, OneChildMoreKeeps, CountsKeepFlags
    <3>3. info' = [i EXCEPT ![reparented].parent = Expanded, ![reparented].depth = n]
      BY <2>2 DEF JoinNewParent
    <3> HIDE DEF i, n
    <3>4. \A g : Flagged(info', g) = Flagged(i, g)
      BY <3>2, <3>3 DEF Flagged, InfoOf
    <3> QED
      BY <3>2, <3>4 DEF SolutionPath, Done, Flagged, Stored
  <2> QED
    BY <2>1, <2>2, StepKeepsPaths
<1>3. ~optimizing' /\ state_copy' = state_copy
  <2>1. ASSUME NEW s \in SoftThreads, BefsStep(s)
        PROVE  ~optimizing' /\ state_copy' = state_copy
    BY <2>1 DEF BefsStep, BefsPassOver, BefsSuspend, BefsSolved, BefsPerformMoves,
                BefsExpanded, BefsExhausted, fixedVars
  <2>2. ASSUME NEW s \in Scans, DfsStep(s)
        PROVE  ~optimizing' /\ state_copy' = state_copy
    BY <2>2 DEF DfsStep, DfsEnter, DfsSolved, DfsRunMoves, DfsBacktrack, DfsDerived,
                fixedVars
  <2>3. ASSUME NEW x \in todo, CheckState(x)
        PROVE  ~optimizing' /\ state_copy' = state_copy
    BY <2>3 DEF CheckState, AddNewState, KnownState, LeaveOldParent, fixedVars
  <2>4. CASE MarkParent \/ JoinNewParent \/ SkipFinished \/ RunScan \/ ScanReturned
    BY <2>4 DEF MarkParent, JoinNewParent, SkipFinished, RunScan, ScanReturned, fixedVars
  <2>5. CASE OptimizationReturned \/ Resume \/ UNCHANGED vars
    BY <2>5 DEF OptimizationReturned, Resume, vars, fixedVars
  <2> QED
    BY <2>1, <2>2, <2>3, <2>4, <2>5 DEF Next, Solve, Stopped
<1>4. \/ pc = "trace" /\ pc' = pc /\ ret' = ret /\ final_state' = final_state
         /\ trace_at' = trace_at /\ (\A k \in Stored : info'[k].parent = info[k].parent)
      \/ pc # "trace" /\ pc' = "trace" /\ ret' = "solved"
         /\ final_state' = Solved /\ trace_at' = Solved
      \/ pc # "trace" /\ pc' # "trace" /\ (ret' = "solved" => final_state' = Solved)
  <2>1. ASSUME NEW s \in SoftThreads, BefsStep(s)
        PROVE  pc # "trace" /\ pc' # "trace" /\ (ret' = "solved" => final_state' = Solved)
    BY <2>1 DEF BefsStep, BefsPassOver, BefsSuspend, BefsSolved, BefsPerformMoves,
                BefsExpanded, BefsExhausted, Holding, Scanning, At, Return, PathInv,
                PlaceInv, Running
  <2>2. ASSUME NEW s \in Scans, DfsStep(s)
        PROVE  pc # "trace" /\ pc' # "trace" /\ (ret' = "solved" => final_state' = Solved)
    BY <2>2 DEF DfsStep, DfsEnter, DfsSolved, DfsRunMoves, DfsBacktrack, DfsDerived,
                Scanning, At, Return, PathInv, PlaceInv, Running
  <2>3. CASE MarkParent
    <3>1. pc' = pc /\ ret' = ret /\ final_state' = final_state /\ trace_at' = trace_at
      BY <2>3 DEF MarkParent
    <3>2. SameTree(info', info)
      BY <2>3, TypesOfStored, OneChildLessKeeps, WithFlagKeeps, SameTreeTrans
      DEF MarkParent, TypeOK, Flags
    <3> QED
      BY <3>1, <3>2 DEF PathInv, SameTree, Stored
  <2>4. CASE ScanReturned
    <3>1. pc = "returned" /\ final_state' = final_state /\ ret' = InstanceRet(finished')
          /\ pc' \in {"switch", "trace", "stopped"}
          /\ (pc' = "trace" => ret' = "solved" /\ trace_at' = final_state)
      BY <2>4 DEF ScanReturned, At
    <3>2. ret' = "solved" => ret = "solved"
      BY <3>1 DEF InstanceRet
    <3> QED
      BY <3>1, <3>2 DEF PathInv
  <2>5. CASE UNCHANGED vars
    BY <2>5 DEF vars, localVars, PathInv
  <2>6. CASE \/ JoinNewParent \/ (\E x \in todo : CheckState(x))
             \/ SkipFinished \/ RunScan \/ OptimizationReturned \/ Resume
    BY <2>6 DEF JoinNewParent, CheckState, AddNewState, KnownState, LeaveOldParent, At,
                SkipFinished, RunScan, OptimizationReturned, Resume, PathInv, PlaceInv,
                Running
  <2> QED
    BY <2>1, <2>2, <2>3, <2>4, <2>5, <2>6 DEF Next, Solve, Stopped
<1>5. SolutionPath \subseteq Stored
  BY PathInStored
<1> QED
  BY <1>1, <1>2, <1>3, <1>4, <1>5 DEF PathInv

\* The trace flags one state a turn, up to the deal.
LEMMA StepPathInvTrace ==
    ASSUME IInv, PathInv, TraceSolution \/ StartOptimizing
    PROVE  PathInv' /\ (optimizing' => FrontierInv')
<1> USE DEF IInv
<1>0. /\ pc = "trace" /\ ~optimizing /\ state_copy' = state_copy
      /\ queue' = queue /\ ptr_state' = ptr_state /\ final_state' = final_state
      /\ ret = "solved"
  BY DEF TraceSolution, StartOptimizing, At, PlaceInv, PathInv, fixedVars, scanVars
<1>1. CASE TraceSolution
  <2>1. /\ info \in [Stored -> InfoOf(Stored)] /\ trace_at \in Stored
        /\ "in_solution_path" \in Flags
    BY <1>1, TypesOfStored DEF TraceSolution, TypeOK, StatePtr, Flags
  <2>2. /\ info' = WithFlag(info, trace_at, "in_solution_path")
        /\ trace_at' = info[trace_at].parent
        /\ ret' = ret /\ pc' = pc /\ optimizing' = optimizing
    BY <1>1 DEF TraceSolution
  <2>3. Flagged(info', "in_solution_path") = Flagged(info, "in_solution_path") \cup {trace_at}
        /\ Flagged(info', "in_optimized_path") = Flagged(info, "in_optimized_path")
    BY <2>1, <2>2, WithFlagFlags
  <2>4. SolutionPath' = SolutionPath \cup {trace_at} /\ Done' = Done
    BY <2>3 DEF SolutionPath, Done, Flagged, Stored
  <2>5. \A k \in Stored : info'[k].parent = info[k].parent
    BY <2>1, <2>2, WithFlagKeeps DEF SameTree
  <2>6. SolutionPath \subseteq Stored
    BY PathInStored
  <2> QED
    BY <1>0, <2>1, <2>2, <2>4, <2>5, <2>6 DEF PathInv
<1>2. CASE StartOptimizing
  <2>1. /\ trace_at = NoState /\ optimizing' /\ ret' = "none" /\ pc' = "scan"
        /\ info' = info /\ trace_at' = trace_at
    BY <1>2 DEF StartOptimizing, localVars
  <2>2. SolutionPath' = SolutionPath /\ Done' = {}
    BY <1>0, <2>1 DEF SolutionPath, Done, Flagged, Stored, PathInv
  <2>3. PathInv'
    BY <1>0, <2>1, <2>2 DEF PathInv
  <2>4. ptr_state'[Opt] = state_copy /\ state_copy \in Stored /\ NoState \notin Stored
    BY <1>0, PathInStored DEF PathInv, TreeInv
  <2> QED
    BY <1>0, <2>1, <2>2, <2>3, <2>4 DEF FrontierInv, Ahead
<1> QED
  BY <1>1, <1>2

\* The optimization scan itself.
LEMMA StepPathInvOptimize ==
    ASSUME IInv, PathInv, FrontierInv, [Next]_vars, optimizing
    PROVE  PathInv' /\ FrontierInv'
<1> USE DEF IInv
<1>0. /\ queue \in [SoftThreads -> Seq(Stored)] /\ ptr_state \in [SoftThreads -> StatePtr]
      /\ Current = Opt /\ ~IsDfs(Opt) /\ Opt \in SoftThreads
      /\ info \in [Stored -> InfoOf(Stored)] /\ trace_at = NoState
      /\ pc # "switch" /\ pc # "trace"
      /\ SolutionPath \subseteq Stored /\ NoState \notin Stored
  BY PathInStored, TypesOfStored
  DEF TypeOK, SoftThreads, Current, IsDfs, PathInv, PlaceInv
<1>p. /\ state_copy \in SolutionPath /\ Solved \in SolutionPath
      /\ \A k \in SolutionPath : k # state_copy => info[k].parent \in SolutionPath
  BY SolvedIsOnPath
<1>s. ASSUME SamePaths PROVE SolutionPath' = SolutionPath /\ Done' = Done
  BY <1>s DEF SamePaths, PathFlags, SolutionPath, Done, Flagged, Stored
<1>1. CASE MarkParent
  <2>1. SamePaths
    BY <1>0, <1>1, StepKeepsPaths
    DEF MarkParent, TraceSolution, JoinNewParent, BefsExpanded, At
  <2>2. UNCHANGED <<queue, ptr_state, state_copy, optimizing, final_state, ret, pc, todo,
                    trace_at>>
    BY <1>1 DEF MarkParent, scanVars, fixedVars
  <2> QED
    BY <1>0, <1>p, <1>s, <2>1, <2>2
    DEF PathInv, FrontierInv, Ahead, OnQueue, SamePaths, Derived, AllMoves, MovesOf
<1>2. CASE JoinNewParent
  <2> DEFINE i == IF Dead(reparented) THEN info ELSE OneChildMore(info, Expanded)
             n == info[Expanded].depth + 1
  <2>1. /\ pc = "derive" /\ Expanded = ptr_state[Opt] /\ Expanded \in SolutionPath
    BY <1>0, <1>2 DEF JoinNewParent, PlaceInv, Expanded, FrontierInv
  <2>2. /\ i \in [Stored -> InfoOf(Stored)] /\ SameTree(i, info)
        /\ \A g : Flagged(i, g) = Flagged(info, g)
    BY <1>0, OneChildMoreKeeps, CountsKeepFlags DEF SameTree
  <2>3. info' = [i EXCEPT ![reparented].parent = Expanded, ![reparented].depth = n]
    BY <1>2 DEF JoinNewParent
  <2> HIDE DEF i, n
  <2>4. /\ \A g : Flagged(info', g) = Flagged(i, g)
        /\ Stored' = Stored
        /\ \A k \in Stored : info'[k].parent \in {info[k].parent, Expanded}
    BY <2>2, <2>3 DEF Flagged, InfoOf, SameTree, Stored
  <2>5. SolutionPath' = SolutionPath /\ Done' = Done
    BY <2>2, <2>4 DEF SolutionPath, Done, Flagged, Stored
  <2>6. UNCHANGED <<queue, ptr_state, state_copy, optimizing, final_state, ret, pc, todo,
                    trace_at>>
    BY <1>2 DEF JoinNewParent, scanVars, fixedVars
  <2> QED
    BY <1>0, <1>p, <2>1, <2>4, <2>5, <2>6
    DEF PathInv, FrontierInv, Ahead, OnQueue, Derived, AllMoves, MovesOf
<1>3. ASSUME NEW x \in todo, CheckState(x)
      PROVE  PathInv' /\ FrontierInv'
  <2>1. /\ UNCHANGED <<ptr_state, state_copy, optimizing, final_state, ret, pc, trace_at>>
        /\ todo' = todo \ {x} /\ ListDerived(x) /\ pc = "derive"
    BY <1>3 DEF CheckState, AddNewState, KnownState, LeaveOldParent, At, fixedVars
  <2>2. SamePaths
    BY <1>0, <1>3, <2>1, StepKeepsPaths
    DEF TraceSolution, JoinNewParent, BefsExpanded, At, CheckState, AddNewState, KnownState,
        LeaveOldParent, Next, Solve
  <2>3. OnQueue' = OnQueue \cup {x}
    BY <1>0, <2>1, ListDerivedItems DEF OnQueue
  <2>4. PathInv'
    BY <1>0, <1>p, <1>s, <2>1, <2>2 DEF PathInv, SamePaths
  <2>5. /\ \A k \in SolutionPath : k \in Done \cup Ahead => k \in Done \cup Ahead'
        /\ Ahead' \subseteq Ahead \cup {x} /\ OnQueue' \subseteq Ahead'
    BY <2>1, <2>3 DEF Ahead
  <2>6. FrontierInv'
    BY <1>0, <1>p, <1>s, <2>1, <2>2, <2>3, <2>5
    DEF FrontierInv, Derived, AllMoves, MovesOf
  <2> QED
    BY <2>4, <2>6
<1>4. ASSUME NEW s \in Scans, DfsStep(s)
      PROVE  FALSE
  <2>1. s = Current /\ s # Opt
    BY <1>4, OptIsNoScan DEF DfsStep, DfsEnter, DfsSolved, DfsRunMoves, DfsBacktrack,
                             DfsDerived, Scanning
  <2> QED
    BY <1>0, <2>1
<1>5. ASSUME NEW s \in SoftThreads, BefsStep(s)
      PROVE  PathInv' /\ FrontierInv'
  <2>0. /\ s = Opt /\ UNCHANGED <<state_copy, optimizing, trace_at>>
    BY <1>0, <1>5 DEF BefsStep, BefsPassOver, BefsSuspend, BefsSolved, BefsPerformMoves,
                      BefsExpanded, BefsExhausted, Holding, Scanning, fixedVars, localVars
  <2>i. /\ Stored' = Stored /\ \A k \in Stored : info'[k].parent = info[k].parent
    <3>1. CASE SamePaths /\ info' = info
      BY <3>1 DEF SamePaths, Stored
    <3>2. CASE BefsExpanded(s)
      <4> DEFINE k == ptr_state[s]
                 i == IF Complete(s) THEN WithFlag(info, k, "all_tests_done") ELSE info
      <4>a. "all_tests_done" \in Flags /\ "in_optimized_path" \in Flags
        BY DEF Flags
      <4>b. SameTree(info, info)
        BY DEF SameTree
      <4>c. WithFlag(info, k, "all_tests_done") \in [Stored -> InfoOf(Stored)]
            /\ SameTree(WithFlag(info, k, "all_tests_done"), info)
        BY <1>0, <4>a, WithFlagKeeps
      <4>1. i \in [Stored -> InfoOf(Stored)] /\ SameTree(i, info)
        BY <1>0, <4>b, <4>c
      <4>2. info' = WithFlag(i, k, "in_optimized_path")
        BY <3>2 DEF BefsExpanded
      <4> HIDE DEF i, k
      <4>3. SameTree(info', i)
        BY <4>1, <4>2, <4>a, WithFlagKeeps
      <4> QED
        BY <4>1, <4>3 DEF SameTree, Stored
    <3>3. CASE ~BefsExpanded(s)
      BY <1>5, <3>3 DEF BefsStep, BefsPassOver, BefsSuspend, BefsSolved, BefsPerformMoves,
                        BefsExhausted, Stored
    <3> QED
      BY <3>2, <3>3
  <2>f. ASSUME info' = info PROVE SolutionPath' = SolutionPath /\ Done' = Done
    BY <2>f DEF SolutionPath, Done, Flagged, Stored
  <2>1. CASE BefsPassOver(s)
    <3>1. info' = info /\ UNCHANGED <<final_state, ret, pc, todo>> /\ pc = "scan"
      BY <2>1 DEF BefsPassOver, Holding, Scanning, At, localVars
    <3>2. OnQueue \subseteq Ahead' /\ (ptr_state'[Opt] = NoState => queue'[Opt] = <<>>)
      BY <2>0, <2>1, TakeNextItems DEF BefsPassOver, OnQueue, Ahead
    <3>3. ptr_state[Opt] \in SolutionPath => ptr_state[Opt] \in Done
      BY <2>0, <2>1, PathInStored DEF BefsPassOver, PassOver, Done, Flagged, SolutionPath, Stored
    <3>4. \A k \in SolutionPath : k \in Done \cup Ahead => k \in Done \cup Ahead'
      BY <3>2, <3>3 DEF Ahead
    <3>5. FrontierInv'
      BY <1>p, <2>0, <2>f, <3>1, <3>2, <3>4
      DEF FrontierInv, Derived, AllMoves, MovesOf
    <3> QED
      BY <1>0, <1>p, <2>0, <2>i, <2>f, <3>1, <3>5 DEF PathInv
  <2>2. CASE BefsSuspend(s) \/ BefsSolved(s)
    <3>1. /\ info' = info /\ UNCHANGED <<queue, ptr_state>> /\ pc' = "returned"
          /\ ret' = "suspended" \/ (ret' = "solved" /\ final_state' = Solved)
      BY <2>2 DEF BefsSuspend, BefsSolved, Return, scanVars
    <3>2. FrontierInv'
      BY <1>0, <2>0, <2>f, <3>1
      DEF FrontierInv, Ahead, OnQueue, Derived, AllMoves, MovesOf
    <3> QED
      BY <1>0, <1>p, <2>0, <2>i, <2>f, <3>1, <3>2 DEF PathInv
  <2>3. CASE BefsPerformMoves(s)
    <3>1. /\ info' = info /\ UNCHANGED <<queue, ptr_state, final_state, ret>>
          /\ pc = "scan" /\ pc' = "derive" /\ ptr_state[Opt] # Solved
          /\ todo' = Derived(ptr_state[Opt], AllMoves)
      BY <2>0, <2>3 DEF BefsPerformMoves, Holding, Scanning, At, scanVars
    <3>2. ptr_state[Opt] \in SolutionPath
      <4>1. ptr_state[Opt] \in Stored
        BY <1>0, <2>0, <2>3 DEF BefsPerformMoves, Holding, StatePtr
      <4> QED
        BY <2>0, <2>3, <4>1 DEF BefsPerformMoves, PassOver, SolutionPath
    <3>3. FrontierInv'
      BY <1>0, <2>0, <2>f, <3>1, <3>2
      DEF FrontierInv, Ahead, OnQueue, Derived, AllMoves, MovesOf
    <3> QED
      BY <1>0, <1>p, <2>0, <2>i, <2>f, <3>1, <3>3 DEF PathInv
  <2>4. CASE BefsExpanded(s)
    <3> DEFINE k == ptr_state[s]
               i == IF Complete(s) THEN WithFlag(info, k, "all_tests_done") ELSE info
    <3>1. /\ UNCHANGED <<final_state, ret>> /\ pc = "derive" /\ pc' = "scan" /\ todo = {}
          /\ TakeNext(s) /\ info' = WithFlag(i, k, "in_optimized_path")
      BY <2>4 DEF BefsExpanded, At
    <3>2. k \in SolutionPath /\ k # Solved /\ Derived(k, AllMoves) \subseteq OnQueue
      BY <2>0, <3>1 DEF FrontierInv
    <3>a. "all_tests_done" \in Flags /\ "all_tests_done" \notin PathFlags
      BY DEF Flags, PathFlags
    <3>b. /\ WithFlag(info, k, "all_tests_done") \in [Stored -> InfoOf(Stored)]
          /\ \A g \in PathFlags : Flagged(WithFlag(info, k, "all_tests_done"), g)
                                    = Flagged(info, g)
      BY <1>0, <3>a, WithFlagKeeps, WithFlagFlags, SMTT(40)
    <3>3. /\ i \in [Stored -> InfoOf(Stored)]
          /\ \A g \in PathFlags : Flagged(i, g) = Flagged(info, g)
      BY <1>0, <3>b
    <3>k. k \in Stored
      BY <1>0, <3>2
    <3> HIDE DEF i, k
    <3>4. Flagged(info', "in_solution_path") = Flagged(i, "in_solution_path")
          /\ Flagged(info', "in_optimized_path") = Flagged(i, "in_optimized_path") \cup {k}
      BY <3>1, <3>3, <3>k, WithFlagFlags DEF Flags
    <3>5. SolutionPath' = SolutionPath /\ Done' = Done \cup {k}
      BY <3>3, <3>4 DEF PathFlags, SolutionPath, Done, Flagged, Stored
    <3>6. OnQueue \subseteq Ahead' /\ (ptr_state'[Opt] = NoState => queue'[Opt] = <<>>)
      BY <2>0, <3>1, TakeNextItems DEF OnQueue, Ahead
    <3>7. Ahead \subseteq Ahead' \cup {k}
      BY <2>0, <3>6 DEF Ahead, k
    <3>8. FrontierInv'
      BY <1>p, <2>0, <3>1, <3>2, <3>5, <3>6, <3>7
      DEF FrontierInv, Derived, AllMoves, MovesOf
    <3> QED
      BY <1>0, <1>p, <2>0, <2>i, <3>1, <3>5, <3>8 DEF PathInv
  <2>5. CASE BefsExhausted(s)
    BY <2>0, <2>5, NeverExhausted DEF BefsExhausted
  <2> QED
    BY <1>5, <2>1, <2>2, <2>3, <2>4, <2>5 DEF BefsStep
<1>6. CASE SkipFinished \/ RunScan \/ ScanReturned \/ TraceSolution \/ StartOptimizing
  BY <1>0, <1>6 DEF SkipFinished, RunScan, ScanReturned, TraceSolution, StartOptimizing, At
<1>7. CASE OptimizationReturned \/ Resume \/ UNCHANGED vars
  <2>1. /\ UNCHANGED <<queue, ptr_state, info, state_copy, optimizing, trace_at, final_state,
                       todo>>
        /\ ret' \in {ret, "none"} /\ pc' # "trace"
        /\ pc' = "derive" => pc = "derive"
    BY <1>0, <1>7 DEF OptimizationReturned, Resume, vars, scanVars, fixedVars, localVars
  <2>2. SolutionPath' = SolutionPath /\ Done' = Done
    BY <2>1 DEF SolutionPath, Done, Flagged, Stored
  <2> QED
    BY <1>0, <1>p, <2>1, <2>2
    DEF PathInv, FrontierInv, Ahead, OnQueue, Derived, AllMoves, MovesOf
<1> QED
  BY <1>1, <1>2, <1>3, <1>4, <1>5, <1>6, <1>7 DEF Next, Solve, Stopped

\* Before and during the optimization the path stays what the trace made it.
LEMMA StepPathInv ==
    ASSUME IInv, PathInv, FrontierInv, [Next]_vars
    PROVE  PathInv' /\ FrontierInv'
<1>1. CASE optimizing
  BY <1>1, StepPathInvOptimize
<1>2. CASE TraceSolution \/ StartOptimizing
  BY <1>2, StepPathInvTrace DEF FrontierInv
<1>3. CASE ~optimizing /\ ~TraceSolution /\ ~StartOptimizing
  BY <1>3, StepPathInvSearch DEF FrontierInv
<1> QED
  BY <1>1, <1>2, <1>3

\* SolvedStaysSolved: the optimization scan never loses the solution that was
\* found: it comes to the solved position before it runs out of states.
THEOREM SolutionIsKept == Spec => []SolvedStaysSolved
<1>1. Init => IInv /\ PathInv /\ FrontierInv
  BY InitIInv, InitPathInv
<1>2. IInv /\ PathInv /\ FrontierInv /\ [Next]_vars => IInv' /\ PathInv' /\ FrontierInv'
  BY StepTypeOK, StepPlaceInv, StepTreeInv, StepPathInv DEF IInv
<1>3. FrontierInv => SolvedStaysSolved
  BY DEF FrontierInv, SolvedStaysSolved
<1> QED
  BY <1>1, <1>2, <1>3, PTL DEF Spec

-----------------------------------------------------------------------------
(***************************************************************************)
(* Induction over an interval, for sets: what the recursive functions of   *)
(* the properties compute is followed step by step with it.                *)
(***************************************************************************)
LEMMA LeastNumber ==
    ASSUME NEW T \in SUBSET Nat, T # {}
    PROVE  \E d \in T : \A e \in T : d <= e
<1> DEFINE R == OpToRel(<, Nat)
<1>1. IsWellFoundedOn(R, Nat)
  BY NatLessThanWellFounded
<1>2. PICK d \in T : \A e \in T : ~(<<e, d>> \in R)
  BY <1>1, WFMin
<1>3. \A e \in T : ~(e < d)
  BY <1>2 DEF OpToRel
<1>4. d \in Nat /\ T \subseteq Nat
  BY <1>2
<1>5. ASSUME NEW e \in T PROVE d <= e
  <2>1. e \in Nat /\ ~(e < d)
    BY <1>3, <1>4
  <2> QED
    BY <1>4, <2>1
<1> QED
  BY <1>2, <1>5

\* Induction over the numbers of an interval.
LEMMA UpAnInterval ==
    ASSUME NEW b \in Nat, NEW m \in Nat, NEW S, b \in S,
           \A i \in b..(m - 1) : i \in S => i + 1 \in S
    PROVE  \A i \in b..m : i \in S
<1> DEFINE T == (b..m) \ S
<1> SUFFICES ASSUME T # {} PROVE FALSE
  OBVIOUS
<1>0. T \in SUBSET Nat
  OBVIOUS
<1>1. PICK d \in T : \A e \in T : d <= e
  <2> HIDE DEF T
  <2> QED
    BY <1>0, LeastNumber
<1>2. d # b /\ d \in b..m /\ d \notin S
  OBVIOUS
<1>3. d - 1 \in b..(m - 1) /\ d - 1 \notin T
  BY <1>1, <1>2
<1>4. d - 1 \in S
  BY <1>3
<1> QED
  BY <1>2, <1>3, <1>4

-----------------------------------------------------------------------------
(***************************************************************************)
(* The way up from k.                                                      *)
(***************************************************************************)
Parent(j) == IF j = NoState THEN NoState ELSE info[j].parent
WayUp(f, k, m) == f = [n \in 0..m |-> IF n = 0 THEN k ELSE Parent(f[n - 1])]

\* The way up from a state, parent by parent, exists at every length.
LEMMA WayUpExists ==
    ASSUME NEW k, NEW m \in Nat
    PROVE  \E f : WayUp(f, k, m)
<1> DEFINE S == {n \in 0..m : \E f : WayUp(f, k, n)}
<1>1. 0 \in S
  <2>1. WayUp([n \in 0..0 |-> k], k, 0)
    BY DEF WayUp
  <2> QED
    BY <2>1
<1>2. ASSUME NEW i \in 0..(m - 1), i \in S
      PROVE  i + 1 \in S
  <2>1. PICK f : WayUp(f, k, i)
    BY <1>2
  <2> DEFINE g == [n \in 0..(i + 1) |-> IF n = i + 1 THEN Parent(f[i]) ELSE f[n]]
  <2>2. \A n \in 0..i : f[n] = IF n = 0 THEN k ELSE Parent(f[n - 1])
    BY <2>1 DEF WayUp
  <2>3. \A n \in 0..(i + 1) : g[n] = IF n = 0 THEN k ELSE Parent(g[n - 1])
    <3> SUFFICES ASSUME NEW n \in 0..(i + 1)
                 PROVE  g[n] = IF n = 0 THEN k ELSE Parent(g[n - 1])
      OBVIOUS
    <3>1. CASE n = i + 1
      BY <3>1
    <3>2. CASE n # i + 1
      BY <2>2, <3>2
    <3> QED
      BY <3>1, <3>2
  <2>4. WayUp(g, k, i + 1)
    BY <2>3 DEF WayUp
  <2> QED
    BY <2>4
<1> HIDE DEF S
<1>3. m \in S
  BY <1>1, <1>2, UpAnInterval
<1> QED
  BY <1>3 DEF S

\* Up is that way: it begins at the state and goes on with parents.
LEMMA UpIsTheWay ==
    ASSUME NEW k, Cardinality(Stored) \in Nat
    PROVE  /\ Up(k)[0] = k
           /\ \A n \in 0..(Cardinality(Stored) - 1) : Up(k)[n + 1] = Parent(Up(k)[n])
<1> DEFINE N == Cardinality(Stored)
           R(f) == f = [n \in 0..Cardinality(Stored) |->
                          IF n = 0 THEN k
                          ELSE IF f[n - 1] = NoState THEN NoState
                          ELSE info[f[n - 1]].parent]
<1>1. Up(k) = CHOOSE f : R(f)
  BY Zenon DEF Up
<1>2. \E f : R(f)
  <2>1. PICK f : WayUp(f, k, N)
    BY WayUpExists
  <2>2. R(f)
    BY <2>1 DEF WayUp, Parent
  <2> QED
    BY <2>2
<1>3. R(CHOOSE f : R(f))
  <2> HIDE DEF R
  <2> QED
    BY <1>2
<1>4. R(Up(k))
  BY <1>1, <1>3, ZenonT(60)
<1>5. ASSUME NEW n \in 0..N
      PROVE  Up(k)[n] = IF n = 0 THEN k ELSE IF Up(k)[n - 1] = NoState THEN NoState
                        ELSE info[Up(k)[n - 1]].parent
  BY <1>4
<1> HIDE DEF R
<1>6. ASSUME NEW n \in 0..(N - 1) PROVE Up(k)[n + 1] = Parent(Up(k)[n])
  <2>1. n + 1 \in 0..N /\ n + 1 # 0 /\ (n + 1) - 1 = n
    OBVIOUS
  <2> QED
    BY <1>5, <2>1 DEF Parent
<1> QED
  BY <1>5, <1>6

-----------------------------------------------------------------------------
(***************************************************************************)
(* The flagged path.  From the solved position up, every step stays on it  *)
(* and comes nearer to the deal, until the deal is reached.                *)
(***************************************************************************)
OnTheWay(m) == \A i \in 0..(m - 1) : Up(Solved)[i] # state_copy

\* The way up from the solved state stays on the path until the deal is reached.
LEMMA StaysOnPath ==
    ASSUME IInv, PathInv, optimizing, Cardinality(Stored) \in Nat,
           NEW m \in 0..Cardinality(Stored), OnTheWay(m)
    PROVE  /\ \A i \in 0..m : Up(Solved)[i] \in SolutionPath
           /\ \A i \in 0..(m - 1) : info[Up(Solved)[i + 1]].depth < info[Up(Solved)[i]].depth
<1> DEFINE u == Up(Solved)
           S == {i \in 0..m : u[i] \in SolutionPath}
<1>1. /\ u[0] = Solved
      /\ \A i \in 0..(m - 1) : u[i + 1] = Parent(u[i]) /\ u[i] # state_copy
  BY UpIsTheWay DEF OnTheWay
<1>2. /\ state_copy \in SolutionPath /\ Solved \in SolutionPath
      /\ \A k \in SolutionPath : k # state_copy => info[k].parent \in SolutionPath
  BY SolvedIsOnPath
<1>3. SolutionPath \subseteq Stored /\ NoState \notin Stored
  BY PathInStored
<1> HIDE DEF u
<1>4. 0 \in S
  BY <1>1, <1>2
<1>5. \A i \in 0..(m - 1) : i \in S => i + 1 \in S
  BY <1>1, <1>2, <1>3 DEF Parent
<1> HIDE DEF S
<1>6. \A i \in 0..m : i \in S
  BY <1>4, <1>5, UpAnInterval
<1>7. \A i \in 0..m : u[i] \in SolutionPath
  BY <1>6 DEF S
<1>8. ASSUME NEW i \in 0..(m - 1)
      PROVE  info[u[i + 1]].depth < info[u[i]].depth
  <2>1. u[i] \in Stored /\ u[i] # state_copy /\ u[i + 1] = info[u[i]].parent
    BY <1>1, <1>3, <1>7 DEF Parent
  <2> QED
    BY <2>1 DEF IInv, TreeInv, ParentsDerive
<1> QED
  BY <1>7, <1>8 DEF u

\* A way along which every step comes nearer to the deal meets no state twice.
LEMMA WayIsInjective ==
    ASSUME TypeOK, NEW u, NEW m \in Nat, \A i \in 0..m : u[i] \in Stored,
           \A i \in 0..(m - 1) : info[u[i + 1]].depth < info[u[i]].depth,
           NEW i \in 0..m, NEW j \in 0..m, i < j
    PROVE  u[i] # u[j]
<1> DEFINE S == {n \in (i + 1)..m : info[u[n]].depth < info[u[i]].depth}
<1>1. \A n \in 0..m : info[u[n]].depth \in Nat
  BY TypesOfStored DEF TypeOK, InfoOf
<1>2. i + 1 \in S
  OBVIOUS
<1>3. ASSUME NEW n \in (i + 1)..(m - 1), n \in S PROVE n + 1 \in S
  <2>1. /\ info[u[n + 1]].depth < info[u[n]].depth
        /\ info[u[n]].depth < info[u[i]].depth
    BY <1>3
  <2>2. /\ info[u[n + 1]].depth \in Nat /\ info[u[n]].depth \in Nat
        /\ info[u[i]].depth \in Nat /\ n + 1 \in (i + 1)..m
    BY <1>1
  <2> QED
    BY <2>1, <2>2
<1>4. \A n \in (i + 1)..m : n \in S
  <2> HIDE DEF S
  <2>1. i + 1 \in Nat
    OBVIOUS
  <2> QED
    BY <1>2, <1>3, <2>1, UpAnInterval
<1>5. info[u[j]].depth < info[u[i]].depth
  BY <1>4
<1> QED
  BY <1>1, <1>5

\* ... so it has at most as many states as the path.
LEMMA WayIsShort ==
    ASSUME IInv, NEW u, NEW m \in Nat, NEW P \in SUBSET Stored,
           \A i \in 0..m : u[i] \in P,
           \A i \in 0..(m - 1) : info[u[i + 1]].depth < info[u[i]].depth
    PROVE  m < Cardinality(P) /\ Cardinality(P) <= Cardinality(Stored)
<1>1. IsFiniteSet(Stored) /\ IsFiniteSet(P)
  BY StatesAssumption, FS_Subset DEF IInv, TypeOK
<1> DEFINE f == [i \in 0..m |-> u[i]]
<1>2. \A i, j \in 0..m : i < j => u[i] # u[j]
  BY WayIsInjective DEF IInv
<1>3. \A i, j \in 0..m : f[i] = f[j] => i = j
  BY <1>2
<1>4. f \in Injection(0..m, P)
  BY <1>3 DEF Injection, IsInjective
<1> HIDE DEF f
<1>5. IsFiniteSet(0..m) /\ Cardinality(0..m) = m + 1
  BY FS_Interval
<1>6. Cardinality(0..m) <= Cardinality(P)
  BY <1>1, <1>4, FS_Injection
<1>7. Cardinality(P) <= Cardinality(Stored) /\ Cardinality(P) \in Nat
  BY <1>1, FS_Subset, FS_CardinalityType
<1> QED
  BY <1>5, <1>6, <1>7

\* The way up from the solved position: where it first meets the deal is where
\* it ends, and PathLength finds that place.
LEMMA PathOfOptimized ==
    ASSUME IInv, PathInv, optimizing
    PROVE  /\ PathLength(Solved) \in Nat
           /\ PathLength(Solved) < Cardinality(SolutionPath)
           /\ \A n \in 0..PathLength(Solved) : Up(Solved)[n] \in SolutionPath
<1> DEFINE u == Up(Solved)
           N == Cardinality(Stored)
           T == {i \in 0..N : u[i] = state_copy}
           q == PathLength(Solved)
<1>1. IsFiniteSet(Stored) /\ N \in Nat
  BY StatesAssumption, FS_Subset, FS_CardinalityType DEF IInv, TypeOK
<1>2. \A n \in 0..(N - 1) : u[n + 1] = Parent(u[n])
  BY <1>1, UpIsTheWay
<1>3. /\ info[state_copy].parent = NoState /\ NoState # state_copy
      /\ SolutionPath \subseteq Stored
  BY PathInStored DEF IInv, TreeInv, ParentsDerive
<1>4. ASSUME NEW m \in 0..N, OnTheWay(m)
      PROVE  /\ \A i \in 0..m : u[i] \in SolutionPath
             /\ m < Cardinality(SolutionPath)
             /\ Cardinality(SolutionPath) <= N
  <2>1. /\ \A i \in 0..m : u[i] \in SolutionPath
        /\ \A i \in 0..(m - 1) : info[u[i + 1]].depth < info[u[i]].depth
    BY <1>1, <1>4, StaysOnPath
  <2> HIDE DEF u
  <2> QED
    BY <1>3, <2>1, WayIsShort
<1>5. T # {}
  <2> SUFFICES ASSUME T = {} PROVE FALSE
    OBVIOUS
  <2>1. OnTheWay(N)
    BY <1>1 DEF OnTheWay
  <2>2. N < Cardinality(SolutionPath) /\ Cardinality(SolutionPath) <= N
    BY <1>1, <1>4, <2>1
  <2>3. Cardinality(SolutionPath) \in Nat
    BY <1>1, <1>3, FS_Subset, FS_CardinalityType
  <2> QED
    BY <1>1, <2>2, <2>3
<1>6. q \in 0..N /\ u[q] = state_copy
  <2>1. \E n \in 0..N : u[n] = state_copy
    BY <1>5
  <2> QED
    BY <2>1 DEF PathLength
<1> HIDE DEF u, q
<1>7. OnTheWay(q)
  <2> SUFFICES ASSUME NEW i \in 0..(q - 1), u[i] = state_copy
               PROVE  FALSE
    BY DEF OnTheWay, u
  <2> DEFINE S == {n \in (i + 1)..q : u[n] = NoState}
  <2>1. i + 1 \in S
    BY <1>1, <1>2, <1>3, <1>6 DEF Parent
  <2>2. ASSUME NEW n \in (i + 1)..(q - 1), n \in S
        PROVE  n + 1 \in S
    BY <1>1, <1>2, <1>6, <2>2 DEF Parent
  <2> HIDE DEF S
  <2>3. \A n \in (i + 1)..q : n \in S
    <3>1. i + 1 \in Nat /\ q \in Nat
      BY <1>1, <1>6
    <3> QED
      BY <2>1, <2>2, <3>1, UpAnInterval
  <2>4. q \in (i + 1)..q
    BY <1>1, <1>6
  <2> QED
    BY <1>3, <1>6, <2>3, <2>4 DEF S
<1>8. /\ \A i \in 0..q : u[i] \in SolutionPath
      /\ q < Cardinality(SolutionPath)
  BY <1>4, <1>6, <1>7
<1> QED
  BY <1>1, <1>6, <1>8 DEF u, q

\* OptimizedNotLonger: the solution the optimization scan ends with runs from
\* the deal through states of the first solution and is no longer than it,
\* however the re-parenting interleaves with the suspensions.
THEOREM OptimizationOptimizes == Spec => []OptimizedNotLonger
<1>1. Init => IInv /\ PathInv /\ FrontierInv
  BY InitIInv, InitPathInv
<1>2. IInv /\ PathInv /\ FrontierInv /\ [Next]_vars => IInv' /\ PathInv' /\ FrontierInv'
  BY StepTypeOK, StepPlaceInv, StepTreeInv, StepPathInv DEF IInv
<1>3. IInv /\ PathInv /\ FrontierInv => OptimizedNotLonger
  BY PathOfOptimized DEF PathInv, OptimizedNotLonger
<1> QED
  BY <1>1, <1>2, <1>3, PTL DEF Spec
=============================================================================
