-------------------------- MODULE DbmCommonProofs --------------------------
(***************************************************************************)
(* What the proofs about both disk-backed solvers share: the orders in     *)
(* which derived keys reach a queue, queues that repeat nothing, and the   *)
(* trace that main collects along the parents of the store.                *)
(***************************************************************************)
EXTENDS DbmCommon, FiniteSetTheorems, TLAPS

\* An ordering of a finite set is a sequence over it that leaves nothing out.
LEMMA OrderingIsSeq ==
    ASSUME NEW S, IsFiniteSet(S), NEW s \in Orders(S)
    PROVE  /\ s \in Seq(S)
           /\ \A x \in S : \E i \in 1..Len(s) : s[i] = x
<1>1. Cardinality(S) \in Nat
  BY FS_CardinalityType
<1>2. s \in [1..Cardinality(S) -> S]
  BY DEF Orders
<1>3. s \in Seq(S) /\ Len(s) = Cardinality(S)
  BY <1>1, <1>2
<1> QED
  BY <1>3 DEF Orders

\* Appending keeps the items of both sequences; taking the head, all others.
LEMMA AppendKeepsItems ==
    ASSUME NEW S, NEW q \in Seq(S), NEW s \in Seq(S)
    PROVE  /\ \A i \in DOMAIN q : i \in DOMAIN (q \o s) /\ (q \o s)[i] = q[i]
           /\ \A i \in DOMAIN s : /\ Len(q) + i \in DOMAIN (q \o s)
                                  /\ (q \o s)[Len(q) + i] = s[i]
OBVIOUS

LEMMA TailKeepsItems ==
    ASSUME NEW S, NEW q \in Seq(S), q # <<>>, NEW i \in DOMAIN q
    PROVE  q[i] = Head(q) \/ \E j \in DOMAIN Tail(q) : Tail(q)[j] = q[i]
<1>1. CASE i = 1
  BY <1>1
<1>2. CASE i # 1
  <2>1. i - 1 \in DOMAIN Tail(q) /\ Tail(q)[i - 1] = q[i]
    BY <1>2
  <2> QED
    BY <2>1
<1> QED
  BY <1>1, <1>2

LEMMA EmptyHasNoItem ==
    ASSUME NEW S, NEW q \in Seq(S), q = <<>>
    PROVE  \A i \in DOMAIN q : FALSE
<1>1. DOMAIN q = 1..Len(q)
  OBVIOUS
<1>2. Len(q) = 0
  OBVIOUS
<1> QED
  BY ONLY <1>1, <1>2, SMT

\* An ordering of a finite set repeats nothing: it maps 1..n onto a set of n.
LEMMA OrderingRepeatsNothing ==
    ASSUME NEW S, IsFiniteSet(S), NEW s \in Orders(S)
    PROVE  \A i, j \in DOMAIN s : s[i] = s[j] => i = j
<1> DEFINE n == Cardinality(S)
<1>1. n \in Nat
  BY FS_CardinalityType
<1>2. s \in Surjection(1..n, S)
  BY DEF Orders, Surjection
<1>3. IsFiniteSet(1..n) /\ Cardinality(1..n) = n
  BY <1>1, FS_Interval
<1>4. s \in Injection(1..n, S)
  BY <1>2, <1>3, FS_SurjSameCardinalityImpliesInj
<1> QED
  BY <1>4 DEF Injection, IsInjective

\* A queue without repetitions keeps none when its head is taken, and when a
\* sequence without repetitions and of other items is appended.
LEMMA TailRepeatsNothing ==
    ASSUME NEW S, NEW q \in Seq(S), q # <<>>,
           \A i, j \in DOMAIN q : q[i] = q[j] => i = j
    PROVE  /\ \A i, j \in DOMAIN Tail(q) : Tail(q)[i] = Tail(q)[j] => i = j
           /\ \A i \in DOMAIN Tail(q) :
                 Tail(q)[i] # Head(q) /\ \E j \in DOMAIN q : q[j] = Tail(q)[i]
<1>1. \A i \in DOMAIN Tail(q) :
         i + 1 \in DOMAIN q /\ Tail(q)[i] = q[i + 1] /\ i \in Nat /\ i # 0
  OBVIOUS
<1>2. 1 \in DOMAIN q /\ Head(q) = q[1]
  OBVIOUS
<1> QED
  BY <1>1, <1>2

LEMMA AppendRepeatsNothing ==
    ASSUME NEW S, NEW q \in Seq(S), NEW s \in Seq(S),
           \A i, j \in DOMAIN q : q[i] = q[j] => i = j,
           \A i, j \in DOMAIN s : s[i] = s[j] => i = j,
           \A i \in DOMAIN q, j \in DOMAIN s : q[i] # s[j]
    PROVE  \A i, j \in DOMAIN (q \o s) : (q \o s)[i] = (q \o s)[j] => i = j
<1>1. \A i \in DOMAIN (q \o s) :
         \/ i \in DOMAIN q /\ (q \o s)[i] = q[i]
         \/ /\ i - Len(q) \in DOMAIN s /\ i \in Int
            /\ (q \o s)[i] = s[i - Len(q)]
  OBVIOUS
<1> QED
  BY <1>1

\* What a sequence holds.
Items(q) == {q[i] : i \in DOMAIN q}
NoRepeats(q) == \A i, j \in DOMAIN q : q[i] = q[j] => i = j

LEMMA EmptyItems == ASSUME NEW S, NEW q \in Seq(S), q = <<>>
                    PROVE  Items(q) = {} /\ NoRepeats(q)
BY EmptyHasNoItem DEF Items, NoRepeats

LEMMA ItemsOfOrder ==
    ASSUME NEW S, IsFiniteSet(S), NEW s \in Orders(S)
    PROVE  s \in Seq(S) /\ Items(s) = S /\ NoRepeats(s)
<1>1. s \in Seq(S) /\ \A x \in S : \E i \in 1..Len(s) : s[i] = x
  BY OrderingIsSeq
<1>2. DOMAIN s = 1..Len(s) /\ \A i \in 1..Len(s) : s[i] \in S
  BY <1>1
<1> QED
  BY <1>1, <1>2, OrderingRepeatsNothing DEF Items, NoRepeats

LEMMA ItemsOfAppend ==
    ASSUME NEW S, NEW q \in Seq(S), NEW s \in Seq(S)
    PROVE  /\ Items(q \o s) = Items(q) \cup Items(s)
           /\ NoRepeats(q) /\ NoRepeats(s) /\ Items(q) \cap Items(s) = {} =>
                 NoRepeats(q \o s)
<1>1. \A i \in DOMAIN (q \o s) :
         \/ i \in DOMAIN q /\ (q \o s)[i] = q[i]
         \/ /\ i - Len(q) \in DOMAIN s
            /\ (q \o s)[i] = s[i - Len(q)]
  OBVIOUS
<1>2. Items(q \o s) \subseteq Items(q) \cup Items(s)
  BY <1>1 DEF Items
<1>3. Items(q) \cup Items(s) \subseteq Items(q \o s)
  <2>1. \A i \in DOMAIN q : q[i] \in Items(q \o s)
    BY AppendKeepsItems DEF Items
  <2>2. ASSUME NEW i \in DOMAIN s PROVE s[i] \in Items(q \o s)
    <3>1. Len(q) + i \in DOMAIN (q \o s) /\ (q \o s)[Len(q) + i] = s[i]
      BY AppendKeepsItems
    <3> QED
      BY <3>1 DEF Items
  <2> QED
    BY <2>1, <2>2 DEF Items
<1>4. ASSUME NoRepeats(q), NoRepeats(s), Items(q) \cap Items(s) = {}
      PROVE  NoRepeats(q \o s)
  <2>1. \A i \in DOMAIN q, j \in DOMAIN s : q[i] # s[j]
    BY <1>4 DEF Items
  <2> QED
    BY <1>4, <2>1, AppendRepeatsNothing DEF NoRepeats
<1> QED
  BY <1>2, <1>3, <1>4

\* A batch taken off the front of a queue, and what it leaves.
LEMMA ItemsOfSplit ==
    ASSUME NEW S, NEW q \in Seq(S), NEW n \in 0..Len(q)
    PROVE  LET front == SubSeq(q, 1, n)
               rest == SubSeq(q, n + 1, Len(q))
           IN  /\ front \in Seq(S) /\ rest \in Seq(S) /\ Len(front) = n
               /\ Items(q) = Items(front) \cup Items(rest)
               /\ NoRepeats(q) => /\ NoRepeats(front) /\ NoRepeats(rest)
                                  /\ Items(front) \cap Items(rest) = {}
<1> DEFINE front == SubSeq(q, 1, n)
           rest == SubSeq(q, n + 1, Len(q))
<1>1. /\ front \in Seq(S) /\ Len(front) = n /\ DOMAIN front = 1..n
      /\ \A i \in 1..n : front[i] = q[i]
  OBVIOUS
<1>2. /\ rest \in Seq(S) /\ DOMAIN rest = 1..(Len(q) - n)
      /\ \A i \in 1..(Len(q) - n) : rest[i] = q[i + n]
  OBVIOUS
<1>3. DOMAIN q = 1..Len(q) /\ Len(q) \in Nat /\ n \in Nat /\ n <= Len(q)
  OBVIOUS
<1> HIDE DEF front, rest
<1>4. Items(q) \subseteq Items(front) \cup Items(rest)
  <2> SUFFICES ASSUME NEW i \in DOMAIN q PROVE q[i] \in Items(front) \cup Items(rest)
    BY DEF Items
  <2>1. CASE i \in 1..n
    BY <1>1, <2>1 DEF Items
  <2>2. CASE i \notin 1..n
    <3>1. i - n \in 1..(Len(q) - n) /\ (i - n) + n = i
      BY <1>3, <2>2
    <3>2. rest[i - n] = q[i]
      BY <1>2, <3>1
    <3> QED
      BY <1>2, <3>1, <3>2 DEF Items
  <2> QED
    BY <2>1, <2>2
<1>5. Items(front) \cup Items(rest) \subseteq Items(q)
  <2>1. \A i \in 1..n : i \in DOMAIN q
    BY <1>3
  <2>2. \A i \in 1..(Len(q) - n) : i + n \in DOMAIN q
    BY <1>3
  <2>3. \A i \in DOMAIN front : front[i] \in Items(q)
    BY <1>1, <2>1 DEF Items
  <2>4. \A i \in DOMAIN rest : rest[i] \in Items(q)
    BY <1>2, <2>2 DEF Items
  <2> QED
    BY <2>3, <2>4 DEF Items
<1>6. ASSUME NoRepeats(q)
      PROVE  NoRepeats(front) /\ NoRepeats(rest) /\ Items(front) \cap Items(rest) = {}
  <2>1. NoRepeats(front)
    BY <1>1, <1>3, <1>6 DEF NoRepeats
  <2>2. ASSUME NEW i \in DOMAIN rest
        PROVE  i + n \in DOMAIN q /\ i + n \notin 1..n /\ i \in Int /\ rest[i] = q[i + n]
    BY <1>2, <1>3
  <2>3. ASSUME NEW i \in DOMAIN rest, NEW j \in DOMAIN rest, rest[i] = rest[j]
        PROVE  i = j
    <3>1. i + n = j + n
      BY <1>6, <2>2, <2>3 DEF NoRepeats
    <3> QED
      BY <1>3, <2>2, <3>1
  <2>4. ASSUME NEW i \in DOMAIN front, NEW j \in DOMAIN rest
        PROVE  front[i] # rest[j]
    <3>1. i \in DOMAIN q /\ i \in 1..n /\ front[i] = q[i]
      BY <1>1, <1>3
    <3> QED
      BY <1>6, <2>2, <3>1 DEF NoRepeats
  <2> QED
    BY <2>1, <2>3, <2>4 DEF Items, NoRepeats
<1> QED
  BY <1>1, <1>2, <1>4, <1>5, <1>6 DEF front, rest

-----------------------------------------------------------------------------
(***************************************************************************)
(* The trace.  The parents of the store form a tree rooted in the deal: a  *)
(* rank that grows from parent to child shows that they never run in a     *)
(* circle.  Along the trace the rank falls, so no record comes up twice.   *)
(***************************************************************************)
ParentsAreMoves ==
    /\ Root \in Stored /\ parent[Root] = NoKey
    /\ \A k \in Stored \ {Root} : parent[k] \in Stored /\ k \in Succ[parent[k]]

Falls(rank) ==
    /\ \A k \in Stored : parent[k] # NoKey => rank[parent[k]] < rank[k]
    /\ \A i, j \in DOMAIN trace : i < j => rank[trace[j]] < rank[trace[i]]
    /\ trace_next # NoKey => \A i \in DOMAIN trace : rank[trace_next] < rank[trace[i]]

TraceFollowsParents ==
    /\ verdict = "running" => trace = <<>> /\ trace_next = NoKey
    /\ trace = <<>> /\ verdict = "Success" => trace_next \in Stored \cap Goal
    /\ trace # <<>> => /\ trace[1] \in Goal
                      /\ trace_next = parent[trace[Len(trace)]]
    /\ \A i \in 1..(Len(trace) - 1) : trace[i + 1] = parent[trace[i]]

TraceInv ==
    /\ ParentsAreMoves
    /\ \E rank \in [Stored -> Nat] : Falls(rank)
    /\ TraceFollowsParents

LEMMA InitTraceInv == CommonInit => TraceInv
<1> SUFFICES ASSUME CommonInit PROVE TraceInv
  OBVIOUS
<1> USE KeysAssumption DEF CommonInit
<1>1. Stored = {Root} /\ parent[Root] = NoKey
  BY DEF Stored
<1>2. DOMAIN trace = {}
  OBVIOUS
<1>3. Falls([k \in Stored |-> 0])
  BY <1>1, <1>2 DEF Falls
<1>4. \E rank \in [Stored -> Nat] : Falls(rank)
  BY <1>3
<1> QED
  BY <1>1, <1>2, <1>4 DEF TraceInv, ParentsAreMoves, TraceFollowsParents

\* A step that leaves the store, the verdict and the trace alone.
LEMMA StutterKeepsTraceInv ==
    ASSUME TraceInv, UNCHANGED <<parent, trace, trace_next, verdict>>
    PROVE  TraceInv'
<1>1. Stored' = Stored
  BY DEF Stored
<1>2. PICK rank \in [Stored -> Nat] : Falls(rank)
  BY DEF TraceInv
<1>3. Falls(rank)'
  BY <1>1, <1>2 DEF Falls
<1>4. \E r \in [Stored' -> Nat] : Falls(r)'
  BY <1>1, <1>3
<1>5. ParentsAreMoves' /\ TraceFollowsParents'
  BY <1>1 DEF TraceInv, ParentsAreMoves, TraceFollowsParents
<1> QED
  BY <1>4, <1>5 DEF TraceInv

\* An insertion ranks the new records above those that derived them.
LEMMA InsertKeepsTraceInv ==
    ASSUME CommonTypeOK, TraceInv, verdict = "running",
           NEW new \in SUBSET Keys, new \cap Stored = {}, NEW from,
           \A k \in new : from[k] \in Stored /\ k \in Succ[from[k]],
           InsertRecords(new, from), UNCHANGED mainVars
    PROVE  TraceInv'
<1> USE DEF CommonTypeOK, RecordPtr
<1>3. /\ Stored' = Stored \cup new
      /\ \A k \in Stored : parent'[k] = parent[k]
      /\ \A k \in new : parent'[k] = from[k]
  BY DEF InsertRecords, Stored
<1>4. trace = <<>> /\ trace_next = NoKey /\ verdict = "running"
  BY DEF TraceInv, TraceFollowsParents
<1>5. trace' = <<>> /\ trace_next' = NoKey /\ verdict' = "running"
  BY <1>4 DEF mainVars
<1>6. ParentsAreMoves'
  BY <1>3, KeysAssumption DEF TraceInv, ParentsAreMoves
<1>7. \E rank \in [Stored' -> Nat] : Falls(rank)'
  <2>1. PICK rank \in [Stored -> Nat] : Falls(rank)
    BY DEF TraceInv
  <2>2. PICK up \in [Stored' -> Nat] :
           \A k \in Stored' : up[k] = IF k \in Stored THEN rank[k]
                                                     ELSE rank[from[k]] + 1
    <3> DEFINE f == [k \in Stored' |-> IF k \in Stored THEN rank[k]
                                                       ELSE rank[from[k]] + 1]
    <3>1. f \in [Stored' -> Nat]
      BY <1>3
    <3> QED
      BY <3>1
  <2>3. ASSUME NEW k \in Stored', parent'[k] # NoKey
        PROVE  up[parent'[k]] < up[k]
    <3>1. CASE k \in Stored
      <4>1. parent'[k] = parent[k] /\ parent[k] \in Stored
        BY <1>3, <2>3, <3>1
      <4>2. up[parent[k]] = rank[parent[k]] /\ up[k] = rank[k]
        BY <1>3, <2>2, <3>1, <4>1
      <4> QED
        BY <2>1, <2>3, <3>1, <4>1, <4>2 DEF Falls
    <3>2. CASE k \notin Stored
      <4>1. parent'[k] = from[k] /\ from[k] \in Stored
        BY <1>3, <3>2
      <4> QED
        BY <1>3, <2>2, <3>2, <4>1
    <3> QED
      BY <3>1, <3>2
  <2>4. DOMAIN trace' = {}
    BY <1>5
  <2>5. Falls(up)'
    BY <1>5, <2>3, <2>4 DEF Falls
  <2> QED
    BY <2>5
<1>8. TraceFollowsParents'
  BY <1>5 DEF TraceFollowsParents
<1> QED
  BY <1>6, <1>7, <1>8 DEF TraceInv

\* main reports: the trace starts at the recorded solution, if there is one.
LEMMA ReportKeepsTraceInv ==
    ASSUME CommonTypeOK, TraceInv, verdict = "running",
           queue_solution_ptr # NoKey => queue_solution_ptr \in Goal,
           HandleSolution, UNCHANGED <<parent, queue_solution_ptr>>
    PROVE  TraceInv'
<1>1. /\ trace = <<>> /\ trace' = trace
      /\ trace_next' = queue_solution_ptr
      /\ verdict' # "running"
      /\ verdict' = "Success" => queue_solution_ptr # NoKey
  BY DEF HandleSolution, TraceInv, TraceFollowsParents
<1>2. Stored' = Stored /\ DOMAIN trace' = {}
  BY <1>1 DEF Stored
<1>3. PICK rank \in [Stored -> Nat] : Falls(rank)
  BY DEF TraceInv
<1>4. Falls(rank)'
  BY <1>1, <1>2, <1>3 DEF Falls
<1>5. \E r \in [Stored' -> Nat] : Falls(r)'
  BY <1>2, <1>4
<1>6. ParentsAreMoves'
  BY <1>2 DEF TraceInv, ParentsAreMoves
<1>7. TraceFollowsParents'
  BY <1>1, <1>2 DEF TraceFollowsParents, CommonTypeOK, RecordPtr
<1> QED
  BY <1>5, <1>6, <1>7 DEF TraceInv

\* One more record on the trace: the parent of the last one.
LEMMA TraceKeepsTraceInv ==
    ASSUME CommonTypeOK, TraceInv, CalcTrace, UNCHANGED parent
    PROVE  TraceInv'
<1> USE DEF CommonTypeOK, RecordPtr
<1>1. /\ verdict = "Success" /\ verdict' = "Success" /\ trace_next \in Stored
      /\ trace' = Append(trace, trace_next)
      /\ trace_next' = parent[trace_next]
      /\ parent' = parent
  BY DEF CalcTrace
<1>2. Stored' = Stored
  BY <1>1 DEF Stored
<1>3. /\ Len(trace') = Len(trace) + 1 /\ Len(trace) \in Nat
      /\ DOMAIN trace' = 1..(Len(trace) + 1) /\ DOMAIN trace = 1..Len(trace)
      /\ trace'[Len(trace) + 1] = trace_next
      /\ \A i \in 1..Len(trace) : trace'[i] = trace[i]
  BY <1>1
<1>4. \E rank \in [Stored' -> Nat] : Falls(rank)'
  <2>1. PICK rank \in [Stored -> Nat] : Falls(rank)
    BY DEF TraceInv
  <2>2. \A i \in 1..Len(trace) : trace[i] \in Stored
    BY <1>3
  <2>3. \A i \in 1..Len(trace) : rank[trace_next] < rank[trace[i]]
    BY <1>1, <1>3, <2>1, KeysAssumption DEF Falls
  <2>4. ASSUME NEW i \in DOMAIN trace', NEW j \in DOMAIN trace', i < j
        PROVE  rank[trace'[j]] < rank[trace'[i]]
    <3> DEFINE n == Len(trace)
    <3>1. i \in 1..(n + 1) /\ j \in 1..(n + 1) /\ n \in Nat
      BY <1>3, <2>4
    <3> HIDE DEF n
    <3>2. i \in 1..n /\ (j \in 1..n \/ j = n + 1)
      BY <2>4, <3>1
    <3>3. CASE j = n + 1
      BY <1>3, <2>3, <3>2, <3>3 DEF n
    <3>4. CASE j \in 1..n
      <4>1. rank[trace[j]] < rank[trace[i]]
        BY <1>3, <2>1, <2>4, <3>2, <3>4 DEF Falls, n
      <4> QED
        BY <1>3, <3>2, <3>4, <4>1 DEF n
    <3> QED
      BY <3>2, <3>3, <3>4
  <2>5. ASSUME trace_next' # NoKey, NEW i \in DOMAIN trace'
        PROVE  rank[trace_next'] < rank[trace'[i]]
    <3>1. rank[trace_next'] < rank[trace_next] /\ trace_next' \in Stored
      BY <1>1, <2>1, <2>5 DEF Falls
    <3>2. CASE i = Len(trace) + 1
      BY <1>3, <3>1, <3>2
    <3>3. CASE i # Len(trace) + 1
      <4>1. i \in 1..Len(trace) /\ trace'[i] = trace[i]
        BY <1>3, <2>5, <3>3
      <4>2. rank[trace_next] < rank[trace[i]] /\ trace[i] \in Stored
        BY <2>2, <2>3, <4>1
      <4> QED
        BY <1>1, <3>1, <4>1, <4>2
    <3> QED
      BY <3>2, <3>3
  <2>6. Falls(rank)'
    BY <1>1, <1>2, <2>1, <2>4, <2>5 DEF Falls
  <2> QED
    BY <1>2, <2>6
<1>5. ParentsAreMoves'
  BY <1>1, <1>2 DEF TraceInv, ParentsAreMoves
<1>6. trace' # <<>> /\ trace'[1] \in Goal
  <2>1. CASE trace = <<>>
    BY <1>1, <1>3, <2>1 DEF TraceInv, TraceFollowsParents
  <2>2. CASE trace # <<>>
    BY <1>3, <2>2 DEF TraceInv, TraceFollowsParents
  <2> QED
    BY <2>1, <2>2
<1>7. ASSUME NEW i \in 1..(Len(trace') - 1)
      PROVE  trace'[i + 1] = parent'[trace'[i]]
  <2> DEFINE n == Len(trace)
  <2>1. i \in 1..n /\ n \in Nat
    BY <1>3, <1>7
  <2> HIDE DEF n
  <2>2. trace'[i] = trace[i]
    BY <1>3, <2>1 DEF n
  <2>3. CASE i = n
    <3>1. trace # <<>>
      BY <1>3, <2>1 DEF n
    <3>2. trace_next = parent[trace[n]]
      BY <3>1 DEF TraceInv, TraceFollowsParents, n
    <3> QED
      BY <1>1, <1>3, <2>2, <2>3, <3>2 DEF n
  <2>4. CASE i # n
    <3>1. i \in 1..(n - 1) /\ i + 1 \in 1..n
      BY <2>1, <2>4
    <3>2. trace[i + 1] = parent[trace[i]]
      BY <3>1 DEF TraceInv, TraceFollowsParents, n
    <3> QED
      BY <1>1, <1>3, <2>2, <3>1, <3>2 DEF n
  <2> QED
    BY <2>3, <2>4
<1>8. TraceFollowsParents'
  BY <1>1, <1>3, <1>6, <1>7 DEF TraceFollowsParents
<1> QED
  BY <1>4, <1>5, <1>8 DEF TraceInv

\* A trace that came to its end is a path of moves from the deal to a solved
\* position, and repeats none.
LEMMA TraceOfSuccess ==
    ASSUME CommonTypeOK, TraceInv, verdict = "Success", trace_next = NoKey
    PROVE  /\ trace[1] \in Goal
           /\ trace[Len(trace)] = Root
           /\ \A i \in 1..(Len(trace) - 1) : trace[i] \in Succ[trace[i + 1]]
           /\ \A i, j \in DOMAIN trace : trace[i] = trace[j] => i = j
<1> USE DEF CommonTypeOK, RecordPtr
<1>1. trace # <<>> /\ trace_next = NoKey
  BY KeysAssumption DEF TraceInv, TraceFollowsParents
<1> DEFINE n == Len(trace)
<1>2. /\ n \in Nat /\ n # 0 /\ DOMAIN trace = 1..n
      /\ \A i \in 1..n : trace[i] \in Stored
  BY <1>1
<1>3. trace[1] \in Goal /\ parent[trace[n]] = NoKey
  BY <1>1 DEF TraceInv, TraceFollowsParents
<1>4. \A i \in 1..(n - 1) : trace[i + 1] = parent[trace[i]]
  BY DEF TraceInv, TraceFollowsParents
<1> HIDE DEF n
<1>5. trace[n] = Root
  BY <1>2, <1>3, KeysAssumption DEF TraceInv, ParentsAreMoves
<1>6. ASSUME NEW i \in 1..(n - 1)
      PROVE  trace[i] \in Succ[trace[i + 1]]
  <2>1. i \in 1..n /\ i + 1 \in 1..n
    BY <1>2
  <2>2. trace[i + 1] = parent[trace[i]] /\ trace[i + 1] \in Keys
    BY <1>2, <1>4, <2>1
  <2>3. trace[i] # Root
    BY <2>2, KeysAssumption DEF TraceInv, ParentsAreMoves
  <2> QED
    BY <1>2, <2>1, <2>2, <2>3 DEF TraceInv, ParentsAreMoves
<1>7. ASSUME NEW i \in 1..n, NEW j \in 1..n, trace[i] = trace[j]
      PROVE  i = j
  <2>1. PICK rank \in [Stored -> Nat] : Falls(rank)
    BY DEF TraceInv
  <2>2. rank[trace[i]] \in Nat /\ rank[trace[j]] = rank[trace[i]]
    BY <1>2, <1>7, <2>1
  <2>3. \A k, l \in 1..n : k < l => rank[trace[l]] < rank[trace[k]]
    BY <1>2, <2>1 DEF Falls
  <2>4. ~(i < j) /\ ~(j < i)
    BY <2>2, <2>3
  <2> QED
    BY <1>2, <2>4
<1> QED
  BY <1>2, <1>3, <1>5, <1>6, <1>7 DEF n
=============================================================================
