------------------------ MODULE DepthDbmSolverProofs ------------------------
(***************************************************************************)
(* Theorems about DepthDbmSolver, for any set of threads, any batch size,  *)
(* any graph of positions with its depths and any limits: the counter,     *)
(* that no work is lost or done twice and nobody sleeps through the end,   *)
(* that the solver implements GraphSearch, the trace, the reference        *)
(* counts, the sweep between two depths, and the limits.                   *)
(***************************************************************************)
EXTENDS DepthDbmSolver, DbmCommonProofs, WellFoundedInduction

-----------------------------------------------------------------------------
(***************************************************************************)
(* What the program counters of the threads and of main say.  A batch that *)
(* was not returned is the one in tokens; a thread that sleeps has none;   *)
(* one that left with its batch has recorded a solution, and then no sweep *)
(* begins.                                                                 *)
(***************************************************************************)
BatchShape ==
    \A t \in Threads :
        /\ prev_size[t] = Len(tokens[t])
        /\ Expanding(t) => prev_size[t] > 0
        /\ pc[t] = "wait" => prev_size[t] = 0
        /\ pc[t] = "found" => Batch(t) \cap Goal # {}
        /\ pc[t] = "insert" => Batch(t) \cap Goal = {}
        /\ pc[t] = "done" /\ prev_size[t] > 0 => queue_solution_ptr # NoKey

MainShape ==
    /\ verdict # "running" => \A t \in Threads : pc[t] = "done"
    /\ verdict = "running" => curr_depth < MaxDepth
    /\ verdict = "Could not solve" => curr_depth = MaxDepth /\ Dont
    /\ sweeping => /\ verdict = "running" /\ queue_solution_ptr = NoKey
                   /\ \A t \in Threads : pc[t] = "done"
    /\ ancestor # NoKey => sweeping
    /\ queue_solution_ptr # NoKey => queue_solution_ptr \in Goal /\ ~Dont

ShapeInv == TypeOK /\ BatchShape /\ MainShape /\ Root \in Stored

(***************************************************************************)
(* The search goes down depth by depth: what is queued or held has the     *)
(* depth it is filed under, and no queue before the current one holds      *)
(* anything.  QuietExit is what the exit test of the threads is for.       *)
(***************************************************************************)
DepthShape ==
    /\ \A d \in Depths : \A k \in Queued(d) : Depth[k] = d
    /\ \A t \in Threads : \A k \in Batch(t) : Depth[k] = curr_depth
    /\ Dont => \A d \in Depths : d < curr_depth => queues[d] = <<>>

QuietExit ==
    Dont /\ verdict = "running" /\ (\E t \in Threads : pc[t] = "done") =>
        queues[curr_depth] = <<>> /\ \A t \in Threads : prev_size[t] = 0

IInv ==
    /\ ShapeInv
    /\ CounterExact
    /\ DepthShape
    /\ QuietExit
    /\ NoLostWork

-----------------------------------------------------------------------------
\* The least index of a non-empty set of them: FirstIn finds what it looks for.
LEMMA FirstInFound ==
    ASSUME NEW S, NEW q \in Seq(S), NEW X, Items(q) \cap X # {}
    PROVE  FirstIn(q, X) \in S \cap X /\ FirstIn(q, X) \in Items(q)
<1> DEFINE T == {i \in DOMAIN q : q[i] \in X}
<1>1. T \subseteq Nat /\ T # {}
  BY DEF Items
<1>2. PICK i \in T : \A j \in T : ~(<<j, i>> \in OpToRel(<, Nat))
  <2> HIDE DEF T
  <2> QED
    BY <1>1, WFMin, NatLessThanWellFounded
<1>3. i \in DOMAIN q /\ q[i] \in X /\ \A j \in T : ~(j < i)
  BY <1>1, <1>2 DEF OpToRel
<1>4. \A j \in 1..(i - 1) : q[j] \notin X
  <2>1. DOMAIN q = 1..Len(q) /\ Len(q) \in Nat /\ i \in DOMAIN q
    BY <1>3
  <2>2. ASSUME NEW j \in 1..(i - 1) PROVE j \in DOMAIN q /\ j < i
    BY <2>1
  <2> QED
    BY <1>3, <2>2
<1>5. \E k \in DOMAIN q : q[k] \in X /\ \A j \in 1..(k - 1) : q[j] \notin X
  BY <1>3, <1>4
<1>6. PICK k \in DOMAIN q : FirstIn(q, X) = q[k] /\ q[k] \in X
  <2> DEFINE P(k) == k \in DOMAIN q /\ q[k] \in X /\ \A j \in 1..(k - 1) : q[j] \notin X
  <2>1. P(CHOOSE k : P(k))
    BY <1>5
  <2> QED
    BY <2>1 DEF FirstIn
<1> QED
  BY <1>6 DEF Items

LEMMA BatchItems == \A t : Batch(t) = Items(tokens[t])
BY DEF Batch, Items

LEMMA QueuedItems == \A d : Queued(d) = Items(queues[d])
BY DEF Queued, Items

\* What a batch adds to the store is a finite set of positions, each derived
\* from an item of the batch.
LEMMA NewKeysFinite ==
    ASSUME ShapeInv, NEW t \in Threads
    PROVE  /\ NewKeys(t) \subseteq Keys /\ NewKeys(t) \cap Stored = {}
           /\ IsFiniteSet(NewKeys(t))
           /\ Cardinality(NewKeys(t)) \in Nat
           /\ \A s \in NewKeys(t) : /\ ParentOf(t, s) \in Batch(t)
                                    /\ ParentOf(t, s) \in Stored
                                    /\ s \in Succ[ParentOf(t, s)]
<1> USE DEF ShapeInv, TypeOK, CommonTypeOK
<1>1. tokens[t] \in Seq(Stored) /\ Batch(t) \subseteq Stored
  BY DEF Batch
<1>2. NewKeys(t) \subseteq Keys /\ NewKeys(t) \cap Stored = {}
  BY <1>1, KeysAssumption DEF NewKeys, Derived
<1>3. IsFiniteSet(NewKeys(t))
  BY <1>2, KeysAssumption, FS_Subset
<1>4. ASSUME NEW s \in NewKeys(t)
      PROVE  /\ ParentOf(t, s) \in Batch(t)
             /\ ParentOf(t, s) \in Stored
             /\ s \in Succ[ParentOf(t, s)]
  <2>1. Items(tokens[t]) \cap {k \in Stored : s \in Succ[k]} # {}
    BY <1>1, BatchItems DEF NewKeys, Derived
  <2>2. /\ ParentOf(t, s) \in {k \in Stored : s \in Succ[k]}
        /\ ParentOf(t, s) \in Items(tokens[t])
    BY <1>1, <2>1, FirstInFound DEF ParentOf
  <2> QED
    BY <2>2, BatchItems
<1> QED
  BY <1>2, <1>3, <1>4, FS_CardinalityType

LEMMA InitShape == Init => ShapeInv
<1> SUFFICES ASSUME Init PROVE ShapeInv
  OBVIOUS
<1> USE KeysAssumption, DepthAssumption, ThreadsAssumption DEF Init, CommonInit
<1>1. Stored = {Root}
  BY DEF Stored
<1>2. CommonTypeOK
  BY <1>1 DEF CommonTypeOK, RecordPtr, TerminateReason, Verdicts
<1>3. queues \in [Depths -> Seq(Stored)] /\ tokens \in [Threads -> Seq(Stored)]
  <2>1. <<Root>> \in Seq(Stored) /\ <<>> \in Seq(Stored)
    BY <1>1
  <2> QED
    BY <2>1
<1>4. TypeOK
  <2>1. curr_depth \in 0..MaxDepth /\ prev_size \in [Threads -> 0..MaxBatch]
    BY <1>1
  <2>2. refcount \in [Stored -> 0..(BYTE - 1)]
    BY <1>1 DEF BYTE
  <2> QED
    BY <1>1, <1>2, <1>3, <2>1, <2>2 DEF TypeOK, RecordPtr
<1>5. BatchShape
  BY DEF BatchShape, Expanding
<1> QED
  BY <1>1, <1>4, <1>5 DEF ShapeInv, MainShape

\* Threads only run between two of main's steps, at a depth of the search.
LEMMA WorkerRuns ==
    ASSUME ShapeInv, NEW t \in Threads, pc[t] # "done"
    PROVE  /\ verdict = "running" /\ ~sweeping /\ ancestor = NoKey
           /\ curr_depth \in Depths /\ curr_depth < MaxDepth
           /\ Queue \in Seq(Stored)
<1>1. verdict = "running" /\ ~sweeping /\ ancestor = NoKey /\ curr_depth < MaxDepth
  BY DEF ShapeInv, MainShape
<1>2. curr_depth \in Depths
  BY <1>1, DepthAssumption DEF ShapeInv, TypeOK, Depths
<1> QED
  BY <1>1, <1>2 DEF ShapeInv, TypeOK, Queue

\* A step of one thread leaves the batches of the others alone, and moves
\* another one at most from its sleep to the lock.
OthersStay(t) ==
    /\ pc' \in [Threads -> {"lock", "wait", "batch", "found", "insert", "done"}]
    /\ tokens' \in [Threads -> Seq(Stored)]
    /\ prev_size' \in [Threads -> 0..MaxBatch]
    /\ \A u \in Threads \ {t} :
          /\ pc'[u] = pc[u] \/ (pc[u] = "wait" /\ pc'[u] = "lock")
          /\ tokens'[u] = tokens[u] /\ prev_size'[u] = prev_size[u]

LEMMA WakingStays ==
    ASSUME TypeOK, NEW t \in Threads, pc[t] # "wait",
           NEW where \in {"lock", "done"},
           BroadcastAndGo(t, where) \/ SignalAndGo(t, where)
    PROVE  /\ pc' \in [Threads -> {"lock", "wait", "batch", "found", "insert", "done"}]
           /\ pc'[t] = where
           /\ \A u \in Threads \ {t} :
                 pc'[u] = pc[u] \/ (pc[u] = "wait" /\ pc'[u] = "lock")
<1> USE DEF TypeOK, Waiting
<1>1. CASE BroadcastAndGo(t, where)
  BY <1>1 DEF BroadcastAndGo
<1>2. CASE SignalAndGo(t, where)
  BY <1>2 DEF SignalAndGo
<1> QED
  BY <1>1, <1>2

\* How many items a batch takes, which ones, and what it leaves in the queue.
LEMMA BatchLenBounds ==
    ASSUME Queue \in Seq(Stored)
    PROVE  BatchLen \in 0..MaxBatch /\ BatchLen \in 0..Len(Queue)
<1>1. MaxBatch \in Nat /\ Len(Queue) \in Nat
  BY ThreadsAssumption
<1>2. \E n \in {MaxBatch, Len(Queue)} : \A y \in {MaxBatch, Len(Queue)} : n =< y
  BY <1>1
<1>3. /\ BatchLen \in {MaxBatch, Len(Queue)}
      /\ \A y \in {MaxBatch, Len(Queue)} : BatchLen =< y
  BY <1>2 DEF Min, BatchLen
<1> QED
  BY <1>1, <1>3

Front == SubSeq(Queue, 1, BatchLen)
Rest == SubSeq(Queue, BatchLen + 1, Len(Queue))

LEMMA ExtractSplits ==
    ASSUME ShapeInv, NEW t \in Threads, ExtractBatch(t)
    PROVE  /\ BatchLen \in Nat /\ BatchLen > 0
           /\ BatchLen \in 0..MaxBatch /\ BatchLen \in 0..Len(Queue)
           /\ Front \in Seq(Stored) /\ Rest \in Seq(Stored) /\ Len(Front) = BatchLen
           /\ Items(Queue) = Items(Front) \cup Items(Rest)
           /\ NoRepeats(Queue) => /\ NoRepeats(Front) /\ NoRepeats(Rest)
                                  /\ Items(Front) \cap Items(Rest) = {}
           /\ tokens' = [tokens EXCEPT ![t] = Front]
           /\ queues' = [queues EXCEPT ![curr_depth] = Rest]
           /\ prev_size' = [prev_size EXCEPT ![t] = BatchLen]
           /\ pc' = [pc EXCEPT ![t] = "batch"]
<1>1. Queue \in Seq(Stored) /\ curr_depth \in Depths
  BY WorkerRuns DEF ExtractBatch
<1>2. /\ BatchLen \in 0..Len(Queue) /\ BatchLen \in 0..MaxBatch
      /\ BatchLen > 0 /\ BatchLen \in Nat
  BY <1>1, BatchLenBounds DEF ExtractBatch
<1>3. /\ tokens' = [tokens EXCEPT ![t] = Front]
      /\ queues' = [queues EXCEPT ![curr_depth] = Rest]
      /\ prev_size' = [prev_size EXCEPT ![t] = BatchLen]
      /\ pc' = [pc EXCEPT ![t] = "batch"]
  BY DEF ExtractBatch, Front, Rest, Queue
<1> QED
  BY <1>1, <1>2, <1>3, ItemsOfSplit DEF Front, Rest

LEMMA WorkerOthers ==
    ASSUME ShapeInv, NEW t \in Threads, Worker(t) \/ WakeUnasked(t)
    PROVE  OthersStay(t)
<1> USE DEF ShapeInv, TypeOK
<1>1. CASE ReturnBatch(t)
  <2>1. /\ tokens' = [tokens EXCEPT ![t] = <<>>]
        /\ prev_size' = [prev_size EXCEPT ![t] = 0]
    BY <1>1 DEF ReturnBatch
  <2>2. tokens' \in [Threads -> Seq(Stored)] /\ prev_size' \in [Threads -> 0..MaxBatch]
    BY <2>1, ThreadsAssumption
  <2>3. pc' = pc \/ BroadcastAndGo(t, "lock")
    BY <1>1 DEF ReturnBatch
  <2> QED
    BY <1>1, <2>1, <2>2, <2>3, WakingStays DEF OthersStay, ReturnBatch
<1>2. CASE ExtractBatch(t)
  <2>1. /\ BatchLen \in 0..MaxBatch /\ Front \in Seq(Stored)
        /\ tokens' = [tokens EXCEPT ![t] = Front]
        /\ prev_size' = [prev_size EXCEPT ![t] = BatchLen]
        /\ pc' = [pc EXCEPT ![t] = "batch"]
    BY <1>2, ExtractSplits
  <2> QED
    BY <2>1 DEF OthersStay
<1>3. CASE ExtractNothing(t) \/ ToldToStop(t) \/ ExpandBatch(t) \/ WakeUnasked(t)
  BY <1>3 DEF ExtractNothing, ToldToStop, ExpandBatch, WakeUnasked, OthersStay
<1>4. CASE RecordSolution(t)
  BY <1>4, WakingStays DEF RecordSolution, OthersStay
<1>5. CASE InsertDerived(t)
  <2>1. pc[t] = "insert" /\ tokens' = tokens /\ prev_size' = prev_size
    BY <1>5 DEF InsertDerived
  <2>2. BroadcastAndGo(t, "lock") \/ SignalAndGo(t, "lock")
    BY <1>5 DEF InsertDerived
  <2> QED
    BY <2>1, <2>2, WakingStays DEF OthersStay
<1> QED
  BY <1>1, <1>2, <1>3, <1>4, <1>5 DEF Worker

\* An insertion: the store grows, and so do the queues.
LEMMA InsertGrows ==
    ASSUME ShapeInv, NEW t \in Threads, InsertDerived(t)
    PROVE  /\ Stored' = Stored \cup NewKeys(t)
           /\ parent' \in [Stored' -> RecordPtr']
           /\ \A k \in Stored : parent'[k] = parent[k]
           /\ \A k \in NewKeys(t) : parent'[k] = ParentOf(t, k)
           /\ queues' \in [Depths -> Seq(Stored')]
           /\ \A d \in Depths :
                 /\ Items(queues'[d]) = Items(queues[d]) \cup NewAt(NewKeys(t), d)
                 /\ NoRepeats(queues[d]) => NoRepeats(queues'[d])
<1> DEFINE new == NewKeys(t)
<1> USE DEF ShapeInv, TypeOK, CommonTypeOK, RecordPtr
<1>1. /\ new \cap Stored = {} /\ IsFiniteSet(new)
      /\ \A k \in new : ParentOf(t, k) \in Stored
  BY NewKeysFinite
<1>2. InsertRecords(new, [s \in new |-> ParentOf(t, s)])
  BY DEF InsertDerived
<1>3. PICK order \in InsertOrders(new) : queues' = [d \in Depths |-> queues[d] \o order[d]]
  BY DEF InsertDerived
<1> HIDE DEF new
<1>4. /\ Stored' = Stored \cup new
      /\ parent' \in [Stored' -> RecordPtr']
      /\ \A k \in Stored : parent'[k] = parent[k]
      /\ \A k \in new : parent'[k] = ParentOf(t, k)
  BY <1>1, <1>2 DEF InsertRecords, Stored
<1>5. ASSUME NEW d \in Depths
      PROVE  /\ queues[d] \o order[d] \in Seq(Stored')
             /\ Items(queues[d] \o order[d]) = Items(queues[d]) \cup NewAt(new, d)
             /\ NoRepeats(queues[d]) => NoRepeats(queues[d] \o order[d])
  <2>1. order[d] \in Orders(NewAt(new, d)) /\ NewAt(new, d) \subseteq new
    BY <1>3 DEF InsertOrders, NewAt
  <2>2. IsFiniteSet(NewAt(new, d))
    BY <1>1, <2>1, FS_Subset
  <2>3. /\ order[d] \in Seq(NewAt(new, d)) /\ Items(order[d]) = NewAt(new, d)
        /\ NoRepeats(order[d])
    BY <2>1, <2>2, ItemsOfOrder
  <2>4. queues[d] \in Seq(Stored) /\ Items(queues[d]) \subseteq Stored
    BY DEF Items
  <2>5. queues[d] \in Seq(Stored') /\ order[d] \in Seq(Stored')
    BY <1>4, <2>1, <2>3, <2>4
  <2>6. Items(queues[d]) \cap Items(order[d]) = {}
    BY <1>1, <2>1, <2>3, <2>4
  <2> QED
    BY <2>3, <2>5, <2>6, ItemsOfAppend
<1> QED
  BY <1>3, <1>4, <1>5 DEF new

\* Threads keep the types, batch by batch.
LEMMA WorkerShape ==
    ASSUME ShapeInv, NEW t \in Threads, Worker(t) \/ WakeUnasked(t)
    PROVE  ShapeInv'
<1> USE KeysAssumption, LimitsAssumption, ThreadsAssumption
<1>1. pc[t] # "done"
  BY DEF Worker, WakeUnasked, ReturnBatch, ExtractBatch, ExtractNothing, ToldToStop,
         ExpandBatch, RecordSolution, InsertDerived
<1>2. /\ verdict = "running" /\ ~sweeping /\ ancestor = NoKey
      /\ curr_depth \in Depths /\ curr_depth < MaxDepth /\ Queue \in Seq(Stored)
  BY <1>1, WorkerRuns
<1>3. OthersStay(t)
  BY WorkerOthers
<1>4. UNCHANGED <<verdict, trace, trace_next, curr_depth, sweepVars>>
  BY DEF Worker, WakeUnasked, ReturnBatch, ExtractBatch, ExtractNothing, ToldToStop,
         ExpandBatch, RecordSolution, InsertDerived, mainVars
\* The records, the counters and the queues.
<1>5. /\ Stored \subseteq Stored' /\ Stored' \subseteq Keys
      /\ parent' \in [Stored' -> RecordPtr']
      /\ queues' \in [Depths -> Seq(Stored')]
      /\ refcount' \in [Stored' -> 0..(BYTE - 1)]
      /\ num_states_in_collection' \in Nat
      /\ count_of_items_in_queue' \in Int
  <2>1. CASE InsertDerived(t)
    <3>1. /\ NewKeys(t) \subseteq Keys /\ Cardinality(NewKeys(t)) \in Nat
          /\ IsFiniteSet(NewKeys(t))
      BY NewKeysFinite
    <3>2. /\ num_states_in_collection' \in Nat /\ count_of_items_in_queue' \in Int
      <4>1. /\ num_states_in_collection' = num_states_in_collection + Cardinality(NewKeys(t))
            /\ count_of_items_in_queue' = count_of_items_in_queue + Cardinality(NewKeys(t))
        BY <2>1 DEF InsertDerived, InsertRecords
      <4>2. num_states_in_collection \in Nat /\ count_of_items_in_queue \in Int
        BY DEF ShapeInv, TypeOK, CommonTypeOK
      <4> QED
        BY <3>1, <4>1, <4>2
    <3>3. refcount' \in [Stored' -> 0..(BYTE - 1)]
      <4> DEFINE new == NewKeys(t)
                 from == [s \in new |-> ParentOf(t, s)]
                 kids(k) == Cardinality({s \in new : from[s] = k})
      <4>1. \A k : kids(k) \in Nat
        BY <3>1, FS_Subset, FS_CardinalityType
      <4>2. refcount' = [k \in Stored' |->
                 ((IF k \in Stored THEN refcount[k] ELSE 0) + kids(k)) % 256]
        BY <2>1, InsertGrows DEF InsertDerived, AddReferences, BYTE
      <4>3. refcount \in [Stored -> 0..255]
        BY DEF ShapeInv, TypeOK, BYTE
      <4> HIDE DEF kids
      <4>4. \A x \in Nat : x % 256 \in 0..255
        OBVIOUS
      <4>5. ASSUME NEW k \in Stored'
            PROVE  ((IF k \in Stored THEN refcount[k] ELSE 0) + kids(k)) % 256 \in 0..255
        <5>1. (IF k \in Stored THEN refcount[k] ELSE 0) \in 0..255
          BY <4>3
        <5>2. (IF k \in Stored THEN refcount[k] ELSE 0) + kids(k) \in Nat
          BY <4>1, <5>1
        <5> QED
          BY <4>4, <5>2
      <4> QED
        BY <4>2, <4>5 DEF BYTE
    <3>4. Stored \subseteq Keys
      BY DEF ShapeInv, TypeOK, CommonTypeOK
    <3> QED
      BY <2>1, <3>1, <3>2, <3>3, <3>4, InsertGrows
  <2>2. CASE ExtractBatch(t)
    <3>1. queues' \in [Depths -> Seq(Stored)]
      BY <1>2, <2>2, ExtractSplits DEF ShapeInv, TypeOK
    <3>2. BatchLen \in Nat
      BY <2>2, ExtractSplits
    <3>3. /\ parent' = parent /\ refcount' = refcount
          /\ num_states_in_collection' = num_states_in_collection
          /\ count_of_items_in_queue' = count_of_items_in_queue - BatchLen
      BY <2>2 DEF ExtractBatch, InstanceIncrement
    <3>4. Stored' = Stored
      BY <3>3 DEF Stored
    <3>5. /\ Stored \subseteq Keys /\ parent \in [Stored -> RecordPtr]
          /\ refcount \in [Stored -> 0..(BYTE - 1)]
          /\ num_states_in_collection \in Nat /\ count_of_items_in_queue \in Int
      BY DEF ShapeInv, TypeOK, CommonTypeOK
    <3> QED
      BY <3>1, <3>2, <3>3, <3>4, <3>5 DEF RecordPtr
  <2>3. CASE ~InsertDerived(t) /\ ~ExtractBatch(t)
    BY <2>3 DEF Worker, WakeUnasked, ReturnBatch, ExtractNothing, ToldToStop, ExpandBatch,
                RecordSolution, commonVars, Stored, ShapeInv, TypeOK, CommonTypeOK,
                RecordPtr
  <2> QED
    BY <2>1, <2>2, <2>3
<1>6. /\ should_terminate' \in TerminateReason
      /\ queue_num_extracted_and_processed' \in Int
      /\ count_num_processed' \in Nat
  <2>1. CASE ExtractBatch(t)
    <3>1. BatchLen \in Nat
      BY <2>1, ExtractSplits
    <3> QED
      BY <2>1, <3>1 DEF ExtractBatch, InstanceIncrement, TerminateReason, ShapeInv, TypeOK,
                       CommonTypeOK
  <2>2. CASE ~ExtractBatch(t)
    BY <2>2, SMTT(40) DEF Worker, WakeUnasked, ReturnBatch, ExtractNothing, ToldToStop, ExpandBatch,
                RecordSolution, FoundSolution, InsertDerived, commonVars, TerminateReason,
                ShapeInv, TypeOK, CommonTypeOK
  <2> QED
    BY <2>1, <2>2
<1>7. queue_solution_ptr' = queue_solution_ptr \/ RecordSolution(t)
  BY DEF Worker, WakeUnasked, ReturnBatch, ExtractBatch, ExtractNothing, ToldToStop,
         ExpandBatch, InsertDerived, commonVars
<1>8. RecordSolution(t) => /\ queue_solution_ptr' \in Stored \cap Goal /\ ~Dont'
                           /\ queue_solution_ptr' # NoKey
  <2> SUFFICES ASSUME RecordSolution(t)
               PROVE  /\ queue_solution_ptr' \in Stored \cap Goal /\ ~Dont'
                      /\ queue_solution_ptr' # NoKey
    OBVIOUS
  <2>1. Items(tokens[t]) \cap Goal # {} /\ tokens[t] \in Seq(Stored)
    BY BatchItems DEF RecordSolution, BatchShape, ShapeInv, TypeOK
  <2>2. FirstIn(tokens[t], Goal) \in Stored \cap Goal
    BY <2>1, FirstInFound
  <2> QED
    BY <2>2 DEF RecordSolution, FoundSolution, Dont, ShapeInv, TypeOK, CommonTypeOK
<1>9. TypeOK'
  <2>1. trace' \in Seq(Stored') /\ trace_next' \in RecordPtr' /\ verdict' \in Verdicts
    BY <1>4, <1>5 DEF ShapeInv, TypeOK, CommonTypeOK, RecordPtr
  <2>2. queue_solution_ptr' \in RecordPtr'
    BY <1>5, <1>7, <1>8 DEF ShapeInv, TypeOK, CommonTypeOK, RecordPtr
  <2>3. tokens' \in [Threads -> Seq(Stored')]
    BY <1>3, <1>5 DEF OthersStay
  <2>4. /\ sweep_left' \subseteq Stored' /\ ancestor' \in RecordPtr'
        /\ sweeping' \in BOOLEAN /\ decommissioned' \subseteq Stored'
        /\ curr_depth' \in 0..MaxDepth
    BY <1>4, <1>5 DEF sweepVars, ShapeInv, TypeOK, RecordPtr
  <2> QED
    BY <1>3, <1>5, <1>6, <2>1, <2>2, <2>3, <2>4 DEF OthersStay, TypeOK, CommonTypeOK
<1>10. BatchShape'
  <2> USE DEF ShapeInv, BatchShape, Expanding
  <2>1. ASSUME NEW u \in Threads, u # t
        PROVE  /\ prev_size'[u] = Len(tokens'[u])
               /\ Expanding(u)' => prev_size'[u] > 0
               /\ pc'[u] = "wait" => prev_size'[u] = 0
               /\ pc'[u] = "found" => Batch(u)' \cap Goal # {}
               /\ pc'[u] = "insert" => Batch(u)' \cap Goal = {}
               /\ pc'[u] = "done" /\ prev_size'[u] > 0 => queue_solution_ptr' # NoKey
    <3>1. /\ pc'[u] = pc[u] \/ (pc[u] = "wait" /\ pc'[u] = "lock")
          /\ tokens'[u] = tokens[u] /\ prev_size'[u] = prev_size[u]
      BY <1>3, <2>1 DEF OthersStay
    <3>2. Batch(u)' = Batch(u)
      BY <3>1 DEF Batch
    <3> QED
      BY <1>7, <1>8, <3>1, <3>2
  <2>2. /\ prev_size'[t] = Len(tokens'[t])
        /\ Expanding(t)' => prev_size'[t] > 0
        /\ pc'[t] = "wait" => prev_size'[t] = 0
        /\ pc'[t] = "found" => Batch(t)' \cap Goal # {}
        /\ pc'[t] = "insert" => Batch(t)' \cap Goal = {}
        /\ pc'[t] = "done" /\ prev_size'[t] > 0 => queue_solution_ptr' # NoKey
    <3>1. CASE ReturnBatch(t)
      <4>1. pc' = pc \/ BroadcastAndGo(t, "lock")
        BY <3>1 DEF ReturnBatch
      <4>2. pc'[t] = "lock"
        BY <3>1, <4>1, WakingStays DEF ReturnBatch
      <4> QED
        BY <3>1, <4>2 DEF ReturnBatch, TypeOK
    <3>2. CASE ExtractBatch(t)
      <4>1. pc'[t] = "batch" /\ prev_size'[t] = Len(tokens'[t]) /\ prev_size'[t] > 0
        BY <3>2, ExtractSplits DEF TypeOK
      <4> QED
        BY <4>1
    <3>3. CASE ExtractNothing(t) \/ ToldToStop(t) \/ WakeUnasked(t)
      BY <3>3 DEF ExtractNothing, ToldToStop, WakeUnasked, TypeOK
    <3>4. CASE ExpandBatch(t)
      BY <3>4 DEF ExpandBatch, Batch, TypeOK
    <3>5. CASE RecordSolution(t)
      <4>1. pc'[t] = "done" /\ tokens' = tokens /\ prev_size' = prev_size
        BY <3>5, WakingStays DEF RecordSolution
      <4> QED
        BY <1>8, <3>5, <4>1
    <3>6. CASE InsertDerived(t)
      <4>1. BroadcastAndGo(t, "lock") \/ SignalAndGo(t, "lock")
        BY <3>6 DEF InsertDerived
      <4>2. pc'[t] = "lock" /\ tokens' = tokens /\ prev_size' = prev_size
        BY <3>6, <4>1, WakingStays DEF InsertDerived
      <4> QED
        BY <4>2
    <3> QED
      BY <3>1, <3>2, <3>3, <3>4, <3>5, <3>6 DEF Worker
  <2> QED
    BY <2>1, <2>2
<1>11. MainShape'
  <2>1. Dont' => Dont
    BY DEF Dont, Worker, WakeUnasked, ReturnBatch, ExtractBatch, InstanceIncrement,
           ExtractNothing, ToldToStop, ExpandBatch, RecordSolution, FoundSolution,
           InsertDerived, commonVars
  <2> QED
    BY <1>2, <1>4, <1>7, <1>8, <2>1 DEF ShapeInv, MainShape, sweepVars
<1> QED
  BY <1>5, <1>9, <1>10, <1>11 DEF ShapeInv

\* What main does between two depths changes no batch and no record's place.
LEMMA MainStays ==
    ASSUME ShapeInv, Main
    PROVE  /\ UNCHANGED <<commonVars, queues, tokens, prev_size>>
           /\ Stored' = Stored
           /\ \A t \in Threads : Batch(t)' = Batch(t)
           /\ \A d : Queued(d)' = Queued(d)
           /\ (Dont' <=> Dont)
           /\ \/ pc' = pc /\ \A t \in Threads : pc[t] = "done"
              \/ NextDepth /\ curr_depth' < MaxDepth /\ pc' = [t \in Threads |-> "lock"]
<1>1. UNCHANGED <<commonVars, queues, tokens, prev_size>>
  BY DEF Main, ReportSolution, StartSweep, SweepItem, SweepAncestor, NextDepth,
         TraceSolution, threadVars
<1>2. \/ pc' = pc /\ \A t \in Threads : pc[t] = "done"
      \/ NextDepth /\ curr_depth' < MaxDepth /\ pc' = [t \in Threads |-> "lock"]
  BY DEF Main, Joined, ReportSolution, StartSweep, SweepItem, SweepAncestor, NextDepth,
         TraceSolution, CalcTrace, threadVars, ShapeInv, MainShape
<1> QED
  BY <1>1, <1>2 DEF commonVars, Stored, Batch, Queued, Dont

LEMMA MainKeepsShape ==
    ASSUME ShapeInv, Main
    PROVE  ShapeInv'
<1> USE KeysAssumption, ThreadsAssumption, DepthAssumption
<1>1. /\ UNCHANGED <<commonVars, queues, tokens, prev_size>>
      /\ Stored' = Stored /\ (Dont' <=> Dont)
      /\ \A t \in Threads : Batch(t)' = Batch(t)
  BY MainStays
<1>2. \/ pc' = pc /\ \A t \in Threads : pc[t] = "done"
      \/ NextDepth /\ curr_depth' < MaxDepth /\ pc' = [t \in Threads |-> "lock"]
  BY MainStays
<1>3. /\ Stored' \subseteq Keys /\ parent' \in [Stored' -> RecordPtr']
      /\ queues' \in [Depths -> Seq(Stored')] /\ tokens' \in [Threads -> Seq(Stored')]
      /\ prev_size' \in [Threads -> 0..MaxBatch]
      /\ should_terminate' \in TerminateReason
      /\ queue_num_extracted_and_processed' \in Int
      /\ num_states_in_collection' \in Nat /\ count_num_processed' \in Nat
      /\ count_of_items_in_queue' \in Int /\ queue_solution_ptr' \in RecordPtr'
      /\ Root \in Stored'
  BY <1>1 DEF ShapeInv, TypeOK, CommonTypeOK, commonVars, RecordPtr
<1>4. pc' \in [Threads -> {"lock", "wait", "batch", "found", "insert", "done"}]
  BY <1>2 DEF ShapeInv, TypeOK
<1>5. /\ verdict' \in Verdicts /\ trace' \in Seq(Stored') /\ trace_next' \in RecordPtr'
  <2>1. CASE TraceSolution
    BY <1>1, <2>1 DEF TraceSolution, CalcTrace, ShapeInv, TypeOK, CommonTypeOK, RecordPtr
  <2>2. CASE HandleSolution
    BY <1>1, <2>2 DEF HandleSolution, Verdicts, ShapeInv, TypeOK, CommonTypeOK, RecordPtr
  <2>3. CASE ~TraceSolution /\ ~HandleSolution
    <3>1. UNCHANGED <<verdict, trace, trace_next>>
      BY <2>3 DEF Main, ReportSolution, StartSweep, SweepItem, SweepAncestor, NextDepth,
                  mainVars
    <3> QED
      BY <1>1, <3>1 DEF ShapeInv, TypeOK, CommonTypeOK, RecordPtr
  <2> QED
    BY <2>1, <2>2, <2>3
<1>6. /\ sweep_left' \subseteq Stored' /\ ancestor' \in RecordPtr'
      /\ sweeping' \in BOOLEAN /\ decommissioned' \subseteq Stored'
  <2>1. /\ sweep_left \subseteq Stored /\ ancestor \in RecordPtr
        /\ sweeping \in BOOLEAN /\ decommissioned \subseteq Stored
        /\ parent \in [Stored -> RecordPtr]
    BY DEF ShapeInv, TypeOK, CommonTypeOK
  <2> QED
    BY <1>1, <2>1 DEF RecordPtr, Main, ReportSolution, StartSweep, SweepItem,
                      SweepAncestor, NextDepth, TraceSolution, sweepVars
<1>7. refcount' \in [Stored' -> 0..(BYTE - 1)]
  <2>1. refcount \in [Stored -> 0..255] /\ parent \in [Stored -> RecordPtr]
        /\ ancestor \in RecordPtr
    BY DEF ShapeInv, TypeOK, CommonTypeOK, BYTE
  <2>2. CASE SweepAncestor
    <3>1. \A x \in 0..255 : (x + 256 - 1) % 256 \in 0..255
      OBVIOUS
    <3>2. /\ refcount' = refcount \/ /\ ancestor' = parent[ancestor] /\ ancestor' # NoKey
                                     /\ ancestor \in Stored
                                     /\ refcount' = [refcount EXCEPT ![ancestor'] =
                                                       (@ + 256 - 1) % 256]
      BY <2>1, <2>2 DEF SweepAncestor, BYTE, RecordPtr
    <3>3. CASE refcount' # refcount
      <4>1. ancestor' \in Stored
        BY <2>1, <3>2, <3>3 DEF RecordPtr
      <4>2. (refcount[ancestor'] + 256 - 1) % 256 \in 0..255
        BY <2>1, <3>1, <4>1
      <4> QED
        BY <1>1, <2>1, <3>2, <3>3, <4>2 DEF BYTE
    <3> QED
      BY <1>1, <2>1, <3>3 DEF BYTE
  <2>3. CASE ~SweepAncestor
    <3>1. refcount' = refcount
      BY <2>3 DEF Main, ReportSolution, StartSweep, SweepItem, NextDepth, TraceSolution
    <3> QED
      BY <1>1, <2>1, <3>1 DEF BYTE
  <2> QED
    BY <2>2, <2>3
<1>8. curr_depth' \in 0..MaxDepth
  <2>1. curr_depth \in 0..MaxDepth /\ (sweeping => curr_depth < MaxDepth)
    BY DEF ShapeInv, TypeOK, MainShape
  <2> QED
    BY <2>1 DEF Main, ReportSolution, StartSweep, SweepItem, SweepAncestor, NextDepth,
                TraceSolution
<1>9. TypeOK'
  BY <1>3, <1>4, <1>5, <1>6, <1>7, <1>8 DEF TypeOK, CommonTypeOK
<1>10. BatchShape'
  BY <1>1, <1>2 DEF ShapeInv, BatchShape, Expanding, commonVars
<1>11. MainShape'
  <2>1. /\ queue_solution_ptr' # NoKey => queue_solution_ptr' \in Goal /\ ~Dont'
        /\ queue_solution_ptr' = queue_solution_ptr /\ should_terminate' = should_terminate
    BY <1>1 DEF ShapeInv, MainShape, commonVars
  <2>2. /\ verdict # "running" => \A t \in Threads : pc[t] = "done"
        /\ verdict = "running" => curr_depth < MaxDepth
        /\ verdict = "Could not solve" => curr_depth = MaxDepth /\ Dont
        /\ sweeping => /\ verdict = "running" /\ queue_solution_ptr = NoKey
                       /\ \A t \in Threads : pc[t] = "done"
        /\ ancestor # NoKey => sweeping
        /\ curr_depth \in 0..MaxDepth
    BY DEF ShapeInv, MainShape, TypeOK
  <2>3. CASE ReportSolution
    BY <1>1, <2>1, <2>2, <2>3
       DEF ReportSolution, Joined, HandleSolution, MainShape, sweepVars, threadVars
  <2>4. CASE StartSweep
    BY <1>1, <2>1, <2>2, <2>4 DEF StartSweep, Joined, MainShape, mainVars, threadVars
  <2>5. CASE SweepAncestor \/ \E k \in sweep_left : SweepItem(k)
    BY <1>1, <2>1, <2>2, <2>5 DEF SweepAncestor, SweepItem, MainShape, mainVars, threadVars
  <2>6. CASE NextDepth
    <3>1. CASE curr_depth' < MaxDepth
      BY <1>1, <2>1, <2>2, <2>6, <3>1 DEF NextDepth, MainShape, mainVars
    <3>2. CASE ~(curr_depth' < MaxDepth)
      <4>1. curr_depth' = MaxDepth
        BY <2>2, <2>6, <3>2 DEF NextDepth
      <4> QED
        BY <1>1, <2>1, <2>2, <2>6, <3>2, <4>1 DEF NextDepth, HandleSolution, MainShape, Dont
    <3> QED
      BY <3>1, <3>2
  <2>7. CASE TraceSolution
    BY <1>1, <2>1, <2>2, <2>7 DEF TraceSolution, CalcTrace, MainShape, threadVars, sweepVars
  <2> QED
    BY <2>3, <2>4, <2>5, <2>6, <2>7 DEF Main
<1> QED
  BY <1>3, <1>9, <1>10, <1>11 DEF ShapeInv

\* A step that changes nothing: of the system, or once it has exited.
LEMMA StutterShape == ASSUME ShapeInv, UNCHANGED vars PROVE ShapeInv'
BY ZenonT(60) DEF vars, commonVars, mainVars, threadVars, sweepVars, ShapeInv, TypeOK, CommonTypeOK,
       RecordPtr, Stored, BatchShape, MainShape, Batch, Expanding, Dont

LEMMA NextShape == ASSUME ShapeInv, [Next]_vars PROVE ShapeInv'
BY WorkerShape, MainKeepsShape, StutterShape DEF Next, Exited

-----------------------------------------------------------------------------
(***************************************************************************)
(* The counter of extracted items.                                         *)
(***************************************************************************)
\* The places of one thread's batch: as many as the batch has items.
LEMMA PlacesOfBatch ==
    ASSUME NEW t, NEW n \in Nat
    PROVE  IsFiniteSet({t} \X (1..n)) /\ Cardinality({t} \X (1..n)) = n
<1>1. IsFiniteSet({t}) /\ Cardinality({t}) = 1
  BY FS_Singleton
<1>2. IsFiniteSet(1..n) /\ Cardinality(1..n) = n
  BY FS_Interval
<1>3. /\ IsFiniteSet({t} \X (1..n))
      /\ Cardinality({t} \X (1..n)) = Cardinality({t}) * Cardinality(1..n)
  BY <1>1, <1>2, FS_Product
<1> QED
  BY <1>1, <1>2, <1>3

LEMMA InFlightFinite == IsFiniteSet(InFlight) /\ Cardinality(InFlight) \in Nat
<1>1. IsFiniteSet(Threads) /\ IsFiniteSet(1..MaxBatch)
  BY ThreadsAssumption, FS_Interval
<1>2. IsFiniteSet(Threads \X (1..MaxBatch))
  BY <1>1, FS_Product
<1>3. InFlight \subseteq Threads \X (1..MaxBatch)
  BY DEF InFlight
<1> QED
  BY <1>2, <1>3, FS_Subset, FS_CardinalityType

\* If one thread has no batch, another function of sizes that gives it n items
\* and agrees with the first elsewhere has n items more in flight.
LEMMA OneBatchMore ==
    ASSUME NEW t \in Threads, NEW n \in 0..MaxBatch,
           NEW few \in [Threads -> 0..MaxBatch], few[t] = 0,
           NEW many, many = [few EXCEPT ![t] = n],
           NEW A, A = {p \in Threads \X (1..MaxBatch) : p[2] <= few[p[1]]},
           NEW B, B = {p \in Threads \X (1..MaxBatch) : p[2] <= many[p[1]]},
           IsFiniteSet(A)
    PROVE  Cardinality(B) = Cardinality(A) + n
<1> DEFINE C == {t} \X (1..n)
<1>0. n \in Nat /\ n <= MaxBatch /\ MaxBatch \in Nat
  BY ThreadsAssumption
<1>1. IsFiniteSet(C) /\ Cardinality(C) = n
  BY <1>0, PlacesOfBatch
<1>2. A \cap C = {}
  <2> SUFFICES ASSUME NEW p \in A, p \in C PROVE FALSE
    OBVIOUS
  <2>1. p[1] = t /\ p[2] \in 1..n /\ p[2] <= few[p[1]]
    OBVIOUS
  <2> QED
    BY <1>0, <2>1
<1>3. B = A \cup C
  <2>1. ASSUME NEW p \in Threads \X (1..MaxBatch)
        PROVE  p \in B <=> p \in A \/ p \in C
    <3>1. PICK u \in Threads, i \in 1..MaxBatch : p = <<u, i>>
      OBVIOUS
    <3>2. CASE u = t
      BY <1>0, <3>1, <3>2
    <3>3. CASE u # t
      BY <1>0, <3>1, <3>3
    <3> QED
      BY <3>2, <3>3
  <2>2. C \subseteq Threads \X (1..MaxBatch)
    BY <1>0
  <2> HIDE DEF C
  <2> QED
    BY <2>1, <2>2
<1>4. Cardinality(A) \in Nat
  BY FS_CardinalityType
<1> HIDE DEF C
<1>7. Cardinality(B) = Cardinality(A \cup C)
  BY <1>3
<1>5. Cardinality(A \cup C) = Cardinality(A) + Cardinality(C) - Cardinality(A \cap C)
  BY <1>1, FS_Union
<1>6. Cardinality(A \cap C) = 0
  BY <1>2, FS_EmptySet
<1> QED
  BY ONLY <1>0, <1>1, <1>4, <1>5, <1>6, <1>7

LEMMA InitCounter == ASSUME Init PROVE CounterExact
<1>1. InFlight = {}
  BY ThreadsAssumption DEF Init, InFlight
<1>2. queue_num_extracted_and_processed = 0
  BY DEF Init, CommonInit
<1> QED
  BY <1>1, <1>2, FS_EmptySet, InitShape DEF CounterExact, ShapeInv

LEMMA NextCounter ==
    ASSUME ShapeInv, CounterExact, [Next]_vars
    PROVE  CounterExact'
<1>1. TypeOK' /\ prev_size \in [Threads -> 0..MaxBatch]
  BY NextShape DEF ShapeInv, TypeOK
<1>2. IsFiniteSet(InFlight) /\ Cardinality(InFlight) \in Nat
  BY InFlightFinite
<1>3. queue_num_extracted_and_processed = Cardinality(InFlight)
  BY DEF CounterExact
<1>4. ASSUME NEW t \in Threads, ExtractBatch(t) PROVE CounterExact'
  <2>1. /\ BatchLen \in 0..MaxBatch /\ BatchLen \in Nat
        /\ prev_size' = [prev_size EXCEPT ![t] = BatchLen]
    BY <1>4, ExtractSplits
  <2>2. prev_size[t] = 0
    BY <1>4 DEF ExtractBatch
  <2>3. Cardinality(InFlight') = Cardinality(InFlight) + BatchLen
    BY <1>1, <1>2, <2>1, <2>2, OneBatchMore DEF InFlight
  <2>4. queue_num_extracted_and_processed' = queue_num_extracted_and_processed - 0 + BatchLen
    BY <1>4 DEF ExtractBatch, InstanceIncrement
  <2> QED
    BY <1>1, <1>2, <1>3, <2>1, <2>3, <2>4 DEF CounterExact
<1>5. ASSUME NEW t \in Threads, ReturnBatch(t) PROVE CounterExact'
  <2>1. /\ prev_size' = [prev_size EXCEPT ![t] = 0]
        /\ queue_num_extracted_and_processed' =
              queue_num_extracted_and_processed - prev_size[t]
    BY <1>5 DEF ReturnBatch
  <2>2. /\ prev_size' \in [Threads -> 0..MaxBatch] /\ prev_size'[t] = 0
        /\ prev_size[t] \in 0..MaxBatch /\ prev_size[t] \in Nat
    BY <1>1, <2>1, ThreadsAssumption
  <2>5. prev_size = [prev_size' EXCEPT ![t] = prev_size[t]]
    <3>1. prev_size = [u \in Threads |-> prev_size[u]]
      BY <1>1
    <3>2. \A u \in Threads : prev_size[u] = [prev_size' EXCEPT ![t] = prev_size[t]][u]
      BY <1>1, <2>1, <2>2
    <3> QED
      BY <2>2, <3>1, <3>2, Zenon
  <2>3. IsFiniteSet(InFlight') /\ Cardinality(InFlight') \in Nat
    <3>1. InFlight' \subseteq InFlight
      BY <1>1, <2>1, ThreadsAssumption DEF InFlight
    <3> QED
      BY <1>2, <3>1, FS_Subset, FS_CardinalityType
  <2>4. Cardinality(InFlight) = Cardinality(InFlight') + prev_size[t]
    BY <2>2, <2>3, <2>5, OneBatchMore DEF InFlight
  <2> QED
    BY <1>1, <1>3, <2>1, <2>2, <2>3, <2>4 DEF CounterExact
<1>6. ASSUME UNCHANGED <<queue_num_extracted_and_processed, prev_size>>
      PROVE  CounterExact'
  BY <1>1, <1>6 DEF CounterExact, InFlight
<1>7. \/ UNCHANGED <<queue_num_extracted_and_processed, prev_size>>
      \/ \E t \in Threads : ExtractBatch(t) \/ ReturnBatch(t)
  BY MainStays DEF Next, Worker, WakeUnasked, ExtractNothing, ToldToStop, ExpandBatch,
         RecordSolution, InsertDerived, Exited, vars, threadVars, commonVars
<1> QED
  BY <1>4, <1>5, <1>6, <1>7

THEOREM CounterIsExact == Spec => []CounterExact
<1>1. Init => ShapeInv /\ CounterExact
  BY InitShape, InitCounter
<1>2. ShapeInv /\ CounterExact /\ [Next]_vars => (ShapeInv /\ CounterExact)'
  BY NextShape, NextCounter
<1> QED
  BY <1>1, <1>2, PTL DEF Spec

-----------------------------------------------------------------------------
(***************************************************************************)
(* Where the work is.                                                      *)
(***************************************************************************)
\* The steps of one thread, by what they do to the queues and the batches.
LEMMA OthersKeepBatches ==
    ASSUME NEW t \in Threads, OthersStay(t), NEW u \in Threads, u # t
    PROVE  (Expanding(u)' <=> Expanding(u)) /\ Batch(u)' = Batch(u)
BY DEF OthersStay, Expanding, Batch

LEMMA ExtractMoves ==
    ASSUME ShapeInv, NEW t \in Threads, ExtractBatch(t)
    PROVE  /\ Stored' = Stored /\ UNCHANGED <<parent, queue_solution_ptr>>
           /\ curr_depth \in Depths /\ curr_depth' = curr_depth
           /\ ~Expanding(t) /\ Expanding(t)' /\ Dont /\ verdict' = verdict
           /\ Queued(curr_depth) = Batch(t)' \cup Queued(curr_depth)'
           /\ \A d \in Depths : d # curr_depth => queues'[d] = queues[d]
           /\ \A d \in Depths : Queued(d)' \subseteq Queued(d)
           /\ queues[curr_depth] # <<>>
<1>1. curr_depth \in Depths /\ Queue \in Seq(Stored)
  BY WorkerRuns DEF ExtractBatch
<1>2. /\ tokens' = [tokens EXCEPT ![t] = Front] /\ pc' = [pc EXCEPT ![t] = "batch"]
      /\ queues' = [queues EXCEPT ![curr_depth] = Rest]
      /\ Items(Queue) = Items(Front) \cup Items(Rest)
  BY ExtractSplits
<1>3. /\ queues \in [Depths -> Seq(Stored)] /\ tokens \in [Threads -> Seq(Stored)]
      /\ pc \in [Threads -> {"lock", "wait", "batch", "found", "insert", "done"}]
  BY DEF ShapeInv, TypeOK
<1>4. /\ tokens'[t] = Front /\ queues'[curr_depth] = Rest /\ pc'[t] = "batch"
      /\ \A d \in Depths : d # curr_depth => queues'[d] = queues[d]
  BY <1>1, <1>2, <1>3
<1>5. /\ Batch(t)' = Items(Front)
      /\ \A d : Queued(d) = Items(queues[d]) /\ Queued(d)' = Items(queues'[d])
  BY <1>4 DEF Batch, Queued, Items
<1>6. queues[curr_depth] # <<>>
  <2>1. BatchLen > 0 /\ BatchLen \in 0..Len(Queue)
    BY ExtractSplits
  <2> QED
    BY <1>1, <2>1 DEF Queue
<1> QED
  BY <1>1, <1>2, <1>4, <1>5, <1>6
     DEF ExtractBatch, Dont, Expanding, Stored, mainVars, Queue

LEMMA InsertMoves ==
    ASSUME ShapeInv, DepthShape, NEW t \in Threads, InsertDerived(t)
    PROVE  /\ curr_depth \in Depths /\ curr_depth' = curr_depth
           /\ verdict' = verdict /\ (Dont' <=> Dont)
           /\ Expanding(t) /\ ~Expanding(t)' /\ Batch(t)' = Batch(t)
           /\ prev_size[t] > 0
           /\ \A d \in Depths :
                 Queued(d)' = Queued(d) \cup NewAt(NewKeys(t), d)
           /\ \A s \in NewKeys(t) : Depth[s] \in Depths /\ Depth[s] >= curr_depth
           /\ \A k \in Batch(t) : k \notin Goal /\ Succ[k] \subseteq Stored'
<1>1. curr_depth \in Depths
  BY WorkerRuns DEF InsertDerived
<1>2. \A d \in Depths : Queued(d)' = Queued(d) \cup NewAt(NewKeys(t), d)
  BY InsertGrows DEF Queued, Items
<1>3. pc[t] = "insert" /\ pc'[t] = "lock" /\ tokens' = tokens
  <2>1. BroadcastAndGo(t, "lock") \/ SignalAndGo(t, "lock")
    BY DEF InsertDerived
  <2> QED
    BY <2>1, WakingStays DEF InsertDerived, ShapeInv
<1>4. ASSUME NEW s \in NewKeys(t)
      PROVE  Depth[s] \in Depths /\ Depth[s] >= curr_depth
  <2>1. /\ ParentOf(t, s) \in Batch(t) /\ ParentOf(t, s) \in Keys
        /\ s \in Succ[ParentOf(t, s)] /\ s \in Keys
    BY NewKeysFinite DEF ShapeInv, TypeOK, CommonTypeOK
  <2>2. Depth[ParentOf(t, s)] = curr_depth
    BY <2>1 DEF DepthShape
  <2>3. Depth[s] >= Depth[ParentOf(t, s)] /\ Depth[s] \in Depths
    BY <2>1, DepthAssumption DEF Depths
  <2> QED
    BY <2>2, <2>3
<1>5. ASSUME NEW k \in Batch(t)
      PROVE  k \notin Goal /\ Succ[k] \subseteq Stored'
  <2>1. k \notin Goal
    BY <1>3 DEF ShapeInv, BatchShape
  <2>2. Succ[k] \subseteq Derived(t)
    BY DEF Derived
  <2>3. Stored' = Stored \cup NewKeys(t)
    BY InsertGrows
  <2> QED
    BY <2>1, <2>2, <2>3 DEF NewKeys
<1> QED
  BY <1>1, <1>2, <1>3, <1>4, <1>5
     DEF InsertDerived, Expanding, Batch, Dont, mainVars, ShapeInv, BatchShape

LEMMA OtherMoves ==
    ASSUME ShapeInv, NEW t \in Threads, Worker(t) \/ WakeUnasked(t),
           ~ExtractBatch(t), ~InsertDerived(t)
    PROVE  /\ Stored' = Stored /\ UNCHANGED <<parent, queues, curr_depth, verdict>>
           /\ Expanding(t)' => Expanding(t) /\ tokens'[t] = tokens[t]
           /\ Batch(t)' \subseteq Batch(t)
           /\ \A d \in Depths : Queued(d)' = Queued(d)
           /\ Dont' => Dont
           /\ prev_size'[t] = 0 \/ prev_size'[t] = prev_size[t]
           /\ Dont' => \/ Expanding(t)' \/ ~Expanding(t)
                       \/ \A k \in Batch(t) : k \notin Goal /\ Succ[k] \subseteq Stored'
<1> USE DEF ShapeInv, TypeOK
<1>1. Stored' = Stored /\ UNCHANGED <<parent, queues, curr_depth, verdict>>
  BY DEF Worker, WakeUnasked, ReturnBatch, ExtractNothing, ToldToStop, ExpandBatch,
         RecordSolution, commonVars, mainVars, Stored
<1>2. Expanding(t)' => Expanding(t) /\ tokens'[t] = tokens[t]
  <2>1. CASE ReturnBatch(t)
    <3>1. pc' = pc \/ BroadcastAndGo(t, "lock")
      BY <2>1 DEF ReturnBatch
    <3>2. pc'[t] = "lock"
      BY <2>1, <3>1, WakingStays DEF ReturnBatch
    <3> QED
      BY <3>2 DEF Expanding
  <2>2. CASE RecordSolution(t)
    BY <2>2, WakingStays DEF RecordSolution, Expanding
  <2>3. CASE ~ReturnBatch(t) /\ ~RecordSolution(t)
    BY <2>3 DEF Worker, WakeUnasked, ExtractNothing, ToldToStop, ExpandBatch, Expanding
  <2> QED
    BY <2>1, <2>2, <2>3
<1>3. \/ tokens' = tokens /\ prev_size' = prev_size
      \/ /\ tokens' = [tokens EXCEPT ![t] = <<>>]
         /\ prev_size' = [prev_size EXCEPT ![t] = 0]
  BY DEF Worker, WakeUnasked, ReturnBatch, ExtractNothing, ToldToStop, ExpandBatch,
         RecordSolution
<1>4. Batch(t)' \subseteq Batch(t)
  BY <1>3 DEF Batch
<1>5. Dont' => Dont
  BY DEF Dont, Worker, WakeUnasked, ReturnBatch, ExtractNothing, ToldToStop, ExpandBatch,
         RecordSolution, FoundSolution, commonVars
<1>6. Dont' => \/ Expanding(t)' \/ ~Expanding(t)
               \/ \A k \in Batch(t) : k \notin Goal /\ Succ[k] \subseteq Stored'
  <2>1. CASE ExpandBatch(t)
    <3>1. CASE Batch(t) \cap Goal # {}
      BY <2>1, <3>1 DEF ExpandBatch, Expanding
    <3>2. CASE Batch(t) \cap Goal = {} /\ Len(tokens[t]) = 1 /\ Derived(t) = {}
      BY <3>2 DEF Derived
    <3>3. CASE Batch(t) \cap Goal = {} /\ ~(Len(tokens[t]) = 1 /\ Derived(t) = {})
      BY <2>1, <3>3 DEF ExpandBatch, Expanding
    <3> QED
      BY <3>1, <3>2, <3>3
  <2>2. CASE RecordSolution(t)
    BY <2>2 DEF RecordSolution, FoundSolution, Dont
  <2>3. CASE ~ExpandBatch(t) /\ ~RecordSolution(t)
    BY <2>3 DEF Worker, WakeUnasked, ReturnBatch, ExtractNothing, ToldToStop, Expanding
  <2> QED
    BY <2>1, <2>2, <2>3
<1> QED
  BY <1>1, <1>2, <1>3, <1>4, <1>5, <1>6 DEF Queued

\* Between two depths nobody holds a batch.
LEMMA NobodyHolds ==
    ASSUME ShapeInv, queue_solution_ptr = NoKey, \A t \in Threads : pc[t] = "done"
    PROVE  \A t \in Threads : prev_size[t] = 0 /\ Batch(t) = {} /\ ~Expanding(t)
<1> SUFFICES ASSUME NEW t \in Threads
             PROVE  prev_size[t] = 0 /\ Batch(t) = {} /\ ~Expanding(t)
  OBVIOUS
<1>1. prev_size[t] = 0 /\ tokens[t] \in Seq(Stored) /\ Len(tokens[t]) = 0
  BY ThreadsAssumption DEF ShapeInv, BatchShape, TypeOK
<1>2. Batch(t) = {}
  BY <1>1 DEF Batch
<1> QED
  BY <1>1, <1>2 DEF Expanding

LEMMA WorkerDepths ==
    ASSUME ShapeInv, DepthShape, NEW t \in Threads, Worker(t) \/ WakeUnasked(t)
    PROVE  DepthShape'
<1>1. OthersStay(t)
  BY WorkerOthers
<1>2. \A u \in Threads \ {t} : Batch(u)' = Batch(u)
  BY <1>1, OthersKeepBatches
<1>3. CASE ExtractBatch(t)
  <2>1. \A k \in Batch(t)' : Depth[k] = curr_depth
    BY <1>3, ExtractMoves DEF DepthShape
  <2>2. Dont' => Dont
    BY <1>3, ExtractMoves
  <2> QED
    BY <1>2, <1>3, <2>1, <2>2, ExtractMoves DEF DepthShape
<1>4. CASE InsertDerived(t)
  <2>1. \A d \in Depths : \A k \in Queued(d)' : Depth[k] = d
    BY <1>4, InsertMoves DEF DepthShape, NewAt
  <2>2. \A u \in Threads : \A k \in Batch(u)' : Depth[k] = curr_depth'
    BY <1>2, <1>4, InsertMoves DEF DepthShape
  <2>3. ASSUME Dont', NEW d \in Depths, d < curr_depth'
        PROVE  queues'[d] = <<>>
    <3>1. queues[d] = <<>> /\ d < curr_depth
      BY <1>4, <2>3, InsertMoves DEF DepthShape
    <3>2. NewAt(NewKeys(t), d) = {}
      <4>1. ASSUME NEW s \in NewAt(NewKeys(t), d) PROVE FALSE
        <5>1. Depth[s] = d /\ Depth[s] >= curr_depth /\ curr_depth \in Depths
          BY <1>4, <4>1, InsertMoves DEF NewAt
        <5> QED
          BY <3>1, <5>1, DepthAssumption DEF Depths
      <4> QED
        BY <4>1
    <3>5. Items(queues[d]) = {}
      BY <3>1, EmptyItems DEF ShapeInv, TypeOK
    <3>3. queues'[d] \in Seq(Stored') /\ Items(queues'[d]) = {}
      <4>1. Items(queues'[d]) = Items(queues[d]) \cup NewAt(NewKeys(t), d)
        BY <1>4, InsertGrows
      <4>2. queues'[d] \in Seq(Stored')
        BY <1>4, InsertGrows
      <4> QED
        BY <3>2, <3>5, <4>1, <4>2
    <3>4. CASE queues'[d] # <<>>
      <4>1. 1 \in DOMAIN queues'[d]
        BY <3>3, <3>4
      <4> QED
        BY <3>3, <4>1 DEF Items
    <3> QED
      BY <3>4
  <2> QED
    BY <2>1, <2>2, <2>3 DEF DepthShape
<1>5. CASE ~ExtractBatch(t) /\ ~InsertDerived(t)
  BY <1>2, <1>5, OtherMoves DEF DepthShape
<1> QED
  BY <1>3, <1>4, <1>5

LEMMA MainDepths ==
    ASSUME ShapeInv, DepthShape, QuietExit, Main
    PROVE  DepthShape'
<1>1. /\ queues' = queues /\ \A t \in Threads : Batch(t)' = Batch(t)
      /\ \A d : Queued(d)' = Queued(d)
      /\ Dont' <=> Dont
  BY MainStays
<1>2. CASE curr_depth' = curr_depth
  BY <1>1, <1>2 DEF DepthShape
<1>3. CASE NextDepth
  <2>1. /\ sweeping /\ curr_depth' = curr_depth + 1
        /\ queue_solution_ptr = NoKey /\ verdict = "running"
        /\ \A t \in Threads : pc[t] = "done"
        /\ curr_depth \in Depths
    BY <1>3, DepthAssumption DEF NextDepth, ShapeInv, MainShape, TypeOK, Depths
  <2>2. \A t \in Threads : Batch(t)' = {}
    BY <1>1, <2>1, NobodyHolds
  <2>3. Dont => queues[curr_depth] = <<>>
    BY <2>1, ThreadsAssumption DEF QuietExit
  <2>4. ASSUME Dont', NEW d \in Depths, d < curr_depth' PROVE queues'[d] = <<>>
    <3>1. d < curr_depth \/ d = curr_depth
      BY <2>1, <2>4, DepthAssumption DEF Depths
    <3> QED
      BY <1>1, <2>3, <2>4, <3>1 DEF DepthShape
  <2> QED
    BY <1>1, <2>2, <2>4 DEF DepthShape
<1> QED
  BY <1>2, <1>3 DEF Main, ReportSolution, StartSweep, SweepItem, SweepAncestor, TraceSolution

LEMMA WorkerQuiet ==
    ASSUME ShapeInv, CounterExact, DepthShape, QuietExit, NEW t \in Threads,
           Worker(t) \/ WakeUnasked(t)
    PROVE  QuietExit'
<1> SUFFICES ASSUME Dont', verdict' = "running", NEW v \in Threads, pc'[v] = "done"
             PROVE  /\ queues'[curr_depth'] = <<>>
                    /\ \A u \in Threads : prev_size'[u] = 0
  BY DEF QuietExit
<1>1. OthersStay(t)
  BY WorkerOthers
<1>2. CASE \E u \in Threads : pc[u] = "done"
  <2>1. Dont /\ verdict = "running"
    BY ExtractMoves, InsertMoves, OtherMoves, WorkerRuns, <1>2
       DEF QuietExit
  <2>2. queues[curr_depth] = <<>> /\ \A u \in Threads : prev_size[u] = 0
    BY <1>2, <2>1 DEF QuietExit
  <2>3. ~ExtractBatch(t) /\ ~InsertDerived(t)
    BY <2>2, ExtractMoves, InsertMoves
  <2>4. queues' = queues /\ curr_depth' = curr_depth /\ prev_size'[t] = 0
    BY <2>2, <2>3, OtherMoves
  <2> QED
    BY <1>1, <2>2, <2>4 DEF OthersStay
<1>3. CASE \A u \in Threads : pc[u] # "done"
  <2>1. v = t
    BY <1>1, <1>3 DEF OthersStay
  <2>2. pc'[t] = "done"
    BY <2>1
  <2>3. ExtractNothing(t) /\ queue_num_extracted_and_processed = 0
    <3>1. ~ReturnBatch(t) /\ ~InsertDerived(t)
      <4>1. ASSUME BroadcastAndGo(t, "lock") \/ SignalAndGo(t, "lock"), pc[t] # "wait"
            PROVE  FALSE
        BY <2>2, <4>1, WakingStays DEF ShapeInv
      <4> QED
        BY <1>3, <4>1 DEF ReturnBatch, InsertDerived
    <3>2. ~RecordSolution(t) /\ ~ToldToStop(t)
      BY DEF RecordSolution, FoundSolution, ToldToStop, commonVars, Dont
    <3>3. ~ExtractBatch(t) /\ ~ExpandBatch(t) /\ ~WakeUnasked(t)
      BY <2>2 DEF ExtractBatch, ExpandBatch, WakeUnasked, ShapeInv, TypeOK
    <3>4. ExtractNothing(t)
      BY <3>1, <3>2, <3>3 DEF Worker
    <3> QED
      BY <2>2, <3>4 DEF ExtractNothing, ShapeInv, TypeOK
  <2>4. InFlight = {}
    BY <2>3, InFlightFinite, FS_EmptySet DEF CounterExact
  <2>5. ASSUME NEW u \in Threads PROVE prev_size[u] = 0
    <3>1. prev_size[u] \in 0..MaxBatch /\ MaxBatch \in Nat
      BY ThreadsAssumption DEF ShapeInv, TypeOK
    <3>2. CASE prev_size[u] # 0
      <4>1. <<u, prev_size[u]>> \in InFlight
        BY <3>1, <3>2 DEF InFlight
      <4> QED
        BY <2>4, <4>1
    <3> QED
      BY <3>2
  <2> QED
    BY <2>3, <2>5 DEF ExtractNothing, Queue
<1> QED
  BY <1>2, <1>3

LEMMA MainQuiet ==
    ASSUME ShapeInv, QuietExit, Main
    PROVE  QuietExit'
<1> SUFFICES ASSUME Dont', verdict' = "running", NEW v \in Threads, pc'[v] = "done"
             PROVE  /\ queues'[curr_depth'] = <<>>
                    /\ \A u \in Threads : prev_size'[u] = 0
  BY DEF QuietExit
<1>1. /\ UNCHANGED <<queues, prev_size, pc>> /\ Dont
      /\ \A t \in Threads : pc[t] = "done"
  BY MainStays
<1>2. verdict = "running" /\ curr_depth' = curr_depth
  <2>1. CASE NextDepth
    BY <1>1, <2>1, MainStays DEF NextDepth, HandleSolution
  <2>2. CASE ~NextDepth
    BY <2>2 DEF Main, ReportSolution, StartSweep, SweepItem, SweepAncestor,
                TraceSolution, HandleSolution, CalcTrace, mainVars, Joined
  <2> QED
    BY <2>1, <2>2
<1> QED
  BY <1>1, <1>2 DEF QuietExit

LEMMA WorkerLosesNothing ==
    ASSUME ShapeInv, DepthShape, NoLostWork, NEW t \in Threads,
           Worker(t) \/ WakeUnasked(t)
    PROVE  NoLostWork'
<1> SUFFICES ASSUME Dont', NEW k \in Stored'
             PROVE  \/ k \in Queued(Depth[k])' /\ Depth[k] >= curr_depth'
                    \/ \E u \in Threads : Expanding(u)' /\ k \in Batch(u)'
                    \/ k \notin Goal /\ Succ[k] \subseteq Stored'
  BY DEF NoLostWork
<1>1. \A u \in Threads \ {t} : (Expanding(u)' <=> Expanding(u)) /\ Batch(u)' = Batch(u)
  BY WorkerOthers, OthersKeepBatches
<1>2. k \in Keys /\ Depth[k] \in Depths
  BY WorkerShape, DepthAssumption DEF ShapeInv, TypeOK, CommonTypeOK, Depths
<1>3. CASE ExtractBatch(t)
  <2>1. k \in Stored /\ Dont
    BY <1>3, ExtractMoves
  <2>2. \/ k \in Queued(Depth[k]) /\ Depth[k] >= curr_depth
        \/ \E u \in Threads : Expanding(u) /\ k \in Batch(u)
        \/ k \notin Goal /\ Succ[k] \subseteq Stored
    BY <2>1 DEF NoLostWork
  <2>3. CASE k \in Queued(Depth[k]) /\ Depth[k] >= curr_depth
    <3>1. CASE Depth[k] = curr_depth
      BY <1>3, <2>3, <3>1, ExtractMoves
    <3>2. CASE Depth[k] # curr_depth
      BY <1>2, <1>3, <2>3, <3>2, ExtractMoves DEF Queued
    <3> QED
      BY <3>1, <3>2
  <2>4. CASE \E u \in Threads : Expanding(u) /\ k \in Batch(u)
    BY <1>1, <1>3, <2>4, ExtractMoves
  <2> QED
    BY <1>3, <2>2, <2>3, <2>4, ExtractMoves
<1>4. CASE InsertDerived(t)
  <2>1. Stored' = Stored \cup NewKeys(t)
    BY <1>4, InsertGrows
  <2>2. CASE k \in NewKeys(t)
    <3>1. Depth[k] >= curr_depth' /\ k \in NewAt(NewKeys(t), Depth[k])
      BY <1>4, <2>2, InsertMoves DEF NewAt
    <3> QED
      BY <1>2, <1>4, <3>1, InsertMoves
  <2>3. CASE k \in Stored
    <3>1. \/ k \in Queued(Depth[k]) /\ Depth[k] >= curr_depth
          \/ \E u \in Threads : Expanding(u) /\ k \in Batch(u)
          \/ k \notin Goal /\ Succ[k] \subseteq Stored
      BY <1>4, <2>3, InsertMoves DEF NoLostWork
    <3>2. CASE k \in Queued(Depth[k]) /\ Depth[k] >= curr_depth
      BY <1>2, <1>4, <3>2, InsertMoves
    <3>3. CASE \E u \in Threads : Expanding(u) /\ k \in Batch(u)
      BY <1>1, <1>4, <3>3, InsertMoves
    <3> QED
      BY <2>1, <3>1, <3>2, <3>3
  <2> QED
    BY <2>1, <2>2, <2>3
<1>5. CASE ~ExtractBatch(t) /\ ~InsertDerived(t)
  <2>1. /\ Stored' = Stored /\ Dont /\ curr_depth' = curr_depth
        /\ \A d \in Depths : Queued(d)' = Queued(d)
    BY <1>5, OtherMoves
  <2>2. \/ k \in Queued(Depth[k]) /\ Depth[k] >= curr_depth
        \/ \E u \in Threads : Expanding(u) /\ k \in Batch(u)
        \/ k \notin Goal /\ Succ[k] \subseteq Stored
    BY <2>1 DEF NoLostWork
  <2>3. CASE \E u \in Threads : Expanding(u) /\ k \in Batch(u)
    <3>1. PICK u \in Threads : Expanding(u) /\ k \in Batch(u)
      BY <2>3
    <3>2. CASE u = t /\ Expanding(t)'
      <4>1. Batch(t)' = Batch(t)
        BY <1>5, <3>2, OtherMoves DEF Batch
      <4> QED
        BY <3>1, <3>2, <4>1
    <3>3. CASE u = t /\ ~Expanding(t)'
      BY <1>5, <3>1, <3>3, OtherMoves
    <3>4. CASE u # t
      BY <1>1, <3>1, <3>4
    <3> QED
      BY <3>2, <3>3, <3>4
  <2> QED
    BY <1>2, <2>1, <2>2, <2>3
<1> QED
  BY <1>3, <1>4, <1>5

LEMMA MainLosesNothing ==
    ASSUME ShapeInv, DepthShape, QuietExit, NoLostWork, Main
    PROVE  NoLostWork'
<1> SUFFICES ASSUME Dont', NEW k \in Stored'
             PROVE  \/ k \in Queued(Depth[k])' /\ Depth[k] >= curr_depth'
                    \/ \E u \in Threads : Expanding(u)' /\ k \in Batch(u)'
                    \/ k \notin Goal /\ Succ[k] \subseteq Stored'
  BY DEF NoLostWork
<1>1. /\ queues' = queues /\ \A t \in Threads : Batch(t)' = Batch(t)
      /\ \A d : Queued(d)' = Queued(d)
      /\ Dont /\ Stored' = Stored
  BY MainStays
<1>2. \A t \in Threads : ~Expanding(t)
  BY MainStays DEF NextDepth, ShapeInv, MainShape, Expanding
<1>3. \/ k \in Queued(Depth[k]) /\ Depth[k] >= curr_depth
      \/ k \notin Goal /\ Succ[k] \subseteq Stored
  BY <1>1, <1>2 DEF NoLostWork
<1>4. k \in Keys /\ Depth[k] \in Depths
  BY <1>1, DepthAssumption DEF ShapeInv, TypeOK, CommonTypeOK, Depths
<1>5. CASE curr_depth' = curr_depth
  BY <1>1, <1>3, <1>5
<1>6. CASE NextDepth
  <2>1. /\ sweeping /\ curr_depth' = curr_depth + 1 /\ verdict = "running"
        /\ curr_depth \in 0..MaxDepth
        /\ \A t \in Threads : pc[t] = "done"
    BY <1>6 DEF NextDepth, ShapeInv, MainShape, TypeOK
  <2>2. queues[curr_depth] = <<>>
    BY <1>1, <2>1, ThreadsAssumption DEF QuietExit
  <2>3. CASE k \in Queued(Depth[k]) /\ Depth[k] >= curr_depth
    <3>1. Depth[k] # curr_depth
      BY <2>2, <2>3 DEF Queued
    <3>2. Depth[k] >= curr_depth + 1
      BY <1>4, <2>1, <2>3, <3>1, DepthAssumption DEF Depths
    <3> QED
      BY <1>1, <2>1, <2>3, <3>2
  <2> QED
    BY <1>1, <1>3, <2>3
<1> QED
  BY <1>5, <1>6 DEF Main, ReportSolution, StartSweep, SweepItem, SweepAncestor, TraceSolution

LEMMA InitWork == ASSUME Init PROVE DepthShape /\ QuietExit /\ NoLostWork
<1>1. Stored = {Root} /\ 0 \in Depths /\ Depth[Root] = 0 /\ curr_depth = 0
  BY DepthAssumption DEF Init, CommonInit, Stored, Depths
<1>2. queues = [d \in Depths |-> IF d = 0 THEN <<Root>> ELSE <<>>]
  BY DEF Init
<1>3. Queued(0) = {Root} /\ \A d \in Depths : d # 0 => Queued(d) = {}
  <2>1. queues[0] = <<Root>> /\ \A d \in Depths : d # 0 => queues[d] = <<>>
    BY <1>1, <1>2
  <2> QED
    BY <2>1 DEF Queued
<1>4. \A t \in Threads : Batch(t) = {}
  BY DEF Init, Batch
<1>5. DepthShape
  BY <1>1, <1>2, <1>3, <1>4 DEF DepthShape, Depths
<1>6. QuietExit
  BY DEF Init, QuietExit
<1>7. NoLostWork
  BY <1>1, <1>3 DEF NoLostWork
<1> QED
  BY <1>5, <1>6, <1>7

LEMMA StutterWork ==
    ASSUME DepthShape, QuietExit, NoLostWork, UNCHANGED vars
    PROVE  (DepthShape /\ QuietExit /\ NoLostWork)'
BY DEF vars, commonVars, mainVars, threadVars, DepthShape, QuietExit, NoLostWork, Queued,
       Batch, Dont, Stored, Expanding

LEMMA NextIInv == ASSUME IInv, [Next]_vars PROVE IInv'
<1> USE DEF IInv
<1>1. ShapeInv' /\ CounterExact'
  BY NextShape, NextCounter
<1>2. ASSUME NEW t \in Threads, Worker(t) \/ WakeUnasked(t)
      PROVE  DepthShape' /\ QuietExit' /\ NoLostWork'
  BY <1>2, WorkerDepths, WorkerQuiet, WorkerLosesNothing
<1>3. CASE Main
  BY <1>1, <1>3, MainDepths, MainQuiet, MainLosesNothing
<1>4. CASE UNCHANGED vars
  BY <1>1, <1>4, StutterWork
<1> QED
  BY <1>1, <1>2, <1>3, <1>4 DEF Next, Exited

LEMMA Invariance == Spec => []IInv
<1>1. Init => IInv
  BY InitShape, InitCounter, InitWork DEF IInv
<1>2. IInv /\ [Next]_vars => IInv'
  BY NextIInv
<1> QED
  BY <1>1, <1>2, PTL DEF Spec

\* Unless the search was told to stop, no stored position is lost: it waits in
\* the queue of its depth, is held in a batch, or was expanded.
THEOREM WorkIsNotLost == Spec => []NoLostWork
<1>1. IInv => NoLostWork
  BY DEF IInv
<1> QED
  BY <1>1, Invariance, PTL

-----------------------------------------------------------------------------
(***************************************************************************)
(* Sleep.  A thread that sleeps saw items in flight; the last to return    *)
(* some wakes everybody up, and so does the one that finds a solution.     *)
(***************************************************************************)
Awake == Waiting # {} => /\ queue_solution_ptr = NoKey
                         /\ queue_num_extracted_and_processed # 0

LEMMA NextAwake ==
    ASSUME IInv, Awake, [Next]_vars
    PROVE  Awake'
<1> USE DEF IInv
<1>1. pc \in [Threads -> {"lock", "wait", "batch", "found", "insert", "done"}]
  BY DEF ShapeInv, TypeOK
<1>2. ASSUME NEW t \in Threads, BroadcastAndGo(t, "lock") \/ BroadcastAndGo(t, "done")
      PROVE  Waiting' = {}
  BY <1>1, <1>2 DEF BroadcastAndGo, Waiting
<1>3. ASSUME NEW t \in Threads, Worker(t) \/ WakeUnasked(t), pc'[t] # "wait"
      PROVE  Waiting' \subseteq Waiting
  <2>1. OthersStay(t)
    BY <1>3, WorkerOthers
  <2> QED
    BY <1>3, <2>1 DEF OthersStay, Waiting
<1>4. ASSUME NEW t \in Threads, Worker(t) \/ WakeUnasked(t)
      PROVE  Awake'
  <2>1. CASE ReturnBatch(t)
    <3>1. CASE queue_num_extracted_and_processed' = 0
      BY <1>2, <2>1, <3>1 DEF ReturnBatch, Awake
    <3>2. CASE queue_num_extracted_and_processed' # 0
      BY <2>1, <3>2 DEF ReturnBatch, Awake, Waiting
    <3> QED
      BY <3>1, <3>2
  <2>2. CASE ExtractBatch(t)
    <3>1. pc'[t] = "batch" /\ queue_solution_ptr' = queue_solution_ptr /\ Dont
      BY <1>1, <2>2, ExtractSplits, ExtractMoves
    <3>2. queue_num_extracted_and_processed' # 0
      <4>1. /\ queue_num_extracted_and_processed' =
                  queue_num_extracted_and_processed - 0 + BatchLen
            /\ BatchLen \in Nat /\ BatchLen > 0
        BY <2>2, ExtractSplits DEF ExtractBatch, InstanceIncrement
      <4> QED
        BY <4>1, InFlightFinite DEF CounterExact
    <3> QED
      BY <1>3, <1>4, <2>2, <3>1, <3>2 DEF Awake
  <2>3. CASE ExtractNothing(t)
    <3>1. queue_solution_ptr = NoKey
      BY <2>3 DEF ExtractNothing, ShapeInv, MainShape, Dont
    <3>2. /\ queue_solution_ptr' = queue_solution_ptr
          /\ queue_num_extracted_and_processed' = queue_num_extracted_and_processed
          /\ pc' = [pc EXCEPT ![t] = IF queue_num_extracted_and_processed = 0
                                     THEN "done" ELSE "wait"]
      BY <2>3 DEF ExtractNothing, commonVars
    <3>3. CASE queue_num_extracted_and_processed = 0
      BY <1>1, <3>1, <3>2, <3>3 DEF Awake, Waiting
    <3> QED
      BY <3>1, <3>2, <3>3 DEF Awake
  <2>4. CASE ToldToStop(t) \/ WakeUnasked(t) \/ ExpandBatch(t)
    <3>1. pc'[t] # "wait" /\ UNCHANGED commonVars
      BY <1>1, <2>4 DEF ToldToStop, WakeUnasked, ExpandBatch
    <3> QED
      BY <1>3, <1>4, <2>4, <3>1 DEF Awake, commonVars
  <2>5. CASE RecordSolution(t)
    BY <1>2, <2>5 DEF RecordSolution, Awake
  <2>6. CASE InsertDerived(t)
    <3>1. BroadcastAndGo(t, "lock") \/ SignalAndGo(t, "lock")
      BY <2>6 DEF InsertDerived
    <3>2. pc'[t] = "lock"
      BY <2>6, <3>1, WakingStays DEF InsertDerived, ShapeInv
    <3> QED
      BY <1>3, <1>4, <2>6, <3>2 DEF InsertDerived, Awake
  <2> QED
    BY <1>4, <2>1, <2>2, <2>3, <2>4, <2>5, <2>6 DEF Worker
<1>5. CASE Main
  <2>1. Waiting' = {}
    BY <1>5, MainStays DEF Waiting
  <2> QED
    BY <2>1 DEF Awake
<1>6. CASE UNCHANGED vars
  BY <1>6 DEF vars, commonVars, threadVars, Awake, Waiting
<1> QED
  BY <1>4, <1>5, <1>6 DEF Next, Exited

LEMMA SomebodyWillWake == IInv /\ Awake => NoLostWakeup
<1> SUFFICES ASSUME IInv, Awake, Waiting # {}
             PROVE  \E t \in Threads : pc[t] \notin {"wait", "done"} /\ prev_size[t] > 0
  BY DEF NoLostWakeup
<1>1. Cardinality(InFlight) # 0
  BY DEF Awake, IInv, CounterExact
<1>2. InFlight # {}
  BY <1>1, FS_EmptySet
<1>3. PICK t \in Threads, i \in 1..MaxBatch : i <= prev_size[t]
  BY <1>2 DEF InFlight
<1>4. prev_size[t] > 0
  BY <1>3, ThreadsAssumption DEF IInv, ShapeInv, TypeOK
<1>5. pc[t] # "wait" /\ pc[t] # "done"
  BY <1>4 DEF IInv, ShapeInv, BatchShape, Awake
<1> QED
  BY <1>4, <1>5

\* No wakeup is lost: while a thread waits on the monitor, another one that is
\* awake still has a batch to return.
THEOREM NoWakeupIsLost == Spec => []NoLostWakeup
<1>1. Init => Awake
  BY DEF Init, Awake, Waiting
<1>2. IInv /\ Awake /\ [Next]_vars => Awake'
  BY NextAwake
<1> QED
  BY <1>1, <1>2, SomebodyWillWake, Invariance, PTL DEF Spec

-----------------------------------------------------------------------------
(***************************************************************************)
(* No position is expanded twice.                                          *)
(***************************************************************************)
LEMMA NextExpandedOnce ==
    ASSUME IInv, ExpandedOnce, [Next]_vars
    PROVE  ExpandedOnce'
<1> USE DEF IInv
<1>1. \A d \in Depths : NoRepeats(queues[d])
  BY DEF ExpandedOnce, NoRepeats
<1>2. SUFFICES
         /\ \A d \in Depths : NoRepeats(queues'[d])
         /\ \A v \in Threads : Expanding(v)' =>
               \A d \in Depths : Batch(v)' \cap Queued(d)' = {}
         /\ \A v, u \in Threads : v # u /\ Expanding(v)' /\ Expanding(u)' =>
               Batch(v)' \cap Batch(u)' = {}
  BY DEF ExpandedOnce, NoRepeats
<1>3. ASSUME NEW t \in Threads, Worker(t) \/ WakeUnasked(t)
      PROVE  /\ \A d \in Depths : NoRepeats(queues'[d])
             /\ \A v \in Threads : Expanding(v)' =>
                   \A d \in Depths : Batch(v)' \cap Queued(d)' = {}
             /\ \A v, u \in Threads : v # u /\ Expanding(v)' /\ Expanding(u)' =>
                   Batch(v)' \cap Batch(u)' = {}
  <2>1. \A u \in Threads \ {t} :
           (Expanding(u)' <=> Expanding(u)) /\ Batch(u)' = Batch(u)
    BY <1>3, WorkerOthers, OthersKeepBatches
  <2>2. CASE ExtractBatch(t)
    <3>1. /\ Queued(curr_depth) = Batch(t)' \cup Queued(curr_depth)'
          /\ \A d \in Depths : d # curr_depth => queues'[d] = queues[d]
          /\ \A d \in Depths : Queued(d)' \subseteq Queued(d)
          /\ curr_depth \in Depths /\ curr_depth' = curr_depth
      BY <2>2, ExtractMoves
    <3>2. /\ queues'[curr_depth] = Rest /\ tokens'[t] = Front
          /\ NoRepeats(Rest) /\ Items(Front) \cap Items(Rest) = {}
      BY <1>1, <2>2, <3>1, ExtractSplits DEF Queue, ShapeInv, TypeOK
    <3>3. Batch(t)' = Items(Front) /\ Queued(curr_depth)' = Items(Rest)
      BY <3>1, <3>2 DEF Batch, Queued, Items
    <3>9. Batch(t)' \subseteq Queued(curr_depth)
      BY <3>1
    <3>4. \A d \in Depths : Batch(t)' \cap Queued(d)' = {}
      BY <3>1, <3>2, <3>3, <3>9 DEF DepthShape
    <3>5. \A u \in Threads \ {t} : Expanding(u) => Batch(t)' \cap Batch(u) = {}
      BY <3>1 DEF ExpandedOnce
    <3>6. \A d \in Depths : NoRepeats(queues'[d])
      BY <1>1, <3>1, <3>2
    <3>7. ASSUME NEW v \in Threads, Expanding(v)', NEW d \in Depths
          PROVE  Batch(v)' \cap Queued(d)' = {}
      <4>1. CASE v = t
        BY <3>4, <4>1
      <4>2. CASE v # t
        BY <2>1, <3>1, <3>7, <4>2 DEF ExpandedOnce
      <4> QED
        BY <4>1, <4>2
    <3>8. ASSUME NEW v \in Threads, NEW u \in Threads, v # u, Expanding(v)', Expanding(u)'
          PROVE  Batch(v)' \cap Batch(u)' = {}
      <4>1. CASE v = t
        BY <2>1, <3>5, <3>8, <4>1
      <4>2. CASE u = t
        BY <2>1, <3>5, <3>8, <4>2
      <4>3. CASE v # t /\ u # t
        BY <2>1, <3>8, <4>3 DEF ExpandedOnce
      <4> QED
        BY <4>1, <4>2, <4>3
    <3> QED
      BY <3>6, <3>7, <3>8
  <2>3. CASE InsertDerived(t)
    <3>1. \A u \in Threads : Batch(u) \subseteq Stored
      BY DEF Batch, ShapeInv, TypeOK
    <3>2. /\ ~Expanding(t)'
          /\ \A d \in Depths : Queued(d)' = Queued(d) \cup NewAt(NewKeys(t), d)
      BY <2>3, InsertMoves
    <3>3. NewKeys(t) \cap Stored = {} /\ \A d : NewAt(NewKeys(t), d) \subseteq NewKeys(t)
      BY NewKeysFinite DEF NewAt
    <3>4. \A d \in Depths : NoRepeats(queues'[d])
      BY <1>1, <2>3, InsertGrows
    <3>5. ASSUME NEW v \in Threads, Expanding(v)', NEW d \in Depths
          PROVE  Batch(v)' \cap Queued(d)' = {}
      <4>1. v # t /\ Expanding(v) /\ Batch(v)' = Batch(v)
        BY <2>1, <3>2, <3>5
      <4>2. Batch(v) \cap Queued(d) = {}
        BY <4>1 DEF ExpandedOnce
      <4> QED
        BY <3>1, <3>2, <3>3, <4>1, <4>2
    <3>6. ASSUME NEW v \in Threads, NEW u \in Threads, v # u, Expanding(v)', Expanding(u)'
          PROVE  Batch(v)' \cap Batch(u)' = {}
      <4>1. v # t /\ u # t
        BY <3>2, <3>6
      <4> QED
        BY <2>1, <3>6, <4>1 DEF ExpandedOnce
    <3> QED
      BY <3>4, <3>5, <3>6
  <2>4. CASE ~ExtractBatch(t) /\ ~InsertDerived(t)
    <3>1. /\ queues' = queues /\ Expanding(t)' => Expanding(t)
          /\ Batch(t)' \subseteq Batch(t) /\ \A d \in Depths : Queued(d)' = Queued(d)
      BY <1>3, <2>4, OtherMoves
    <3>2. \A u \in Threads : (Expanding(u)' => Expanding(u)) /\ Batch(u)' \subseteq Batch(u)
      BY <1>3, <2>1, <2>4, OtherMoves
    <3> QED
      BY <1>1, <1>3, <2>4, <3>2, OtherMoves DEF ExpandedOnce
  <2> QED
    BY <2>2, <2>3, <2>4
<1>4. CASE Main
  <2>1. /\ queues' = queues
        /\ \A t \in Threads : Batch(t)' = Batch(t) /\ ~Expanding(t)'
    BY <1>4, MainStays DEF Expanding
  <2> QED
    BY <1>1, <2>1
<1>5. CASE UNCHANGED vars
  BY <1>1, <1>5, SMTT(40) DEF vars, threadVars, ExpandedOnce, Expanding, Batch, Queued
<1> QED
  BY <1>3, <1>4, <1>5 DEF Next, Exited

\* No position is expanded twice: none is queued twice, held in two batches, or
\* queued while it is held.
THEOREM EachIsExpandedOnce == Spec => []ExpandedOnce
<1>1. Init => ExpandedOnce
  <2> SUFFICES ASSUME Init PROVE ExpandedOnce
    OBVIOUS
  <2>1. \A t \in Threads : ~Expanding(t)
    BY DEF Init, Expanding
  <2>2. \A d \in Depths : queues[d] = <<Root>> \/ queues[d] = <<>>
    BY DEF Init
  <2>3. \A d \in Depths : DOMAIN queues[d] \subseteq {1}
    BY <2>2
  <2> QED
    BY <2>1, <2>3 DEF ExpandedOnce
<1>2. IInv /\ ExpandedOnce /\ [Next]_vars => ExpandedOnce'
  BY NextExpandedOnce
<1> QED
  BY <1>1, <1>2, Invariance, PTL DEF Spec

-----------------------------------------------------------------------------
(***************************************************************************)
(* The search implemented.                                                 *)
(***************************************************************************)
LEMMA InsertDiscovers ==
    ASSUME IInv, NEW t \in Threads, InsertDerived(t)
    PROVE  Search!Discover
<1>1. Stored' = Stored \cup NewKeys(t) /\ verdict' = verdict
  BY InsertGrows, InsertMoves DEF IInv
<1>2. verdict = "running"
  BY WorkerRuns DEF InsertDerived, IInv
<1>3. NewKeys(t) \in SUBSET UNION {Succ[k] : k \in Stored}
  BY DEF IInv, ShapeInv, TypeOK, NewKeys, Derived, Batch
<1> HIDE DEF NewKeys
<1> QED
  BY <1>1, <1>2, <1>3 DEF Search!Discover

\* main gives up when it has gone through every depth, and then nothing waits.
LEMMA ReportConcludes ==
    ASSUME IInv, Main, HandleSolution, verdict = "running"
    PROVE  Search!Conclude
<1>1. Stored' = Stored /\ UNCHANGED <<queue_solution_ptr, should_terminate>>
  BY MainStays DEF IInv, commonVars
<1>2. CASE queue_solution_ptr # NoKey
  BY <1>1, <1>2 DEF HandleSolution, Search!Conclude, IInv, ShapeInv, MainShape, TypeOK,
                    CommonTypeOK, RecordPtr
<1>3. CASE queue_solution_ptr = NoKey /\ ~Dont
  BY <1>1, <1>3 DEF HandleSolution, Dont, Search!Conclude
<1>4. CASE queue_solution_ptr = NoKey /\ Dont
  <2>1. verdict' = "Could not solve" /\ Dont'
    BY <1>1, <1>4 DEF HandleSolution, Dont
  <2>2. curr_depth' = MaxDepth /\ NoLostWork'
    BY <2>1, MainKeepsShape, MainLosesNothing DEF IInv, ShapeInv, MainShape
  <2>3. ASSUME NEW k \in Stored PROVE k \notin Goal /\ Succ[k] \subseteq Stored
    <3>1. \/ Depth[k] >= curr_depth'
          \/ \E t \in Threads : Expanding(t)'
          \/ k \notin Goal /\ Succ[k] \subseteq Stored
      BY <1>1, <2>1, <2>2 DEF NoLostWork
    <3>2. Depth[k] \in 0..(MaxDepth - 1) /\ MaxDepth \in Nat
      BY DepthAssumption DEF IInv, ShapeInv, TypeOK, CommonTypeOK
    <3>3. \A t \in Threads : ~Expanding(t)'
      BY <2>1, MainKeepsShape DEF IInv, ShapeInv, MainShape, Expanding
    <3> QED
      BY <2>2, <3>1, <3>2, <3>3
  <2> QED
    BY <1>1, <2>1, <2>3 DEF Search!Conclude, Search!Exhausted
<1> QED
  BY <1>2, <1>3, <1>4

LEMMA StepRefines == ASSUME IInv, [Next]_vars PROVE [Search!Next]_(Search!vars)
<1>1. ASSUME UNCHANGED <<parent, verdict>> PROVE UNCHANGED Search!vars
  BY <1>1 DEF Stored, Search!vars
<1>2. ASSUME NEW t \in Threads, Worker(t) \/ WakeUnasked(t)
      PROVE  [Search!Next]_(Search!vars)
  <2>1. CASE InsertDerived(t)
    BY <2>1, InsertDiscovers DEF Search!Next
  <2>2. CASE ExtractBatch(t)
    BY <1>1, <2>2, ExtractMoves DEF IInv
  <2>3. CASE ~InsertDerived(t) /\ ~ExtractBatch(t)
    BY <1>1, <1>2, <2>3, OtherMoves DEF IInv
  <2> QED
    BY <2>1, <2>2, <2>3
<1>3. CASE Main
  <2>1. CASE (ReportSolution \/ NextDepth) /\ HandleSolution
    <3>1. verdict = "running"
      BY <2>1 DEF Joined, ReportSolution, NextDepth, IInv, ShapeInv, MainShape
    <3> QED
      BY <1>3, <2>1, <3>1, ReportConcludes DEF Search!Next
  <2>2. CASE ~((ReportSolution \/ NextDepth) /\ HandleSolution)
    <3>1. verdict' = verdict
      BY <1>3, <2>2 DEF Main, ReportSolution, StartSweep, SweepItem, SweepAncestor,
                        NextDepth, TraceSolution, CalcTrace, mainVars
    <3> QED
      BY <1>1, <1>3, <3>1, MainStays DEF commonVars, IInv
  <2> QED
    BY <2>1, <2>2
<1>4. CASE UNCHANGED vars
  BY <1>1, <1>4 DEF vars, commonVars, mainVars
<1> QED
  BY <1>2, <1>3, <1>4 DEF Next, Exited

\* The solver with one collection per depth implements the same search as the
\* flat one: it stores only positions reached by moves, succeeds only on a
\* solved one, and gives up only when everything within reach is stored and
\* unsolved.
THEOREM SolverImplementsSearch == Spec => ImplementsSearch
<1>1. Init => Search!Init
  BY DEF Init, CommonInit, Stored, Search!Init
<1>2. IInv /\ [Next]_vars => [Search!Next]_(Search!vars)
  BY StepRefines
<1> QED
  BY <1>1, <1>2, Invariance, PTL DEF Spec, ImplementsSearch, Search!Spec

-----------------------------------------------------------------------------
(***************************************************************************)
(* The trace.                                                              *)
(***************************************************************************)
LEMMA NextTraceInv ==
    ASSUME IInv, TraceInv, [Next]_vars
    PROVE  TraceInv'
<1>0. CommonTypeOK
  BY DEF IInv, ShapeInv, TypeOK
<1>1. ASSUME UNCHANGED <<parent, trace, trace_next, verdict>> PROVE TraceInv'
  BY <1>1, StutterKeepsTraceInv
<1>2. ASSUME NEW t \in Threads, InsertDerived(t) PROVE TraceInv'
  <2> DEFINE new == NewKeys(t)
             from == [s \in new |-> ParentOf(t, s)]
  <2>1. new \in SUBSET Keys /\ new \cap Stored = {}
    BY NewKeysFinite DEF IInv
  <2>2. \A k \in new : from[k] \in Stored /\ k \in Succ[from[k]]
    BY NewKeysFinite DEF IInv
  <2>3. InsertRecords(new, from) /\ UNCHANGED mainVars
    BY <1>2 DEF InsertDerived
  <2>4. verdict = "running"
    BY <1>2, WorkerRuns DEF InsertDerived, IInv
  <2> HIDE DEF new, from
  <2> QED
    BY <1>0, <2>1, <2>2, <2>3, <2>4, InsertKeepsTraceInv
<1>3. ASSUME NEW t \in Threads, Worker(t) \/ WakeUnasked(t), ~InsertDerived(t)
      PROVE  UNCHANGED <<parent, trace, trace_next, verdict>>
  BY <1>3 DEF Worker, WakeUnasked, ReturnBatch, ExtractBatch, ExtractNothing, ToldToStop,
              ExpandBatch, RecordSolution, commonVars, mainVars
<1>4. CASE Main
  <2>1. UNCHANGED <<parent, queue_solution_ptr>>
    BY <1>4, MainStays DEF IInv, commonVars
  <2>2. CASE (ReportSolution \/ NextDepth) /\ HandleSolution
    <3>1. verdict = "running"
      BY <2>2 DEF Joined, ReportSolution, NextDepth, IInv, ShapeInv, MainShape
    <3>2. queue_solution_ptr # NoKey => queue_solution_ptr \in Goal
      BY DEF IInv, ShapeInv, MainShape
    <3> QED
      BY <1>0, <2>1, <2>2, <3>1, <3>2, ReportKeepsTraceInv
  <2>3. CASE TraceSolution
    BY <1>0, <2>1, <2>3, TraceKeepsTraceInv DEF TraceSolution
  <2>4. CASE ~((ReportSolution \/ NextDepth) /\ HandleSolution) /\ ~TraceSolution
    <3>1. UNCHANGED mainVars
      BY <1>4, <2>4 DEF Main, ReportSolution, StartSweep, SweepItem, SweepAncestor,
                        NextDepth
    <3> QED
      BY <1>1, <2>1, <3>1 DEF mainVars
  <2> QED
    BY <2>2, <2>3, <2>4
<1>5. CASE UNCHANGED vars
  BY <1>1, <1>5 DEF vars, commonVars, mainVars
<1> QED
  BY <1>1, <1>2, <1>3, <1>4, <1>5 DEF Next, Exited

LEMMA TraceInvariance == Spec => []TraceInv
<1>1. Init => TraceInv
  BY InitTraceInv DEF Init
<1>2. IInv /\ TraceInv /\ [Next]_vars => TraceInv'
  BY NextTraceInv
<1> QED
  BY <1>1, <1>2, Invariance, PTL DEF Spec

\* The trace printed for a solution is a path of moves from the deal to a solved
\* position, without a repetition.
THEOREM TraceIsCorrect == Spec => []TraceIsSolution
<1>1. IInv /\ TraceInv => TraceIsSolution
  BY TraceOfSuccess DEF TraceIsSolution, Finished, IInv, ShapeInv, TypeOK
<1> QED
  BY <1>1, Invariance, TraceInvariance, PTL

-----------------------------------------------------------------------------
(***************************************************************************)
(* The recycle bin.  During a sweep main is at `ancestor`, a record of no  *)
(* greater depth than the one it sweeps; everything a thread, a queue, the *)
(* trace or a live record refers to is live; and a live record of a depth  *)
(* that was swept has a live child, unless main is just at it.             *)
(***************************************************************************)
Kids(A, from, k) == {c \in A : from[c] = k}
Children(k) == Kids(Live, parent, k)

SweepPlace ==
    /\ ancestor # NoKey => ancestor \in Live /\ Depth[ancestor] <= curr_depth
    /\ sweep_left # {} => sweeping
    /\ \A k \in sweep_left : Depth[k] = curr_depth

RefersToLive ==
    /\ \A t \in Threads : Batch(t) \subseteq Live
    /\ Dont => \A d \in Depths : Queued(d) \subseteq Live
    /\ \A k \in Live : parent[k] \in Live \cup {NoKey}
    /\ queue_solution_ptr \in Live \cup {NoKey}
    /\ trace_next \in Live \cup {NoKey}
    /\ \A i \in DOMAIN trace : trace[i] \in Live

Swept(k) == \/ Depth[k] < curr_depth
            \/ sweeping /\ Depth[k] = curr_depth /\ k \notin sweep_left

SweptHaveChildren ==
    verdict = "running" => \A k \in Live : Swept(k) => k = ancestor \/ Children(k) # {}

SweepInv == SweepPlace /\ RefersToLive /\ RefcountExact /\ SweptHaveChildren

LEMMA InitSweep == ASSUME Init PROVE SweepInv
<1> USE KeysAssumption
<1>1. Stored = {Root} /\ Live = {Root} /\ parent[Root] = NoKey
  BY DEF Init, CommonInit, Stored, Live
<1>2. SweepPlace
  BY DEF Init, SweepPlace
<1>3. RefersToLive
  <2>1. \A d \in Depths : queues[d] = <<Root>> \/ queues[d] = <<>>
    BY DEF Init
  <2>2. \A d \in Depths : Queued(d) \subseteq Live
    BY <1>1, <2>1 DEF Queued
  <2>3. \A t \in Threads : Batch(t) = {}
    BY DEF Init, Batch
  <2> QED
    BY <1>1, <2>2, <2>3 DEF Init, CommonInit, RefersToLive
<1>4. RefcountExact
  <2>1. {c \in Live : parent[c] = Root} = {} /\ refcount[Root] = 0
    BY <1>1 DEF Init
  <2> QED
    BY <1>1, <2>1, FS_EmptySet DEF RefcountExact
<1>5. SweptHaveChildren
  BY <1>1, DepthAssumption DEF Init, SweptHaveChildren, Swept
<1> QED
  BY <1>2, <1>3, <1>4, <1>5 DEF SweepInv

\* The children of a record are among the positions derived from it, so there
\* are few enough of them for a byte.
LEMMA ChildrenFew ==
    ASSUME NEW S \in SUBSET Keys, NEW from, from[Root] = NoKey,
           \A c \in S \ {Root} : from[c] \in S /\ c \in Succ[from[c]],
           NEW A \in SUBSET S, NEW k \in S
    PROVE  IsFiniteSet(Kids(A, from, k)) /\ Cardinality(Kids(A, from, k)) \in 0..255
<1> DEFINE kids == Kids(A, from, k)
<1>1. kids \subseteq Succ[k] /\ k \in Keys
  BY KeysAssumption DEF Kids
<1> HIDE DEF kids
<1>2. IsFiniteSet(Succ[k])
  BY <1>1, KeysAssumption, FS_Subset
<1>3. IsFiniteSet(kids) /\ Cardinality(kids) <= Cardinality(Succ[k])
  BY <1>1, <1>2, FS_Subset
<1>4. Cardinality(Succ[k]) < 256 /\ Cardinality(Succ[k]) \in Nat
  BY <1>1, <1>2, FewChildrenAssumption, FS_CardinalityType DEF BYTE
<1>5. Cardinality(kids) \in Nat
  BY <1>3, FS_CardinalityType
<1>6. Cardinality(kids) \in 0..255
  BY ONLY <1>3, <1>4, <1>5, SMT
<1> QED
  BY <1>3, <1>6 DEF kids

\* No record is its own parent.
LEMMA NotItsOwnParent ==
    ASSUME TraceInv, NEW k \in Stored, NoKey \notin Stored
    PROVE  parent[k] # k
<1>1. PICK rank \in [Stored -> Nat] : Falls(rank)
  BY DEF TraceInv
<1>2. parent[k] # NoKey => rank[parent[k]] < rank[k]
  BY <1>1 DEF Falls
<1>3. rank[k] \in Nat
  BY <1>1
<1> QED
  BY <1>2, <1>3

\* A thread only adds references: one for each record it stores.
LEMMA InsertCounts ==
    ASSUME ShapeInv, ShapeInv', TraceInv, TraceInv', SweepInv,
           NEW t \in Threads, InsertDerived(t)
    PROVE  /\ RefcountExact'
           /\ Live' = Live \cup NewKeys(t)
           /\ \A k \in Stored : Children(k) \subseteq Children(k)'
<1> DEFINE new == NewKeys(t)
           from == [s \in new |-> ParentOf(t, s)]
<1> USE KeysAssumption
<1>1. /\ new \subseteq Keys /\ new \cap Stored = {} /\ IsFiniteSet(new)
      /\ \A k \in new : from[k] \in Stored
  BY NewKeysFinite
<1>2. /\ Stored' = Stored \cup new
      /\ \A k \in Stored : parent'[k] = parent[k]
      /\ \A k \in new : parent'[k] = from[k]
  BY InsertGrows
<1>3. refcount' = [k \in Stored \cup new |->
         ((IF k \in Stored THEN refcount[k] ELSE 0)
            + Cardinality({s \in new : from[s] = k})) % 256]
  BY DEF InsertDerived, AddReferences, BYTE
<1>4. /\ Stored \subseteq Keys /\ decommissioned \subseteq Stored
      /\ parent \in [Stored -> RecordPtr] /\ decommissioned' = decommissioned
  BY DEF InsertDerived, sweepVars, ShapeInv, TypeOK, CommonTypeOK
<1> HIDE DEF new, from
<1>5. Live' = Live \cup new
  BY <1>1, <1>2, <1>4 DEF Live
<1>6. ASSUME NEW k \in Stored'
      PROVE  /\ Children(k)' = Children(k) \cup {s \in new : from[s] = k}
             /\ refcount'[k] = Cardinality(Children(k)')
  <2> DEFINE B == {s \in new : from[s] = k}
  <2>1. Children(k)' = Children(k) \cup B
    BY <1>1, <1>2, <1>5 DEF Children, Kids, Live
  <2>2. Children(k) \cap B = {}
    BY <1>1 DEF Children, Kids, Live
  <2>3. IsFiniteSet(B)
    BY <1>1, FS_Subset
  <2>4. IsFiniteSet(Children(k)') /\ Cardinality(Children(k)') \in 0..255
    <3>1. /\ Stored' \in SUBSET Keys /\ Live' \in SUBSET Stored'
          /\ parent'[Root] = NoKey
          /\ \A c \in Stored' \ {Root} : parent'[c] \in Stored' /\ c \in Succ[parent'[c]]
      BY DEF ShapeInv, TypeOK, CommonTypeOK, TraceInv, ParentsAreMoves, Live
    <3> DEFINE S == Stored'
               L == Live'
               f == parent'
    <3>2. /\ k \in S /\ S \in SUBSET Keys /\ L \in SUBSET S /\ f[Root] = NoKey
          /\ \A c \in S \ {Root} : f[c] \in S /\ c \in Succ[f[c]]
      BY <1>6, <3>1
    <3> HIDE DEF S, L, f
    <3>3. IsFiniteSet(Kids(L, f, k)) /\ Cardinality(Kids(L, f, k)) \in 0..255
      BY ONLY <3>2, ChildrenFew
    <3> QED
      BY <3>3 DEF Children, L, f
  <2>5. IsFiniteSet(Children(k))
    BY <2>1, <2>4, FS_Subset
  <2>6. Cardinality(Children(k)') = Cardinality(Children(k)) + Cardinality(B)
    <3> HIDE DEF B
    <3>1. Cardinality(Children(k) \cup B) =
             Cardinality(Children(k)) + Cardinality(B) - Cardinality(Children(k) \cap B)
      BY <2>3, <2>5, FS_Union
    <3>2. Cardinality(Children(k) \cap B) = 0
      BY <2>2, FS_EmptySet
    <3>3. Cardinality(Children(k)) \in Nat /\ Cardinality(B) \in Nat
      BY <2>3, <2>5, FS_CardinalityType
    <3> QED
      BY <2>1, <3>1, <3>2, <3>3
  <2>7. (IF k \in Stored THEN refcount[k] ELSE 0) = Cardinality(Children(k))
    <3>1. CASE k \in Stored
      BY <3>1 DEF SweepInv, RefcountExact, Children, Kids
    <3>2. CASE k \notin Stored
      <4>1. Children(k) = {}
        BY <1>1, <1>2, <1>4, <3>2 DEF Children, Kids, Live, RecordPtr
      <4> QED
        BY <3>2, <4>1, FS_EmptySet
    <3> QED
      BY <3>1, <3>2
  <2>9. refcount'[k] = Cardinality(Children(k)') % 256
    BY <1>2, <1>3, <2>6, <2>7
  <2>10. \A x \in 0..255 : x % 256 = x
    OBVIOUS
  <2> QED
    BY <2>1, <2>4, <2>9, <2>10
<1>7. RefcountExact'
  BY <1>6 DEF RefcountExact, Children, Kids
<1> QED
  BY <1>2, <1>5, <1>6, <1>7 DEF new

LEMMA InsertSweep ==
    ASSUME IInv, ShapeInv', TraceInv, TraceInv', SweepInv,
           NEW t \in Threads, InsertDerived(t)
    PROVE  SweepInv'
<1>1. /\ RefcountExact' /\ Live' = Live \cup NewKeys(t)
      /\ \A k \in Stored : Children(k) \subseteq Children(k)'
  BY InsertCounts DEF IInv
<1>2. /\ UNCHANGED <<mainVars, curr_depth, tokens, sweepVars, queue_solution_ptr>>
      /\ verdict = "running" /\ ~sweeping
  BY WorkerRuns DEF InsertDerived, IInv
<1>3. SweepPlace'
  BY <1>1, <1>2 DEF SweepInv, SweepPlace, sweepVars
<1>4. RefersToLive'
  <2>1. \A u \in Threads : Batch(u)' = Batch(u)
    BY <1>2 DEF Batch
  <2>2. \A d \in Depths : Queued(d)' = Queued(d) \cup NewAt(NewKeys(t), d)
    BY InsertMoves DEF IInv
  <2>3. Dont' => Dont
    BY InsertMoves DEF IInv
  <2>4. \A k \in Live' : parent'[k] \in Live' \cup {NoKey}
    <3>1. \A k \in Live : parent'[k] = parent[k]
      BY InsertGrows DEF IInv, Live
    <3>2. \A k \in NewKeys(t) : parent'[k] = ParentOf(t, k) /\ ParentOf(t, k) \in Batch(t)
      BY InsertGrows, NewKeysFinite DEF IInv
    <3> QED
      BY <1>1, <3>1, <3>2 DEF SweepInv, RefersToLive
  <2> QED
    BY <1>1, <1>2, <2>1, <2>2, <2>3, <2>4
       DEF SweepInv, RefersToLive, NewAt, mainVars
<1>5. SweptHaveChildren'
  <2>1. \A k \in NewKeys(t) : ~Swept(k)'
    <3>1. ASSUME NEW k \in NewKeys(t) PROVE ~(Depth[k] < curr_depth)
      <4>1. Depth[k] >= curr_depth /\ Depth[k] \in Depths /\ curr_depth \in Depths
        BY InsertMoves DEF IInv
      <4> QED
        BY <4>1, DepthAssumption DEF Depths
    <3> QED
      BY <1>2, <3>1 DEF Swept, sweepVars
  <2>2. \A k : Swept(k)' <=> Swept(k)
    BY <1>2 DEF Swept, sweepVars
  <2> QED
    BY <1>1, <1>2, <2>1, <2>2 DEF SweepInv, SweptHaveChildren, Live, sweepVars
<1> QED
  BY <1>1, <1>3, <1>4, <1>5 DEF SweepInv

\* The other steps of a thread leave the records alone: they only move
\* references to them.
LEMMA WorkerSweep ==
    ASSUME IInv, SweepInv, NEW t \in Threads, Worker(t) \/ WakeUnasked(t),
           ~InsertDerived(t)
    PROVE  SweepInv'
<1>1. /\ UNCHANGED <<mainVars, curr_depth, sweepVars, parent, refcount>>
      /\ verdict = "running"
  BY WorkerRuns DEF Worker, WakeUnasked, ReturnBatch, ExtractBatch, ExtractNothing,
     ToldToStop, ExpandBatch, RecordSolution, commonVars, IInv
<1>2. Stored' = Stored /\ Live' = Live /\ \A k : Children(k)' = Children(k)
  BY <1>1 DEF Stored, Live, Children, sweepVars
<1>3. SweepPlace' /\ RefcountExact' /\ SweptHaveChildren'
  BY <1>1, <1>2 DEF SweepInv, SweepPlace, RefcountExact, SweptHaveChildren, Swept,
     sweepVars, mainVars
<1>4. \A u \in Threads \ {t} : Batch(u)' = Batch(u)
  BY WorkerOthers, OthersKeepBatches DEF IInv
<1>5. /\ Dont' => Dont
      /\ Dont' => \A d \in Depths : Queued(d)' \subseteq Queued(d)
      /\ Batch(t)' \subseteq Live
  <2>1. CASE ExtractBatch(t)
    BY <2>1, ExtractMoves DEF IInv, SweepInv, RefersToLive
  <2>2. CASE ~ExtractBatch(t)
    BY <2>2, OtherMoves DEF IInv, SweepInv, RefersToLive
  <2> QED
    BY <2>1, <2>2
<1>6. queue_solution_ptr' \in Live \cup {NoKey}
  <2>1. CASE RecordSolution(t)
    <3>1. Items(tokens[t]) \cap Goal # {} /\ tokens[t] \in Seq(Stored)
      BY <2>1, BatchItems DEF RecordSolution, BatchShape, ShapeInv, TypeOK, IInv
    <3>2. FirstIn(tokens[t], Goal) \in Batch(t)
      BY <3>1, FirstInFound, BatchItems
    <3> QED
      BY <2>1, <3>2 DEF RecordSolution, FoundSolution, SweepInv, RefersToLive
  <2>2. CASE ~RecordSolution(t)
    <3>1. queue_solution_ptr' = queue_solution_ptr
      BY <2>2 DEF Worker, WakeUnasked, ReturnBatch, ExtractBatch, ExtractNothing,
         ToldToStop, ExpandBatch, commonVars
    <3> QED
      BY <3>1 DEF SweepInv, RefersToLive
  <2> QED
    BY <2>1, <2>2
<1>7. RefersToLive'
  BY <1>1, <1>2, <1>4, <1>5, <1>6 DEF SweepInv, RefersToLive, mainVars
<1> QED
  BY <1>3, <1>7 DEF SweepInv

\* A record goes to the recycle bin: the one main is at, which nobody refers to.
LEMMA SweepAncestorSweep ==
    ASSUME IInv, TraceInv, SweepInv, SweepAncestor
    PROVE  SweepInv'
<1>1. /\ ancestor \in Live /\ Depth[ancestor] <= curr_depth /\ ancestor \in Keys
      /\ sweeping /\ verdict = "running" /\ queue_solution_ptr = NoKey
      /\ curr_depth \in Depths /\ \A t \in Threads : pc[t] = "done"
  BY DepthAssumption DEF SweepAncestor, SweepInv, SweepPlace, Live, Depths,
     IInv, ShapeInv, MainShape, TypeOK, CommonTypeOK
<1>2. /\ UNCHANGED <<commonVars, mainVars, curr_depth, queues, tokens, sweep_left, sweeping>>
      /\ Stored' = Stored /\ (Dont' <=> Dont)
      /\ \A t \in Threads : Batch(t)' = Batch(t)
      /\ \A d : Queued(d)' = Queued(d)
  BY MainStays DEF SweepAncestor, threadVars, Main, IInv
<1>3. /\ parent \in [Stored -> RecordPtr] /\ Stored \subseteq Keys
      /\ decommissioned \subseteq Stored /\ NoKey \notin Stored /\ Live \subseteq Stored
      /\ refcount \in [Stored -> 0..255]
  BY KeysAssumption DEF IInv, ShapeInv, TypeOK, CommonTypeOK, BYTE, Live
<1>4. refcount[ancestor] = Cardinality(Children(ancestor))
  BY <1>1, <1>3 DEF SweepInv, RefcountExact, Children, Kids
<1>5. CASE refcount[ancestor] # 0
  <2>1. /\ ancestor' = NoKey /\ UNCHANGED <<refcount, decommissioned>>
    BY <1>5 DEF SweepAncestor
  <2>2. Live' = Live /\ \A k : Children(k)' = Children(k)
    BY <1>2, <2>1 DEF Live, Children, commonVars
  <2>3. Children(ancestor) # {}
    BY <1>4, <1>5, FS_EmptySet
  <2>4. SweepPlace' /\ RefersToLive'
    BY <1>2, <2>1, <2>2 DEF SweepInv, SweepPlace, RefersToLive, commonVars, mainVars
  <2>5. RefcountExact'
    BY <1>2, <2>1, <2>2 DEF SweepInv, RefcountExact, commonVars
  <2>6. SweptHaveChildren'
    BY <1>2, <2>1, <2>2, <2>3 DEF SweepInv, SweptHaveChildren, Swept, mainVars
  <2> QED
    BY <2>4, <2>5, <2>6 DEF SweepInv
<1>6. CASE refcount[ancestor] = 0
  <2> DEFINE up == parent[ancestor]
  <2>1. /\ decommissioned' = decommissioned \cup {ancestor}
        /\ ancestor' = up /\ parent' = parent
        /\ refcount' = IF up = NoKey THEN refcount
                       ELSE [refcount EXCEPT ![up] = (@ + 256 - 1) % 256]
    BY <1>2, <1>6 DEF SweepAncestor, BYTE, commonVars
  <2>2. Live' = Live \ {ancestor}
    BY <1>2, <2>1 DEF Live
  <2>3. Children(ancestor) = {}
    <3>1. IsFiniteSet(Children(ancestor))
      BY <1>3, KeysAssumption, FS_Subset DEF Children, Kids, Live
    <3> QED
      BY <1>4, <1>6, <3>1, FS_EmptySet
  <2>4. up \in Live \cup {NoKey} /\ up # ancestor
    BY <1>1, <1>3, NotItsOwnParent DEF SweepInv, RefersToLive, Live
  <2>5. \A k : Children(k)' = Children(k) \ {ancestor}
    BY <2>1, <2>2 DEF Children, Kids
  <2>6. \A k \in Stored : k # up => Children(k)' = Children(k)
    BY <2>5 DEF Children, Kids
  <2>7. SweepPlace'
    <3>1. up # NoKey => Depth[up] <= curr_depth
      <4> SUFFICES ASSUME up # NoKey PROVE Depth[up] <= curr_depth
        OBVIOUS
      <4>1. up \in Stored /\ ancestor \in Succ[up]
        BY <1>1, <1>3, <2>4 DEF TraceInv, ParentsAreMoves, Live
      <4>2. Depth[ancestor] >= Depth[up]
        BY <1>3, <4>1, DepthAssumption
      <4>3. Depth[up] \in Int /\ Depth[ancestor] \in Int /\ curr_depth \in Int
        BY <1>1, <1>3, <4>1, DepthAssumption DEF Depths
      <4> QED
        BY <1>1, <4>2, <4>3
    <3> QED
      BY <1>2, <2>1, <2>2, <2>4, <3>1 DEF SweepInv, SweepPlace
  <2>8. RefersToLive'
    <3>1. \A t \in Threads : Batch(t)' = {}
      BY <1>1, <1>2, NobodyHolds DEF IInv
    <3>2. ASSUME Dont', NEW d \in Depths PROVE Queued(d)' \subseteq Live'
      <4>1. Queued(d) \subseteq Live /\ Dont
        BY <1>2, <3>2 DEF SweepInv, RefersToLive
      <4>2. CASE d <= curr_depth
        <5>1. d < curr_depth \/ d = curr_depth
          BY <1>1, <4>2, DepthAssumption DEF Depths
        <5>2. queues[d] = <<>>
          BY <1>1, <4>1, <5>1, ThreadsAssumption DEF IInv, DepthShape, QuietExit
        <5> QED
          BY <1>2, <5>2 DEF Queued
      <4>3. CASE ~(d <= curr_depth)
        <5>1. ancestor \notin Queued(d)
          BY <1>1, <4>3 DEF IInv, DepthShape
        <5> QED
          BY <1>2, <2>2, <4>1, <5>1
      <4> QED
        BY <4>2, <4>3
    <3>3. \A k \in Live' : parent'[k] \in Live' \cup {NoKey}
      BY <2>1, <2>2, <2>3 DEF SweepInv, RefersToLive, Children, Kids
    <3>4. trace' = <<>> /\ trace_next' = NoKey /\ queue_solution_ptr' = NoKey
      BY <1>1, <1>2 DEF TraceInv, TraceFollowsParents, mainVars, commonVars
    <3>5. \A i \in DOMAIN trace' : trace'[i] \in Live'
      BY <3>4
    <3> QED
      BY <3>1, <3>2, <3>3, <3>4, <3>5 DEF RefersToLive
  <2>9. RefcountExact'
    <3> SUFFICES ASSUME NEW k \in Stored
                 PROVE  refcount'[k] = Cardinality(Children(k)')
      BY <1>2 DEF RefcountExact, Children, Kids
    <3>1. refcount[k] = Cardinality(Children(k))
      BY DEF SweepInv, RefcountExact, Children, Kids
    <3>2. CASE k # up
      BY <1>3, <2>1, <2>6, <3>1, <3>2
    <3>3. CASE k = up
      <4>1. ancestor \in Children(k) /\ up # NoKey
        BY <1>1, <1>3, <3>3 DEF Children, Kids
      <4>2. IsFiniteSet(Children(k))
        BY <1>3, KeysAssumption, FS_Subset DEF Children, Kids
      <4>3. Cardinality(Children(k)') = Cardinality(Children(k)) - 1
        BY <2>5, <4>1, <4>2, FS_RemoveElement
      <4>4. Cardinality(Children(k)) # 0
        BY <4>1, <4>2, FS_EmptySet
      <4>5. refcount'[k] = (refcount[k] + 256 - 1) % 256
        BY <1>3, <2>1, <3>3, <4>1
      <4>6. \A x \in 0..255 : x # 0 => (x + 256 - 1) % 256 = x - 1
        OBVIOUS
      <4>7. refcount[k] \in 0..255 /\ refcount[k] # 0
        BY <1>3, <3>1, <4>4
      <4> QED
        BY <3>1, <4>3, <4>5, <4>6, <4>7
    <3> QED
      BY <3>2, <3>3
  <2>10. SweptHaveChildren'
    <3> SUFFICES ASSUME NEW k \in Live', Swept(k)', k # up
                 PROVE  Children(k)' # {}
      BY <2>1 DEF SweptHaveChildren
    <3>1. Swept(k) /\ k # ancestor /\ k \in Live /\ k \in Stored
      BY <1>2, <1>3, <2>2 DEF Swept
    <3> QED
      BY <1>1, <2>6, <3>1 DEF SweepInv, SweptHaveChildren
  <2> QED
    BY <2>7, <2>8, <2>9, <2>10 DEF SweepInv
<1> QED
  BY <1>5, <1>6

\* main's other steps leave the records alone.
LEMMA MainSweep ==
    ASSUME IInv, SweepInv, Main, ~SweepAncestor
    PROVE  SweepInv'
<1>1. /\ UNCHANGED <<commonVars, queues, tokens, refcount, decommissioned>>
      /\ Stored' = Stored /\ (Dont' <=> Dont)
      /\ \A t \in Threads : Batch(t)' = Batch(t)
      /\ \A d : Queued(d)' = Queued(d)
  BY MainStays DEF Main, ReportSolution, StartSweep, SweepItem, NextDepth, TraceSolution,
                   sweepVars, IInv
<1>2. Live' = Live /\ \A k : Children(k)' = Children(k)
  BY <1>1 DEF Live, Children, commonVars
<1>3. RefcountExact'
  BY <1>1, <1>2 DEF SweepInv, RefcountExact, commonVars
<1>4. RefersToLive'
  <2>1. /\ trace_next' \in Live \cup {NoKey}
        /\ \A i \in DOMAIN trace' : trace'[i] \in Live
    <3>1. CASE TraceSolution
      <4>1. /\ trace' = Append(trace, trace_next) /\ trace_next' = parent[trace_next]
            /\ trace_next \in Live /\ trace \in Seq(Stored)
        BY <3>1 DEF TraceSolution, CalcTrace, SweepInv, RefersToLive, IInv, ShapeInv,
                    TypeOK, CommonTypeOK
      <4>2. \A i \in DOMAIN trace' : \/ i \in DOMAIN trace /\ trace'[i] = trace[i]
                                     \/ trace'[i] = trace_next
        BY <4>1
      <4> QED
        BY <4>1, <4>2 DEF SweepInv, RefersToLive
    <3>2. CASE ~TraceSolution
      <4>1. /\ trace' = trace
            /\ trace_next' = trace_next \/ trace_next' = queue_solution_ptr
        BY <3>2 DEF Main, ReportSolution, StartSweep, SweepItem, SweepAncestor, NextDepth,
                    HandleSolution, mainVars
      <4> QED
        BY <4>1 DEF SweepInv, RefersToLive
    <3> QED
      BY <3>1, <3>2
  <2> QED
    BY <1>1, <1>2, <2>1 DEF SweepInv, RefersToLive, commonVars
<1>5. SweepPlace' /\ SweptHaveChildren'
  <2>1. /\ \A k \in Live : Depth[k] \in Int
        /\ curr_depth \in Int /\ decommissioned \subseteq Stored
    BY DepthAssumption DEF Live, IInv, ShapeInv, TypeOK, CommonTypeOK
  <2>2. CASE ReportSolution \/ TraceSolution
    <3>1. UNCHANGED <<sweepVars, curr_depth>> /\ verdict' # "running"
      BY <2>2 DEF ReportSolution, HandleSolution, TraceSolution, CalcTrace
    <3> QED
      BY <1>2, <3>1 DEF SweepInv, SweepPlace, SweptHaveChildren, sweepVars
  <2>3. CASE StartSweep
    <3>1. /\ verdict' = verdict /\ ~sweeping /\ sweeping' /\ ancestor' = ancestor
          /\ sweep_left' = {k \in Stored : Depth[k] = curr_depth}
          /\ curr_depth' = curr_depth
      BY <2>3 DEF StartSweep, Joined, mainVars
    <3>2. \A k \in Live : Swept(k)' => Swept(k)
      BY <3>1 DEF Swept, Live
    <3> QED
      BY <1>2, <3>1, <3>2 DEF SweepInv, SweepPlace, SweptHaveChildren
  <2>4. ASSUME NEW j \in sweep_left, SweepItem(j)
        PROVE  SweepPlace' /\ SweptHaveChildren'
    <3>1. /\ verdict' = verdict /\ sweeping /\ sweeping' /\ ancestor = NoKey
          /\ sweep_left' = sweep_left \ {j} /\ curr_depth' = curr_depth
          /\ ancestor' = IF j \in decommissioned THEN NoKey ELSE j
      BY <2>4 DEF SweepItem, mainVars
    <3>2. Depth[j] = curr_depth /\ j \in Stored /\ j # NoKey
      BY <2>4, KeysAssumption DEF SweepInv, SweepPlace, IInv, ShapeInv, TypeOK, CommonTypeOK
    <3>3. \A k \in Live : Swept(k)' => Swept(k) \/ k = j
      BY <3>1 DEF Swept
    <3>4. \A k \in Live : k # NoKey
      BY KeysAssumption DEF Live, IInv, ShapeInv, TypeOK, CommonTypeOK
    <3>5. SweepPlace'
      BY <1>2, <2>1, <3>1, <3>2 DEF SweepInv, SweepPlace, Live
    <3>6. SweptHaveChildren'
      BY <1>2, <3>1, <3>3, <3>4 DEF SweepInv, SweptHaveChildren, Live
    <3> QED
      BY <3>5, <3>6
  <2>5. CASE NextDepth
    <3>1. /\ sweeping /\ ~sweeping' /\ ancestor = NoKey /\ ancestor' = NoKey
          /\ sweep_left = {} /\ sweep_left' = {} /\ curr_depth' = curr_depth + 1
          /\ verdict = "running"
      BY <2>5 DEF NextDepth, IInv, ShapeInv, MainShape
    <3>2. \A k \in Live : Swept(k)' => Swept(k)
      BY <2>1, <3>1 DEF Swept
    <3> QED
      BY <1>2, <3>1, <3>2 DEF SweepInv, SweepPlace, SweptHaveChildren
  <2> QED
    BY <2>2, <2>3, <2>4, <2>5 DEF Main
<1> QED
  BY <1>3, <1>4, <1>5 DEF SweepInv

LEMMA NextSweepInv ==
    ASSUME IInv, TraceInv, TraceInv', SweepInv, [Next]_vars
    PROVE  SweepInv'
<1>1. ShapeInv'
  BY NextShape DEF IInv
<1>2. ASSUME NEW t \in Threads, Worker(t) \/ WakeUnasked(t) PROVE SweepInv'
  BY <1>1, <1>2, InsertSweep, WorkerSweep
<1>3. CASE Main
  BY <1>3, SweepAncestorSweep, MainSweep
<1>4. CASE UNCHANGED vars
  BY <1>4 DEF vars, commonVars, mainVars, threadVars, sweepVars, SweepInv, SweepPlace,
     RefersToLive, RefcountExact, SweptHaveChildren, Swept, Children, Live, Stored, Batch,
     Queued, Dont
<1> QED
  BY <1>2, <1>3, <1>4 DEF Next, Exited

LEMMA SweepInvariance == Spec => []SweepInv
<1>1. Init => SweepInv
  BY InitSweep
<1>2. IInv /\ TraceInv /\ TraceInv' /\ SweepInv /\ [Next]_vars => SweepInv'
  BY NextSweepInv
<1> QED
  BY <1>1, <1>2, Invariance, TraceInvariance, PTL DEF Spec

\* The byte that counts the references to a record counts the live records that
\* name it as their parent, and never wraps.
THEOREM RefcountIsExact == Spec => []RefcountExact
<1>1. SweepInv => RefcountExact
  BY DEF SweepInv
<1> QED
  BY <1>1, SweepInvariance, PTL

\* Nothing that a thread, a queue, the trace or a live record refers to is put
\* on the recycle bin.
THEOREM NothingUsedAfterRecycle == Spec => []NoUseAfterRecycle
<1>1. SweepInv => NoUseAfterRecycle
  BY DEF SweepInv, RefersToLive, NoUseAfterRecycle
<1> QED
  BY <1>1, SweepInvariance, PTL

\* The sweep between two depths recycles every record of an earlier depth whose
\* descendants are all on the recycle bin.
THEOREM SweepIsComplete == Spec => []SweepIsThorough
<1>1. IInv /\ SweepInv => SweepIsThorough
  <2> SUFFICES ASSUME IInv, SweepInv, ~sweeping, verdict = "running",
                      NEW k \in Live, Depth[k] < curr_depth
               PROVE  \E c \in Live : parent[c] = k
    BY DEF SweepIsThorough
  <2>1. ancestor = NoKey /\ k # NoKey
    BY KeysAssumption DEF IInv, ShapeInv, MainShape, TypeOK, CommonTypeOK, Live
  <2>2. Children(k) # {}
    BY <2>1 DEF SweepInv, SweptHaveChildren, Swept
  <2> QED
    BY <2>2 DEF Children, Kids
<1> QED
  BY <1>1, Invariance, SweepInvariance, PTL

-----------------------------------------------------------------------------
(***************************************************************************)
(* The limits.                                                             *)
(***************************************************************************)
LimitMet == \/ count_num_processed >= MaxProcessed
            \/ num_states_in_collection >= MaxStates

LimitsInv ==
    /\ Dont => count_num_processed < MaxProcessed \/ count_num_processed = 0
    /\ count_num_processed < Max({MaxProcessed, 1}) + MaxBatch
    /\ should_terminate = "MAX_ITERS_TERMINATE" => LimitMet
    /\ should_terminate = "SOLUTION_FOUND_TERMINATE" => queue_solution_ptr # NoKey
    /\ verdict = "Intractable" => ~Dont /\ queue_solution_ptr = NoKey

LEMMA LimitBound ==
    Max({MaxProcessed, 1}) \in Nat /\ Max({MaxProcessed, 1}) >= MaxProcessed
       /\ Max({MaxProcessed, 1}) >= 1
<1>1. MaxProcessed \in Nat
  BY LimitsAssumption
<1>2. \E x \in {MaxProcessed, 1} : \A y \in {MaxProcessed, 1} : x >= y
  BY <1>1
<1>3. /\ Max({MaxProcessed, 1}) \in {MaxProcessed, 1}
      /\ \A y \in {MaxProcessed, 1} : Max({MaxProcessed, 1}) >= y
  BY <1>2 DEF Max
<1> QED
  BY <1>1, <1>3

LEMMA NextLimits ==
    ASSUME IInv, LimitsInv, [Next]_vars
    PROVE  LimitsInv'
<1> DEFINE bound == Max({MaxProcessed, 1})
<1>1. bound \in Nat /\ bound >= MaxProcessed /\ bound >= 1
  BY LimitBound
<1> HIDE DEF bound
<1>2. /\ count_num_processed \in Nat /\ num_states_in_collection \in Nat
      /\ MaxProcessed \in Nat /\ MaxStates \in Nat /\ MaxBatch \in Nat /\ MaxBatch # 0
      /\ should_terminate \in TerminateReason
  BY LimitsAssumption, ThreadsAssumption DEF IInv, ShapeInv, TypeOK, CommonTypeOK
<1>3. /\ Dont => count_num_processed < MaxProcessed \/ count_num_processed = 0
      /\ count_num_processed < bound + MaxBatch
      /\ should_terminate = "MAX_ITERS_TERMINATE" => LimitMet
      /\ should_terminate = "SOLUTION_FOUND_TERMINATE" => queue_solution_ptr # NoKey
      /\ verdict = "Intractable" => ~Dont /\ queue_solution_ptr = NoKey
  BY DEF LimitsInv, bound
<1>4. SUFFICES
        /\ Dont' => count_num_processed' < MaxProcessed \/ count_num_processed' = 0
        /\ count_num_processed' < bound + MaxBatch
        /\ should_terminate' = "MAX_ITERS_TERMINATE" => LimitMet'
        /\ should_terminate' = "SOLUTION_FOUND_TERMINATE" => queue_solution_ptr' # NoKey
        /\ verdict' = "Intractable" => ~Dont' /\ queue_solution_ptr' = NoKey
  BY DEF LimitsInv, bound
<1>5. ASSUME NEW t \in Threads, ExtractBatch(t)
      PROVE  /\ Dont' => count_num_processed' < MaxProcessed \/ count_num_processed' = 0
             /\ count_num_processed' < bound + MaxBatch
             /\ should_terminate' = "MAX_ITERS_TERMINATE" => LimitMet'
             /\ should_terminate' # "SOLUTION_FOUND_TERMINATE"
             /\ verdict' # "Intractable"
  <2>1. BatchLen \in 0..MaxBatch /\ BatchLen > 0 /\ BatchLen \in Nat
    BY <1>5, ExtractSplits DEF IInv
  <2>2. /\ count_num_processed' = count_num_processed + BatchLen
        /\ should_terminate' =
              IF BatchLen > 0 /\ (\/ count_num_processed + BatchLen >= MaxProcessed
                                  \/ num_states_in_collection >= MaxStates)
              THEN "MAX_ITERS_TERMINATE" ELSE should_terminate
        /\ num_states_in_collection' = num_states_in_collection
        /\ should_terminate = "DONT_TERMINATE" /\ Dont
    BY <1>5 DEF ExtractBatch, InstanceIncrement, Dont
  <2>3. verdict' = verdict /\ verdict = "running"
    BY <1>5, WorkerRuns, ExtractMoves DEF ExtractBatch, IInv
  <2>4. count_num_processed < bound
    BY <1>1, <1>2, <1>3, <2>2
  <2>5. count_num_processed' < bound + MaxBatch
    BY <1>1, <1>2, <2>1, <2>2, <2>4
  <2>6. Dont' => count_num_processed' < MaxProcessed
    BY <1>2, <2>1, <2>2 DEF Dont
  <2>7. should_terminate' = "MAX_ITERS_TERMINATE" => LimitMet'
    BY <1>2, <2>1, <2>2 DEF LimitMet
  <2> QED
    BY <2>2, <2>3, <2>5, <2>6, <2>7
<1>6. ASSUME NEW t \in Threads, InsertDerived(t)
      PROVE  /\ UNCHANGED <<count_num_processed, should_terminate, queue_solution_ptr,
                            verdict>>
             /\ num_states_in_collection' >= num_states_in_collection
  <2>1. Cardinality(NewKeys(t)) \in Nat
    BY NewKeysFinite DEF IInv
  <2>2. /\ num_states_in_collection' = num_states_in_collection + Cardinality(NewKeys(t))
        /\ UNCHANGED <<count_num_processed, should_terminate, queue_solution_ptr, verdict>>
    BY <1>6 DEF InsertDerived, InsertRecords, mainVars
  <2> QED
    BY <1>2, <2>1, <2>2
<1>7. ASSUME NEW t \in Threads, RecordSolution(t)
      PROVE  /\ UNCHANGED <<count_num_processed, verdict>> /\ verdict # "Intractable"
             /\ should_terminate' = "SOLUTION_FOUND_TERMINATE"
             /\ queue_solution_ptr' # NoKey
  <2>1. Items(tokens[t]) \cap Goal # {} /\ tokens[t] \in Seq(Stored)
    BY <1>7, BatchItems DEF RecordSolution, BatchShape, ShapeInv, TypeOK, IInv
  <2>2. FirstIn(tokens[t], Goal) \in Stored /\ NoKey \notin Stored
    BY <2>1, FirstInFound, KeysAssumption DEF IInv, ShapeInv, TypeOK, CommonTypeOK
  <2>3. verdict = "running"
    BY <1>7, WorkerRuns DEF RecordSolution, IInv
  <2> QED
    BY <1>7, <2>2, <2>3 DEF RecordSolution, FoundSolution, mainVars
<1>8. ASSUME UNCHANGED commonVars, HandleSolution \/ verdict' = verdict
      PROVE  /\ UNCHANGED <<count_num_processed, num_states_in_collection,
                            should_terminate, queue_solution_ptr>>
             /\ verdict' = "Intractable" => ~Dont' /\ queue_solution_ptr' = NoKey
  BY <1>3, <1>8 DEF commonVars, HandleSolution, Dont
<1>9. \/ \E t \in Threads : ExtractBatch(t) \/ InsertDerived(t) \/ RecordSolution(t)
      \/ UNCHANGED commonVars /\ (HandleSolution \/ verdict' = verdict)
      \/ UNCHANGED <<count_num_processed, num_states_in_collection, should_terminate,
                     queue_solution_ptr, verdict>>
  BY MainStays DEF Next, Worker, WakeUnasked, ReturnBatch, ExtractNothing, ToldToStop,
     ExpandBatch, Main, ReportSolution, StartSweep, SweepItem, SweepAncestor, NextDepth,
     TraceSolution, CalcTrace, Exited, vars, mainVars, commonVars
<1>10. CASE \E t \in Threads : ExtractBatch(t)
  BY <1>5, <1>10
<1>11. CASE \E t \in Threads : InsertDerived(t)
  <2>1. /\ UNCHANGED <<count_num_processed, should_terminate, queue_solution_ptr, verdict>>
        /\ num_states_in_collection' >= num_states_in_collection
    BY <1>6, <1>11
  <2>2. num_states_in_collection' \in Nat
    BY NextShape DEF IInv, ShapeInv, TypeOK, CommonTypeOK
  <2>3. LimitMet => LimitMet'
    BY <1>2, <2>1, <2>2 DEF LimitMet
  <2> QED
    BY <1>3, <2>1, <2>3 DEF Dont
<1>12. CASE \E t \in Threads : RecordSolution(t)
  BY <1>3, <1>7, <1>12 DEF Dont
<1>13. CASE UNCHANGED commonVars /\ (HandleSolution \/ verdict' = verdict)
  BY <1>3, <1>8, <1>13 DEF LimitMet, Dont
<1>14. CASE UNCHANGED <<count_num_processed, num_states_in_collection, should_terminate,
                        queue_solution_ptr, verdict>>
  BY <1>3, <1>14 DEF LimitMet, Dont
<1> QED
  BY <1>9, <1>10, <1>11, <1>12, <1>13, <1>14

\* "Intractable" is only said when a limit was met and no solution recorded, and
\* the limit on the positions looked at is overrun by less than a batch.
THEOREM IntractableIsHonest == Spec => []IntractableHonest
<1>1. Init => LimitsInv
  <2>1. Init => count_num_processed = 0 /\ Dont /\ verdict = "running"
    BY DEF Init, CommonInit, Dont
  <2>2. Init => should_terminate = "DONT_TERMINATE"
    BY DEF Init, CommonInit
  <2>3. 0 < Max({MaxProcessed, 1}) + MaxBatch
    BY LimitBound, ThreadsAssumption
  <2> QED
    BY <2>1, <2>2, <2>3 DEF LimitsInv
<1>2. IInv /\ LimitsInv /\ [Next]_vars => LimitsInv'
  BY NextLimits
<1>3. IInv /\ LimitsInv => IntractableHonest
  BY DEF IInv, ShapeInv, TypeOK, CommonTypeOK, TerminateReason, LimitsInv, LimitMet,
     IntractableHonest, Dont
<1> QED
  BY <1>1, <1>2, <1>3, Invariance, PTL DEF Spec
=============================================================================
