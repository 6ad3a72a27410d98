-------------------------- MODULE DbmSolverProofs --------------------------
(***************************************************************************)
(* Theorems about DbmSolver, for any set of threads, any graph of          *)
(* positions and any limits: types, the counter, that no work is lost or   *)
(* done twice, the three verdicts, the trace, and that the solver          *)
(* implements GraphSearch.                                                 *)
(***************************************************************************)
EXTENDS DbmSolver, DbmCommonProofs

\* What NewKeys(k) adds to the store is a finite set of positions.
LEMMA NewKeysFinite ==
    ASSUME NEW k \in Keys
    PROVE  /\ NewKeys(k) \subseteq Keys
           /\ IsFiniteSet(NewKeys(k))
           /\ Cardinality(NewKeys(k)) \in Nat
<1>1. NewKeys(k) \subseteq Keys
  BY KeysAssumption DEF NewKeys
<1>2. IsFiniteSet(NewKeys(k))
  BY <1>1, KeysAssumption, FS_Subset
<1> QED
  BY <1>1, <1>2, FS_CardinalityType

\* In "found" and "insert" a thread has an item: the code is only reached with
\* one.  It is what makes the parent pointers that InsertDerived sets typed.
ItemHeld == \A t \in Threads :
               /\ pc[t] \in {"found", "insert"} => item[t] # NoKey
               /\ pc[t] = "insert" => item[t] \notin Goal

LEMMA InitTypeOK == Init => TypeOK /\ ItemHeld
<1> SUFFICES ASSUME Init PROVE TypeOK /\ ItemHeld
  OBVIOUS
<1> USE KeysAssumption DEF Init, CommonInit
<1>1. Stored = {Root}
  BY DEF Stored
<1>2. CommonTypeOK
  BY <1>1 DEF CommonTypeOK, RecordPtr, TerminateReason, Verdicts
<1>3. queue \in Seq(Stored)
  BY <1>1
<1> QED
  BY <1>2, <1>3 DEF TypeOK, RecordPtr, ItemHeld

\* Steps that leave the store alone keep every pointer into it.
LEMMA NextTypeOK ==
    ASSUME TypeOK, ItemHeld, [Next]_vars
    PROVE  TypeOK' /\ ItemHeld'
<1> USE KeysAssumption, LimitsAssumption
<1> USE DEF TypeOK, CommonTypeOK, RecordPtr, ItemHeld
<1>1. ASSUME NEW t \in Threads, ExtractItem(t)
      PROVE  TypeOK' /\ ItemHeld'
  <2>1. Head(queue) \in Stored /\ Tail(queue) \in Seq(Stored)
    BY <1>1 DEF ExtractItem
  <2>2. /\ count_of_items_in_queue' \in Int
        /\ queue_num_extracted_and_processed' \in Int
        /\ count_num_processed' \in Nat
        /\ should_terminate' \in TerminateReason
    BY <1>1 DEF ExtractItem, InstanceIncrement, Returned, TerminateReason
  <2> QED
    BY <1>1, <2>1, <2>2 DEF ExtractItem, mainVars, Stored
<1>2. ASSUME NEW t \in Threads, ExtractNothing(t)
      PROVE  TypeOK' /\ ItemHeld'
  BY <1>2 DEF ExtractNothing, InstanceIncrement, Returned, mainVars, Stored,
              TerminateReason
<1>3. ASSUME NEW t \in Threads, ReturnOnly(t)
      PROVE  TypeOK' /\ ItemHeld'
  BY <1>3 DEF ReturnOnly, InstanceIncrement, Returned, mainVars, Stored,
              TerminateReason
<1>4. ASSUME NEW t \in Threads, CheckExit(t)
      PROVE  TypeOK' /\ ItemHeld'
  BY <1>4 DEF CheckExit, commonVars, mainVars, Stored
<1>5. ASSUME NEW t \in Threads, CheckSleep(t)
      PROVE  TypeOK' /\ ItemHeld'
  BY <1>5 DEF CheckSleep, commonVars, mainVars, Stored
<1>6. ASSUME NEW t \in Threads, CheckExpand(t)
      PROVE  TypeOK' /\ ItemHeld'
  BY <1>6 DEF CheckExpand, commonVars, mainVars, Stored
<1>7. ASSUME NEW t \in Threads, RecordSolution(t)
      PROVE  TypeOK' /\ ItemHeld'
  BY <1>7 DEF RecordSolution, FoundSolution, mainVars, Stored, TerminateReason
<1>8. ASSUME NEW t \in Threads, InsertDerived(t)
      PROVE  TypeOK' /\ ItemHeld'
  <2> DEFINE new == NewKeys(item[t])
  <2>1. item[t] \in Stored
    BY <1>8 DEF InsertDerived
  <2>2. new \subseteq Keys /\ IsFiniteSet(new) /\ Cardinality(new) \in Nat
    BY <2>1, NewKeysFinite
  <2>3. /\ Stored' = Stored \cup new
        /\ parent' \in [Stored' -> RecordPtr']
    BY <1>8, <2>1 DEF InsertDerived, InsertRecords, Stored
  <2>4. PICK s \in Orders(new) : queue' = queue \o s
    BY <1>8 DEF InsertDerived
  <2>5. queue' \in Seq(Stored')
    BY <2>2, <2>3, <2>4, OrderingIsSeq
  <2>6. trace' \in Seq(Stored')
    BY <1>8, <2>3 DEF InsertDerived, mainVars
  <2> HIDE DEF new
  <2> QED
    BY <1>8, <2>2, <2>3, <2>5, <2>6 DEF InsertDerived, InsertRecords, mainVars, new
<1>9. CASE JoinAndReport
  BY <1>9 DEF JoinAndReport, HandleSolution, commonVars, threadVars, Stored, Verdicts
<1>10. CASE TraceSolution
  BY <1>10 DEF TraceSolution, CalcTrace, commonVars, threadVars, Stored
<1>11. CASE UNCHANGED vars
  BY <1>11 DEF vars, commonVars, mainVars, threadVars, Stored
<1> QED
  BY <1>1, <1>2, <1>3, <1>4, <1>5, <1>6, <1>7, <1>8, <1>9, <1>10, <1>11
  DEF Next, Worker, Main, Exited

\* Every record pointer of the search, in the store, the queue, the threads
\* and main, is NULL or points into the store; counters are numbers
\* (fields of dbm_instance_common_elems and locals of the thread loop).
THEOREM TypeCorrect == Spec => []TypeOK
<1>1. TypeOK /\ ItemHeld /\ [Next]_vars => TypeOK' /\ ItemHeld'
  BY NextTypeOK
<1> QED
  BY <1>1, InitTypeOK, PTL DEF Spec

-----------------------------------------------------------------------------
(***************************************************************************)
(* The inductive invariant behind the verdict.  CounterExact alone is not  *)
(* inductive: a thread that leaves would have to be known to hold nothing. *)
(* ZeroSeenQuiet says so of the thread that is about to leave because its  *)
(* copy of the counter is zero, and QuietExit of those that have left.     *)
(***************************************************************************)
Quiet == queue = <<>> /\ Unreturned = {}

ZeroSeenQuiet ==
    Dont => \A t \in Threads : pc[t] = "check" /\ seen[t] = 0 => Quiet

VerdictMeaning ==
    /\ verdict # "running" => \A t \in Threads : pc[t] = "done"
    /\ verdict = "Could not solve" => Dont

IInv ==
    /\ TypeOK
    /\ ItemHeld
    /\ Root \in Stored
    /\ CounterExact
    /\ ZeroSeenQuiet
    /\ QuietExit
    /\ NoLostWork
    /\ VerdictMeaning

LEMMA UnreturnedFinite == IsFiniteSet(Unreturned) /\ Cardinality(Unreturned) \in Nat
<1>1. Unreturned \subseteq Threads
  BY DEF Unreturned
<1> QED
  BY <1>1, ThreadsAssumption, FS_Subset, FS_CardinalityType

LEMMA InitIInv == Init => IInv
<1> SUFFICES ASSUME Init PROVE IInv
  OBVIOUS
<1> USE DEF Init, CommonInit
<1>1. Stored = {Root}
  BY DEF Stored
<1>2. Unreturned = {}
  BY DEF Unreturned, Working
<1>3. CounterExact
  BY <1>2, FS_EmptySet DEF CounterExact
<1>4. NoLostWork
  <2>1. queue[1] = Root /\ 1 \in DOMAIN queue
    OBVIOUS
  <2> QED
    BY <1>1, <2>1 DEF NoLostWork, Queued
<1> QED
  BY <1>1, <1>3, <1>4, InitTypeOK
  DEF IInv, ZeroSeenQuiet, QuietExit, VerdictMeaning

\* The first critical section leaves the counter exact, and a zero in the
\* thread's copy means that there is nothing left to do.
LEMMA ExtractExact ==
    ASSUME IInv, NEW t \in Threads, ExtractItem(t) \/ ExtractNothing(t), Dont'
    PROVE  /\ queue_num_extracted_and_processed' = Cardinality(Unreturned')
           /\ seen'[t] = 0 => queue' = <<>> /\ Unreturned' = {}
<1> USE DEF IInv, TypeOK, CommonTypeOK, RecordPtr, Dont
<1>1. queue_num_extracted_and_processed = Cardinality(Unreturned)
  BY DEF CounterExact, ExtractItem, ExtractNothing
<1>2. t \in Unreturned <=> prev_item[t] # NoKey
  BY DEF ExtractItem, ExtractNothing, Unreturned, Working
<1>3. CASE ExtractItem(t)
  <2>1. Head(queue) # NoKey
    BY <1>3, KeysAssumption DEF ExtractItem
  <2>2. Unreturned' = Unreturned \cup {t}
    BY <1>3, <2>1 DEF ExtractItem, Unreturned, Working
  <2>3. Cardinality(Unreturned') = IF t \in Unreturned THEN Cardinality(Unreturned)
                                   ELSE Cardinality(Unreturned) + 1
    BY <2>2, UnreturnedFinite, FS_AddElement, Zenon
  <2>4. queue_num_extracted_and_processed' = Cardinality(Unreturned')
    BY <1>1, <1>2, <1>3, <2>3, UnreturnedFinite
    DEF ExtractItem, InstanceIncrement, Returned
  <2>5. Cardinality(Unreturned) = 0 => t \notin Unreturned
    BY UnreturnedFinite, FS_EmptySet
  <2>6. Cardinality(Unreturned') # 0
    BY <2>3, <2>5, UnreturnedFinite
  <2> QED
    BY <1>3, <2>4, <2>6 DEF ExtractItem
<1>4. CASE ExtractNothing(t)
  <2>1. Unreturned' = Unreturned \ {t}
    BY <1>4 DEF ExtractNothing, Unreturned, Working
  <2>2. /\ IsFiniteSet(Unreturned')
        /\ Cardinality(Unreturned') = IF t \in Unreturned
                                      THEN Cardinality(Unreturned) - 1
                                      ELSE Cardinality(Unreturned)
    BY <2>1, UnreturnedFinite, FS_RemoveElement, Zenon
  <2>3. queue_num_extracted_and_processed' = Cardinality(Unreturned')
    BY <1>1, <1>2, <1>4, <2>2, UnreturnedFinite
    DEF ExtractNothing, InstanceIncrement, Returned
  <2>4. Cardinality(Unreturned') = 0 => Unreturned' = {}
    BY <2>2, FS_EmptySet
  <2> QED
    BY <1>4, <2>3, <2>4 DEF ExtractNothing
<1> QED
  BY <1>3, <1>4

\* A thread that leaves while the search goes on holds nothing.
LEMMA ExitHoldsNothing ==
    ASSUME IInv, Dont, NEW t \in Threads, CheckExit(t)
    PROVE  Quiet /\ Unreturned' = Unreturned
<1>1. Quiet
  BY DEF IInv, ZeroSeenQuiet, CheckExit, MustExit, Dont
<1> QED
  BY <1>1 DEF Quiet, IInv, TypeOK, CheckExit, Unreturned, Working

\* The steps between two critical sections, and InsertDerived, keep a thread
\* among those that hold an item, or out of them.
LEMMA OtherStepsKeepUnreturned ==
    ASSUME IInv, NEW t \in Threads,
           CheckSleep(t) \/ CheckExpand(t) \/ InsertDerived(t)
    PROVE  Unreturned' = Unreturned
<1> USE DEF IInv, TypeOK, Unreturned, Working
<1>1. CASE CheckSleep(t)
  BY <1>1 DEF CheckSleep
<1>2. CASE CheckExpand(t)
  BY <1>2 DEF CheckExpand
<1>3. CASE InsertDerived(t)
  BY <1>3 DEF InsertDerived, ItemHeld
<1> QED
  BY <1>1, <1>2, <1>3

\* In a quiet search nobody inserts, so it stays quiet until some thread
\* changes should_terminate, which only a thread that holds an item can do.
LEMMA QuietStays ==
    ASSUME IInv, Quiet, Dont', [Next]_vars
    PROVE  queue' = <<>> /\ Unreturned' = {}
<1> USE DEF Quiet
<1>1. ASSUME NEW t \in Threads, Worker(t)
      PROVE  queue' = <<>> /\ Unreturned' = {}
  <2>1. ~ExtractItem(t)
    BY DEF ExtractItem
  <2>2. CASE ExtractNothing(t)
    BY <2>2 DEF ExtractNothing, Unreturned, Working, IInv, TypeOK
  <2>3. ~InsertDerived(t) /\ ~RecordSolution(t)
    BY DEF InsertDerived, RecordSolution, Unreturned, Working, IInv, ItemHeld
  <2>4. CASE CheckExit(t)
    BY <2>4, ExitHoldsNothing DEF CheckExit, commonVars, Dont
  <2>5. CASE CheckSleep(t) \/ CheckExpand(t)
    BY <2>5, OtherStepsKeepUnreturned DEF CheckSleep, CheckExpand
  <2>6. ~ReturnOnly(t)
    BY DEF ReturnOnly, InstanceIncrement, Dont
  <2> QED
    BY <1>1, <2>1, <2>2, <2>3, <2>4, <2>5, <2>6 DEF Worker
<1>2. CASE Main \/ UNCHANGED vars
  BY <1>2 DEF Main, JoinAndReport, TraceSolution, vars, threadVars, Unreturned,
              Working
<1> QED
  BY <1>1, <1>2 DEF Next, Exited

\* should_terminate is never set back during a search.
LEMMA DontBefore == ASSUME [Next]_vars, Dont' PROVE Dont
BY DEF Dont, Next, Worker, Main, Exited, vars, ExtractItem, ExtractNothing, ReturnOnly,
       InstanceIncrement, CheckExit, CheckSleep, CheckExpand, RecordSolution,
       FoundSolution, InsertDerived, JoinAndReport, TraceSolution, commonVars

LEMMA NextCounter ==
    ASSUME IInv, [Next]_vars
    PROVE  CounterExact' /\ ZeroSeenQuiet' /\ QuietExit'
<1> SUFFICES ASSUME Dont'
             PROVE  CounterExact' /\ ZeroSeenQuiet' /\ QuietExit'
  BY DEF CounterExact, ZeroSeenQuiet, QuietExit
<1>1. Dont
  BY DontBefore
<1>2. queue_num_extracted_and_processed = Cardinality(Unreturned)
  BY <1>1 DEF IInv, CounterExact
<1>3. CounterExact'
  <2>1. ASSUME Unreturned' = Unreturned,
               UNCHANGED queue_num_extracted_and_processed
        PROVE  CounterExact'
    BY <1>2, <2>1 DEF CounterExact
  <2>2. ASSUME NEW t \in Threads, Worker(t) PROVE CounterExact'
    <3>1. CASE ExtractItem(t) \/ ExtractNothing(t)
      BY <3>1, ExtractExact DEF CounterExact
    <3>2. ~ReturnOnly(t) /\ ~RecordSolution(t)
      BY <1>1 DEF ReturnOnly, RecordSolution, FoundSolution, Dont
    <3>3. CASE CheckExit(t)
      BY <1>1, <2>1, <3>3, ExitHoldsNothing DEF CheckExit, commonVars
    <3>4. CASE CheckSleep(t) \/ CheckExpand(t) \/ InsertDerived(t)
      BY <2>1, <3>4, OtherStepsKeepUnreturned
      DEF CheckSleep, CheckExpand, InsertDerived, commonVars
    <3> QED
      BY <2>2, <3>1, <3>2, <3>3, <3>4 DEF Worker
  <2>3. CASE Main \/ UNCHANGED vars
    BY <2>1, <2>3 DEF Main, JoinAndReport, TraceSolution, vars, commonVars,
                      threadVars, Unreturned, Working
  <2> QED
    BY <2>2, <2>3 DEF Next, Exited
<1>4. CASE Quiet
  BY <1>3, <1>4, QuietStays DEF ZeroSeenQuiet, QuietExit, Quiet
\* If some work is left, no thread has left, and none has seen a zero.
<1>5. CASE ~Quiet
  <2>1. \A u \in Threads : pc[u] # "done" /\ ~(pc[u] = "check" /\ seen[u] = 0)
    BY <1>1, <1>5 DEF IInv, ZeroSeenQuiet, QuietExit, Quiet
  <2>2. ASSUME NEW t \in Threads, ExtractItem(t) \/ ExtractNothing(t)
        PROVE  ZeroSeenQuiet' /\ QuietExit'
    <3>1. seen'[t] = 0 => Quiet'
      BY <2>2, ExtractExact DEF Quiet
    <3>2. /\ pc'[t] = "check"
          /\ \A u \in Threads \ {t} : pc'[u] = pc[u] /\ seen'[u] = seen[u]
      BY <2>2 DEF ExtractItem, ExtractNothing, IInv, TypeOK
    <3> QED
      BY <2>1, <3>1, <3>2 DEF ZeroSeenQuiet, QuietExit
  <2>3. ASSUME NEW t \in Threads, Worker(t), ~ExtractItem(t), ~ExtractNothing(t)
        PROVE  /\ UNCHANGED seen
               /\ \A u \in Threads : pc'[u] \in {pc[u], "lock", "found", "insert"}
    BY <1>1, <1>5, <2>3, ExitHoldsNothing
    DEF Worker, ReturnOnly, CheckSleep, CheckExpand, RecordSolution,
        FoundSolution, InsertDerived, Dont, IInv, TypeOK, InstanceIncrement
  <2>4. CASE Main \/ UNCHANGED vars
    <3>1. pc' = pc /\ seen' = seen
      BY <2>4 DEF Main, JoinAndReport, TraceSolution, vars, threadVars
    <3> QED
      BY <1>3, <2>1, <3>1 DEF ZeroSeenQuiet, QuietExit
  <2>5. ASSUME NEW t \in Threads, Worker(t), ~ExtractItem(t), ~ExtractNothing(t)
        PROVE  ZeroSeenQuiet' /\ QuietExit'
    BY <2>1, <2>3, <2>5 DEF ZeroSeenQuiet, QuietExit
  <2> QED
    BY <1>3, <2>2, <2>4, <2>5 DEF Next, Exited
<1> QED
  BY <1>3, <1>4, <1>5

-----------------------------------------------------------------------------
\* Positions are not lost: what leaves the queue is held by the thread that
\* took it, and what leaves a thread was expanded with its derived keys stored.
LEMMA NextNoLostWork ==
    ASSUME IInv, [Next]_vars
    PROVE  NoLostWork' /\ Root \in Stored'
<1> USE DEF IInv, TypeOK, CommonTypeOK, RecordPtr
<1>1. ASSUME NEW t \in Threads, InsertDerived(t)
      PROVE  NoLostWork' /\ Root \in Stored'
  <2> DEFINE new == NewKeys(item[t])
  <2>1. Stored' = Stored \cup new
    BY <1>1 DEF InsertDerived, InsertRecords, Stored
  <2>2. PICK s \in Orders(new) : queue' = queue \o s
    BY <1>1 DEF InsertDerived
  <2>3. item[t] \in Stored
    BY <1>1 DEF InsertDerived, ItemHeld
  <2>4. new \subseteq Keys /\ IsFiniteSet(new)
    BY <2>3, NewKeysFinite
  <2>5. s \in Seq(new) /\ \A x \in new : \E i \in 1..Len(s) : s[i] = x
    BY <2>2, <2>4, OrderingIsSeq
  <2>6. Queued \subseteq Queued' /\ new \subseteq Queued'
    <3>1. queue \in Seq(Keys) /\ s \in Seq(Keys)
      BY <2>4, <2>5
    <3>2. \A i \in DOMAIN queue : i \in DOMAIN queue' /\ queue'[i] = queue[i]
      BY <2>2, <3>1, AppendKeepsItems
    <3>3. ASSUME NEW i \in DOMAIN s PROVE \E j \in DOMAIN queue' : queue'[j] = s[i]
      <4>1. Len(queue) + i \in DOMAIN queue' /\ queue'[Len(queue) + i] = s[i]
        BY <2>2, <3>1, AppendKeepsItems
      <4> QED
        BY <4>1
    <3>4. \A k \in new : \E j \in DOMAIN queue' : queue'[j] = k
      <4>1. DOMAIN s = 1..Len(s)
        BY <3>1
      <4> QED
        BY <2>5, <3>3, <4>1
    <3> HIDE DEF new
    <3> QED
      BY <3>2, <3>4 DEF Queued
  <2>7. Succ[item[t]] \subseteq Stored' /\ item[t] \notin Goal
    BY <1>1, <2>1 DEF NewKeys, InsertDerived, ItemHeld
  <2>8. \A u \in Threads : u # t /\ Working(u) => Working(u)' /\ item'[u] = item[u]
    BY <1>1 DEF InsertDerived, Working
  <2>9. Dont' => Dont
    BY <1>1 DEF InsertDerived, Dont
  <2> HIDE DEF new
  <2>10. ASSUME Dont', NEW k \in Stored'
         PROVE  \/ k \in Queued'
                \/ \E u \in Threads : Working(u)' /\ item'[u] = k
                \/ k \notin Goal /\ Succ[k] \subseteq Stored'
    <3>1. CASE k \in new
      BY <2>6, <3>1
    <3>2. CASE k \in Queued
      BY <2>6, <3>2
    <3>3. CASE \E u \in Threads : Working(u) /\ item[u] = k
      BY <2>7, <2>8, <3>3
    <3>4. CASE k \notin Goal /\ Succ[k] \subseteq Stored
      BY <2>1, <3>4
    <3> QED
      BY <2>1, <2>9, <2>10, <3>1, <3>2, <3>3, <3>4 DEF NoLostWork
  <2> QED
    BY <2>1, <2>10 DEF NoLostWork
\* The other steps leave the store as it is.
<1>2. ASSUME UNCHANGED parent,
             Dont' => Dont,
             \A k \in Queued : k \in Queued' \/ \E t \in Threads : Working(t)' /\ item'[t] = k,
             \A t \in Threads : Dont' /\ Working(t) =>
                \/ Working(t)' /\ item'[t] = item[t]
                \/ item[t] \notin Goal /\ Succ[item[t]] \subseteq Stored
      PROVE  NoLostWork' /\ Root \in Stored'
  <2>1. Stored' = Stored
    BY <1>2 DEF Stored
  <2> QED
    BY <1>2, <2>1 DEF NoLostWork
<1>3. ASSUME NEW t \in Threads, ExtractItem(t)
      PROVE  NoLostWork' /\ Root \in Stored'
  <2>1. Working(t)' /\ item'[t] = Head(queue)
    BY <1>3, KeysAssumption DEF ExtractItem, Working
  <2>2. \A u \in Threads : Working(u) => Working(u)' /\ item'[u] = item[u]
    BY <1>3 DEF ExtractItem, Working
  <2>3. \A i \in DOMAIN queue : \/ queue[i] = Head(queue)
                                \/ \E j \in DOMAIN queue' : queue'[j] = queue[i]
    BY <1>3, TailKeepsItems DEF ExtractItem
  <2>4. \A k \in Queued : k \in Queued' \/ k = item'[t]
    BY <2>1, <2>3 DEF Queued
  <2> QED
    BY <1>2, <1>3, <2>1, <2>2, <2>4 DEF ExtractItem, Dont
<1>4. ASSUME UNCHANGED <<parent, queue>>, Dont' => Dont,
             \A t \in Threads : Dont' /\ Working(t) =>
                \/ Working(t)' /\ item'[t] = item[t]
                \/ item[t] \notin Goal /\ Succ[item[t]] \subseteq Stored
      PROVE  NoLostWork' /\ Root \in Stored'
  <2>1. Queued' = Queued
    BY <1>4 DEF Queued
  <2> QED
    BY <1>2, <1>4, <2>1
<1>5. ASSUME NEW t \in Threads, ExtractNothing(t) \/ ReturnOnly(t)
      PROVE  NoLostWork' /\ Root \in Stored'
  <2>1. \A u \in Threads : Working(u) => Working(u)' /\ item'[u] = item[u]
    BY <1>5 DEF ExtractNothing, ReturnOnly, Working
  <2> QED
    BY <1>4, <1>5, <2>1 DEF ExtractNothing, ReturnOnly, InstanceIncrement, Dont
<1>6. ASSUME NEW t \in Threads, CheckExit(t)
      PROVE  NoLostWork' /\ Root \in Stored'
  <2>1. Dont => ~Working(t)
    BY <1>6, ExitHoldsNothing DEF Quiet, Unreturned
  <2>2. \A u \in Threads \ {t} : Working(u) => Working(u)' /\ item'[u] = item[u]
    BY <1>6 DEF CheckExit, Working
  <2> QED
    BY <1>4, <1>6, <2>1, <2>2 DEF CheckExit, commonVars, Dont
<1>7. ASSUME NEW t \in Threads, CheckSleep(t) \/ CheckExpand(t)
      PROVE  NoLostWork' /\ Root \in Stored'
  <2>1. \A u \in Threads : Working(u) =>
           \/ Working(u)' /\ item'[u] = item[u]
           \/ item[u] \notin Goal /\ Succ[item[u]] \subseteq Stored
    BY <1>7 DEF CheckSleep, CheckExpand, Working
  <2> QED
    BY <1>4, <1>7, <2>1 DEF CheckSleep, CheckExpand, commonVars, Dont
<1>8. ASSUME NEW t \in Threads, RecordSolution(t)
      PROVE  NoLostWork' /\ Root \in Stored'
  BY <1>8 DEF RecordSolution, FoundSolution, NoLostWork, Dont, Stored
<1>9. CASE Main \/ UNCHANGED vars
  <2>1. UNCHANGED <<parent, queue, pc, item, should_terminate>>
    BY <1>9 DEF Main, JoinAndReport, TraceSolution, vars, commonVars, threadVars
  <2> QED
    BY <1>4, <2>1 DEF Working, Dont
<1> QED
  BY <1>1, <1>3, <1>5, <1>6, <1>7, <1>8, <1>9 DEF Next, Worker, Exited

LEMMA NextVerdict ==
    ASSUME IInv, [Next]_vars
    PROVE  VerdictMeaning'
<1> USE DEF IInv, VerdictMeaning, TypeOK
<1>1. ASSUME NEW t \in Threads, Worker(t) PROVE VerdictMeaning'
  <2>1. pc[t] # "done" /\ UNCHANGED verdict
    BY <1>1 DEF Worker, ExtractItem, ExtractNothing, ReturnOnly, CheckExit, CheckSleep,
                CheckExpand, RecordSolution, InsertDerived, mainVars
  <2> QED
    BY <2>1, KeysAssumption DEF CommonTypeOK, Verdicts
<1>2. CASE JoinAndReport
  BY <1>2 DEF JoinAndReport, HandleSolution, threadVars, commonVars, Dont
<1>3. CASE TraceSolution \/ UNCHANGED vars
  BY <1>3 DEF TraceSolution, CalcTrace, vars, threadVars, commonVars, mainVars, Dont
<1> QED
  BY <1>1, <1>2, <1>3 DEF Next, Main, Exited

\* IInv is inductive, and so an invariant.
THEOREM Invariance == Spec => []IInv
<1>1. IInv /\ [Next]_vars => IInv'
  BY NextTypeOK, NextCounter, NextNoLostWork, NextVerdict DEF IInv
<1> QED
  BY <1>1, InitIInv, PTL DEF Spec

\* While the search goes on, queue_num_extracted_and_processed is the number
\* of threads that hold an item they have not handed back, for any threads.
THEOREM CounterIsExact == Spec => []CounterExact
<1>1. IInv => CounterExact
  BY DEF IInv
<1> QED
  BY <1>1, Invariance, PTL

\* No stored position is lost between the queue, a thread and its expansion.
THEOREM WorkIsNotLost == Spec => []NoLostWork
<1>1. IInv => NoLostWork
  BY DEF IInv
<1> QED
  BY <1>1, Invariance, PTL

\* A worker that leaves without a stop reason leaves nothing to do behind.
THEOREM ExitIsQuiet == Spec => []QuietExit
<1>1. IInv => QuietExit
  BY DEF IInv
<1> QED
  BY <1>1, Invariance, PTL

\* When main is about to give up, the store is closed under the moves and holds
\* no solved position.
LEMMA GivingUpIsExhausted ==
    ASSUME IInv, Dont, \A t \in Threads : pc[t] = "done"
    PROVE  \A j \in Stored : j \notin Goal /\ Succ[j] \subseteq Stored
<1>1. queue = <<>>
  BY ThreadsAssumption DEF IInv, QuietExit
<1>2. Queued = {} /\ \A t \in Threads : ~Working(t)
  <2>1. queue \in Seq(Stored)
    BY DEF IInv, TypeOK
  <2>2. \A i \in DOMAIN queue : FALSE
    BY <1>1, <2>1, EmptyHasNoItem
  <2> QED
    BY <2>2 DEF Queued, Working
<1> QED
  BY <1>2 DEF IInv, NoLostWork

\* "Could not solve successfully" is only printed for a deal from which no
\* solved position can be reached: the store is then closed under the moves.
THEOREM VerdictIsSound == Spec => []VerdictSound
<1>1. ASSUME IInv PROVE VerdictSound
  <2> SUFFICES ASSUME verdict = "Could not solve", NEW k \in Reachable, k \in Goal
               PROVE  FALSE
    BY DEF VerdictSound
  <2>1. Dont /\ \A t \in Threads : pc[t] = "done"
    BY <1>1 DEF IInv, VerdictMeaning
  <2>2. \A j \in Stored : j \notin Goal /\ Succ[j] \subseteq Stored
    BY <1>1, <2>1, GivingUpIsExhausted
  <2>3. Stored \in SUBSET Keys /\ Root \in Stored
    BY <1>1 DEF IInv, TypeOK, CommonTypeOK
  <2>4. k \in Stored
    BY <2>2, <2>3 DEF Reachable, Closed
  <2> QED
    BY <2>2, <2>4
<1> QED
  BY <1>1, Invariance, PTL

-----------------------------------------------------------------------------
(***************************************************************************)
(* The solver implements GraphSearch.  Every step maps to a step of the    *)
(* search or to a stutter: InsertDerived to Discover, JoinAndReport to     *)
(* Conclude.  For "Success" the recorded solution has to be a solved one.  *)
(***************************************************************************)
SolutionSolved ==
    /\ queue_solution_ptr # NoKey => queue_solution_ptr \in Goal
    /\ \A t \in Threads : pc[t] = "found" => item[t] \in Goal

LEMMA SolutionSolvedInvariant == Spec => []SolutionSolved
<1>1. Init => SolutionSolved
  BY DEF Init, CommonInit, SolutionSolved
<1>2. ASSUME IInv, SolutionSolved, [Next]_vars PROVE SolutionSolved'
  <2> USE <1>2 DEF SolutionSolved, IInv, TypeOK
  <2>1. ASSUME NEW t \in Threads, Worker(t) PROVE SolutionSolved'
    <3>1. CASE ExtractItem(t) \/ ExtractNothing(t) \/ ReturnOnly(t)
      BY <3>1 DEF ExtractItem, ExtractNothing, ReturnOnly
    <3>2. CASE CheckExit(t) \/ CheckSleep(t) \/ CheckExpand(t)
      BY <3>2 DEF CheckExit, CheckSleep, CheckExpand, commonVars
    <3>3. CASE RecordSolution(t)
      BY <3>3 DEF RecordSolution, FoundSolution
    <3>4. CASE InsertDerived(t)
      BY <3>4 DEF InsertDerived
    <3> QED
      BY <2>1, <3>1, <3>2, <3>3, <3>4 DEF Worker
  <2>2. CASE Main \/ UNCHANGED vars
    BY <2>2 DEF Main, JoinAndReport, TraceSolution, vars, commonVars, threadVars
  <2> QED
    BY <2>1, <2>2 DEF Next, Exited
<1> QED
  BY <1>1, <1>2, Invariance, PTL DEF Spec

LEMMA InitRefines == Init => Search!Init
BY DEF Init, CommonInit, Stored, Search!Init

LEMMA StepRefines ==
    ASSUME IInv, SolutionSolved, [Next]_vars
    PROVE  [Search!Next]_(Search!vars)
<1> USE DEF IInv, TypeOK, CommonTypeOK, RecordPtr
<1>1. ASSUME UNCHANGED <<parent, verdict>> PROVE UNCHANGED Search!vars
  BY <1>1 DEF Stored, Search!vars
<1>2. ASSUME NEW t \in Threads, InsertDerived(t) PROVE Search!Discover
  <2> DEFINE new == NewKeys(item[t])
  <2>1. item[t] \in Stored /\ pc[t] # "done"
    BY <1>2 DEF InsertDerived, ItemHeld
  <2>2. Stored' = Stored \cup new /\ verdict' = verdict
    BY <1>2 DEF InsertDerived, InsertRecords, Stored, mainVars
  <2>3. verdict = "running"
    BY <2>1 DEF VerdictMeaning
  <2>4. new \in SUBSET UNION {Succ[k] : k \in Stored}
    BY <2>1 DEF NewKeys
  <2> HIDE DEF new
  <2> QED
    BY <2>2, <2>3, <2>4 DEF Search!Discover
<1>3. ASSUME NEW t \in Threads, Worker(t), ~InsertDerived(t)
      PROVE  UNCHANGED <<parent, verdict>>
  BY <1>3 DEF Worker, ExtractItem, ExtractNothing, ReturnOnly, CheckExit, CheckSleep,
              CheckExpand, RecordSolution, commonVars, mainVars
<1>4. CASE JoinAndReport
  <2> SUFFICES Search!Conclude
    BY DEF Search!Next
  <2>1. Stored' = Stored
    BY <1>4 DEF JoinAndReport, commonVars, Stored
  <2>2. CASE queue_solution_ptr # NoKey
    <3>1. queue_solution_ptr \in Stored \cap Goal
      BY <2>2 DEF SolutionSolved
    <3> QED
      BY <1>4, <2>1, <2>2, <3>1 DEF JoinAndReport, HandleSolution, Search!Conclude
  <2>3. CASE queue_solution_ptr = NoKey /\ ~Dont
    BY <1>4, <2>1, <2>3 DEF JoinAndReport, HandleSolution, Dont, Search!Conclude
  <2>4. CASE queue_solution_ptr = NoKey /\ Dont
    <3>1. \A j \in Stored : j \notin Goal /\ Succ[j] \subseteq Stored
      BY <1>4, <2>4, GivingUpIsExhausted DEF JoinAndReport
    <3> QED
      BY <1>4, <2>1, <2>4, <3>1
      DEF JoinAndReport, HandleSolution, Dont, Search!Conclude, Search!Exhausted
  <2> QED
    BY <2>2, <2>3, <2>4
<1>5. CASE TraceSolution
  BY <1>1, <1>5 DEF TraceSolution, CalcTrace, commonVars
<1>6. CASE UNCHANGED vars
  BY <1>1, <1>6 DEF vars, commonVars, mainVars
<1> QED
  BY <1>1, <1>2, <1>3, <1>4, <1>5, <1>6 DEF Next, Main, Exited, Search!Next

\* The flat solver implements the abstract graph search: it stores only
\* positions reached by moves, succeeds only on a solved one, and gives up only
\* when everything within reach is stored and unsolved.
THEOREM SolverImplementsSearch == Spec => ImplementsSearch
<1>1. IInv /\ SolutionSolved /\ [Next]_vars => [Search!Next]_(Search!vars)
  BY StepRefines
<1> QED
  BY <1>1, InitRefines, Invariance, SolutionSolvedInvariant, PTL
  DEF Spec, ImplementsSearch, Search!Spec

-----------------------------------------------------------------------------
\* A step preserves ExpandedOnce: only ExtractItem moves a position, from the
\* queue to one thread, and InsertDerived queues only what was not stored.
LEMMA NextExpandedOnce ==
    ASSUME IInv, ExpandedOnce, [Next]_vars
    PROVE  ExpandedOnce'
<1> SUFFICES ASSUME Dont' PROVE ExpandedOnce'
  BY DEF ExpandedOnce
<1>1. Dont
  BY DontBefore
<1> USE DEF IInv, TypeOK, CommonTypeOK, RecordPtr
<1>2. ASSUME NEW t \in Threads, ExtractItem(t)
      PROVE  ExpandedOnce'
  <2>1. queue # <<>> /\ queue' = Tail(queue) /\ item' = [item EXCEPT ![t] = Head(queue)]
    BY <1>2 DEF ExtractItem
  <2>2. /\ \A i, j \in DOMAIN queue' : queue'[i] = queue'[j] => i = j
        /\ \A i \in DOMAIN queue' : /\ queue'[i] # Head(queue)
                                    /\ \E j \in DOMAIN queue : queue[j] = queue'[i]
    BY <1>1, <2>1, TailRepeatsNothing DEF ExpandedOnce
  <2>3. Queued' \subseteq Queued \ {Head(queue)}
    BY <2>2 DEF Queued
  <2>4. Head(queue) \in Queued
    <3>1. 1 \in DOMAIN queue /\ Head(queue) = queue[1]
      BY <2>1
    <3> QED
      BY <3>1 DEF Queued
  <2>5. \A u \in Threads : u # t => Working(u)' = Working(u) /\ item'[u] = item[u]
    BY <1>2 DEF ExtractItem, Working
  <2>6. ~Working(t)
    BY <1>2 DEF ExtractItem, Working
  <2>7. item'[t] = Head(queue)
    BY <2>1
  <2>8. ASSUME NEW u \in Threads, Working(u)'
        PROVE  item'[u] \notin Queued' /\ (u # t => item'[u] # Head(queue))
    BY <1>1, <2>3, <2>4, <2>5, <2>7, <2>8 DEF ExpandedOnce
  <2>9. ASSUME NEW u \in Threads, NEW w \in Threads, Working(u)', Working(w)',
               item'[u] = item'[w]
        PROVE  u = w
    BY <1>1, <2>5, <2>7, <2>8, <2>9 DEF ExpandedOnce
  <2> QED
    BY <2>2, <2>8, <2>9 DEF ExpandedOnce
<1>3. ASSUME NEW t \in Threads, InsertDerived(t)
      PROVE  ExpandedOnce'
  <2> DEFINE new == NewKeys(item[t])
  <2>1. item[t] \in Stored
    BY <1>3 DEF InsertDerived, ItemHeld
  <2>2. new \subseteq Keys /\ IsFiniteSet(new) /\ new \cap Stored = {}
    BY <2>1, NewKeysFinite DEF NewKeys
  <2>3. PICK s \in Orders(new) : queue' = queue \o s
    BY <1>3 DEF InsertDerived
  <2>4. s \in Seq(new) /\ \A i, j \in DOMAIN s : s[i] = s[j] => i = j
    BY <2>2, OrderingIsSeq, OrderingRepeatsNothing
  <2> HIDE DEF new
  <2>5. \A i \in DOMAIN queue : queue[i] \in Stored
    OBVIOUS
  <2>6. \A j \in DOMAIN s : s[j] \in new
    BY <2>4
  <2>7. queue \in Seq(Keys) /\ s \in Seq(Keys)
    BY <2>2, <2>4
  <2>8. \A i, j \in DOMAIN queue' : queue'[i] = queue'[j] => i = j
    BY <1>1, <2>2, <2>3, <2>4, <2>5, <2>6, <2>7, AppendRepeatsNothing DEF ExpandedOnce
  <2>9. Queued' \subseteq Queued \cup new
    <3>1. \A i \in DOMAIN (queue \o s) :
             \/ i \in DOMAIN queue /\ (queue \o s)[i] = queue[i]
             \/ /\ i - Len(queue) \in DOMAIN s
                /\ (queue \o s)[i] = s[i - Len(queue)]
      BY <2>7
    <3> QED
      BY <2>3, <2>6, <3>1 DEF Queued
  <2>10. \A u \in Threads : Working(u)' => Working(u) /\ item'[u] = item[u]
    BY <1>3 DEF InsertDerived, Working
  <2>11. \A u \in Threads : Working(u) => item[u] \in Stored
    BY DEF Working
  <2> QED
    BY <1>1, <2>2, <2>8, <2>9, <2>10, <2>11 DEF ExpandedOnce
<1>4. ASSUME UNCHANGED queue,
             \A t \in Threads : Working(t)' => Working(t) /\ item'[t] = item[t]
      PROVE  ExpandedOnce'
  <2>1. Queued' = Queued
    BY <1>4 DEF Queued
  <2> QED
    BY <1>1, <1>4, <2>1 DEF ExpandedOnce
<1>5. ASSUME NEW t \in Threads, Worker(t), ~ExtractItem(t), ~InsertDerived(t)
      PROVE  ExpandedOnce'
  <2>1. UNCHANGED queue
    BY <1>5 DEF Worker, ExtractNothing, ReturnOnly, CheckExit, CheckSleep,
                CheckExpand, RecordSolution
  <2>2. \A u \in Threads : Working(u)' => Working(u) /\ item'[u] = item[u]
    <3>1. CASE ExtractNothing(t)
      BY <3>1 DEF ExtractNothing, Working
    <3>2. ~ReturnOnly(t)
      BY <1>1 DEF ReturnOnly, Dont
    <3>3. CASE CheckExit(t) \/ CheckSleep(t) \/ CheckExpand(t)
      BY <3>3 DEF CheckExit, CheckSleep, CheckExpand, Working
    <3>4. CASE RecordSolution(t)
      BY <3>4 DEF RecordSolution, Working
    <3> QED
      BY <1>5, <3>1, <3>2, <3>3, <3>4 DEF Worker
  <2> QED
    BY <1>4, <2>1, <2>2
<1>6. CASE Main \/ UNCHANGED vars
  <2>1. UNCHANGED <<queue, pc, item>>
    BY <1>6 DEF Main, JoinAndReport, TraceSolution, vars, threadVars
  <2> QED
    BY <1>4, <2>1 DEF Working
<1> QED
  BY <1>2, <1>3, <1>5, <1>6 DEF Next, Exited

\* No two threads ever expand the same position, and no position is queued
\* again: instance_check_key() stores what it queues in one critical section.
THEOREM EachIsExpandedOnce == Spec => []ExpandedOnce
<1>1. Init => ExpandedOnce
  <2> SUFFICES ASSUME Init PROVE ExpandedOnce
    OBVIOUS
  <2>1. \A t \in Threads : ~Working(t)
    BY DEF Init, Working
  <2>2. DOMAIN queue = {1}
    BY DEF Init
  <2> QED
    BY <2>1, <2>2 DEF ExpandedOnce
<1>2. IInv /\ ExpandedOnce /\ [Next]_vars => ExpandedOnce'
  BY NextExpandedOnce
<1> QED
  BY <1>1, <1>2, Invariance, PTL DEF Spec

-----------------------------------------------------------------------------
LEMMA NextTraceInv ==
    ASSUME IInv, SolutionSolved, TraceInv, [Next]_vars
    PROVE  TraceInv'
<1> USE DEF IInv, TypeOK
<1>1. ASSUME NEW t \in Threads, InsertDerived(t) PROVE TraceInv'
  <2> DEFINE new == NewKeys(item[t])
             from == [k \in new |-> item[t]]
  <2>1. item[t] \in Stored /\ verdict = "running"
    BY <1>1 DEF InsertDerived, ItemHeld, VerdictMeaning, RecordPtr
  <2>2. new \in SUBSET Keys /\ new \cap Stored = {} /\ new \subseteq Succ[item[t]]
    BY <2>1, NewKeysFinite DEF NewKeys, CommonTypeOK
  <2>3. InsertRecords(new, from) /\ UNCHANGED mainVars
    BY <1>1 DEF InsertDerived, mainVars
  <2>4. \A k \in new : from[k] \in Stored /\ k \in Succ[from[k]]
    BY <2>1, <2>2
  <2> HIDE DEF new, from
  <2> QED
    BY <2>1, <2>2, <2>3, <2>4, InsertKeepsTraceInv
<1>2. ASSUME NEW t \in Threads, Worker(t), ~InsertDerived(t) PROVE TraceInv'
  BY <1>2, StutterKeepsTraceInv
  DEF Worker, ExtractItem, ExtractNothing, ReturnOnly, CheckExit, CheckSleep,
      CheckExpand, RecordSolution, commonVars, mainVars
<1>3. CASE JoinAndReport
  BY <1>3, ReportKeepsTraceInv DEF JoinAndReport, commonVars, SolutionSolved
<1>4. CASE TraceSolution
  BY <1>4, TraceKeepsTraceInv DEF TraceSolution, commonVars
<1>5. CASE UNCHANGED vars
  BY <1>5, StutterKeepsTraceInv DEF vars, commonVars, mainVars
<1> QED
  BY <1>1, <1>2, <1>3, <1>4, <1>5 DEF Next, Main, Exited

\* What calc_trace() collects is a solution: it starts at a solved position,
\* goes from child to parent along moves, repeats none, and ends at the deal.
THEOREM TraceIsCorrect == Spec => []TraceIsSolution
<1>1. IInv /\ TraceInv => TraceIsSolution
  BY TraceOfSuccess DEF IInv, TypeOK, Finished, TraceIsSolution
<1>2. IInv /\ SolutionSolved /\ TraceInv /\ [Next]_vars => TraceInv'
  BY NextTraceInv
<1>3. Init => TraceInv
  BY InitTraceInv DEF Init
<1> QED
  BY <1>1, <1>2, <1>3, Invariance, SolutionSolvedInvariant, PTL DEF Spec

-----------------------------------------------------------------------------
(***************************************************************************)
(* The limits.  should_terminate says why the search stopped, and what it  *)
(* says stays true: the counters never fall and the solution is kept.      *)
(***************************************************************************)
LimitMet == \/ count_num_processed >= MaxProcessed
            \/ num_states_in_collection >= MaxStates
Allowed == IF MaxProcessed = 0 THEN 1 ELSE MaxProcessed

LimitsInv ==
    /\ Dont => count_num_processed < MaxProcessed \/ count_num_processed = 0
    /\ count_num_processed <= Allowed
    /\ should_terminate = "MAX_ITERS_TERMINATE" => LimitMet
    /\ should_terminate = "SOLUTION_FOUND_TERMINATE" => queue_solution_ptr # NoKey
    /\ verdict = "Intractable" => ~Dont /\ queue_solution_ptr = NoKey

LEMMA NextLimits ==
    ASSUME IInv, LimitsInv, [Next]_vars
    PROVE  LimitsInv'
<1> USE LimitsAssumption
    DEF IInv, TypeOK, CommonTypeOK, LimitsInv, LimitMet, Allowed, Dont
<1>1. ASSUME NEW t \in Threads, Worker(t) PROVE LimitsInv'
  <2>1. verdict = "running" /\ verdict' = "running"
    BY <1>1 DEF VerdictMeaning, Worker, ExtractItem, ExtractNothing, ReturnOnly,
                CheckExit, CheckSleep, CheckExpand, RecordSolution, InsertDerived,
                mainVars
  <2>2. CASE ExtractItem(t)
    BY <2>1, <2>2 DEF ExtractItem, InstanceIncrement
  <2>3. CASE ExtractNothing(t) \/ ReturnOnly(t)
    BY <2>1, <2>3 DEF ExtractNothing, ReturnOnly, InstanceIncrement
  <2>4. CASE CheckExit(t) \/ CheckSleep(t) \/ CheckExpand(t)
    BY <2>1, <2>4 DEF CheckExit, CheckSleep, CheckExpand, commonVars
  <2>5. CASE RecordSolution(t)
    BY <2>1, <2>5 DEF RecordSolution, FoundSolution, ItemHeld
  <2>6. CASE InsertDerived(t)
    <3>1. Cardinality(NewKeys(item[t])) \in Nat
      BY <2>6, NewKeysFinite DEF InsertDerived, ItemHeld, RecordPtr
    <3> QED
      BY <2>1, <2>6, <3>1 DEF InsertDerived, InsertRecords
  <2> QED
    BY <1>1, <2>2, <2>3, <2>4, <2>5, <2>6 DEF Worker
<1>2. CASE JoinAndReport
  BY <1>2 DEF JoinAndReport, HandleSolution, commonVars
<1>3. CASE TraceSolution \/ UNCHANGED vars
  BY <1>3 DEF TraceSolution, CalcTrace, vars, commonVars, mainVars
<1> QED
  BY <1>1, <1>2, <1>3 DEF Next, Main, Exited

\* "Intractable" means that a limit was met and no solution recorded, and the
\* limit on the positions taken from the queue is kept by all threads together.
THEOREM IntractableIsHonest == Spec => []IntractableHonest
<1>1. Init => LimitsInv
  BY LimitsAssumption DEF Init, CommonInit, LimitsInv, Dont, Allowed
<1>2. IInv /\ LimitsInv /\ [Next]_vars => LimitsInv'
  BY NextLimits
<1>3. ASSUME IInv, LimitsInv PROVE IntractableHonest
  BY <1>3 DEF IInv, TypeOK, CommonTypeOK, TerminateReason, LimitsInv, LimitMet, Allowed,
              Dont, IntractableHonest
<1> QED
  BY <1>1, <1>2, <1>3, Invariance, PTL DEF Spec

=============================================================================
