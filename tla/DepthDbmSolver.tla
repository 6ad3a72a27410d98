--------------------------- MODULE DepthDbmSolver ---------------------------
(***************************************************************************)
(* depth_dbm_solver.c: as DbmSolver, but the positions are kept in one     *)
(* collection for each depth, the number of irreversible moves made, and   *)
(* the threads run once for each depth.  They take items in batches, sleep *)
(* on a condition variable instead of polling, and between two depths main *)
(* sweeps away the records that no later trace can go through.             *)
(*                                                                         *)
(* As in DbmSolver a critical section under storage_lock is one action.    *)
(* main runs alone while no thread does.                                   *)
(***************************************************************************)
EXTENDS DbmCommon, FiniteSetsExt

CONSTANTS
    Threads,
    MaxBatch,      \* max_batch_size
    MaxDepth,      \* MAX_FCC_DEPTH
    Depth          \* irreversible moves from the deal to a position

ASSUME ThreadsAssumption ==
    IsFiniteSet(Threads) /\ Threads # {} /\ MaxBatch \in Nat \ {0}

\* A move that parts a card from one it was not built on, or puts it on the
\* foundation, cannot be taken back: these counts add up to the same depth of a
\* position along any way to it, and a move never lessens it.
ASSUME DepthAssumption ==
    /\ MaxDepth \in Nat \ {0}
    /\ Depth \in [Keys -> 0..(MaxDepth - 1)]
    /\ Depth[Root] = 0
    /\ \A k \in Keys : \A s \in Succ[k] : Depth[s] >= Depth[k]

\* The values of the byte that counts references.
BYTE == 256

\* One deck on at most 13 columns and 12 freecells: each of 25 top cards can be
\* put on four others at most, in an empty column, a freecell or a foundation.
ASSUME FewChildrenAssumption == \A k \in Keys : Cardinality(Succ[k]) < BYTE

VARIABLES
    curr_depth,
    queues,         \* colls_by_depth[d].queue
    refcount,       \* the byte that shares the word of the parent pointer
    decommissioned, \* records on the recycle bin of the trees
    pc,             \* where each thread is in instance_run_solver_thread()
    tokens,         \* its batch
    prev_size,
    sweep_left,     \* mark_and_sweep_old_states(): records of the tree to come
    ancestor,       \* ... and the one the inner loop is at
    sweeping        \* main is between two depths

threadVars == <<pc, tokens, prev_size>>
sweepVars == <<sweep_left, ancestor, sweeping, decommissioned>>
vars == <<commonVars, mainVars, curr_depth, queues, refcount, threadVars, sweepVars>>

Depths == 0..(MaxDepth - 1)

TypeOK ==
    /\ CommonTypeOK
    /\ curr_depth \in 0..MaxDepth
    /\ queues \in [Depths -> Seq(Stored)]
    /\ refcount \in [Stored -> 0..(BYTE - 1)]
    /\ decommissioned \subseteq Stored
    /\ pc \in [Threads -> {"lock", "wait", "batch", "found", "insert", "done"}]
    /\ tokens \in [Threads -> Seq(Stored)]
    /\ prev_size \in [Threads -> 0..MaxBatch]
    /\ sweep_left \subseteq Stored
    /\ ancestor \in RecordPtr
    /\ sweeping \in BOOLEAN

Init ==
    /\ CommonInit
    /\ curr_depth = 0
    /\ queues = [d \in Depths |-> IF d = 0 THEN <<Root>> ELSE <<>>]
    /\ refcount = [k \in {Root} |-> 0]
    /\ decommissioned = {}
    /\ pc = [t \in Threads |-> "lock"]
    /\ tokens = [t \in Threads |-> <<>>]
    /\ prev_size = [t \in Threads |-> 0]
    /\ sweep_left = {}
    /\ ancestor = NoKey
    /\ sweeping = FALSE

-----------------------------------------------------------------------------
\* pthread_cond_broadcast() and pthread_cond_signal() on instance->monitor,
\* and thread t goes to `where`.
Waiting == {t \in Threads : pc[t] = "wait"}

BroadcastWakesOne(t, where) ==                    \* mutant of BroadcastAndGo
    pc' = [u \in Threads |-> IF u = t THEN where
             ELSE IF Waiting # {} /\ u = CHOOSE w \in Waiting : TRUE
                  THEN "lock" ELSE pc[u]]

BroadcastAndGo(t, where) ==
    pc' = [u \in Threads |-> IF u = t THEN where
                             ELSE IF u \in Waiting THEN "lock" ELSE pc[u]]

SignalAndGo(t, where) ==
    IF Waiting = {} THEN pc' = [pc EXCEPT ![t] = where]
    ELSE \E u \in Waiting : pc' = [pc EXCEPT ![t] = where, ![u] = "lock"]

Queue == queues[curr_depth]

\* Mutants of ReturnBatch: one item is returned for the batch; nobody is woken.
ReturnBatchOne(t) ==
    /\ pc[t] = "lock" /\ prev_size[t] > 0
    /\ queue_num_extracted_and_processed' = queue_num_extracted_and_processed - 1
    /\ IF queue_num_extracted_and_processed' = 0 THEN BroadcastAndGo(t, "lock")
       ELSE UNCHANGED pc
    /\ prev_size' = [prev_size EXCEPT ![t] = 0]
    /\ tokens' = [tokens EXCEPT ![t] = <<>>]
    /\ UNCHANGED <<parent, should_terminate, num_states_in_collection,
                   count_num_processed, count_of_items_in_queue,
                   queue_solution_ptr, mainVars, curr_depth, queues, refcount,
                   sweepVars>>

ReturnBatchQuietly(t) ==
    /\ pc[t] = "lock" /\ prev_size[t] > 0
    /\ queue_num_extracted_and_processed' =
          queue_num_extracted_and_processed - prev_size[t]
    /\ prev_size' = [prev_size EXCEPT ![t] = 0]
    /\ tokens' = [tokens EXCEPT ![t] = <<>>]
    /\ UNCHANGED <<parent, should_terminate, num_states_in_collection,
                   count_num_processed, count_of_items_in_queue,
                   queue_solution_ptr, mainVars, curr_depth, queues, refcount,
                   pc, sweepVars>>

\* A thread that comes back from a batch returns it and takes nothing.
ReturnBatch(t) ==
    /\ pc[t] = "lock" /\ prev_size[t] > 0
    /\ queue_num_extracted_and_processed' =
          queue_num_extracted_and_processed - prev_size[t]
    /\ IF queue_num_extracted_and_processed' = 0 THEN BroadcastAndGo(t, "lock")
       ELSE UNCHANGED pc
    /\ prev_size' = [prev_size EXCEPT ![t] = 0]
    /\ tokens' = [tokens EXCEPT ![t] = <<>>]
    /\ UNCHANGED <<parent, should_terminate, num_states_in_collection,
                   count_num_processed, count_of_items_in_queue,
                   queue_solution_ptr, mainVars, curr_depth, queues, refcount,
                   sweepVars>>

\* How many items the next batch takes.
BatchLen == Min({MaxBatch, Len(Queue)})

ExtractBatch(t) ==
    LET n == BatchLen IN
    /\ pc[t] = "lock" /\ prev_size[t] = 0
    /\ should_terminate = "DONT_TERMINATE"
    /\ n > 0
    /\ tokens' = [tokens EXCEPT ![t] = SubSeq(Queue, 1, n)]
    /\ queues' = [queues EXCEPT ![curr_depth] = SubSeq(@, n + 1, Len(@))]
    /\ InstanceIncrement(n, 0)
    /\ prev_size' = [prev_size EXCEPT ![t] = n]
    /\ pc' = [pc EXCEPT ![t] = "batch"]
    /\ UNCHANGED <<parent, num_states_in_collection, queue_solution_ptr,
                   mainVars, curr_depth, refcount, sweepVars>>

\* Nothing to take: the thread sleeps, or leaves if nothing is in flight.
ExtractNothing(t) ==
    /\ pc[t] = "lock" /\ prev_size[t] = 0
    /\ should_terminate = "DONT_TERMINATE"
    /\ Queue = <<>>
    /\ pc' = [pc EXCEPT ![t] = IF queue_num_extracted_and_processed = 0
                               THEN "done" ELSE "wait"]
    /\ UNCHANGED <<commonVars, mainVars, curr_depth, queues, refcount, tokens,
                   prev_size, sweepVars>>

ToldToStop(t) ==
    /\ pc[t] = "lock" /\ prev_size[t] = 0
    /\ should_terminate # "DONT_TERMINATE"
    /\ pc' = [pc EXCEPT ![t] = "done"]
    /\ UNCHANGED <<commonVars, mainVars, curr_depth, queues, refcount, tokens,
                   prev_size, sweepVars>>

\* pthread_cond_wait() may return without a signal.
WakeUnasked(t) ==
    /\ pc[t] = "wait"
    /\ pc' = [pc EXCEPT ![t] = "lock"]
    /\ UNCHANGED <<commonVars, mainVars, curr_depth, queues, refcount, tokens,
                   prev_size, sweepVars>>
-----------------------------------------------------------------------------
Batch(t) == {tokens[t][i] : i \in DOMAIN tokens[t]}
DerivedFirst(t) == Succ[tokens[t][1]]             \* mutant of Derived
Derived(t) == UNION {Succ[k] : k \in Batch(t)}

\* The moves of the whole batch are calculated before any lock is taken.
ExpandBatch(t) ==
    /\ pc[t] = "batch"
    /\ pc' = [pc EXCEPT ![t] =
                 IF Batch(t) \cap Goal # {} THEN "found"
                 ELSE IF Len(tokens[t]) = 1 /\ Derived(t) = {} THEN "lock"
                 ELSE "insert"]
    /\ UNCHANGED <<commonVars, mainVars, curr_depth, queues, refcount, tokens,
                   prev_size, sweepVars>>

\* The first item of a batch that is in S.
FirstIn(seq, S) ==
    seq[CHOOSE i \in DOMAIN seq :
           seq[i] \in S /\ \A j \in 1..(i - 1) : seq[j] \notin S]

RecordSolution(t) ==
    /\ pc[t] = "found"
    /\ FoundSolution(FirstIn(tokens[t], Goal))
    /\ BroadcastAndGo(t, "done")
    /\ UNCHANGED <<parent, queue_num_extracted_and_processed,
                   num_states_in_collection, count_num_processed,
                   count_of_items_in_queue, mainVars, curr_depth, queues,
                   refcount, tokens, prev_size, sweepVars>>

\* Mutant of AddReferences: a parent gets one reference for all its children.
AddReferencesOnce(new, from) ==
    refcount' = [k \in Stored \cup new |->
        ((IF k \in Stored THEN refcount[k] ELSE 0)
           + (IF \E s \in new : from[s] = k THEN 1 ELSE 0)) % BYTE]

\* fcs_dbm_record_increment_refcount() for the parent of every new record.
AddReferences(new, from) ==
    refcount' = [k \in Stored \cup new |->
        ((IF k \in Stored THEN refcount[k] ELSE 0)
           + Cardinality({s \in new : from[s] = k})) % BYTE]

\* What is new among the derived keys, and the item that derived each first.
NewKeysUnchecked(t) == Derived(t)                 \* mutant of NewKeys
NewKeys(t) == Derived(t) \ Stored
ParentOfBatch(t, s) == tokens[t][1]               \* mutant of ParentOf
ParentOf(t, s) == FirstIn(tokens[t], {k \in Stored : s \in Succ[k]})

\* Each new key goes to the queue of its depth.  Any order of them all amounts
\* to one order for each depth.
NewAt(new, d) == {s \in new : Depth[s] = d}
InsertOrders(new) ==
    {order \in [Depths -> UNION {Orders(NewAt(new, d)) : d \in Depths}] :
        \A d \in Depths : order[d] \in Orders(NewAt(new, d))}

InsertDerived(t) ==
    LET new == NewKeys(t)
        from == [s \in new |-> ParentOf(t, s)]
    IN
    /\ pc[t] = "insert"
    /\ InsertRecords(new, from)
    /\ AddReferences(new, from)
    /\ \E order \in InsertOrders(new) :
          queues' = [d \in Depths |-> queues[d] \o order[d]]
    /\ IF queues'[curr_depth] # <<>> THEN SignalAndGo(t, "lock")
       ELSE BroadcastAndGo(t, "lock")
    /\ UNCHANGED <<should_terminate, queue_num_extracted_and_processed,
                   count_num_processed, queue_solution_ptr, mainVars,
                   curr_depth, tokens, prev_size, sweepVars>>

-----------------------------------------------------------------------------
\* main: what it does once it has joined the threads of a depth.
Joined == verdict = "running" /\ ~sweeping /\ \A t \in Threads : pc[t] = "done"

ReportSolution ==
    /\ Joined /\ queue_solution_ptr # NoKey
    /\ HandleSolution
    /\ UNCHANGED <<commonVars, curr_depth, queues, refcount, threadVars, sweepVars>>

StartSweep ==
    /\ Joined /\ queue_solution_ptr = NoKey
    /\ sweeping' = TRUE
    /\ sweep_left' = {k \in Stored : Depth[k] = curr_depth}
    /\ UNCHANGED <<commonVars, mainVars, curr_depth, queues, refcount,
                   threadVars, ancestor, decommissioned>>

SweepItem(k) ==
    /\ sweeping /\ ancestor = NoKey /\ k \in sweep_left
    /\ sweep_left' = sweep_left \ {k}
    /\ ancestor' = IF k \in decommissioned THEN NoKey ELSE k
    /\ UNCHANGED <<commonVars, mainVars, curr_depth, queues, refcount,
                   threadVars, sweeping, decommissioned>>

\* Mutants of SweepAncestor: a last child does not keep its parent; the sweep
\* does not go on to the ancestors.
SweepAncestorOffByOne ==
    /\ sweeping /\ ancestor # NoKey
    /\ IF refcount[ancestor] > 1
       THEN /\ ancestor' = NoKey
            /\ UNCHANGED <<refcount, decommissioned>>
       ELSE /\ decommissioned' = decommissioned \cup {ancestor}
            /\ ancestor' = parent[ancestor]
            /\ refcount' = IF ancestor' = NoKey THEN refcount
                           ELSE [refcount EXCEPT ![ancestor'] = (@ + BYTE - 1) % BYTE]
    /\ UNCHANGED <<commonVars, mainVars, curr_depth, queues, threadVars,
                   sweep_left, sweeping>>

SweepAncestorOnce ==
    /\ sweeping /\ ancestor # NoKey
    /\ ancestor' = NoKey
    /\ decommissioned' = IF refcount[ancestor] = 0
                         THEN decommissioned \cup {ancestor} ELSE decommissioned
    /\ UNCHANGED <<commonVars, mainVars, curr_depth, queues, refcount, threadVars,
                   sweep_left, sweeping>>

SweepAncestor ==
    /\ sweeping /\ ancestor # NoKey
    /\ IF refcount[ancestor] # 0
       THEN /\ ancestor' = NoKey
            /\ UNCHANGED <<refcount, decommissioned>>
       ELSE /\ decommissioned' = decommissioned \cup {ancestor}
            /\ ancestor' = parent[ancestor]
            /\ refcount' = IF ancestor' = NoKey THEN refcount
                           ELSE [refcount EXCEPT ![ancestor'] = (@ + BYTE - 1) % BYTE]
    /\ UNCHANGED <<commonVars, mainVars, curr_depth, queues, threadVars,
                   sweep_left, sweeping>>

NextDepth ==
    /\ sweeping /\ ancestor = NoKey /\ sweep_left = {}
    /\ sweeping' = FALSE
    /\ curr_depth' = curr_depth + 1
    /\ IF curr_depth' < MaxDepth
       THEN pc' = [t \in Threads |-> "lock"] /\ UNCHANGED mainVars
       ELSE HandleSolution /\ UNCHANGED pc
    /\ UNCHANGED <<commonVars, queues, refcount, tokens, prev_size, sweep_left,
                   ancestor, decommissioned>>

TraceSolution ==
    /\ CalcTrace
    /\ UNCHANGED <<commonVars, curr_depth, queues, refcount, threadVars, sweepVars>>

Worker(t) ==
    \/ ReturnBatch(t) \/ ExtractBatch(t) \/ ExtractNothing(t) \/ ToldToStop(t)
    \/ ExpandBatch(t) \/ RecordSolution(t) \/ InsertDerived(t)

Main ==
    \/ ReportSolution \/ StartSweep \/ SweepAncestor \/ NextDepth \/ TraceSolution
    \/ \E k \in sweep_left : SweepItem(k)

Finished == verdict # "running" /\ trace_next = NoKey
Exited == Finished /\ UNCHANGED vars

Next == (\E t \in Threads : Worker(t) \/ WakeUnasked(t)) \/ Main \/ Exited

Spec == Init /\ [][Next]_vars
FairSpec == Spec /\ (\A t \in Threads : WF_vars(Worker(t))) /\ WF_vars(Main)

-----------------------------------------------------------------------------
Dont == should_terminate = "DONT_TERMINATE"
Live == Stored \ decommissioned
Expanding(t) == pc[t] \in {"batch", "found", "insert"}
Queued(d) == {queues[d][i] : i \in DOMAIN queues[d]}

\* The items of the batches that were not returned, by their place.
InFlight == {place \in Threads \X (1..MaxBatch) : place[2] <= prev_size[place[1]]}

\* queue_num_extracted_and_processed counts the items of the batches that were
\* not returned.  Nothing leaves its range (TypeOK).
CounterExact ==
    /\ TypeOK
    /\ queue_num_extracted_and_processed = Cardinality(InFlight)

\* A stored position waits in the queue of its depth, which is not yet left
\* behind, or is held in a batch, or was expanded: no position is lost.
NoLostWork ==
    Dont => \A k \in Stored :
               \/ k \in Queued(Depth[k]) /\ Depth[k] >= curr_depth
               \/ \E t \in Threads : Expanding(t) /\ k \in Batch(t)
               \/ k \notin Goal /\ Succ[k] \subseteq Stored

\* No position is expanded twice: none is queued twice, held twice, or queued
\* and held.
ExpandedOnce ==
    /\ \A d \in Depths : \A i, j \in DOMAIN queues[d] :
          queues[d][i] = queues[d][j] => i = j
    /\ \A t \in Threads : Expanding(t) =>
          \A d \in Depths : Batch(t) \cap Queued(d) = {}
    /\ \A t, u \in Threads :
          t # u /\ Expanding(t) /\ Expanding(u) => Batch(t) \cap Batch(u) = {}

\* Nobody sleeps through the end: as long as a thread waits on the monitor,
\* another one is on its way to a broadcast.
NoLostWakeup ==
    Waiting # {} => \E t \in Threads : pc[t] \notin {"wait", "done"} /\ prev_size[t] > 0

\* The reference count of a record is the number of records that name it as
\* their parent and are not on the recycle bin.
RefcountExact ==
    \A k \in Stored : refcount[k] = Cardinality({c \in Live : parent[c] = k})

\* What is on the recycle bin may be overwritten at any time: no live record
\* has an ancestor there, no thread will take one from a queue, and the trace
\* of a solution runs through none.
NoUseAfterRecycle ==
    /\ \A k \in Live : parent[k] \in Live \cup {NoKey}
    /\ Dont => \A d \in Depths : Queued(d) \subseteq Live
    /\ \A t \in Threads : Batch(t) \subseteq Live
    /\ \A i \in DOMAIN trace : trace[i] \in Live

\* The sweep is thorough: when a depth begins, a live record of an earlier
\* depth has a live descendant that is yet to be expanded.
SweepIsThorough ==
    ~sweeping /\ verdict = "running" =>
        \A k \in Live : Depth[k] < curr_depth => \E c \in Live : parent[c] = k

\* "Intractable" is only said after a limit was hit, and not if a solution was
\* recorded; the limit is overrun by less than a batch.
IntractableHonest ==
    /\ verdict = "Intractable" =>
          /\ \/ count_num_processed >= MaxProcessed
             \/ num_states_in_collection >= MaxStates
          /\ queue_solution_ptr = NoKey
    /\ count_num_processed < Max({MaxProcessed, 1}) + MaxBatch

\* The printed trace is a path of moves from the deal to a solved position.
TraceIsSolution ==
    verdict = "Success" /\ Finished =>
        /\ trace[1] \in Goal
        /\ trace[Len(trace)] = Root
        /\ \A i \in 1..(Len(trace) - 1) : trace[i] \in Succ[trace[i + 1]]
        /\ \A i, j \in DOMAIN trace : trace[i] = trace[j] => i = j

\* The threads of every depth end and main reports, whatever the schedule and
\* however often a wait returns unasked.
Terminates == <>Finished
=============================================================================
