----------------------------- MODULE DbmSolver -----------------------------
(***************************************************************************)
(* dbm_solver.c: worker threads expand positions taken from one queue and  *)
(* put the new ones in the store and back on the queue.  Each shared       *)
(* variable but one is touched only under storage_lock, so a critical      *)
(* section is one action.  The exception is the test of should_terminate   *)
(* after the unlock, an action of its own (CheckExit and its siblings).    *)
(***************************************************************************)
EXTENDS DbmCommon

CONSTANT Threads

ASSUME ThreadsAssumption == IsFiniteSet(Threads) /\ Threads # {}

VARIABLES
    queue,         \* instance.queue
    pc,            \* where each thread is in instance_run_solver_thread()
    item,          \* its item (NoKey for NULL)
    prev_item,     \* its prev_item
    seen           \* its local copy of queue_num_extracted_and_processed

threadVars == <<pc, item, prev_item, seen>>
vars == <<commonVars, mainVars, queue, threadVars>>

TypeOK ==
    /\ CommonTypeOK
    /\ queue \in Seq(Stored)
    /\ pc \in [Threads -> {"lock", "check", "found", "insert", "done"}]
    /\ item \in [Threads -> RecordPtr]
    /\ prev_item \in [Threads -> RecordPtr]
    /\ seen \in [Threads -> Int]

Init ==
    /\ CommonInit
    /\ queue = <<Root>>
    /\ pc = [t \in Threads |-> "lock"]
    /\ item = [t \in Threads |-> NoKey]
    /\ prev_item = [t \in Threads |-> NoKey]
    /\ seen = [t \in Threads |-> 0]

-----------------------------------------------------------------------------
\* The first critical section of the loop body.  A thread that comes back
\* from an expansion returns its item to the count in all three cases.
ReturnedNever(t) == 0                                  \* mutant of Returned
Returned(t) == IF prev_item[t] # NoKey THEN 1 ELSE 0

\* Mutant of ExtractItem: the thread does not look at should_terminate.
ExtractItemRegardless(t) ==
    /\ pc[t] = "lock"
    /\ queue # <<>>
    /\ item' = [item EXCEPT ![t] = Head(queue)]
    /\ queue' = Tail(queue)
    /\ InstanceIncrement(1, Returned(t))
    /\ seen' = [seen EXCEPT ![t] = queue_num_extracted_and_processed']
    /\ pc' = [pc EXCEPT ![t] = "check"]
    /\ UNCHANGED <<parent, num_states_in_collection, queue_solution_ptr,
                   prev_item, mainVars>>

ExtractItem(t) ==
    /\ pc[t] = "lock"
    /\ should_terminate = "DONT_TERMINATE"
    /\ queue # <<>>
    /\ item' = [item EXCEPT ![t] = Head(queue)]
    /\ queue' = Tail(queue)
    /\ InstanceIncrement(1, Returned(t))
    /\ seen' = [seen EXCEPT ![t] = queue_num_extracted_and_processed']
    /\ pc' = [pc EXCEPT ![t] = "check"]
    /\ UNCHANGED <<parent, num_states_in_collection, queue_solution_ptr,
                   prev_item, mainVars>>

ExtractNothing(t) ==
    /\ pc[t] = "lock"
    /\ should_terminate = "DONT_TERMINATE"
    /\ queue = <<>>
    /\ item' = [item EXCEPT ![t] = NoKey]
    /\ InstanceIncrement(0, Returned(t))
    /\ seen' = [seen EXCEPT ![t] = queue_num_extracted_and_processed']
    /\ pc' = [pc EXCEPT ![t] = "check"]
    /\ UNCHANGED <<parent, num_states_in_collection, queue_solution_ptr,
                   queue, prev_item, mainVars>>

ReturnOnly(t) ==
    /\ pc[t] = "lock"
    /\ should_terminate # "DONT_TERMINATE"
    /\ InstanceIncrement(0, Returned(t))
    /\ pc' = [pc EXCEPT ![t] = "check"]
    /\ UNCHANGED <<parent, num_states_in_collection, queue_solution_ptr,
                   queue, item, prev_item, seen, mainVars>>

-----------------------------------------------------------------------------
\* The unlocked read of should_terminate, and what the thread does up to its
\* next critical section.
MustExitIdle(t) ==                                     \* mutant of MustExit
    should_terminate # "DONT_TERMINATE" \/ item[t] = NoKey
MustExit(t) == should_terminate # "DONT_TERMINATE" \/ seen[t] = 0

CheckExit(t) ==
    /\ pc[t] = "check"
    /\ MustExit(t)
    /\ pc' = [pc EXCEPT ![t] = "done"]
    /\ UNCHANGED <<commonVars, mainVars, queue, item, prev_item, seen>>

CheckSleep(t) ==
    /\ pc[t] = "check"
    /\ ~MustExit(t)
    /\ item[t] = NoKey
    /\ prev_item' = [prev_item EXCEPT ![t] = NoKey]
    /\ pc' = [pc EXCEPT ![t] = "lock"]
    /\ UNCHANGED <<commonVars, mainVars, queue, item, seen>>

\* instance_check_multiple_keys() takes no lock for an empty derived list.
CheckExpand(t) ==
    /\ pc[t] = "check"
    /\ ~MustExit(t)
    /\ item[t] # NoKey
    /\ IF item[t] \in Goal
       THEN /\ pc' = [pc EXCEPT ![t] = "found"]
            /\ UNCHANGED prev_item
       ELSE IF Succ[item[t]] # {}
       THEN /\ pc' = [pc EXCEPT ![t] = "insert"]
            /\ UNCHANGED prev_item
       ELSE /\ pc' = [pc EXCEPT ![t] = "lock"]
            /\ prev_item' = [prev_item EXCEPT ![t] = item[t]]
    /\ UNCHANGED <<commonVars, mainVars, queue, item, seen>>

RecordSolution(t) ==
    /\ pc[t] = "found"
    /\ FoundSolution(item[t])
    /\ pc' = [pc EXCEPT ![t] = "done"]
    /\ UNCHANGED <<parent, queue_num_extracted_and_processed,
                   num_states_in_collection, count_num_processed,
                   count_of_items_in_queue, mainVars,
                   queue, item, prev_item, seen>>

\* Mutants of NewKeys: the loop over the derived list stops at a known key; or
\* nothing is looked up in the store.
NewKeysUntilKnown(k) == IF Succ[k] \cap Stored # {} THEN {} ELSE Succ[k]
NewKeysUnchecked(k) == Succ[k]
NewKeys(k) == Succ[k] \ Stored

InsertDerived(t) ==
    /\ pc[t] = "insert"
    /\ InsertRecords(NewKeys(item[t]), [k \in NewKeys(item[t]) |-> item[t]])
    /\ \E s \in Orders(NewKeys(item[t])) : queue' = queue \o s
    /\ prev_item' = [prev_item EXCEPT ![t] = item[t]]
    /\ pc' = [pc EXCEPT ![t] = "lock"]
    /\ UNCHANGED <<should_terminate, queue_num_extracted_and_processed,
                   count_num_processed, queue_solution_ptr, mainVars,
                   item, seen>>

\* main: pthread_join() of every worker, then the verdict and the trace.
JoinAndReport ==
    /\ verdict = "running"
    /\ \A t \in Threads : pc[t] = "done"
    /\ HandleSolution
    /\ UNCHANGED <<commonVars, queue, threadVars>>

TraceSolution == CalcTrace /\ UNCHANGED <<commonVars, queue, threadVars>>

Worker(t) ==
    \/ ExtractItem(t) \/ ExtractNothing(t) \/ ReturnOnly(t)
    \/ CheckExit(t) \/ CheckSleep(t) \/ CheckExpand(t)
    \/ RecordSolution(t) \/ InsertDerived(t)

Finished == verdict # "running" /\ trace_next = NoKey
Main == JoinAndReport \/ TraceSolution

\* The process is over: nothing is left to do.
Exited == Finished /\ UNCHANGED vars

Next == (\E t \in Threads : Worker(t)) \/ Main \/ Exited

Spec == Init /\ [][Next]_vars
FairSpec == Spec /\ (\A t \in Threads : WF_vars(Worker(t))) /\ WF_vars(Main)

-----------------------------------------------------------------------------
Working(t) == pc[t] \in {"check", "found", "insert"} /\ item[t] # NoKey
Unreturned == {t \in Threads : Working(t) \/ (pc[t] = "lock" /\ prev_item[t] # NoKey)}
Queued == {queue[i] : i \in DOMAIN queue}
Dont == should_terminate = "DONT_TERMINATE"

\* While the search goes on, queue_num_extracted_and_processed counts the
\* threads that hold an item whose derived keys may still be on their way to
\* the queue: the exit test of instance_run_solver_thread() relies on it.
CounterExact ==
    Dont => queue_num_extracted_and_processed = Cardinality(Unreturned)

\* A stored position is waiting in the queue, or held by one thread, or was
\* expanded with all its derived positions stored: no position is lost.
NoLostWork ==
    Dont => \A k \in Stored :
               \/ k \in Queued
               \/ \E t \in Threads : Working(t) /\ item[t] = k
               \/ k \notin Goal /\ Succ[k] \subseteq Stored

\* No two threads expand the same position, none is queued twice, and no
\* queued position is being expanded.
ExpandedOnce ==
    Dont => /\ \A i, j \in DOMAIN queue : queue[i] = queue[j] => i = j
            /\ \A t \in Threads : Working(t) => item[t] \notin Queued
            /\ \A t, u \in Threads :
                  Working(t) /\ Working(u) /\ item[t] = item[u] => t = u

\* A thread that leaves because it saw nothing in flight leaves a search that
\* is over: no work is queued or held, by anyone, and none will be.
QuietExit ==
    Dont /\ (\E t \in Threads : pc[t] = "done") => queue = <<>> /\ Unreturned = {}

\* "Could not solve successfully" is only said of a deal from which no solved
\* position can be reached, however the threads interleave.
VerdictSound == verdict = "Could not solve" => Reachable \cap Goal = {}

\* The trace that is printed runs, against the parent pointers, from a solved
\* position to the deal along moves of the game, and visits none twice.
TraceIsSolution ==
    verdict = "Success" /\ Finished =>
        /\ trace[1] \in Goal
        /\ trace[Len(trace)] = Root
        /\ \A i \in 1..(Len(trace) - 1) : trace[i] \in Succ[trace[i + 1]]
        /\ \A i, j \in DOMAIN trace : trace[i] = trace[j] => i = j

\* "Intractable" is only said after a limit was hit, and never of a search in
\* which some thread recorded a solution; and the limit on the positions taken
\* from the queue is kept (one is taken if it is zero: it is tested afterwards).
IntractableHonest ==
    /\ verdict = "Intractable" =>
          /\ \/ count_num_processed >= MaxProcessed
             \/ num_states_in_collection >= MaxStates
          /\ queue_solution_ptr = NoKey
    /\ count_num_processed <= IF MaxProcessed = 0 THEN 1 ELSE MaxProcessed

\* The workers end and main reports, whatever the schedule.
Terminates == <>Finished
=============================================================================
