----------------------------- MODULE DbmCommon -----------------------------
(***************************************************************************)
(* What dbm_solver.c (flat) and depth_dbm_solver.c (one collection per     *)
(* depth) share: the dbm_instance_common_elems of dbm_solver.h, the store  *)
(* of records, and the helpers of dbm_procs.h that both call while they    *)
(* hold storage_lock.                                                      *)
(*                                                                         *)
(* A record of the store is named by its encoded position, a member of     *)
(* Keys.  Succ[k] is the set of positions that                             *)
(* instance_solver_thread_calc_derived_states() puts on the derived list   *)
(* of k (moves followed by Horne's prune), and Goal the positions for      *)
(* which it returns true.  The order of a derived list is the order of     *)
(* the move loops over the board, and any order stands for it.             *)
(***************************************************************************)
EXTENDS Integers, Sequences, FiniteSets

CONSTANTS Keys,                   \* positions, as encoded states
          NoKey,                  \* the NULL record pointer
          Root,                   \* common.first_key, the dealt position
          Succ,                   \* derived positions of each position
          Goal,                   \* solved positions
          MaxProcessed,           \* max_count_num_processed
          MaxStates               \* max_num_states_in_collection

ASSUME KeysAssumption ==
    /\ IsFiniteSet(Keys)
    /\ NoKey \notin Keys
    /\ Root \in Keys
    /\ Succ \in [Keys -> SUBSET Keys]
    /\ Goal \subseteq Keys

ASSUME LimitsAssumption == MaxProcessed \in Nat /\ MaxStates \in Nat

VARIABLES
    parent,                       \* the store: record |-> its parent record
    should_terminate,
    queue_num_extracted_and_processed,
    num_states_in_collection,
    count_num_processed,
    count_of_items_in_queue,
    queue_solution_ptr,           \* NoKey until a solution was found
    verdict,                      \* what main prints once the threads joined
    trace,                        \* calc_trace(): records walked so far
    trace_next                    \* ... and the record it looks at next

commonVars == <<parent, should_terminate, queue_num_extracted_and_processed,
                num_states_in_collection, count_num_processed,
                count_of_items_in_queue, queue_solution_ptr>>
mainVars == <<verdict, trace, trace_next>>

TerminateReason == {"DONT_TERMINATE", "MAX_ITERS_TERMINATE",
                    "SOLUTION_FOUND_TERMINATE"}
Verdicts == {"running", "Success", "Intractable", "Could not solve"}

Stored == DOMAIN parent

\* What a fcs_dbm_record pointer can be: NULL, or a record of the store.
RecordPtr == Stored \cup {NoKey}

CommonTypeOK ==
    /\ Stored \subseteq Keys
    /\ parent \in [Stored -> RecordPtr]
    /\ should_terminate \in TerminateReason
    /\ queue_num_extracted_and_processed \in Int
    /\ num_states_in_collection \in Nat
    /\ count_num_processed \in Nat
    /\ count_of_items_in_queue \in Int
    /\ queue_solution_ptr \in RecordPtr
    /\ verdict \in Verdicts
    /\ trace \in Seq(Stored)
    /\ trace_next \in RecordPtr

\* fcs_dbm__common_init(), and the insertion of the first key by main.
CommonInit ==
    /\ parent = [k \in {Root} |-> NoKey]
    /\ should_terminate = "DONT_TERMINATE"
    /\ queue_num_extracted_and_processed = 0
    /\ num_states_in_collection = 1
    /\ count_num_processed = 0
    /\ count_of_items_in_queue = 1
    /\ queue_solution_ptr = NoKey
    /\ verdict = "running"
    /\ trace = <<>>
    /\ trace_next = NoKey

-----------------------------------------------------------------------------
\* n calls of instance_increment() in one critical section that also returns
\* `returned` items processed earlier.
InstanceIncrement(n, returned) ==
    /\ count_of_items_in_queue' = count_of_items_in_queue - n
    /\ queue_num_extracted_and_processed' =
          queue_num_extracted_and_processed - returned + n
    /\ count_num_processed' = count_num_processed + n
    /\ should_terminate' =
          IF n > 0 /\ (\/ count_num_processed + n >= MaxProcessed
                       \/ num_states_in_collection >= MaxStates)
          THEN "MAX_ITERS_TERMINATE" ELSE should_terminate

\* The sequences that hold the members of S, each at least once and in as
\* many places as S has members.
Orders(S) == {s \in [1..Cardinality(S) -> S] : \A x \in S :
                                       \E i \in 1..Cardinality(S) : s[i] = x}

\* Mutants of what follows (each is a plausible bug, and replaces the operator
\* whose name begins its own): the record is queued but not stored; every new
\* record gets the deal for parent; the limits are looked at before the solution.
InsertRecordsUnstored(new, from) ==
    /\ num_states_in_collection' = num_states_in_collection + Cardinality(new)
    /\ count_of_items_in_queue' = count_of_items_in_queue + Cardinality(new)
    /\ UNCHANGED parent

InsertRecordsUnderRoot(new, from) ==
    /\ parent' = [k \in Stored \cup new |-> IF k \in Stored THEN parent[k] ELSE Root]
    /\ num_states_in_collection' = num_states_in_collection + Cardinality(new)
    /\ count_of_items_in_queue' = count_of_items_in_queue + Cardinality(new)

HandleSolutionLimitFirst ==
    /\ verdict' = IF should_terminate # "DONT_TERMINATE" THEN "Intractable"
                  ELSE IF queue_solution_ptr # NoKey
                       THEN "Success" ELSE "Could not solve"
    /\ trace_next' = queue_solution_ptr
    /\ UNCHANGED trace

\* instance_check_key() for each derived key of an expansion: new is the set
\* of keys the store did not hold, from[k] the record that derived k.
InsertRecords(new, from) ==
    /\ parent' = [k \in Stored \cup new |->
                     IF k \in Stored THEN parent[k] ELSE from[k]]
    /\ num_states_in_collection' = num_states_in_collection + Cardinality(new)
    /\ count_of_items_in_queue' = count_of_items_in_queue + Cardinality(new)

\* fcs_dbm__found_solution()
FoundSolution(token) ==
    /\ should_terminate' = "SOLUTION_FOUND_TERMINATE"
    /\ queue_solution_ptr' = token

\* handle_and_destroy_instance_solution(): the message that main prints.
HandleSolution ==
    /\ verdict' = IF queue_solution_ptr # NoKey THEN "Success"
                  ELSE IF should_terminate # "DONT_TERMINATE"
                       THEN "Intractable" ELSE "Could not solve"
    /\ trace_next' = queue_solution_ptr
    /\ UNCHANGED trace

\* One turn of the loop of calc_trace(), called by trace_solution().
CalcTrace ==
    /\ verdict = "Success"
    /\ trace_next # NoKey
    /\ trace' = Append(trace, trace_next)
    /\ trace_next' = parent[trace_next]
    /\ UNCHANGED verdict

-----------------------------------------------------------------------------
\* The positions that can be reached from the deal: those in every set that
\* holds the deal and is closed under the moves.
Closed(S) == \A k \in S : Succ[k] \subseteq S
Reachable == {k \in Keys : \A S \in SUBSET Keys : Root \in S /\ Closed(S) => k \in S}

\* Both solvers implement the search of GraphSearch: what they store was reached
\* by moves, they succeed only with a solved position, and they give up only
\* when nothing is left to expand, or say that a limit was in the way.
Search == INSTANCE GraphSearch WITH reached <- Stored, outcome <- verdict
ImplementsSearch == Search!Spec
=============================================================================
