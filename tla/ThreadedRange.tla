--------------------------- MODULE ThreadedRange ---------------------------
(***************************************************************************)
(* freecell-solver-multi-thread-solve (threaded_range_solver.c): threads   *)
(* take batches of board numbers from a counter under a lock, solve them   *)
(* with instances of their own, and leave their counts to main, which      *)
(* joins them one by one.                                                  *)
(***************************************************************************)
EXTENDS RangeSolvers

CONSTANTS Threads,     \* the number of worker threads
          PlanErrors   \* whether the flares plan may be an erroneous one

\* An array of no threads is not a program (threaded_range_solver.c:128).
ASSUME WorkersAssumption == Threads \in Nat \ {0} /\ PlanErrors \subseteq BOOLEAN

VARIABLES
    next_board_num,    \* the counter
    worker,            \* for each thread: pc, board_num, quota_end, num_iters
    joined,            \* how many threads main has joined
    total_num_iters,
    plan_error,        \* whether the plan that all threads were given is bad
    solved             \* how often each board was solved (no variable of the code)
threadedVars == <<next_board_num, worker, joined, total_num_iters, plan_error, solved>>

PastEnd == EndBoard + 1

ThreadedInit ==
    /\ next_board_num = StartBoard
    /\ worker = [w \in 1..Threads |-> [pc |-> "take", board_num |-> 0, quota_end |-> 0,
                                       num_iters |-> 0]]
    /\ joined = 0
    /\ total_num_iters = 0
    /\ plan_error \in PlanErrors
    /\ solved = [b \in Boards |-> 0]

\* Mutant of TakeBatch: the lock is let go between reading and adding, and
\* another thread has read the same number.
TakeBatchTwice(w) ==
    /\ worker[w].pc = "take"
    /\ \E from \in {next_board_num, next_board_num - BoardNumStep} \cap Nat :
       /\ from >= StartBoard
       /\ next_board_num' = from + BoardNumStep
       /\ worker' = [worker EXCEPT ![w].pc = "solve", ![w].board_num = from,
                        ![w].quota_end = Least(next_board_num', PastEnd)]
    /\ UNCHANGED <<joined, total_num_iters, plan_error, solved>>

\* The critical section.
TakeBatch(w) ==
    /\ worker[w].pc = "take"
    /\ next_board_num' = next_board_num + BoardNumStep
    /\ worker' = [worker EXCEPT ![w].pc = "solve", ![w].board_num = next_board_num,
                     ![w].quota_end = Least(next_board_num', PastEnd)]
    /\ UNCHANGED <<joined, total_num_iters, plan_error, solved>>

SolveNext(w) ==
    LET b == worker[w].board_num
    IN /\ worker[w].pc = "solve" /\ b < worker[w].quota_end
       /\ IF plan_error
             THEN /\ worker' = [worker EXCEPT ![w].pc = "done"]
                  /\ UNCHANGED solved
             ELSE /\ solved' = [solved EXCEPT ![b] = @ + 1]
                  /\ worker' = [worker EXCEPT ![w].board_num = b + 1,
                                              ![w].num_iters = @ + Iters[b]]
       /\ UNCHANGED <<next_board_num, joined, total_num_iters, plan_error>>

BatchDone(w) ==
    /\ worker[w].pc = "solve" /\ worker[w].board_num >= worker[w].quota_end
    /\ worker' = [worker EXCEPT ![w].pc =
                     IF worker[w].board_num < PastEnd THEN "take" ELSE "done"]
    /\ UNCHANGED <<next_board_num, joined, total_num_iters, plan_error, solved>>

JoinNext ==
    /\ joined < Threads
    /\ worker[joined + 1].pc = "done"
    /\ joined' = joined + 1
    /\ total_num_iters' = total_num_iters + worker[joined + 1].num_iters
    /\ UNCHANGED <<next_board_num, worker, plan_error, solved>>

ThreadedWorker(w) == TakeBatch(w) \/ SolveNext(w) \/ BatchDone(w)
ThreadedNext == JoinNext \/ \E w \in 1..Threads : ThreadedWorker(w)

\* No board is solved by two threads; when main has joined them all each was
\* solved, and the sum that is printed is the one of all boards.
ThreadedExact ==
    /\ \A b \in Boards : solved[b] <= 1
    /\ joined = Threads /\ ~plan_error =>
          /\ \A b \in Boards : solved[b] = 1
          /\ total_num_iters = SumOver(Boards)
=============================================================================
