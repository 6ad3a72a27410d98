# A verification project for Freecell Solver

TLA+ modules for the parts of fc-solve (`fc-solve/source/`) in which state is
shared, suspended, resumed, stored or paged out, for the moves and the encodings
that those parts work on, and for what calls them; the TLC configurations that
check them on small deals; and theorems that TLAPS proves for every deal.

1. [Inventory](#1-inventory) - 2. [Modules](#2-modules) -
3. [Runs](#3-runs-and-what-they-show) - 4. [Fairness](#4-fairness) -
5. [Theorems](#5-theorems) - 6. [Findings](#6-findings) -
7. [What is left out](#7-what-is-left-out) - 8. [Plan](#8-plan)

To repeat a check, inside this directory:
`tlc -config Scans_shared.cfg MCScans`; to repeat the proofs, `tlapm` on each of
`DbmCommonProofs`, `DbmSolverProofs`, `DepthDbmSolverProofs`, `ScansProofs`,
`ScansVerdictProofs`, `QueueProofs`, `FlaresProofs` and `FrontEndProofs`.

## 1. Inventory

### 1.1 The library: soft threads over one collection of states
`lib.c`, `scans.c`, `scans_impl.h`, `check_and_add_state.c`, `instance.c`,
`state.h`

*State.* One collection of states for each instance. Every state has a parent,
a depth, a bit for each scan that visited it, the flags `DEAD_END`,
`ALL_TESTS_DONE`, `IN_SOLUTION_PATH`, `IN_OPTIMIZED_PATH`, and
`num_active_children`. Every soft thread (scan) has its own stack (DFS), queue
(BFS) or priority queue (BeFS); the hard thread has a turn (`st_idx`), a quota
(`ht__max_num_checked_states`) and a prelude.

*Operations.* `run_hard_thread` gives turns; `dfs_solve` and
`befs_or_bfs_do_solve` expand states until a quota or a limit is met;
`check_and_add_state` stores what they derive, or re-parents it;
`mark_as_dead_end` tells the ancestors; `resume_instance` reads what the scans
return; `optimize_solution` starts one more BFS over the states of the solution.

*Interaction.* One thread of execution, but the scans are coroutines on a shared
collection: while one is suspended the others change the parents, the depths,
the flags and the children counts of the states it holds.

*Hard.* A suspension at any iteration; scan synergy, where a dead end of one
scan hides states from another; re-parenting while ancestors are marked; the
optimization over a collection full of old flags; verdicts that must allow for
all of that.

*Correct if* "unsolvable" is only said of unsolvable deals, the trace of a
solution is a path of moves, an optimized solution is not longer, quotas hold,
children counts are what `state.h` says, and the instance always stops.

### 1.2 The disk-backed solvers
`dbm_solver.c`, `depth_dbm_solver.c`, `dbm_procs.h`, `dbm_procs_inner.h`,
`depth_dbm_procs.h`, `dbm_solver.h`, `lock.h`

*State.* A store from encoded positions to records (their parent, in the depth
solver a one-byte reference count as well), one queue (flat) or one for each
depth, the counters of `dbm_instance_common_elems`, `should_terminate`, the
solution. Under a mutex (`storage_lock`), in the depth solver with a condition
variable (`monitor`).

*Operations.* A worker takes an item (or a batch), expands it without the lock,
inserts what is new, and returns the item to
`queue_num_extracted_and_processed` on its next turn. `main` joins the workers,
prints a verdict, walks the parents to print a trace, and in the depth solver
sweeps unreferenced records away between two depths.

*Interaction.* POSIX threads, shared memory; `should_terminate` is also read
without the lock in the flat solver.

*Hard.* The end of the search is a counter that must be zero exactly when
nothing is queued, held, or on its way into the queue; wake-ups; a reference
count that decides which memory may be overwritten; limits that race with a
solution.

*Correct if* no position is lost or expanded twice, "Could not solve
successfully" is only said of a deal without a solution, "Intractable" only
after a limit, traces are paths of moves that run through live records, nobody
sleeps for ever, and the program ends.

### 1.3 The paged queue
`offloading_queue.h`, `depth_multi_queue.h`

*State.* Two pages in memory, files for the full pages between them,
statistics; an array of such queues indexed by depth.
*Operations.* Insert, extract, grow. Sequential: the callers hold a lock.
*Hard.* Boundaries of pages: writer and reader on one page, on adjacent pages,
far apart; a page read back; the growth of the array.
*Correct if* each depth is a FIFO and no file is mixed up or left behind.

### 1.4 Boards, moves, prunes and keys
`freecell.c`, `simpsim.c`, `meta_move_funcs_helpers.h`, `move.c`, `move.h`,
`state.c`, `state.h`, `calc_foundation.h`, `dbm_calc_derived.h`,
`delta_states_debondt_impl.h`, `delta_states_impl.h`

*State.* A board: columns, freecells, foundations. With it, for the user, the
locations: which of his columns and freecells each of the canonical board is.
*Operations.* 16 move functions of the Freecell family and 9 of Simple Simon,
each from a board to derived boards with the moves that led there; the prune that
is forced on the search; canonizing after every step; normalizing and applying
the moves when a solution is replayed; for the disk-backed solvers, single-card
moves, their own prune and count of irreversible moves, and two encodings of a
board relative to the first one.
*Interaction.* Scans call the move functions through the collection; the
disk-backed solvers decode a key, derive, and encode.
*Hard.* Two records kept by hand (board and moves); capacity for runs after
other cards took the free places; sorting with equal columns; a prune one rank
too eager; digits left out of a key because they follow from the rest.
*Correct if* the moves that are told can be made and lead to the solver's board,
the prune loses no game, keys and boards correspond, and a board has one depth.

### 1.5 The public interface: instances, flares and plans
`lib.c`, `include/freecell-solver/fcs_user.h`

*State.* Instances tried one after the other, each with flares, a plan of items
with quotas and a place in it, the best flare so far and the one suspended last;
limits, hard and soft; counts over all flares.
*Operations.* `solve_board`, `resume_solution`, `get_next_move`, `recycle`, the
limit setters; inside, one plan item at a time.
*Interaction.* A flare is an instance of 1.1; front ends and range solvers call
this interface.
*Hard.* A limit met in the middle of an item, at its end, or by the last flare; a
return value left from another flare; quotas that run out and are filled up; an
instance recycled between tracing and comparing.
*Correct if* the answer is true at whichever limit the search was suspended, the
shortest solution found is the one given, and each call returns.

### 1.6 Range solvers
`threaded_range_solver.c`, `forking_range_solver.c`, `serial_range_solver.c`,
`range_solvers_binary_output.h`, `range_solvers.h`

*State.* A counter of boards under a lock; or a master, pipes and child
processes; or a file of results with a buffer before it.
*Hard.* The last, short batch; a pipe whose writing end other children hold; a
program killed with numbers in the buffer and started again.
*Correct if* each board is solved once and accounted for, and the programs end.

### 1.7 Structures under the searches
`fcs_hash.h`, `fcs_hash__insert.h`, `alloc.c`, `alloc.h`, `pqueue.h`,
`kaz_tree.c`, `kaz_tree.h`, `fcs-libavl/rb.c`, `instance.c`

*State.* The hash of states: slots with chains of cells, a mask, two lists of vacant
cells, whole states in blocks of an allocator. The heap of a Best-First scan. The
red-black tree in which the disk-backed solvers keep their records, and another, with
other algorithms, which builds may have in place of the hash.
*Operations.* Insert-or-find with growth; trimming; recycling for the next board. Push
and pop of the best rated state. Lookup, insertion, deletion, and the steps of a walk
in key order.
*Hard.* A rehash that splits a chain while it walks it; memory that is handed out again;
a heap that is full; the colours after a deletion; what is left behind by recycling.
*Correct if* each is the set, bag or dictionary its callers take it for.

### 1.8 Searches that outlive a kill
`pseudo_dfs_atomic_moves_solver.c`, `pseudo_dfs_cache.h`, `split_fcc_solver.c`,
`scripts/SplitFcc.pm`, `scripts/split-fcc-SOURCE-ME.bash`

*State.* A depth-first search: a stack of lists of positions, the set of what is
listed, a cache of what it is done with, and a log. The search by components: for each
component files of entry points; threads, a queue by depth and a store while one
component is searched; files of exit points, sorted and merged.
*Hard.* To go on from a few numbers after everything else was lost; a list that is
relinked by hand; files of which each may be the last that was written; entry points
merged by depth in one pass.
*Correct if* what the search says is true, the numbers of the log lead back to the same
place, and every way out of a component arrives where it leads.

### 1.9 Configuration: command lines, presets and files
`cmd_line.c`, `split_cmd_line.c`, `handle_parsing.h`, `main_cl_callback_common.h`,
`fc_solve_main.c`, `multi_main.c`, `lib.c`, `instance.c`, `preset.c`, `move_funcs_order.c`

*State.* The user of the library: instances with flares with soft threads, and which of
each came last; common parameters of the game; for each thread a list of orders of moves
by depth. The parser: a stack of calls, each over arguments of its own.
*Operations.* Each option is a call of the library. Presets (`-l`) and files
(`--read-from-file`) are read in the place of the option. A preset of a game changes
the flares that exist and those to come.
*Interaction.* Three programs call the parser, each with a callback for options of its own.
*Hard.* Some calls are about the thread, flare or instance that came last, some about
all; a file is read in the middle of a line, with its own directory, skipped words
and nesting; orders are cut where a new depth falls into them.
*Correct if* a line means what the one long line would in which all files and presets
are written out, each depth has the order last asked for, and every flare plays one game.

### 1.10 Boards in and out: texts, Freecell Pro, deals by number
`state.c`, `state.h`, `card.c`, `rank2str.h`, `fc_pro_iface.c`, `fc_pro_range_solver.c`,
`gen_ms_boards__rand.h`, `range_solvers_gen_ms_boards.h`, `deals_populator.h`,
`board_gen/find_deal.c`, `board_gen/fc_solve_find_index_s2ints.py`

*State.* A text of lines and words; a board that follows the game as Freecell Pro plays it,
which puts cards up by itself; the seed and the deck of a deal; a list of ranges of deals.
*Operations.* Writing, reading and checking a board; listing a move for Freecell Pro, or
passing it over; dealing a card; finding the number of a board; appending a range.
*Hard.* Texts that end early; a board that runs ahead of the solver's; generators that change
at 2^31 and 2^32.
*Correct if* what is written is read back, the list replays the game, numbers and boards
tell each other, and the deals are those asked for.

### 1.11 Others

| Part | State and operations | Hard | What would make it correct |
|---|---|---|---|
| Trimming of the collection (`lib.c:862`) | dead states are moved to a trimmed store | pointers the scans hold | no state a scan may reach is freed |
| Pre-caches (`dbm_lru_cache.h`) | a tree of records to be flushed to a Berkeley store | flush | the cache never contradicts the store |
| patsolve | third-party search, not in this tree | - | - |
| Rendering, web and Perl front ends | formatting | - | - |

`PROJECT.json` lists all parts with their status, and the hazards of the code
with the line at which each bites.

## 2. Modules

| Module | Models | State |
|---|---|---|
| `GraphSearch` | what both disk-backed solvers promise | the positions reached, the outcome |
| `DbmCommon` | `dbm_instance_common_elems`, the helpers of `dbm_procs.h` | store, counters, verdict, trace |
| `DbmSolver` | `dbm_solver.c`, the flat solver | + queue, and for each thread its `pc`, `item`, `prev_item`, `seen` |
| `DbmCommonProofs` | what is proved of both solvers: orders, queues, the trace | - |
| `DbmSolverProofs` | theorems about `DbmSolver` | - |
| `DepthDbmSolver` | `depth_dbm_solver.c` | + queues by depth, reference counts, recycle bin, the sweep |
| `DepthDbmSolverProofs` | theorems about `DepthDbmSolver` | - |
| `Scans` | hard thread and soft threads of the library | the collection, the stacks and queues of the scans, turns and limits |
| `ScansProofs` | theorems about `Scans`: parents, quotas, the optimization | - |
| `ScansVerdictProofs` | theorems about `Scans`: the verdict, the counts of children | - |
| `OffloadingQueue` | `offloading_queue.h`, as operators on a queue record | - |
| `DepthFifo` | what the multi-queue promises | a sequence for each depth |
| `DepthMultiQueue` | `depth_multi_queue.h` over `OffloadingQueue` | array of queues, margin, files |
| `QueueProofs` | theorems about `DepthMultiQueue`, among them that it implements `DepthFifo` | - |
| `Board` | `state.h`, `state.c`, `move.c`, `calc_foundation.h`: boards, canonizing, elementary moves | - |
| `FreecellMoves`, `SimpleSimonMoves` | the move functions of `freecell.c` and `simpsim.c`, the prune, as operators | - |
| `CardRules` | the rules as a player knows them, and which positions can be won: the reference | - |
| `CardGame` | a walk of a soft thread over boards, with the user's replay beside it, and `fc_pro_iface.c` with Freecell Pro's board and list | board, locations, the user's board |
| `DbmMoves` | `dbm_calc_derived.h` | - |
| `DebondtStates`, `CompositeStates` | the two encodings of a board | - |
| `DbmGame` | a walk of a disk-backed solver over keys | the board derived, the one decoded, the depth |
| `Flares` | `resume_solution()` and the public calls around it | plans, flares, limits, counts, the answer |
| `FlaresProofs` | the theorem about `Flares` | - |
| `RangeSolvers` | what the range solvers share | - |
| `ThreadedRange`, `ForkingRange`, `SerialRange` | the three range solvers | counter and threads; master, pipes and children; file and buffer |
| `RangePrograms` | the three as one | - |
| `StateStore` | the hash of states of an instance, its allocator of blocks, trimming and recycling | slots, cells, vacant cells and states, mask |
| `PriorityQueue` | `pqueue.h` | the array, its size |
| `PseudoDfs` | `pseudo_dfs_atomic_moves_solver.c`, its log and its restarts, with its cache, `pseudo_dfs_cache.h` (and the same algorithm in `dbm_cache.h`), as operators | stack, set, cache; the last line of the log |
| `SplitFcc` | `split_fcc_solver.c`, `SplitFcc.pm` and the loop over components | files of each component; queue, store and threads of the solver |
| `FrontEndProofs` | theorems about the range solvers, about `SplitFcc` and about `PseudoDfs` | - |
| `KazTree` | `kaz_tree.c`, as the stores of the disk-backed solvers use it | nodes by key: colour, parent, sons |
| `LibavlTree` | `fcs-libavl/rb.c`: a table and a traverser over it | nodes by key: links, colour, item; the traverser |
| `UserConfig` | the calls of the library that configure it, as operators on a user | - |
| `CommandLine` | `cmd_line.c` and what reads for it, over `UserConfig` | the user, what is displayed, the calls of the parser |
| `BoardText` | boards as texts: writing, reading, checking, as operators | - |
| `MsDeal` | a deal, dealt card by card from its number, and the search for the number; `deals_populator.h` | seed, deck, cards dealt; the arguments, the ranges |
| `MC...` | small instances for TLC | - |

`DbmSolver` and `DepthDbmSolver` extend `DbmCommon`, which instantiates
`GraphSearch` with `reached <- Stored, outcome <- verdict`. `DepthMultiQueue`
extends `OffloadingQueue` and instantiates `DepthFifo` with the contents of the
queues, gathered from pages and files. `FreecellMoves`, `DbmMoves` and
`CompositeStates` extend `Board`; `SimpleSimonMoves` extends `FreecellMoves`, and
`CardGame` both, with `BoardText`; `CommandLine` extends `UserConfig`,
and `MsDeal` extends `BoardText`; `DebondtStates` extends `DbmMoves`, and `DbmGame` both encodings.
`MCLibrary` has the behaviors of `CardGame`, `DbmGame`, `DepthMultiQueue`, `StateStore`,
`PriorityQueue`, `KazTree`, `LibavlTree` and `MsDeal`, and `MCFrontEnds`
those of `Flares`, the three range solvers, `PseudoDfs`, `SplitFcc` and `CommandLine`,
with the command lines: each behavior is of one of them, while the
variables of the others stand still.

### 2.1 Positions and moves
Solvers see positions as members of a set, and moves as a function `Succ` (for
`Scans`, one for each move function) which is a parameter. What the models need
from a move function is which positions it derives, and no more: the rules of
the games are modelled apart, from `Board` to `DbmGame`. The order of derived positions is left
open, so it holds for the order of any move loop, shuffle or rating.

### 2.2 `DbmSolver`
A critical section is one action, because every shared variable but one is
touched only under `storage_lock`. The one is `should_terminate`, read after the
unlock (`dbm_solver.c:165`): that read is an action of its own (`CheckExit`,
`CheckSleep`, `CheckExpand`), so any step of the other threads may come between.
`pc` is `lock` before the first critical section, `check` before the read,
`found` and `insert` before the second, `done` after the loop. `seen` is the
thread's local copy of the counter. `JoinAndReport` and `TraceSolution` are
`main`.

### 2.3 `DepthDbmSolver`
Adds batches, the monitor and the sweep. `pc = "wait"` is a thread in
`pthread_cond_wait`; a broadcast moves all of those to `lock`, a signal any one,
and `WakeUnasked` is the spurious return POSIX allows. A thread in `lock` has
still to get the mutex, so the hand-over after a signal is any order. The sweep
(`mark_and_sweep_old_states`) is one action for each record of the tree and one
for each ancestor it goes up to. A decommissioned record keeps its fields until
an insertion reuses its node, which may be at once: `NoUseAfterRecycle` says that
nobody looks. Which item of a batch becomes the parent of a position that several of
them derive is the first that does (`FirstIn`); the order in which what one item derives
gets into the queues is open (`InsertOrders`). `FewChildrenAssumption` is about the byte
that counts references: no position of the games derives 256 others.

`DepthAssumption` says that a move never lessens the depth of a position and that
the depth does not depend on the way. The code counts as depth the moves that
cannot be reversed (`dbm_calc_derived.h`): a card to the foundations, a card
parted from one it was dealt on. That both counts are functions of the position
is not only assumed: `KeysTellBoards` checks it on boards (`DepthIsPotential`).

### 2.4 `Scans`
One action for each turn of a loop: entering a derived state, running a batch of
move functions, backtracking, passing over a state, one derived state through
`check_and_add_state`, one ancestor in `mark_as_dead_end`, one state of the
solution traced. `state_copy` is the deal, one of `Deals`, and a parameter that
the behavior is given at the start, like the options. `pc` says which loop the program is in, and `mark_at`,
`reparented`, `todo`, `trace_at` what is left of it; `At` keeps the caller from
going on before the callee returned. An unshuffled group of n move functions is n
batches of one, a shuffled group one batch of n. The derived list of a DFS level
is the set `rest`: states which are passed over stay so.

### 2.5 `OffloadingQueue`, `DepthMultiQueue`
The queue of builds with `FCS_DBM_USE_OFFLOADING_QUEUE`. A file is a page's data
under the number of queue and page, as in `calc_filename`. What a fresh buffer
holds is `Garbage`, so that an item that was not written is seen. An error of the
file system aborts the program and is left out. The linked list of builds implements the same `DepthFifo`.

### 2.6 `Board` to `CardGame`
One action, `Derive`, takes one derived state of any move function. A move function is an operator from rules and board to a set of derived states,
each a board with the moves recorded. The source keeps these two apart, statement by
statement, and so does the model; that they agree is a property, not a definition.
The set stands for the order of the list, which the scans shuffle or rate anyway.
`CardGame` takes one derived state in each step and, as the solver's board is sorted,
follows the locations; `user` is the board of the one who is given the moves, and it
is `Lost` once a move cannot be made by `CardRules`, which was written from the rules
of the games and not from the functions it judges. `CardRules` uses a recursive
operator for winnable positions, so these modules stay with TLC.
Beside the user's board there is `pro`, that of Freecell Pro with the list made so far
(`ProMoves`): `ProFollows` replays the list on Freecell Pro's own rules. `TextReadsBack`
writes each board that is reached, reads it, and reads it again with its end cut off.

### 2.7 `DbmMoves` to `DbmGame`
A key is a sequence of digits with their bases (`DebondtStates`), or of bit fields
with their widths (`CompositeStates`); packing those into bytes is left out. In
each step a board is decoded, one child is derived and pruned, and encoded again,
with the number of irreversible moves, from which `depth` is summed as the depth
solver does.

### 2.8 `Flares`
`at` is the place in `resume_solution()`: `loop` is the head of its loop, `ran` the
place after a flare has run, `leave` the one after the loop; `run` are its local
variables, of which `ret` survives from one flare to the next as in the code. A
flare is what its search returns: so many iterations, then solved with a solution
of some length, or given up (`Result`). Where a limit falls on the very last
iteration of a hopeless search, either answer may come, as the scans differ there.
`traced`, `ready` and `TracedLengths` stand for `was_solution_traced` and
`instance_is_ready`: tracing a flare whose states were recycled reads what is no
longer there, so any length may come out.
`Sound` names the set-ups that answers are judged for: quotas that are not zero,
limits of instances that can be met, plans which do not return to a flare before a
checkpoint and which run something; section 6 says what happens in the others.
The user solves, resumes with limits that are not lower, reads moves and recycles,
in any order the documentation allows.

### 2.9 `ThreadedRange`, `ForkingRange`, `SerialRange`
The critical section of a thread is one action, and so is the solution of one board.
Pipes are sequences. `closed` is what the master closed, but a child sees the end
of its pipe only when the children forked after it have gone as well, since they
inherited its writing end (`LeaveChild`). A child that is gone is reported by epoll
for ever. In `SerialRange` the program may be killed between any two boards, which
loses the buffer, or while it writes to the file, of which the beginning is then there,
perhaps with a part of a number behind it (`ragged`); and it is started again with the same
arguments. An error in the flares plan, which the first board of a run brings to light,
closes the file before that board; the next run may have a better plan. `RangePrograms`
puts the three side by side, with what is expected of all of them, `RangeExact`.

### 2.10 `StateStore`, `PriorityQueue`, `KazTree`, `LibavlTree`
Memory is modelled where the code manages it: a cell of an allocator is a number, and
`next_item` and `next_state` are the first ones not handed out. The vacant cells are linked
through the fields the code links them through, so that a list that survives what it
lists is seen. One call is one action; `added`, `queued` and `content` are what the caller
is entitled to expect, and no operation reads them. A node of the tree is named by its key,
since the stores never copy one, and the sentinel is a node like in the code: a
deletion sets its parent and reads it. Hash values are given by a function on boards,
of which two have the same. In `LibavlTree` the path to a node is the array of the code, built
going down and read going up, and the traverser has its own. It is the tree of builds with
`FCS_LIBAVL_STORE_WHOLE_KEYS`, which `CMakeLists.txt:771` sets whenever it takes `rb.c`:
records lie in the nodes. What insertions and replacements return is left out, since no
property depends on it: without that setting `rb_replace()` and `rb_t_replace()` return
the item that was replaced, and with it the place that already holds the new one.

### 2.11 `PseudoDfs`
A node of the cache is the number of its cell, and the list is linked and relinked in
the order of the statements. `Turn` is one turn of the loop of `instance_run`, and
`Inspected` the call within it. Of the log the model keeps its last line, and the stack
it was written from, which the program does not have: `LogLeadsBack` compares with
it. Killing a program that is writing a line may cut it anywhere, within a number as
well; what is appended to a line without an end is not read. A search that has ended in
the place where the log leads says so at once and writes no line.

### 2.12 `SplitFcc`
A position has a component (`Fingerprint`), and moves lead to positions of the same or of
a deeper one. `Take`, `Check`, `Expand` and `CheckKey` are the steps of a thread between
two locks, as in 2.2; `StartFcc`, `Joined`, `Sort`, `Merge`, `Unlink` and `FinishFcc`
those of the driver between two of its files. What comes of the merging is written as the
set of lines that the pass over the old file leaves, `Merged`; `max_depth` may be that
of any line that was read before a better one. Lines are an encoded
state and a depth; the moves themselves are left out. `KillSplit` ends all programs at
once, in the stages of `KilledIn`, and leaves the files.

### 2.13 `UserConfig`, `CommandLine`
A call of the library is an operator from a user to a user and a return value. An
option takes effect in the step in which it is read. `parsing.frames` are the calls of the
parser: one for the line, one more for each file or preset that is being read, and `ret` what
one of them returns to the one below. Arguments are words, and what a word is as a number,
an order or a list is a constant, as is what `FileName` makes of a name; only `Chop` looks into texts, as pieces of words,
blanks and quotes. `before` is the configuration at the start, so that `LineMeant` can
apply the line that was meant to it (`Expansion`, which knows neither frames nor nesting).
Left out by assumption: options of the program itself inside presets of the
library, presets that load themselves, and configuration after a search.

### 2.14 `MsDeal`
TLC has integers of 32 bits and the deals need 33, the products more: a number is its top
bit and two halves, and a seed two halves, since the upper half of the 64 bits of the
code is never looked at. A card is one step. The search for a number looks at few
numbers at a time. The list of deals of `deals_populator.h` is the second part of
the module, with a step for each argument.

## 3. Runs and what they show

| Run | Deal and bounds | Properties |
|---|---|---|
| `dbm_unsolvable` | 7 positions, 3 threads, no solution, fair; 83,980 states | `TypeOK` `CounterExact` `NoLostWork` `ExpandedOnce` `QuietExit` `ImplementsSearch` `Terminates` |
| `dbm_solvable` | 2 threads, limits of 5 positions taken and 5 stored | `TraceIsSolution` `VerdictSound` `IntractableHonest` |
| `depth_unsolvable` | 10 positions at 3 depths, 3 threads, batches of 2, fair | `CounterExact` (with the type invariant) `NoLostWork` `ExpandedOnce` `NoLostWakeup` `RefcountExact` `SweepIsThorough` `ImplementsSearch` `Terminates` |
| `depth_solvable` | 2 threads, limit of 8 positions taken | `TraceIsSolution` `NoUseAfterRecycle` `IntractableHonest` |
| `scans_shared` | 8 positions, two deals of which one has no solution, DFS + BFS + BeFS, all complete, prelude, with and without synergy, limits 3, 8 and 99, fair | `VerdictSound` `QuotaRespected` (with the type invariant) `Settles` |
| `scans_optimize` | incomplete DFS + complete BeFS, optimization, with and without re-parenting, limits 5, 9, 99 | `ParentsDerive` `OptimizedNotLonger` `SolvedStaysSolved` `ActiveChildrenExact` `DeadEndsClosed` |
| `scans_double_mark` | two complete scans | `ActiveChildrenExact` is violated |
| `scans_reparent` | incomplete DFS + complete BFS, re-parenting | `VerdictSound` is violated |
| `library` | 11 deals of cards up to rank 5 under six sets of rules, 2 deals of the disk-backed solvers; queue: pages of 2, depths 0..2, growth by 1, 6 insertions; store: 4 boards, 1 slot at first, 5 cells, 6 calls; heap: 6 states with ties, room for 2 + 2; trees: 6 keys, and 5 keys of which one has two items; 11 deals of 20 cards by number; all lists of deals of up to 4 words; 70,125 states | `UserFollowsSolver` `PruneLosesNothing` `KeysTellBoards` `ContainersExact` `ImplementsFifo` |
| `store_recycled` | the same, and a store may be recycled after it was trimmed | `AddedOnce` is violated |
| `front_ends` | 9 set-ups, 6 boards, limits 2 and 5; 7 boards, 3 threads or 3 children, batches of 2; a buffer of 4 numbers; 8 positions, a cache of 2, a line of the log for each 3 iterations, 3 runs; 9 positions in 5 components, 2 threads, 2 kills; about 1,170 command lines, three programs, up to 4 scans, orders told apart at depths 0 to 12; 66,650 states | `AnswersTrue` `RangeExact` `WalkExact` `SplitExact` `AsConfigured` `ProgramsEnd` |
| `split_merge` | the same, with two components that lead to a third at one depth, no kills | `ExitsArrive` is violated |

`PROJECT.json` holds, for each property of a passing run, a mutant of the code
that breaks it: a dropped guard, a count off by one, a missing wake-up.

### 3.1 The bounds, and why they are enough
* `dbm_*`: three threads are the fewest with one idle, one holding an item and
  one between; the deal forks, joins, goes back to its root, has dead ends and
  a position out of reach, so a position is found twice, by different threads,
  and a queue is empty while work is in flight. With a limit of 5 and a solution
  two moves away the limits, on the store in this run, trip before, with and after
  the solution.
* `depth_*`: batches of two make batches that are full and partial, with one
  item that derives nothing (the case that skips the critical section); the
  deal has steps within a depth, one deeper and two deeper, records with several
  children, and whole lines that are swept. The solution lies two sweeps deep, and the limit of 8 positions is met in
  the batch that holds it or in the one before.
* `scans_*`: quotas of one and two iterations suspend every scan at every
  iteration; limits of 3, 5, 8 and 9 suspend the instance. In the deals a leaf is
  held by one scan while another withdraws from it, two ways of different length
  lead to one state, and a blind alley has two states, so that a dead end is
  passed on to a parent and not beyond.
  `MaxStates` stays above what the deals need: it is tested in the same places
  as the limit of iterations, and suspends in the same way.
* `library`, structures: six items fill three pages of two, one of them on disk, one read and
  one written; three depths grow the array
  twice. Of four boards two have one hash value and a third shares their slot until the
  table, which holds two for each slot, has doubled; six calls store boards, trim,
  reuse cells and recycle. Six states make a heap of three levels with one, two and
  equal children at the hole, after it outgrew its room twice. Every tree that six
  keys can reach by any insertions and deletions is reached, which holds each case of both
  repairs and its mirror image; for the tree of `LibavlTree`, with a traverser at each
  node, five keys hold the cases of insertion and of a deletion that is repaired below
  the root.
* `library`, deals: a deck of 20 cards (52 in the code) is dealt to columns of two and of
  three cards (six and seven); the numbers are at, before and after 2^16, 2^31, 2^32 and
  2^32 + 2^31, and the last. Four words hold a "seq" with a number before or after it,
  joined or not, empty ranges, a file, and every error.
* `library`, games: most deals start with low ranks on the foundations. Among them are every
  kind of sequence and of empty column, two decks, Simple Simon with one and two
  empty columns, a deal that is lost by one card put up too early, and one in
  which a run needs the only freecell. Every move function and the prune derive
  something. Larger decks have longer runs, not other steps. Texts are written in the
  ways the options allow and cut at each of their lines.
* `front_ends`: of the set-ups, three are sound (alternating flares with checkpoints
  and a final `RunIndef`; two flares compared with each other, then a second instance;
  a first instance with a limit of its own), four are the excluded ones of section
  6, which are run but not judged, and two are erroneous plans. The boards let a flare
  solve late, early, with the shorter or the longer solution, or not at all. Quotas of
  one to three iterations run out before, at and after limits of 2 and 5.
  Seven boards in four batches give some thread a second batch, the last one short,
  and others a batch past the end; a buffer of four numbers (16 in the code) is written
  within a file and at its end.
  The depth-first search meets positions again that are on its stack, in its cache, and
  forgotten, since the cache has room for two of eight; three runs and a line for each three
  iterations put a kill before, after and within lines of every length.
  The components form a diamond, so that one of them gets entry points twice, the second
  time at more depth, some of them known; two threads, and two kills in the solver, before
  and after each file of the driver.
  Command lines: all of up to three of ten settings of orders, scans and games, where a depth falls
  before, on and after those that are there; and lines that use each option, with and
  without errors, each kind of quote, escape and comment in a file, files within presets
  within presets, and skipped words.

## 4. Fairness

`DbmSolver` and `DepthDbmSolver` ask for weak fairness of each worker thread and
of `main`: threads are scheduled by the system, and no critical section can be
disabled by others for ever. In the depth solver the mutex may pass a thread by
any number of times; that weak fairness covers this rests on the threads that
have it leaving or sleeping in the end. `WakeUnasked` has no fairness: nothing
counts on spurious wake-ups. In `Scans` there is one thread of execution, and
weak fairness of `Solve` says that it goes on running; `Resume` is the user's,
who need not. `front_ends` asks the same for a call (`Step`), each worker thread,
each child and the master, and the serial program, which are threads and processes
of the system; each turn of the
depth-first search, each thread of the search by components and its driver; none for the
user, nor for killing and starting again. Of a search by components that was killed
nothing is asked but that it comes to rest. That epoll
reports all readable pipes, up to its four events, is in `EpollWait`. `library`
needs none, nor does the parser: it takes a step for each word, and `ProgramsEnd` does
not speak of it.

## 5. Theorems

A theorem holds for every value of the constants that the named assumptions allow; TLC
evaluates these on each run. In all proofs TLC checked the parts of the inductive
invariant first, as invariants of a run.

| Module | Theorem | Says |
|---|---|---|
| `DbmSolverProofs` | `TypeCorrect` | `Spec => []TypeOK` |
| | `CounterIsExact` | `Spec => []CounterExact` |
| | `WorkIsNotLost` | `Spec => []NoLostWork` |
| | `ExitIsQuiet` | `Spec => []QuietExit` |
| | `VerdictIsSound` | `Spec => []VerdictSound` |
| | `SolverImplementsSearch` | `Spec => ImplementsSearch`, a refinement of `GraphSearch` |
| | `EachIsExpandedOnce` | `Spec => []ExpandedOnce` |
| | `TraceIsCorrect` | `Spec => []TraceIsSolution` |
| | `IntractableIsHonest` | `Spec => []IntractableHonest` |
| `DepthDbmSolverProofs` | `CounterIsExact` | `Spec => []CounterExact`, with the type invariant |
| | `WorkIsNotLost` | `Spec => []NoLostWork` |
| | `NoWakeupIsLost` | `Spec => []NoLostWakeup` |
| | `EachIsExpandedOnce` | `Spec => []ExpandedOnce` |
| | `SolverImplementsSearch` | `Spec => ImplementsSearch`, the same `GraphSearch` |
| | `TraceIsCorrect` | `Spec => []TraceIsSolution` |
| | `RefcountIsExact` | `Spec => []RefcountExact` |
| | `NothingUsedAfterRecycle` | `Spec => []NoUseAfterRecycle` |
| | `SweepIsComplete` | `Spec => []SweepIsThorough` |
| | `IntractableIsHonest` | `Spec => []IntractableHonest` |
| `ScansProofs` | `ParentsAreATree` | `Spec => []ParentsDerive` |
| | `QuotasAreRespected` | `Spec => []QuotaRespected`, with the type invariant |
| | `SolutionIsKept` | `Spec => []SolvedStaysSolved` |
| | `OptimizationOptimizes` | `Spec => []OptimizedNotLonger` |
| `ScansVerdictProofs` | `VerdictIsTrue` | `Spec => []("reparent" \notin options => VerdictSound)` |
| | `CountsAreExact` | `Spec => [](Orderly /\ Plain => ActiveChildrenExact)` |
| | `DeadEndsAreClosed` | `Spec => [](Orderly /\ Plain => DeadEndsClosed)` |
| `QueueProofs` | `DirectoryIsExact` | `QueueSpec => []DirectoryExact` |
| | `QueueImplementsFifo` | `QueueSpec => ImplementsFifo`, a refinement of `DepthFifo` |
| `FlaresProofs` | `AnswersAreTrue` | `Spec => []AnswersTrue` |
| `FrontEndProofs` | `ThreadedRangeIsExact` | `ThreadedSpec => []ThreadedExact` |
| | `ForkingRangeIsExact` | `ForkingSpec => []ForkingExact` |
| | `SerialRangeIsExact` | `SerialSpec => []SerialExact` |
| | `RangesAreExact` | the three programs together: `[]RangeExact` |
| | `InputsAreClean` | `SplitSpec => []InputsBelong`, unless killed while `./by` is written |
| | `SplitIsExact` | `SplitSpec /\ [][NothingDropped]_splitVars => []SplitExact`, with the same proviso |
| | `DropsAreOfTheLastDepth` | `SplitSpec => [][DropsOnlyTheLast]_splitVars`, likewise |
| | `WalkIsExact` | `WalkInit /\ [][WalkNext]_walkVars => []WalkExact` |

Each of these that states a property of a run states all of it, but for two whose
invariant takes in the type invariant of its module, and four whose condition
the code needs: `VerdictIsTrue`, as `scans_reparent` shows what happens without,
`CountsAreExact` with `DeadEndsAreClosed` (5.4), as `scans_double_mark` shows, and
`SplitIsExact`: that it needs `NothingDropped` is what `split_merge` shows, and the other
proviso is an observation of section 6.

### 5.1 Assumptions

| Assumption | Why the code justifies it |
|---|---|
| `KeysAssumption`, `LimitsAssumption`, `ThreadsAssumption` | finitely many positions, a root among them, moves within them; limits are counts; one thread at least; batches are not empty |
| `DepthAssumption` | 2.3; `KeysTellBoards` checks it on boards |
| `FewChildrenAssumption` | a position derives fewer than 256 others (2.3) |
| `StatesAssumption`, `ScansAssumption` | finitely many states; an order of moves has one group at least, which may be empty (`fc_solve_apply_moves_order()`, `move_funcs_order.c:13`); quotas are counts |
| `FewChildrenAssumption` of `Scans` | a position derives fewer than 65,536 others: those are what an unsigned short can count, and what the move functions try are pairs of a card and a place for it |
| `PageAssumption`, `DepthAssumption` of the queue | a page holds items, and the depths are in order and the array grows by some (`offloading_queue.h`, `depth_multi_queue.h`, where both are set at compile time); what a fresh buffer holds is no item that was put in, since the model has to tell them apart |
| `ConfigsAssumption`, `ResultAssumption`, `FactorAssumption`, `LimitsAssumption` of `Flares` | an instance has a flare, a name in a plan is looked for in its own instance; a search takes an iteration; limits are counts, and `NoLimit`, -1 in the code, is none |
| `RangeAssumption` | a range that is not empty, batches that are not empty |
| `SplitAssumption` | finitely many positions, one thread at least; a move leads to a component that is deeper or the same, for `_calc_fingerprint_depth()` (`SplitFcc.pm:17`) counts moves that cannot be taken back; the name for none is no component |
| `SpotsAssumption` | the deals and the solved position are positions, of each position there is a list of those derived from it; a line of the log comes after an iteration at least |
| `CacheAssumption` | the cache has two places or more: `main()` gives it 70,000,000 (`pseudo_dfs_atomic_moves_solver.c:315`), and with one there would be no node above the one that is evicted |
| `WorkersAssumption`, `ChildrenAssumption` | one worker at least: with none, the array of the workers has no elements (`threaded_range_solver.c:128`, `forking_range_solver.c:133`), which is undefined |

### 5.2 `DbmSolver`
`CounterExact` is not inductive by itself. A thread may leave on
`seen[t] = 0`, an old copy of the counter, and its item would leave
`Unreturned`. The invariant `IInv` adds `ItemHeld` (in `found` and `insert`
there is an item, and in `insert` it is not solved) and a statement about the
copy: while the search goes on, a thread in `check` whose copy was zero holds
nothing, and such a copy, like a thread that is `done`, means that nothing is
queued or in flight from then on, for only a holder can queue anything. From that,
`ExitIsQuiet`. `NoLostWork` is preserved as each position moves from the queue
to one thread, and from it, at the insertion, to "all derived positions are
stored".
The verdict: main joins threads that all left; if `should_terminate` is unset
nobody holds and nothing is queued, so by `NoLostWork` the store is closed under
moves and holds no solved position (`GivingUpIsExhausted`), and what can be
reached from the deal is within it. The refinement takes from the same lemmas
that "Could not solve" is `Conclude` with `Exhausted`, and each insertion is
`Discover`; every other step is a stutter.

`ExpandedOnce` rests on the critical section of `InsertDerived`: what it queues was
not in the store, what is queued or held is, and an ordering of n new positions
in n places repeats none (`OrderingRepeatsNothing`).
`TraceIsSolution` needs that parents never run in a circle. `TraceInv` says that
there is a rank of the records that grows from parent to child: an insertion ranks
the new records above the one that derived them, and `parent` never changes
afterwards. The rank falls along the trace, which therefore repeats nothing and
can end at the deal only. `LimitsInv` says that the reason in `should_terminate`
stays true: counters do not fall, and the solution is not taken back.
`DbmCommonProofs` holds what this shares with the solver by depths.

### 5.3 `DepthDbmSolver`
`IInv` is `ShapeInv` (what the places of threads and of main say: a thread that sleeps
has returned its batch, one that left with a batch has recorded a solution, the sweep
begins when all have left), `CounterExact`, `DepthShape` (what is queued or held has the
depth it is filed under, and the queues of the depths before are empty), `QuietExit`
and `NoLostWork`; each of the five needs the others. A depth ends quietly because the
last thread to return its batch sees an empty queue and a zero counter in one critical
section.
*Wake-ups.* While anyone sleeps, another thread is awake and has to return a batch, and
at its return it wakes all if the counter or a solution lets them leave. That holds through
spurious returns, signals that choose, and threads that wait for the mutex.
*Reference counts and the sweep.* `SweepInv`: the count of a live record is the number of
live records that name it as parent, it fits its byte, nothing that a thread, a queue or
the trace refers to is on the recycle bin, and each live record of an earlier depth has a
live child, except for the one ancestor the sweep has got to. An ancestor loses its
last reference at the moment it becomes `ancestor`, so the way up is the only exception.
That a count never wraps takes `FewChildrenAssumption`.

### 5.4 `Scans`
*Parents.* `TreeInv`: what is derived is derived by moves from its recorded parent, whose
depth is smaller, and a state about to be re-parented lies deeper than its new parent will
put it; `PlaceInv` says which scan runs, with what, at each `pc`, and which have stacks.
*Quotas.* A scan checks its limit before it counts. `QuotaInv` adds to
`QuotaRespected` that where it is `AboutToCount` it has not reached its limit.
*Optimization.* The optimizing scan looks only at states which the trace flagged, and
re-parents them. `PathInv` says that the solved state is flagged and, with each
flagged state but the deal, its parent, which re-parenting keeps up; `FrontierInv`, that
the deal is done or ahead in the queue and the solved state not done, and what is flagged
and derived from one that is done is done or ahead. So on the way from the deal to the
solved state somebody is ahead, the queue does not run empty, and what is
traced in the end is not longer (`OnTheWay`, `WayUp`: walking up parents from the solved
state, as functions on `0..m`, since a recursive operator cannot be reasoned about).
*The verdict.* A state is `Known` to a scan if it visited it, has it pending, or it is
a dead end. A complete scan `Follows` each state it visits: it is not solved, and all it
derives is known. `TestedInv`: what is flagged as tested, by anyone, is followed by a
complete scan, so passing over the dead ends of others loses nothing. When
the complete scans are exhausted nothing is pending, and the visited states and dead ends
are closed under moves (`EndInv`); by induction along the moves, everything reachable is in
them. No step of the argument uses the counts of children, so that it does it no harm
when they are wrong: a dead end was always tested. Re-parenting breaks just that, and
`TestedInv` with it.
*The counts of children.* `Counts` says of each state that its count is the number of its
children which are no dead ends, and one more while it is the one that has to hear
of the latest of them (`mark_at`); and that no dead end has a child that is alive. A step
keeps it if the state that it marks is not marked yet and has no live
children. The condition of both theorems is what makes that so (`Orderly`):

  - Any number of complete best-first scans, beside incomplete DFS scans, which mark
    nothing. A best-first scan marks a state at the end of the turn that expands it, if
    nothing is derived from it. No dead end is expanded (`DeriveInv`), and a state that
    nothing is derived from has no children.
  - A scan that is alone, which makes it complete. What it does if it is a
    DFS scan is `Alone`: no state is on two levels, each that it visited is on a level or
    done with, the parent of a state on a level is on a level before or on none, and each
    child of a state on a level was visited or is about to be. When it leaves a
    state, its children were therefore visited, are on no level behind, and are done with:
    dead ends, with synergy.

A count does not wrap since the children of a state are derived from it, which takes
`FewChildrenAssumption`. A complete DFS scan beside another scan may break both properties, even
beside an incomplete one: what the other has found and not yet visited hangs below a
state that the DFS scan leaves, because the DFS scan met it elsewhere and has marked it.

### 5.5 The range solvers
*Sums.* `SumOver` is a recursive function on the boards; that it exists and adds up
follows step by step along an interval (`StepByStep`), from the least counterexample.
*Threads.* A history that the program does not have, `by[b]`, names the thread that
solved each board. `BatchesInv` keeps the batches held apart and below the shared counter,
and `CountedInv` says that what each thread counted is the sum over what is `by` it, and the
total the sum over those joined.
*Children.* `ExchangeInv`: a child has one thing at a time, a request, a batch
it works on, or a response. `HandedInv` keeps batches apart. `Books`: `by` gives
a board to a child while the child has the iterations, and to the master (0) once it has
added them; what the master counts is what was handed over to it.
*Restarts.* File and buffer together continue `Expected`, the numbers of a complete
file, wherever the program was killed; a run that goes on begins at the board after the last
in the file.

### 5.6 The queue by depth
*One queue.* `QueueInv`: a queue reads and writes one page, or reads a full page and
writes a later one. What it holds, `Contents`, is read cell by cell from the place of the
next extraction to the place to write to (`PlacesInv`), where a place is a page and a
cell; the pages between the two are in the directory, under the queue's number and theirs,
and no others are (`Span`). The end of a page and the beginning of the next are one place,
so that going on to a new page, or to one that comes back from its file, changes
nothing of what the queue holds; writing a cell appends to it and reading one takes its
head. The two operations are first described field by field, then shown to do just that.
*The array.* Queues have numbers of their own, so what one does to its files is nothing
to the others (`ShelfInv`). Growing the array adds empty queues behind the ones it has,
and its margin is always beyond the depth that is asked for (`ArrayInv`); the count of
items is that of all queues together (`CountInv`), whence an extraction finds a depth
that has one.
*The refinement.* With the contents of the queues for its sequences, an
insertion is one of `DepthFifo`, and an extraction takes the oldest item of the first
depth that has any; growing is a stutter. The margins of the array are a recursive
function; that it is defined for any size follows from a least counterexample, since the
induction theorems are out of reach.

### 5.7 `Flares`
`AnswersTrue` speaks of the moment of an answer, and what makes it true has to be known all
along the loop, and from a call to the one that resumes it. `BaseInv` holds in every
set-up: only flares of the current instance are begun, plans end with a checkpoint, a
flare that an item names has run or is out of the race. `SoundInv` holds in those that
are `Sound`, which is a hypothesis within `AnswersTrue` itself. Iterations are counted once, over
all flares and calls, and stay within the limit (`CountInv`). A flare that solved the board
did so since the last checkpoint, is not shorter than the minimal one, and its moves
are at hand or can be traced (`SolvedInv`), so that the minimal one is the shortest of
those between two checkpoints. What an item that was not run takes over from the one
before it is what it would have returned itself (`StaleInv`). In a round without a
suspension each item has given up or solved the board (`RoundInv`), and an instance is
left when all its flares have given up, or at its own limit (`LeftInv`). The loop ends
at the user's limit or behind the last instance (`LeaveInv`), and what is said then is
in `ToldInv`.
The proof led to two corrections of the model: flares of different instances are
different flares, which `find_flare()` takes for granted, and plans of checkpoints alone are
excluded by `RunningPlans`, since a search without a run is answered as suspended (section 6).

### 5.8 `SplitFcc`
*What positions lead to.* `Spread` is a recursive function over rounds. That it exists follows
step by step; a round that is not the last adds a position, so after as many rounds as
there are positions it is closed, and it is the least closed set (`SpreadIsLeast`).
*The files.* `FilesInv`: each line is in the file of its component, can be reached, and is
no deeper than its component, and an input file has each position once. A merge
takes old and new lines only, one of each position, and none of the old is lost
(`MergedIsClean`). `OrderInv`: of the components that are left, the one being searched is
among the least deep, and its exits are deeper, so nothing is ever merged into one that
was searched.
*The solver.* `SolverInv` is for these threads what `IInv` of 5.2 is for theirs. A position of the
component that is known is queued, with a thread, or expanded, and its list stored or
in the hands of the thread that has the storage lock (`WorkInv`); a thread leaves
when nothing is queued and no item is held (`QuietInv`). When all are joined, what
is stored is closed, so it is the component, and its exits are in `exits.1`.
*From file to file.* `DoneInv` follows the exits of a component: they are in `exits.1`
until that is sorted, then among the sorted lines or in the input files, where a merge brings
them unless it drops them, and when the component is finished they are in the input files.
A kill goes back to the start of the same component, with what was merged so far, which does
no harm. If nothing is left, all that the deal leads to is inside of components that were
searched, and the goal in none.
*The finding.* `MergeDropsTheLast` says what the code of `split_merge` drops and
what it does not, for any files: `SplitExact` is lost by that alone.

### 5.9 `PseudoDfs`
*Why it may forget.* The search remembers what its stack lists and, in the cache, some of what
it is done with, and the set of all it is done with is nowhere. The invariant only
says that there is such a set: `Sound` holds of a place of the stack and a set D if
nothing is derived from D and the open positions but what is one of these or is listed
and still ahead, and if the solved position is not among them. `Right` says that what
the cache has is in such a D for the place where the search is, so passing
over a position of the cache loses nothing, and one that is entered a second time does no harm.
Leaving a level adds its position to D: all that it listed, and all that
was listed below it, is in D, open, or ahead. When the stack is empty, D is closed and
holds the deal, so all that the deal leads to is in D, and the solved position is not.
*Why the log is enough.* `Shape`: the list of a level is fixed by its position and
the lists below it, so a number means the same to each program that starts from the
same deal (`LoadedRetraces`); nothing is passed over on the way, since the cache is empty.
The program that goes on from there comes to places that the other had passed, with
more ahead of it than the cache it lost would have left, and needs a D for each
of them: that is `Past`, which is kept in the log with the stack (`LogOK`). A line
that was cut off is one of fewer levels, with less of the last one entered.
*The cache.* There is an order of the nodes, each of them once, along which the links lead
in both directions (`Linked`). Promoting a node moves it to the end of the order,
inserting adds one there or moves the first one there, and the map leads to nodes
of its keys.
That lists, insertions and the reading of a line exist, which are recursive functions over
places, follows step by step (`IterationExists`).
For these proofs such functions replaced folds in `PseudoDfs`, and what a position
leads to is written as the least closed set.

### 5.10 What is only model-checked, and why
* Liveness (`Terminates`, `Settles`, `ProgramsEnd`): fairness and `ENABLED` are out of the
  prover's reach.
* What the recursive operators of `CardRules`, `KazTree`, `LibavlTree`,
  `CommandLine` and others compute for every input needs induction over data: so
  `UserFollowsSolver`, `PruneLosesNothing`, `ContainersExact`, `AsConfigured`, and what
  `MCLibrary` and `MCFrontEnds` put together.
* The parts of `ContainersExact` that are about `StateStore`, `PriorityQueue` and
  the trees, and the equality of two boards in `KeysTellBoards`, rest on such definitions
  throughout.
* Not yet: the depth of a board in `KeysTellBoards`, and the counts of children and dead
  ends in searches that are not `Orderly` but end well, if any do.

## 6. Findings

* `scans_double_mark`: `scans_impl.h:363` decrements a parent's
  `num_active_children` for each scan that withdraws from a state, while
  `state.h:225` says that it counts the direct children not yet declared dead
  ends. With two complete scans a leaf that one has marked as dead, but which the
  other already holds, is counted off twice; the count can then reach zero with
  a live child left, or wrap below zero. It takes less than two complete scans: with a
  complete DFS scan beside an incomplete BFS scan TLC finds both `ActiveChildrenExact` and
  `DeadEndsClosed` violated as well (deal s with a and b below it, c below both, and s
  below c). Without a complete DFS scan, or with one scan, the counts are exact (5.4).
* `scans_reparent`: when a state is re-parented away from its last child's
  parent, `scans.c:705` declares the old parent a dead end without asking for
  `ALL_TESTS_DONE`, which `scans_impl.h:351` asks for in the same situation and
  `state.h:242` gives as the flag's reason. The other scans then pass over a
  state with moves that nobody tried, and a solvable deal is called unsolvable.

  Both need scan synergy between several scans; single-scan runs are not touched.
  `scans_shared` finds `VerdictSound` to hold without re-parenting, in spite of the
  first.
* `store_recycled`: `fc_solve_hash_recycle()` (`fcs_hash.h:137`) and `recycle_inst()`
  (`lib.c:711`) give the memory of items and states back to the allocators, but keep
  `list_of_vacant_items` and `list_of_vacant_states`, which `free_states()` has filled
  when `--trim-max-stored-states` was exceeded. The next search is handed the same cells
  twice: a stored state is overwritten and added again, although `fcs_hash__insert.h:65`
  promises the existing key. Without a trimming before the recycling (`library`) the
  store is exact.
* `split_merge`: when `SplitFcc.pm` merges new entry points into the input file of a
  component, those that are as deep as its last line are written after the pass, and only
  if some new one is deeper than that (`SplitFcc.pm:277`). Otherwise they are lost, and
  with them the part of the component that only they lead to, although
  `docs/split-fully-connected-components-based-solver-planning.asciidoc:79` promises that
  all the outputs will be merged. In `front_ends` the new ones are deeper, and none is lost.

Other observations, from writing the models. The first four are cases which
`Sound` in `Flares` excludes from `AnswersTrue` and `ProgramsEnd`: TLC finds a
violation when any of its conjuncts is dropped, or an answer that is looked up in an
instance past the end.

* *Limit of an instance* (`lib.c:3286`). It is compared with the iterations of one
  flare, but handed to it less those of all instances (`lib.c:3038`): a second
  instance whose limit is not above what the first one used is never let run, nor
  left. When the last instance is left at its limit there is no current instance,
  and `eval_resume_ret_code` reads the best flare of the one past the end
  (`lib.c:2917`). A solution that an earlier flare of the instance has found is dropped.
* *Quota zero* (`lib.c:2688`). A small `--flares-iters-factor` rounds quotas down to
  zero; an item without iterations is suspended at once and the plan is restarted for ever.
* *A plan that returns to a flare before a checkpoint* (`lib.c:3202`). A flare that
  is out of the race does not run, but `ret` of the flare before it is evaluated again:
  after a suspended one, a solved flare loses `was_solution_traced` and is traced
  again from states that were recycled.
* *A plan of checkpoints alone* (`lib.c:2906`). Its items run no flare. If no other
  instance runs one, the answer is "suspended" at no limit, of a search that was never
  begun, and the instance past the end is asked for its best flare here too.
* As a plan returns to a flare, an exhausted flare may become `intract_minimal_flare`.
* `get_next_move` on a suspended search recycles the flare (`lib.c:2856`) although
  its code stays "suspended"; resuming afterwards is not modelled.
* `freecell_solver_user_solve_board` returns
  `FCS_STATE_VALIDITY__PREMATURE_END_OF_INPUT` for a string that is too long
  (`lib.c:3323`), a number of another enumeration.
* *Kings only* (`freecell.c:867`). In games whose empty columns take kings only, a
  king moved down may count on empty columns for the run above it, where only a
  king may go (`USAGE.asciidoc:413`). It takes two empty columns, and four in the deal.
* `--prune r:tf` in Simple Simon would put up single cards.
* *Serial range solver.* A file that lacks exactly the last board is taken for a
  finished one (`range_solvers_binary_output.h:137`), a file whose header was still in
  the buffer is too short for ever, one that ends within a number has an invalid length
  for ever (line 130), and the limit of iterations that is read from
  it is not applied.
* *Search by components.* A driver that is killed while it writes the files of `./by` leaves
  them, and the next merge, perhaps of another component, takes their lines for its own:
  with `KilledIn = {"writing"}` and two components to merge TLC finds `InputsBelong` violated.
  The depth of an exit point is the number of bytes of its moves, while the
  solver's queue counts moves. The `sscanf` of the entry points is inside an `assert`
  (`split_fcc_solver.c:746`), so a build with `NDEBUG` refuses every input.
* *Depth-first search.* A position that is listed anew and left again gets a second node in
  the cache; when the older is evicted the key leaves the map, which costs a miss. The log
  does not say of which board it is.
* *Forking range solver.* A child that is killed leaves a pipe at its end, which epoll
  reports for ever to a master that goes on counting on its boards.
* *Hearts in the list for Freecell Pro* (`fc_pro_iface.c:119`). A card that is told to
  leave a freecell which Freecell Pro has emptied by itself is not found there, and the
  foundation of hearts is counted up. `ProFollows` holds until then (`Miscounted`).
* *Boards.* In games of two decks, two columns with equal bottom cards may stand in either
  order, so one position has two canonical boards. `return s == STACKS_NUM` in the
  reading of boards is always true, and a premature end is never reported. An empty
  freecell is written as a blank, and cards behind it are read into other freecells.
* *Orders by depth.* `-dto` passes on the depth with the comma as part of the order
  (`cmd_line.c:752`); only `-dto2`, which `USAGE.asciidoc:602` describes, sets one.
  Whether a scan is complete, and the order for the optimization, look at depth zero only.
* *Command lines.* The index of a flag ignores the words that a file skips. A `-l` of the
  line itself makes later nesting unlimited. An option that is not known
  inside a preset of `-l` skips the rest of the preset without a word, and `last_arg` stays
  that of an earlier error; `-o` as the last word returns a value that was never set.
  A file whose name begins with digits is looked for without them, also when no comma follows
  and there is nothing to skip: `--read-from-file 9short.sh` reads all of `short.sh`
  (`cmd_line.c:621`), although `USAGE.asciidoc:1068` gives a meaning only to a number
  followed by a comma, and `-dto2` goes back to the whole word when none follows
  (`cmd_line.c:748`). `-g ""`
  matches an empty slot of the table of games. Setting a game
  does not recalculate its mask of suits. `fc-solve-multi` reads one board, whatever
  follows.
* *Lists of deals.* A word that is not a number is deal 0.

## 7. What is left out

* In the modelled parts: run-time pruning, move orders by depth, calculation of
  real depths, trimming, the patsolve scan (`Scans`); the mode that reads
  intermediate input and the dump of the queue (`dbm_solver.c`); the decoding of
  records to boards when a trace is printed; time and memory limits of the
  process.
* The moves of builds without freecells (`zerofc_freecell_moves.h`); the packing of
  keys into bytes; the `local_variant` that the composite encoding
  is given.
* The limit on stored states in `Flares`, which is tested beside the limit of iterations;
  solution lengths as Freecell Pro counts them; the moves up to a suspended position.
* The `select()` variant of the forking solver, children that are killed, the directory
  of solutions, and all of `fc_pro_range_solver.c` but its list of moves.
* Options that the program itself knows inside presets of `-l`, presets that load
  themselves, configuring after a search; texts of boards with ranks that cannot be
  read or without an end of line, the table for readers, and the notation of moves.
* `rb_destroy()`, `rb_t_copy()`, and code under `#if 0`.
* `MaxDepth` is a constant of the model; in the code it is the largest number of
  moves that cannot be reversed.
* The lines of moves in `SplitFcc`, the solution that its threads print, and
  `fcc_brfs_test.h`.
* Parts of 1.9, for the reasons of `PROJECT.json`: not yet, or formatting, or code
  of third parties.

## 8. Plan

Done: all components of `PROJECT.json` that are not listed as left out, as modules and runs;
as theorems, every safety property of both disk-backed solvers, of the scans, of the
range solvers, of the searches that outlive a kill, of the queue by depth (with its
refinement) and of the public interface.

Next, in this order:

1. Lemmas about `Board` (what `Push`, `Pop` and `Transfer` keep), and the depth of a
   board in `KeysTellBoards`.
2. `ScansTrim`: trimming of the collection under the scans that hold states.
3. `StateStore` without recursive operators, and its part of `ContainersExact`.

Runs are few and each asks several things: new modules share runs where their
bounds allow.
