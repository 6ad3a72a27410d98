------------------------------- MODULE Scans -------------------------------
(***************************************************************************)
(* The heart of the solver library: the soft threads (scans) of a hard     *)
(* thread take turns on one shared collection of states (lib.c, scans.c,   *)
(* scans_impl.h, check_and_add_state.c).  The program has one thread of    *)
(* execution; what interleaves is the scans, which are suspended when      *)
(* their quota of iterations runs out and continued later, while the       *)
(* parents, the flags and the children counts of the states they hold are  *)
(* changed by the others.                                                  *)
(*                                                                         *)
(* A state is named by its position and a move function by the positions   *)
(* it derives.  One action is one turn of a loop of the source, and pc,    *)
(* todo, reparented, mark_at and trace_at hold the locals that say which   *)
(* loop the program is in.  The order in which derived states come out of  *)
(* the move functions, the shuffling of a DFS level and the ratings of the *)
(* priority queue are left open: any order stands for them.                *)
(***************************************************************************)
EXTENDS Integers, Sequences, FiniteSets

CONSTANTS
    States,          \* positions
    NoState,         \* NULL
    Deals,           \* values of state_copy
    Solved,          \* the position with all columns and freecells vacant
    MoveFuncs,       \* move functions ("tests")
    Moves,           \* Moves[f][k]: the positions that f derives from k
    NumScans,        \* num_soft_threads
    Method,          \* "dfs", "brfs" or "befs", for each scan
    Tests,           \* for each scan, the batches of move functions it runs
    Step,            \* checked_states_step, for each scan
    Prelude,         \* sequence of [scan, quota]
    Options,         \* sets of the flags "synergy", "reparent", "optimize"
    IterLimits,      \* values of effective_max_num_checked_states
    MaxStates        \* effective_max_num_states_in_collection

Scans == 1..NumScans
Opt == 0                       \* optimization_soft_thread
SoftThreads == {Opt} \cup Scans

ASSUME StatesAssumption ==
    /\ IsFiniteSet(States)
    /\ NoState \notin States
    /\ Deals \subseteq States /\ Solved \in States
    /\ Moves \in [MoveFuncs -> [States -> SUBSET States]]

\* An order of move functions has at least one group, if an empty one.
ASSUME ScansAssumption ==
    /\ NumScans \in Nat \ {0}
    /\ Method \in [Scans -> {"dfs", "brfs", "befs"}]
    /\ Tests \in [Scans -> Seq(SUBSET MoveFuncs) \ {<<>>}]
    /\ Step \in [Scans -> Nat \ {0}]
    /\ Prelude \in Seq([scan : Scans, quota : Nat \ {0}])
    /\ Options \subseteq SUBSET {"synergy", "reparent", "optimize"}
    /\ IterLimits \subseteq Nat \ {0}
    /\ MaxStates \in Nat

VARIABLES
    state_copy,      \* instance->state_copy, the dealt position
    options,         \* the flags of the instance
    info,            \* the collection: position |-> fcs_state_extra_info
    scan_visited,    \* scan_visited[s]: the states whose bit of scan s is on
    soft_dfs_info,   \* the levels of each DFS scan, the deepest last
    queue,           \* bfs_queue, or the elements of pqueue
    ptr_state,       \* PTR_STATE of a BFS or BeFS scan (first_state_to_check)
    st_idx,
    ht_max,          \* ht__max_num_checked_states
    prelude_idx,
    finished,        \* scans with FCS_SOFT_THREAD_IS_FINISHED
    num_checked_states,
    max_num_checked_states,
    optimizing,      \* FCS_RUNTIME_IN_OPTIMIZATION_THREAD
    final_state,
    ret,             \* what the scan, and at last the instance, returned
    pc, todo, reparented, mark_at, trace_at

scanVars == <<soft_dfs_info, queue, ptr_state>>
hardVars == <<st_idx, ht_max, prelude_idx, finished>>
limitVars == <<num_checked_states, max_num_checked_states>>
localVars == <<todo, reparented, mark_at, trace_at>>
fixedVars == <<state_copy, options>>
vars == <<fixedVars, info, scan_visited, scanVars, hardVars, limitVars,
          optimizing, final_state, ret, pc, localVars>>

Flags == {"in_solution_path", "in_optimized_path", "dead_end", "all_tests_done"}
Stored == DOMAIN info
StatePtr == Stored \cup {NoState}
USHRT == 65536                 \* num_active_children is an unsigned short

Info == [parent : StatePtr, depth : Nat, visited : SUBSET Flags,
         num_active_children : 0..(USHRT - 1)]
Level == [state : Stored, test : Nat, rest : SUBSET Stored]

TypeOK ==
    /\ state_copy \in Deals
    /\ options \in Options
    /\ Stored \subseteq States
    /\ info \in [Stored -> Info]
    /\ scan_visited \in [SoftThreads -> SUBSET Stored]
    /\ soft_dfs_info \in [Scans -> Seq(Level)]
    /\ queue \in [SoftThreads -> Seq(Stored)]
    /\ ptr_state \in [SoftThreads -> StatePtr]
    /\ st_idx \in Scans
    /\ ht_max \in Nat
    /\ prelude_idx \in 0..Len(Prelude)
    /\ finished \subseteq Scans
    /\ num_checked_states \in Nat
    /\ max_num_checked_states \in Nat
    /\ optimizing \in BOOLEAN
    /\ final_state \in StatePtr
    /\ ret \in {"none", "suspended", "solved", "unsolvable"}
    /\ pc \in {"switch", "scan", "derive", "returned", "trace", "stopped"}
    /\ todo \subseteq States
    /\ reparented \in StatePtr
    /\ mark_at \in StatePtr
    /\ trace_at \in StatePtr

-----------------------------------------------------------------------------
\* The move functions of a scan, of all scans (total_move_funcs_bitmask), and
\* what init_instance() calls a complete scan: one that has all of them.
MovesOf(s) == UNION {Tests[s][i] : i \in DOMAIN Tests[s]}
AllMoves == UNION {MovesOf(s) : s \in Scans}
Complete(s) == s = Opt \/ MovesOf(s) = AllMoves

Derived(k, fs) == UNION {Moves[f][k] : f \in fs}

\* One position derives fewer others than num_active_children can count.
ASSUME FewChildrenAssumption ==
    \A k \in States : Cardinality(Derived(k, AllMoves)) < USHRT

Synergy == "synergy" \in options
Reparent == "reparent" \in options \/ optimizing
Current == IF optimizing THEN Opt ELSE st_idx
IsDfs(s) == s # Opt /\ Method[s] = "dfs"
Dead(k) == "dead_end" \in info[k].visited
Tested(k) == "all_tests_done" \in info[k].visited

NewLevel(k) == [state |-> k, test |-> 0, rest |-> {}]
Deepest(s) == Len(soft_dfs_info[s])
Top(s) == soft_dfs_info[s][Deepest(s)]

NewInfo(p, d) == [parent |-> p, depth |-> d, visited |-> {},
                  num_active_children |-> 0]

\* Mutant of NextTurn: after the prelude the turn never passes on.
NextTurnStays ==
    IF prelude_idx < Len(Prelude) THEN Prelude[prelude_idx + 1]
    ELSE [scan |-> st_idx, quota |-> Step[st_idx]]

\* set_next_prelude_item() while the prelude lasts, round robin from then on.
NextTurn ==
    IF prelude_idx < Len(Prelude) THEN Prelude[prelude_idx + 1]
    ELSE LET s == (st_idx % NumScans) + 1 IN [scan |-> s, quota |-> Step[s]]

SwitchToNextSoftThread ==
    /\ st_idx' = NextTurn.scan
    /\ ht_max' = num_checked_states + NextTurn.quota
    /\ prelude_idx' = IF prelude_idx < Len(Prelude) THEN prelude_idx + 1
                      ELSE prelude_idx

Init ==
    /\ state_copy \in Deals
    /\ options \in Options
    /\ info = [k \in {state_copy} |-> NewInfo(NoState, 0)]
    /\ scan_visited = [s \in SoftThreads |-> {}]
    /\ soft_dfs_info = [s \in Scans |-> <<NewLevel(state_copy)>>]
    /\ queue = [s \in SoftThreads |-> <<>>]
    /\ ptr_state = [s \in SoftThreads |-> state_copy]
    /\ st_idx = IF Prelude = <<>> THEN 1 ELSE Prelude[1].scan
    /\ ht_max = IF Prelude = <<>> THEN Step[1] ELSE Prelude[1].quota
    /\ prelude_idx = IF Prelude = <<>> THEN 0 ELSE 1
    /\ finished = {}
    /\ num_checked_states = 0
    /\ max_num_checked_states \in IterLimits
    /\ optimizing = FALSE
    /\ final_state = NoState
    /\ ret = "none"
    /\ pc = "switch"
    /\ todo = {}
    /\ reparented = NoState
    /\ mark_at = NoState
    /\ trace_at = NoState

-----------------------------------------------------------------------------
\* mark_as_dead_end__proto(): the flag of the state, and then one turn of the
\* loop over its ancestors.  --num_active_children wraps at zero.
WithFlag(i, k, flag) == [i EXCEPT ![k].visited = @ \cup {flag}]
OneChildLessUnwrapped(i, k) ==                    \* mutant of OneChildLess
    [i EXCEPT ![k].num_active_children = @ - 1]
OneChildLess(i, k) ==
    [i EXCEPT ![k].num_active_children = (@ + USHRT - 1) % USHRT]
OneChildMore(i, k) ==
    [i EXCEPT ![k].num_active_children = (@ + 1) % USHRT]

MarkAsDeadEnd(i, k) ==
    IF Synergy THEN /\ info' = WithFlag(i, k, "dead_end")
                    /\ mark_at' = i[k].parent
    ELSE info' = i /\ UNCHANGED mark_at

\* Mutants of MarkParent: only the parent hears of the dead end; an ancestor
\* with live children is marked.
MarkParentOnly ==
    /\ mark_at # NoState
    /\ LET i == OneChildLess(info, mark_at)
           all_dead == i[mark_at].num_active_children = 0 /\ Tested(mark_at)
       IN  info' = IF all_dead THEN WithFlag(i, mark_at, "dead_end") ELSE i
    /\ mark_at' = NoState
    /\ UNCHANGED <<fixedVars, scan_visited, scanVars, hardVars, limitVars,
                   optimizing, final_state, ret, pc, todo, reparented, trace_at>>

MarkParentUncounted ==
    /\ mark_at # NoState
    /\ LET i == OneChildLess(info, mark_at)
       IN  /\ info' = IF Tested(mark_at) THEN WithFlag(i, mark_at, "dead_end") ELSE i
           /\ mark_at' = IF Tested(mark_at) THEN i[mark_at].parent ELSE NoState
    /\ UNCHANGED <<fixedVars, scan_visited, scanVars, hardVars, limitVars,
                   optimizing, final_state, ret, pc, todo, reparented, trace_at>>

MarkParent ==
    /\ mark_at # NoState
    /\ LET i == OneChildLess(info, mark_at)
           all_dead == i[mark_at].num_active_children = 0 /\ Tested(mark_at)
       IN  /\ info' = IF all_dead THEN WithFlag(i, mark_at, "dead_end") ELSE i
           /\ mark_at' = IF all_dead THEN i[mark_at].parent ELSE NoState
    /\ UNCHANGED <<fixedVars, scan_visited, scanVars, hardVars, limitVars,
                   optimizing, final_state, ret, pc, todo, reparented, trace_at>>

\* No function called by the loop that pc names is under way.
At(where) == pc = where /\ mark_at = NoState /\ reparented = NoState

-----------------------------------------------------------------------------
\* check_and_add_state() and sfs_check_state_end() for one derived state x of
\* the state k that the current scan expands.  x goes on the derived list in
\* any case.
Expanded == IF IsDfs(Current) THEN Top(Current).state ELSE ptr_state[Current]

ListDerived(x) ==
    IF IsDfs(Current)
    THEN /\ soft_dfs_info' =
               [soft_dfs_info EXCEPT ![Current][Deepest(Current)].rest = @ \cup {x}]
         /\ UNCHANGED queue
    ELSE /\ queue' = [queue EXCEPT ![Current] = Append(@, x)]
         /\ UNCHANGED soft_dfs_info

CanReparentAnyDepth(x, k) == Reparent /\ x # state_copy   \* mutant of CanReparent
CanReparent(x, k) == Reparent /\ info[x].depth > info[k].depth + 1

AddNewState(x) ==
    /\ At("derive") /\ x \in todo /\ x \notin Stored
    /\ LET k == Expanded
           i == OneChildMore(info, k)
       IN  info' = [j \in Stored \cup {x} |->
                       IF j = x THEN NewInfo(k, info[k].depth + 1) ELSE i[j]]
    /\ todo' = todo \ {x}
    /\ ListDerived(x)
    /\ UNCHANGED <<fixedVars, scan_visited, ptr_state, hardVars, limitVars,
                   optimizing, final_state, ret, pc, reparented, mark_at, trace_at>>

KnownState(x) ==
    /\ At("derive") /\ x \in todo /\ x \in Stored
    /\ ~CanReparent(x, Expanded)
    /\ todo' = todo \ {x}
    /\ ListDerived(x)
    /\ UNCHANGED <<fixedVars, info, scan_visited, ptr_state, hardVars, limitVars,
                   optimizing, final_state, ret, pc, reparented, mark_at, trace_at>>

\* Re-parenting, up to and with the old parent's side.
LeaveOldParent(x) ==
    /\ At("derive") /\ x \in todo /\ x \in Stored
    /\ CanReparent(x, Expanded)
    /\ LET p == info[x].parent
           i == OneChildLess(info, p)
       IN  IF Dead(x) THEN UNCHANGED <<info, mark_at>>
           ELSE IF i[p].num_active_children = 0 THEN MarkAsDeadEnd(i, p)
           ELSE info' = i /\ UNCHANGED mark_at
    /\ reparented' = x
    /\ todo' = todo \ {x}
    /\ ListDerived(x)
    /\ UNCHANGED <<fixedVars, scan_visited, ptr_state, hardVars, limitVars,
                   optimizing, final_state, ret, pc, trace_at>>

\* ... and the new parent's, once the ancestors of the old one were marked (x
\* itself is not among them: its depth is larger than theirs).
JoinNewParent ==
    /\ mark_at = NoState /\ reparented # NoState
    /\ LET k == Expanded
           i == IF Dead(reparented) THEN info ELSE OneChildMore(info, k)
       IN  info' = [i EXCEPT ![reparented].parent = k,
                             ![reparented].depth = info[k].depth + 1]
    /\ reparented' = NoState
    /\ UNCHANGED <<fixedVars, scan_visited, scanVars, hardVars, limitVars,
                   optimizing, final_state, ret, pc, todo, mark_at, trace_at>>
-----------------------------------------------------------------------------
\* What the scans share: check_if_limits_exceeded(), and how they return.
LimitsExceededLate(num) ==                       \* mutant of LimitsExceeded
    \/ ~optimizing /\ num > ht_max
    \/ num > max_num_checked_states
    \/ Cardinality(Stored) > MaxStates

LimitsExceeded(num) ==
    \/ ~optimizing /\ num >= ht_max
    \/ num >= max_num_checked_states
    \/ Cardinality(Stored) >= MaxStates

Return(code, state) ==
    /\ ret' = code
    /\ final_state' = state
    /\ pc' = "returned"

Scanning(s) == At("scan") /\ s = Current

\* dfs_solve().  rest holds the derived states of the last batch of moves that
\* may still be entered: those that are dead ends or that the scan has visited
\* stay so, and are passed over.
Enterable(s) == {x \in Top(s).rest : ~Dead(x) /\ x \notin scan_visited[s]}

DfsEnter(s, x) ==
    /\ Scanning(s) /\ IsDfs(s)
    /\ x \in Enterable(s)
    /\ num_checked_states' = num_checked_states + 1
    /\ scan_visited' = [scan_visited EXCEPT ![s] = @ \cup {x}]
    /\ soft_dfs_info' = [soft_dfs_info EXCEPT ![s] = Append(@, NewLevel(x))]
    /\ IF LimitsExceeded(num_checked_states')
       THEN Return("suspended", x)
       ELSE UNCHANGED <<ret, final_state, pc>>
    /\ UNCHANGED <<fixedVars, info, queue, ptr_state, hardVars,
                   max_num_checked_states, optimizing, localVars>>

DfsSolved(s) ==
    /\ Scanning(s) /\ IsDfs(s)
    /\ Top(s).state = Solved /\ Top(s).test = 0 /\ Tests[s] # <<>>
    /\ num_checked_states' = num_checked_states + 1
    /\ Return("solved", Solved)
    /\ UNCHANGED <<fixedVars, info, scan_visited, scanVars, hardVars,
                   max_num_checked_states, optimizing, localVars>>

DfsRunMoves(s) ==
    /\ Scanning(s) /\ IsDfs(s)
    /\ Enterable(s) = {}
    /\ Top(s).test < Len(Tests[s])
    /\ Top(s).test = 0 => Top(s).state # Solved
    /\ todo' = Derived(Top(s).state, Tests[s][Top(s).test + 1])
    /\ soft_dfs_info' = [soft_dfs_info EXCEPT ![s][Deepest(s)].test = @ + 1,
                                               ![s][Deepest(s)].rest = {}]
    /\ pc' = "derive"
    /\ UNCHANGED <<fixedVars, info, scan_visited, queue, ptr_state, hardVars,
                   limitVars, optimizing, final_state, ret, reparented, mark_at, trace_at>>

DfsBacktrack(s) ==
    /\ Scanning(s) /\ IsDfs(s)
    /\ Enterable(s) = {}
    /\ Top(s).test = Len(Tests[s])
    /\ LET k == Top(s).state IN
       IF Complete(s) THEN MarkAsDeadEnd(WithFlag(info, k, "all_tests_done"), k)
       ELSE UNCHANGED <<info, mark_at>>
    /\ soft_dfs_info' =
          [soft_dfs_info EXCEPT ![s] = SubSeq(@, 1, Len(@) - 1)]
    /\ IF Len(soft_dfs_info[s]) > 1
       THEN UNCHANGED <<num_checked_states, ret, pc>>
       ELSE /\ num_checked_states' = num_checked_states + 1
            /\ ret' = "unsolvable"
            /\ pc' = "returned"
    /\ UNCHANGED <<fixedVars, scan_visited, queue, ptr_state, hardVars,
                   max_num_checked_states, optimizing, final_state, todo,
                   reparented, trace_at>>

-----------------------------------------------------------------------------
\* fc_solve_befs_or_bfs_do_solve().  Taking the next state: the head of a BFS
\* queue, and any element of a priority queue.
TakeNext(s) ==
    IF queue[s] = <<>>
    THEN ptr_state' = [ptr_state EXCEPT ![s] = NoState] /\ UNCHANGED queue
    ELSE \E i \in DOMAIN queue[s] :
            /\ s = Opt \/ Method[s] = "brfs" => i = 1
            /\ ptr_state' = [ptr_state EXCEPT ![s] = queue[s][i]]
            /\ queue' = [queue EXCEPT ![s] =
                  SubSeq(@, 1, i - 1) \o SubSeq(@, i + 1, Len(@))]

\* Mutant of PassOver: the optimization scan leaves the solution path.
PassOverVisited(s, k) ==
    IF optimizing THEN "in_optimized_path" \in info[k].visited
    ELSE Dead(k) \/ k \in scan_visited[s]

\* States that the scan has no business with: in the optimization scan those
\* off the solution path and those already done, else the dead ends and those
\* this scan has visited.
PassOver(s, k) ==
    IF optimizing THEN \/ "in_solution_path" \notin info[k].visited
                       \/ "in_optimized_path" \in info[k].visited
    ELSE Dead(k) \/ k \in scan_visited[s]

Holding(s) == Scanning(s) /\ ~IsDfs(s) /\ ptr_state[s] # NoState

BefsPassOver(s) ==
    /\ Holding(s) /\ PassOver(s, ptr_state[s])
    /\ TakeNext(s)
    /\ UNCHANGED <<fixedVars, info, scan_visited, soft_dfs_info, hardVars, limitVars,
                   optimizing, final_state, ret, pc, localVars>>

BefsSuspend(s) ==
    /\ Holding(s) /\ ~PassOver(s, ptr_state[s])
    /\ LimitsExceeded(num_checked_states)
    /\ Return("suspended", ptr_state[s])
    /\ UNCHANGED <<fixedVars, info, scan_visited, scanVars, hardVars, limitVars,
                   optimizing, localVars>>

BefsSolved(s) ==
    /\ Holding(s) /\ ~PassOver(s, ptr_state[s])
    /\ ~LimitsExceeded(num_checked_states)
    /\ ptr_state[s] = Solved
    /\ num_checked_states' = num_checked_states + 1
    /\ Return("solved", Solved)
    /\ UNCHANGED <<fixedVars, info, scan_visited, scanVars, hardVars,
                   max_num_checked_states, optimizing, localVars>>

BefsPerformMoves(s) ==
    /\ Holding(s) /\ ~PassOver(s, ptr_state[s])
    /\ ~LimitsExceeded(num_checked_states)
    /\ ptr_state[s] # Solved
    /\ todo' = Derived(ptr_state[s], IF s = Opt THEN AllMoves ELSE MovesOf(s))
    /\ pc' = "derive"
    /\ UNCHANGED <<fixedVars, info, scan_visited, scanVars, hardVars, limitVars,
                   optimizing, final_state, ret, reparented, mark_at, trace_at>>

\* The rest of the loop body, from the last move function on.
BefsExpanded(s) ==
    /\ At("derive") /\ s = Current /\ ~IsDfs(s) /\ todo = {}
    /\ LET k == ptr_state[s]
           i == IF Complete(s) THEN WithFlag(info, k, "all_tests_done") ELSE info
           none == Derived(k, IF s = Opt THEN AllMoves ELSE MovesOf(s)) = {}
       IN  IF optimizing
           THEN /\ info' = WithFlag(i, k, "in_optimized_path")
                /\ UNCHANGED <<scan_visited, mark_at>>
           ELSE /\ scan_visited' = [scan_visited EXCEPT ![s] = @ \cup {k}]
                /\ IF none /\ Complete(s) THEN MarkAsDeadEnd(i, k)
                   ELSE info' = i /\ UNCHANGED mark_at
    /\ num_checked_states' = num_checked_states + 1
    /\ TakeNext(s)
    /\ pc' = "scan"
    /\ UNCHANGED <<fixedVars, soft_dfs_info, hardVars, max_num_checked_states,
                   optimizing, final_state, ret, todo, reparented, trace_at>>

DfsDerived(s) ==
    /\ At("derive") /\ s = Current /\ IsDfs(s) /\ todo = {}
    /\ pc' = "scan"
    /\ UNCHANGED <<fixedVars, info, scan_visited, scanVars, hardVars, limitVars,
                   optimizing, final_state, ret, localVars>>

BefsExhausted(s) ==
    /\ Scanning(s) /\ ~IsDfs(s) /\ ptr_state[s] = NoState
    /\ Return("unsolvable", NoState)
    /\ UNCHANGED <<fixedVars, info, scan_visited, scanVars, hardVars, limitVars,
                   optimizing, localVars>>

-----------------------------------------------------------------------------
\* run_hard_thread() and resume_instance().
SkipFinished ==
    /\ At("switch") /\ st_idx \in finished
    /\ SwitchToNextSoftThread
    /\ UNCHANGED <<fixedVars, info, scan_visited, scanVars, finished, limitVars,
                   optimizing, final_state, ret, pc, localVars>>

RunScan ==
    /\ At("switch") /\ st_idx \notin finished
    /\ scan_visited' =
          IF IsDfs(st_idx)
          THEN [scan_visited EXCEPT ![st_idx] = @ \cup {Top(st_idx).state}]
          ELSE scan_visited
    /\ pc' = "scan"
    /\ UNCHANGED <<fixedVars, info, scanVars, hardVars, limitVars, optimizing,
                   final_state, ret, localVars>>

\* Mutant of InstanceRet, the bug of NEWS.asciidoc: any complete scan that
\* comes to its end settles the verdict.
InstanceRetAnyComplete(done) ==
    IF ret = "solved" THEN "solved"
    ELSE IF done = Scans \/ (ret = "unsolvable" /\ Complete(st_idx))
         THEN "unsolvable"
    ELSE IF \/ num_checked_states >= max_num_checked_states
            \/ Cardinality(Stored) >= MaxStates
         THEN "suspended"
    ELSE "none"

\* The return code of the instance once the current scan returned ret, or
\* "none" if the hard thread goes on.
InstanceRet(done) ==
    IF ret = "solved" THEN "solved"
    ELSE IF \/ done = Scans
            \/ ret = "unsolvable" /\ Complete(st_idx) /\ ~Synergy
         THEN "unsolvable"
    ELSE IF \/ num_checked_states >= max_num_checked_states
            \/ Cardinality(Stored) >= MaxStates
         THEN "suspended"
    ELSE "none"

ScanReturned ==
    /\ At("returned") /\ ~optimizing
    /\ finished' = IF ret = "unsolvable" THEN finished \cup {st_idx} ELSE finished
    /\ IF num_checked_states >= ht_max THEN SwitchToNextSoftThread
       ELSE UNCHANGED <<st_idx, ht_max, prelude_idx>>
    /\ ret' = InstanceRet(finished')
    /\ pc' = IF ret' = "none" THEN "switch"
             ELSE IF ret' = "solved" /\ "optimize" \in options THEN "trace"
             ELSE "stopped"
    /\ trace_at' = IF pc' = "trace" THEN final_state ELSE NoState
    /\ UNCHANGED <<fixedVars, info, scan_visited, scanVars, limitVars, optimizing,
                   final_state, todo, reparented, mark_at>>

\* Mutant of TraceSolution: the loop ends at the deal before it is flagged.
TraceSolutionBelowStart ==
    /\ At("trace") /\ trace_at # NoState
    /\ info' = IF info[trace_at].parent = NoState THEN info
               ELSE WithFlag(info, trace_at, "in_solution_path")
    /\ trace_at' = info[trace_at].parent
    /\ UNCHANGED <<fixedVars, scan_visited, scanVars, hardVars, limitVars,
                   optimizing, final_state, ret, pc, todo, reparented, mark_at>>

\* optimize_solution(): fc_solve_trace_solution() flags the states from
\* final_state up to the deal, one a turn.
TraceSolution ==
    /\ At("trace") /\ trace_at # NoState
    /\ info' = WithFlag(info, trace_at, "in_solution_path")
    /\ trace_at' = info[trace_at].parent
    /\ UNCHANGED <<fixedVars, scan_visited, scanVars, hardVars, limitVars,
                   optimizing, final_state, ret, pc, todo, reparented, mark_at>>

StartOptimizing ==
    /\ At("trace") /\ trace_at = NoState
    /\ optimizing' = TRUE
    /\ ret' = "none"
    /\ pc' = "scan"
    /\ UNCHANGED <<fixedVars, info, scan_visited, scanVars, hardVars, limitVars,
                   final_state, localVars>>

OptimizationReturned ==
    /\ At("returned") /\ optimizing
    /\ pc' = "stopped"
    /\ UNCHANGED <<fixedVars, info, scan_visited, scanVars, hardVars, limitVars,
                   optimizing, final_state, ret, localVars>>

\* The user resumes a suspended instance with a larger limit.
Resume ==
    /\ pc = "stopped" /\ ret = "suspended"
    /\ \E limit \in IterLimits : /\ limit > num_checked_states
                                  /\ max_num_checked_states' = limit
    /\ pc' = IF optimizing THEN "scan" ELSE "switch"
    /\ ret' = "none"
    /\ UNCHANGED <<fixedVars, info, scan_visited, scanVars, hardVars,
                   num_checked_states, optimizing, final_state, localVars>>

Stopped == pc = "stopped" /\ UNCHANGED vars

-----------------------------------------------------------------------------
CheckState(x) == AddNewState(x) \/ KnownState(x) \/ LeaveOldParent(x)

DfsStep(s) ==
    \/ \E x \in Enterable(s) : DfsEnter(s, x)
    \/ DfsSolved(s) \/ DfsRunMoves(s) \/ DfsBacktrack(s) \/ DfsDerived(s)

BefsStep(s) ==
    \/ BefsPassOver(s) \/ BefsSuspend(s) \/ BefsSolved(s)
    \/ BefsPerformMoves(s) \/ BefsExpanded(s) \/ BefsExhausted(s)

Solve ==
    \/ MarkParent \/ JoinNewParent
    \/ \E x \in todo : CheckState(x)
    \/ \E s \in {t \in Scans : Method[t] = "dfs" /\ soft_dfs_info[t] # <<>>} : DfsStep(s)
    \/ \E s \in SoftThreads : BefsStep(s)
    \/ SkipFinished \/ RunScan \/ ScanReturned
    \/ TraceSolution \/ StartOptimizing \/ OptimizationReturned

Next == Solve \/ Resume \/ Stopped

Spec == Init /\ [][Next]_vars
FairSpec == Spec /\ WF_vars(Solve)

-----------------------------------------------------------------------------
Reachable ==
    LET within[n \in 0..Cardinality(States)] ==
            IF n = 0 THEN {state_copy}
            ELSE within[n - 1] \cup UNION {Derived(k, AllMoves) : k \in within[n - 1]}
    IN within[Cardinality(States)]

\* "Unsolvable" is only said, if some scan has all the moves, of a deal from
\* which the solved position cannot be reached, whatever the scans, their
\* quotas and the dead ends they hide from each other.
VerdictSound ==
    pc = "stopped" /\ ret = "unsolvable" /\ (\E s \in Scans : Complete(s)) =>
        Solved \notin Reachable

\* The parent of a state derives it and is nearer to the deal by the recorded
\* depths: the trace of a solution is a path of moves from the deal, and ends.
ParentsDerive ==
    \A k \in Stored :
        IF k = state_copy THEN info[k].parent = NoState
        ELSE /\ info[k].parent \in Stored
             /\ k \in Derived(info[k].parent, AllMoves)
             /\ info[info[k].parent].depth < info[k].depth

\* A scan never runs over its quota, nor the instance over its limit, and no
\* count leaves its range (TypeOK): that of the active children is 16 bits wide.
QuotaRespected ==
    /\ TypeOK
    /\ num_checked_states <= max_num_checked_states
    /\ ~optimizing => num_checked_states <= ht_max

\* Once solved, always solved: the optimization scan is suspended or reaches
\* the solved position again.
SolvedStaysSolved == optimizing => ret # "unsolvable"

\* The number of moves from the deal to k along the parents.
Up(k) ==
    LET up[n \in 0..Cardinality(Stored)] ==
            IF n = 0 THEN k
            ELSE IF up[n - 1] = NoState THEN NoState ELSE info[up[n - 1]].parent
    IN  up
PathLength(k) == CHOOSE n \in 0..Cardinality(Stored) : Up(k)[n] = state_copy

\* The optimization scan ends with a solution that runs through states of the
\* first one and is no longer than it.
SolutionPath == {k \in Stored : "in_solution_path" \in info[k].visited}

OptimizedNotLonger ==
    pc = "stopped" /\ optimizing /\ ret = "solved" =>
        /\ final_state = Solved
        /\ \A n \in 0..PathLength(Solved) : Up(Solved)[n] \in SolutionPath
        /\ PathLength(Solved) < Cardinality(SolutionPath)

Children(k) == {c \in Stored : info[c].parent = k}

\* state.h: num_active_children is the number of direct children of a state
\* which were not yet declared as dead ends.
ActiveChildrenExact ==
    mark_at = NoState /\ reparented = NoState =>
        \A k \in Stored :
            info[k].num_active_children = Cardinality({c \in Children(k) : ~Dead(c)})

\* USAGE: dead ends are states that a scan has withdrawn from, and states all
\* of whose derived states are such.  No live child hangs below a dead end.
DeadEndsClosed ==
    mark_at = NoState /\ reparented = NoState =>
        \A k \in Stored : Dead(k) => \A c \in Children(k) : Dead(c)

\* Nothing goes on forever: the instance stops.
Settles == <>(pc = "stopped")
=============================================================================
