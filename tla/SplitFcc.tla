------------------------------ MODULE SplitFcc ------------------------------
(***************************************************************************)
(* The search by fully connected components: split_fcc_solver.c traverses  *)
(* one component by reversible moves and writes where irreversible ones    *)
(* lead; SplitFcc.pm starts it, sorts its output by component and merges   *)
(* that into their input files; the loop of split-fcc--all-in-one.bash     *)
(* does so for each component, by depth.  Files outlive a program that is  *)
(* killed.                                                                 *)
(*                                                                         *)
(* The depth of an entry point is the length of its moves, of which there  *)
(* is one part for each component that was left, and depth counts those.   *)
(***************************************************************************)
EXTENDS Integers, FiniteSets, FiniteSetsExt

CONSTANTS
    Layouts,          \* positions, as encoded states
    FirstLayout, WonLayout,
    Derives,          \* of each position, those derived from it
    Fingerprint,      \* of each position, which of the irreversible moves were made
    FccDepth,         \* _calc_fingerprint_depth(): how many those are
    Workers,          \* the threads of the solver
    KilledIn,         \* bound: the stages in which the programs may be killed,
                      \* "writing" among them for the files of ./by
    MaxKills          \* bound: and how often

Fingerprints == {Fingerprint[k] : k \in Layouts}

ASSUME SplitAssumption ==
    /\ FirstLayout \in Layouts /\ WonLayout \in Layouts
    /\ Derives \in [Layouts -> SUBSET Layouts]
    /\ \A k \in Layouts : \A j \in Derives[k] :
          Fingerprint[j] = Fingerprint[k] \/ FccDepth[Fingerprint[j]] > FccDepth[Fingerprint[k]]
    /\ KilledIn \subseteq {"solving", "sorting", "merging", "writing"}
    /\ IsFiniteSet(Layouts) /\ IsFiniteSet(Workers) /\ Workers # {}
    /\ FccDepth \in [Fingerprints -> Nat]
    /\ "none" \notin Fingerprints

VARIABLES
    \* in files
    input,        \* of each component, the entry points in its newest input.txtish
    finished,     \* the components with a FINISHED.stamp
    exits,        \* the lines of exits.1
    by_fingerprint, \* the lines sorted by component
    by,           \* the lines in the directory ./by
    success,      \* the components for which the solver said so
    \* of the programs
    stage,        \* "idle", "solving", "sorting" or "merging"
    fcc,          \* the component being searched
    coll,         \* of the solver: queue, store, in_flight (queue_num_extracted_...)
                  \* and should_terminate
    thread,       \* of each thread: pc, item, held (has it taken one before),
                  \* derived (what is left of its list) and seen
    storage_lock, \* the thread that holds it
    renamed,      \* of the driver: the component whose new input has its name
    kills
splitFiles == <<input, finished, exits, by_fingerprint, by, success>>
solverVars == <<coll, thread, storage_lock>>
splitVars == <<splitFiles, stage, fcc, solverVars, renamed, kills>>

Nowhere == "none"
NoItem == [key |-> FirstLayout, ancestor |-> 0, depth |-> -1]
FccLine(k, d) == [state |-> k, depth |-> d]
Depths(lines) == {l.depth : l \in lines}

IdleWorkers ==
    [t \in Workers |-> [pc |-> "done", item |-> NoItem, held |-> FALSE, derived |-> {}, seen |-> 0]]
NoSolver ==
    /\ coll' = [queue |-> {}, store |-> {}, in_flight |-> 0, terminate |-> FALSE]
    /\ thread' = IdleWorkers /\ storage_lock' = Nowhere

SplitInit ==
    /\ input = [f \in Fingerprints |->
                  IF f = Fingerprint[FirstLayout] THEN {FccLine(FirstLayout, 0)} ELSE {}]
    /\ finished = {} /\ exits = {} /\ by = {} /\ success = {}
    /\ by_fingerprint = [f \in Fingerprints |-> {}]
    /\ stage = "idle" /\ fcc = Fingerprint[FirstLayout] /\ kills = 0 /\ renamed = Nowhere
    /\ coll = [queue |-> {}, store |-> {}, in_flight |-> 0, terminate |-> FALSE]
    /\ thread = IdleWorkers /\ storage_lock = Nowhere

-----------------------------------------------------------------------------
\* The loop over depths and what is active at each, and driver() as far as it
\* starts the solver, which reads the entry points: they are queued and not stored.
Pending == {f \in Fingerprints \ finished : input[f] # {}}
StartFcc ==
    /\ stage = "idle"
    /\ \E f \in Pending :
          /\ \A g \in Pending : FccDepth[f] <= FccDepth[g]
          /\ fcc' = f
          /\ coll' = [queue |-> {[key |-> l.state, ancestor |-> l.depth, depth |-> l.depth]
                                 : l \in input[f]},
                      store |-> {}, in_flight |-> 0, terminate |-> FALSE]
    /\ thread' = [t \in Workers |-> [IdleWorkers[t] EXCEPT !.pc = "take"]]
    /\ exits' = {}
    /\ stage' = "solving"
    /\ UNCHANGED <<input, finished, by_fingerprint, by, success, storage_lock, renamed, kills>>

\* Mutant: an item that a thread is done with is not returned.
LeftInFlightKept(t) == coll.in_flight
\* queue_num_extracted_and_processed without the item that the thread is done with.
LeftInFlight(t) == coll.in_flight - (IF thread[t].held THEN 1 ELSE 0)

\* Under global_lock: the item before is returned, and one of those that are least
\* deep is taken.
Take(t) ==
    /\ thread[t].pc = "take"
    /\ LET left == LeftInFlight(t)
       IN \/ /\ coll.terminate
             /\ coll' = [coll EXCEPT !.in_flight = left]
             /\ thread' = [thread EXCEPT ![t].pc = "check", ![t].held = FALSE]
          \/ /\ ~coll.terminate /\ coll.queue = {}
             /\ coll' = [coll EXCEPT !.in_flight = left]
             /\ thread' = [thread EXCEPT ![t].pc = "check", ![t].item = NoItem,
                                         ![t].held = FALSE, ![t].seen = left]
          \/ /\ ~coll.terminate
             /\ \E i \in coll.queue :
                   /\ \A j \in coll.queue : i.depth <= j.depth
                   /\ coll' = [coll EXCEPT !.queue = @ \ {i}, !.in_flight = left + 1]
                   /\ thread' = [thread EXCEPT ![t].pc = "check", ![t].item = i,
                                               ![t].held = TRUE, ![t].seen = left + 1]
    /\ UNCHANGED <<splitFiles, stage, fcc, storage_lock, renamed, kills>>

\* should_terminate is read without the lock.
Check(t) ==
    /\ thread[t].pc = "check"
    /\ thread' = [thread EXCEPT ![t].pc =
          IF coll.terminate \/ thread[t].seen = 0 THEN "done"
          ELSE IF thread[t].item = NoItem THEN "take" ELSE "expand"]
    /\ UNCHANGED <<splitFiles, stage, fcc, coll, storage_lock, renamed, kills>>

\* fcs_dbm__found_solution(), or the derived list; one that is empty takes no lock.
Expand(t) ==
    /\ thread[t].pc = "expand"
    /\ LET k == thread[t].item.key
       IN IF k = WonLayout
          THEN /\ coll' = [coll EXCEPT !.terminate = TRUE]
               /\ success' = success \cup {fcc}
               /\ thread' = [thread EXCEPT ![t].pc = "done"]
               /\ UNCHANGED storage_lock
          ELSE /\ thread' = [thread EXCEPT
                     ![t].pc = IF Derives[k] = {} THEN "take" ELSE "insert",
                     ![t].derived = Derives[k]]
               /\ Derives[k] # {} => storage_lock = Nowhere
               /\ storage_lock' = IF Derives[k] = {} THEN storage_lock ELSE t
               /\ UNCHANGED <<coll, success>>
    /\ UNCHANGED <<input, finished, exits, by_fingerprint, by, stage, fcc, renamed, kills>>

\* instance_check_key() for one position of the list, under storage_lock: a new one
\* of this component is queued, and one of another is written with the moves that
\* led to the entry point it comes from.
CheckKey(t) ==
    /\ thread[t].pc = "insert"
    /\ \E k \in thread[t].derived :
          LET new == k \notin coll.store
              here == Fingerprint[k] = fcc
              it == thread[t].item
              rest == thread[t].derived \ {k}
          IN /\ coll' = IF ~new THEN coll
                        ELSE [coll EXCEPT
                           !.store = @ \cup {k},
                           !.queue = IF here
                              THEN @ \cup {[key |-> k, ancestor |-> it.ancestor, depth |-> it.depth + 1]}
                              ELSE @]
             /\ exits' = IF new /\ ~here THEN exits \cup {FccLine(k, it.ancestor + 1)} ELSE exits
             /\ thread' = [thread EXCEPT ![t].derived = rest,
                                         ![t].pc = IF rest = {} THEN "take" ELSE "insert"]
             /\ storage_lock' = IF rest = {} THEN Nowhere ELSE t
    /\ UNCHANGED <<input, finished, by_fingerprint, by, success, stage, fcc, renamed, kills>>

WorkerStep(t) == Take(t) \/ Check(t) \/ Expand(t) \/ CheckKey(t)

\* The threads are joined, and exits.1.temp becomes exits.1.
Joined ==
    /\ stage = "solving" /\ \A t \in Workers : thread[t].pc = "done"
    /\ stage' = "sorting"
    /\ NoSolver
    /\ UNCHANGED <<splitFiles, fcc, renamed, kills>>

-----------------------------------------------------------------------------
\* Each line is appended to the file of its component.
Sort ==
    /\ stage = "sorting"
    /\ by_fingerprint' = [f \in Fingerprints |->
                            by_fingerprint[f] \cup {l \in exits : Fingerprint[l.state] = f}]
    /\ stage' = "merging"
    /\ UNCHANGED <<input, finished, exits, by, success, fcc, solverVars, renamed, kills>>

\* %l: the least depth of each state.
LeastDeep(lines) == {l \in lines : \A m \in lines : m.state = l.state => l.depth <= m.depth}

\* The lines that the merging of new ones into an existing file keeps: of the old
\* ones those that have no new line of less depth; of the new ones, those without an
\* old line that is not deeper which are written when a deeper old line comes up, or
\* after the last one if max_depth is beyond it.
Kept(old, new) ==
    {l \in old : \A m \in new : m.state = l.state => m.depth >= l.depth}

\* Mutant: what is written after the last line is forgotten.
MergedShallow(old, new, max_depth) ==
    Kept(old, new) \cup {l \in new : l.depth < Max(Depths(old))}
Merged(old, new, max_depth) ==
    LET left == {l \in new : \A m \in old : m.state = l.state => m.depth > l.depth}
        last_depth == Max(Depths(old))
    IN Kept(old, new) \cup {l \in left : l.depth < last_depth}
          \cup (IF last_depth < max_depth THEN {l \in left : l.depth >= last_depth} ELSE {})

\* The new input file of a component, of what is left in ./by as well; it is written
\* under another name, which is changed when it is complete.
Merge ==
    /\ stage = "merging" /\ renamed = Nowhere
    /\ \E f \in Fingerprints :
          LET new == LeastDeep(by_fingerprint[f])
          IN /\ by_fingerprint[f] # {}
             /\ \/ /\ input[f] = {}
                   /\ input' = [input EXCEPT ![f] = new]
                   /\ UNCHANGED by
                \/ /\ input[f] # {}
                   /\ \E max_depth \in Depths(by_fingerprint[f]) :
                         /\ max_depth >= Max(Depths(new))
                         /\ input' = [input EXCEPT ![f] = by \cup Merged(@, new, max_depth)]
                   /\ by' = {}
             /\ renamed' = f
    /\ UNCHANGED <<finished, exits, by_fingerprint, success, stage, fcc, solverVars, kills>>
Unlink ==
    /\ stage = "merging" /\ renamed # Nowhere
    /\ by_fingerprint' = [by_fingerprint EXCEPT ![renamed] = {}]
    /\ renamed' = Nowhere
    /\ UNCHANGED <<input, finished, exits, by, success, stage, fcc, solverVars, kills>>

FinishFcc ==
    /\ stage = "merging" /\ \A f \in Fingerprints : by_fingerprint[f] = {}
    /\ finished' = finished \cup {fcc}
    /\ stage' = "idle"
    /\ UNCHANGED <<input, exits, by_fingerprint, by, success, fcc, solverVars, renamed, kills>>

\* The driver and the solver are killed; the script is started again and comes to the
\* same component.
KillSplit ==
    /\ kills < MaxKills
    /\ \/ stage \in KilledIn /\ UNCHANGED by
       \/ /\ stage = "merging" /\ "writing" \in KilledIn /\ renamed = Nowhere
          /\ \E f \in Fingerprints :
                /\ by_fingerprint[f] # {} /\ input[f] # {}
                /\ by' = by \cup Merged(input[f], LeastDeep(by_fingerprint[f]),
                                        Max(Depths(by_fingerprint[f])))
    /\ kills' = kills + 1
    /\ stage' = "idle" /\ renamed' = Nowhere
    /\ NoSolver
    /\ UNCHANGED <<input, finished, exits, by_fingerprint, success, fcc>>

DriverStep == StartFcc \/ Joined \/ Sort \/ Merge \/ Unlink \/ FinishFcc
SplitNext == DriverStep \/ (\E t \in Workers : WorkerStep(t)) \/ KillSplit

-----------------------------------------------------------------------------
\* The positions of some components that moves lead to from ks without leaving them;
\* those of one, by its reversible moves; and all that the deal leads to.
Spread(ks, fs) ==
    LET more[n \in 0..Cardinality(Layouts)] ==
            IF n = 0 THEN ks
            ELSE more[n - 1] \cup {k \in UNION {Derives[j] : j \in more[n - 1]} : Fingerprint[k] \in fs}
    IN more[Cardinality(Layouts)]
Within(f, ks) == Spread(ks, {f})
AllReached == Spread({FirstLayout}, Fingerprints)

\* The planning document says "After the process ends all the outputs will be merged
\* and the new derived states will be calculated for the new fingerprints": once a
\* component is finished, whatever its threads did side by side and however often the
\* programs were killed, each position to which an irreversible move leads from it is
\* among the entry points of its own component.
ExitsArrive ==
    \A f \in finished \ success :
        LET inside == Within(f, {l.state : l \in input[f]})
        IN \A k \in UNION {Derives[j] : j \in inside} :
              Fingerprint[k] # f => \E l \in input[Fingerprint[k]] : l.state = k

\* And an input file holds positions of its component that the deal leads to, each
\* once, and none whose depth is more than the irreversible moves made; and when no
\* component is left and none was solved, the deal has no solution.
InputsBelong ==
    \A f \in Fingerprints : \A l \in input[f] :
        /\ Fingerprint[l.state] = f /\ l.state \in AllReached
        /\ l.depth <= FccDepth[f]
        /\ \A m \in input[f] : m.state = l.state => m = l
SearchedAll ==
    stage = "idle" /\ Pending = {} /\ success = {} => WonLayout \notin AllReached
SplitExact == ExitsArrive /\ InputsBelong /\ SearchedAll
=============================================================================
