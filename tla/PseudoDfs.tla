----------------------------- MODULE PseudoDfs -----------------------------
(***************************************************************************)
(* pseudo_dfs_atomic_moves_solver.c: a depth-first search that remembers   *)
(* only the positions listed on its stack, and in a cache some of those    *)
(* that it is done with.  From time to time it appends to a log the place  *)
(* that it has come to, as one number for each level of the stack, and     *)
(* when it is started again it goes on from the last line of the log.      *)
(***************************************************************************)
EXTENDS Integers, Sequences, SequencesExt, FiniteSets

CONSTANTS
    Spots,        \* positions, as encoded states
    Dealt,        \* the positions that may be dealt
    Derived,      \* of each position, those derived from it in the order of the list
    Won,          \* the solved position
    DeltaLimit,   \* delta_limit, the iterations between two lines of the log
    MaxRuns,      \* bound: how often the program is started
    CacheRoom     \* max_num_elements_in_cache

ASSUME SpotsAssumption ==
    /\ Dealt \subseteq Spots /\ Won \in Spots
    /\ Derived \in [Spots -> Seq(Spots)]
    /\ DeltaLimit \in Nat \ {0} /\ MaxRuns \in Nat \ {0}

\* With one place there would be no node above the one that is evicted; the program
\* has 70,000,000.
ASSUME CacheAssumption == CacheRoom \in Nat /\ CacheRoom >= 2

VARIABLES
    dealt,        \* init_key, of the board that all runs are given
    walk,         \* dbm_solver_instance: stack, store, cache, should_terminate, processed
    max_processed,\* max_count_num_processed
    pdfs,         \* "off", "running", or the message that was printed
    runs,
    log           \* the last line of the log as it will be read: coords and count,
                  \* whether its end was lost, and the stack it was written from
walkVars == <<dealt, walk, max_processed, pdfs, runs, log>>

Level(k, list) == [state |-> k, next_states |-> list, idx |-> 0]
Top(w) == Last(w.stack)
NoLog == [coords |-> << >>, count |-> 0, torn |-> FALSE, from |-> << >>]

-----------------------------------------------------------------------------
(***************************************************************************)
(* The cache of pseudo_dfs_cache.h: a map from keys to nodes, which are    *)
(* doubly linked from the lowest priority to the highest.  A node is the   *)
(* number of its place in the allocator's memory.  The cache of            *)
(* dbm_cache.h is the same algorithm, with moves beside each key.          *)
(***************************************************************************)
NoNode == 0

EmptyCache ==
    [map |-> << >>, node |-> << >>, lowest |-> NoNode, highest |-> NoNode]

DoesKeyExist(c, k) == k \in DOMAIN c.map

\* fcs_pdfs_cache_does_key_exist() for a key that does: its node goes to the top.
Promoted(c, k) ==
    LET n == c.map[k]
        lower == c.node[n].lower
        higher == c.node[n].higher
        \* the node is taken out of the list
        node1 == [c.node EXCEPT ![higher].lower = lower]
        node2 == IF lower # NoNode THEN [node1 EXCEPT ![lower].higher = higher] ELSE node1
        \* and put on top of it
        node3 == [node2 EXCEPT ![c.highest].higher = n]
    IN IF higher = NoNode THEN c
       ELSE [c EXCEPT
               !.node = [node3 EXCEPT ![n].lower = c.highest, ![n].higher = NoNode],
               !.lowest = IF lower = NoNode THEN higher ELSE @,
               !.highest = n]

\* The node that an insertion takes: a fresh one, or when the cache is full the
\* one of the lowest priority, whose key leaves the map.
Evicted(c) ==
    LET n == c.lowest
        next == c.node[n].higher
        gone == c.node[n].key
    IN [c EXCEPT !.map = [k \in DOMAIN @ \ {gone} |-> @[k]],
                 !.node[next].lower = NoNode,
                 !.lowest = next]

\* fcs_pdfs_cache_insert(): also for a key that the cache has.
Inserted(c, k) ==
    LET full == Len(c.node) >= CacheRoom
        room == IF full THEN Evicted(c) ELSE c
        n == IF full THEN c.lowest ELSE Len(c.node) + 1
        new == [key |-> k, lower |-> room.highest, higher |-> NoNode]
        node1 == IF full THEN [room.node EXCEPT ![n] = new] ELSE Append(room.node, new)
        node2 == IF room.highest # NoNode THEN [node1 EXCEPT ![room.highest].higher = n]
                 ELSE node1
    IN [map |-> [j \in DOMAIN room.map \cup {k} |-> IF j = k THEN n ELSE room.map[j]],
        node |-> node2,
        lowest |-> IF room.highest = NoNode THEN n ELSE room.lowest,
        highest |-> n]

\* The nodes from the lowest up, as far as the links lead.
Climbing(c) ==
    LET up[left \in 0..Len(c.node)] ==
            IF left = 0 THEN << >>
            ELSE LET below == up[left - 1]
                     next == IF below = << >> THEN c.lowest ELSE c.node[Last(below)].higher
                 IN IF next = NoNode THEN below ELSE Append(below, next)
    IN up[Len(c.node)]

\* Every node is in the list once, which reads the same downwards, and what the
\* map leads to is a node of that key.
ListExact(c) ==
    LET up == Climbing(c)
    IN /\ Len(up) = Len(c.node) /\ IsInjective(up)
       /\ Len(up) > 0 =>
             /\ c.highest = Last(up)
             /\ c.node[c.highest].higher = NoNode /\ c.node[c.lowest].lower = NoNode
       /\ \A i \in 2..Len(up) : c.node[up[i]].lower = up[i - 1]
       /\ \A k \in DOMAIN c.map : c.node[c.map[k]].key = k

-----------------------------------------------------------------------------
\* What a position adds to the store: its derived positions which are not
\* there, each once.
Unlisted(store, k) ==
    LET list[n \in 0..Len(Derived[k])] ==
            IF n = 0 THEN << >>
            ELSE IF Derived[k][n] \in store \cup ToSet(list[n - 1]) THEN list[n - 1]
            ELSE Append(list[n - 1], Derived[k][n])
    IN list[Len(Derived[k])]

\* instance__inspect_new_state(): a position of the cache is passed over.
Inspected(w, k) ==
    LET list == Unlisted(w.store, k)
        entered == [w EXCEPT !.processed = @ + 1]
    IN IF DoesKeyExist(w.cache, k)
       THEN [entered EXCEPT !.cache = Promoted(@, k)]
       ELSE IF k = Won
       THEN [entered EXCEPT !.stack = Append(@, Level(k, << >>)), !.terminate = "SOLUTION_FOUND"]
       ELSE [entered EXCEPT !.stack = Append(@, Level(k, list)), !.store = @ \cup ToSet(list)]

\* instance_init()
Started == Inspected([stack |-> << >>, store |-> {dealt}, cache |-> EmptyCache,
                      terminate |-> "NO", processed |-> 0], dealt)

\* The next position of the level on top.
Descended(w) ==
    LET place == Len(w.stack)
        next == Top(w).next_states[Top(w).idx + 1]
    IN Inspected([w EXCEPT !.stack[place].idx = @ + 1], next)

\* Keys that are inserted one after the other.
AllInserted(c, keys) ==
    LET cache[n \in 0..Len(keys)] == IF n = 0 THEN c ELSE Inserted(cache[n - 1], keys[n])
    IN cache[Len(keys)]

\* A mutant: what the level listed is kept in the store.
DemotedStillStored(w) ==
    [w EXCEPT !.cache = AllInserted(@, Top(w).next_states), !.stack = Front(@)]

\* The level on top is done with.
Demoted(w) ==
    [w EXCEPT !.cache = AllInserted(@, Top(w).next_states),
              !.store = @ \ ToSet(Top(w).next_states),
              !.stack = Front(@)]

\* One turn of the loop of instance_run().
Turn(w) ==
    IF w.stack = << >> THEN [w EXCEPT !.terminate = "QUEUE"]
    ELSE IF Top(w).idx = Len(Top(w).next_states) THEN Demoted(w)
    ELSE Descended(w)

\* instance__load_coords_from_fh(): the numbers that are not zero, each of which
\* says how many positions of a level were entered.  A number that is beyond the
\* list, and what would be read there, is "STRAY".
Reentered(w, c) ==
    IF c = 0 THEN w
    ELSE IF c > Len(Top(w).next_states) THEN [w EXCEPT !.terminate = "STRAY"]
    ELSE LET place == Len(w.stack)
         IN Inspected([w EXCEPT !.stack[place].idx = c], Top(w).next_states[c])
Loaded(w, coords) ==
    LET read[n \in 0..Len(coords)] == IF n = 0 THEN w ELSE Reentered(read[n - 1], coords[n])
    IN read[Len(coords)]

\* main() rounds the first limit up to a multiple of DeltaLimit.
FirstLimit(count) ==
    LET limit == count + DeltaLimit
    IN IF limit % DeltaLimit = 0 THEN limit ELSE limit + DeltaLimit - (limit % DeltaLimit)

-----------------------------------------------------------------------------
WalkInit ==
    /\ dealt \in Dealt
    /\ pdfs = "off" /\ runs = 0 /\ log = NoLog
    /\ walk = Started /\ max_processed = 0

\* The loop of main() goes on until the search has ended; then one of two is printed.
Said(terminate) ==
    CASE terminate = "NO" -> "running"
      [] terminate = "SOLUTION_FOUND" -> "Solution was found."
      [] OTHER -> "I could not solve it."

\* A search that has ended where the log leads is not run, and writes no line.
StartWalk ==
    /\ pdfs # "running" /\ runs < MaxRuns
    /\ walk' = IF log = NoLog THEN Started
               ELSE [Loaded(Started, log.coords) EXCEPT !.processed = log.count]
    /\ max_processed' = FirstLimit(walk'.processed)
    /\ pdfs' = Said(walk'.terminate) /\ runs' = runs + 1
    /\ UNCHANGED <<dealt, log>>

WalkGoesOn == pdfs = "running" /\ walk.terminate = "NO" /\ walk.processed < max_processed
Iterate ==
    /\ WalkGoesOn
    /\ walk' = Turn(walk)
    /\ UNCHANGED <<dealt, max_processed, pdfs, runs, log>>

\* A line that is appended to one without an end is not read.
WalkLine(coords, torn) ==
    IF log.torn THEN [log EXCEPT !.torn = torn]
    ELSE [coords |-> coords, count |-> walk.processed, torn |-> torn, from |-> walk.stack]
Coords == [i \in DOMAIN walk.stack |-> walk.stack[i].idx]

\* instance__print_coords_to_log(), and what main() does after it.
WriteLog ==
    /\ pdfs = "running" /\ ~WalkGoesOn
    /\ log' = WalkLine(Coords, FALSE)
    /\ max_processed' = walk.processed + DeltaLimit
    /\ pdfs' = Said(walk.terminate)
    /\ UNCHANGED <<dealt, walk, runs>>

\* The program is killed between two turns, or when the line was written in part:
\* of the last number, too, only the first digits may be there.
KillWalk ==
    /\ pdfs = "running"
    /\ pdfs' = "off"
    /\ UNCHANGED <<dealt, walk, max_processed, runs, log>>
TornCoords(coords) ==
    {<< >>} \cup UNION {{Append(SubSeq(coords, 1, n - 1), c) : c \in 0..coords[n]}
                        : n \in DOMAIN coords}
KillInLine ==
    /\ pdfs = "running" /\ ~WalkGoesOn
    /\ \E coords \in TornCoords(Coords) : log' = WalkLine(coords, TRUE)
    /\ pdfs' = "off"
    /\ UNCHANGED <<dealt, walk, max_processed, runs>>

WalkStep == Iterate \/ WriteLog
WalkNext == StartWalk \/ WalkStep \/ KillWalk \/ KillInLine

-----------------------------------------------------------------------------
\* The positions that moves lead to from one.
Reached(k) ==
    {j \in Spots : \A S \in SUBSET Spots :
        k \in S /\ (\A i \in S : ToSet(Derived[i]) \subseteq S) => j \in S}

\* What the program says is so, although a position is only remembered while it
\* is listed on the stack, the cache forgets, and all but the log was lost
\* whenever the program was killed.
MessageTrue ==
    /\ pdfs = "Solution was found." => Won \in Reached(dealt)
    /\ pdfs = "I could not solve it." => Won \notin Reached(dealt)

\* A number of the log means the same to the program that reads it as to the one
\* that wrote it: each level gets the position and the list that it had, whatever
\* the cache and the store held then, and no position is taken for one that was
\* entered which was not.
LogLeadsBack ==
    LET again == Loaded(Started, log.coords)
    IN /\ again.terminate # "STRAY"
       /\ \A i \in DOMAIN log.coords :
             /\ again.stack[i].state = log.from[i].state
             /\ again.stack[i].next_states = log.from[i].next_states
             /\ again.stack[i].idx <= log.from[i].idx

\* The store holds the deal and what the stack lists, each of them once.
StackExact ==
    LET places == UNION {{i} \X DOMAIN walk.stack[i].next_states : i \in DOMAIN walk.stack}
        listed(p) == walk.stack[p[1]].next_states[p[2]]
    IN /\ walk.store = {dealt} \cup {listed(p) : p \in places}
       /\ \A p, q \in places : listed(p) # dealt /\ (listed(p) = listed(q) => p = q)

WalkExact == MessageTrue /\ LogLeadsBack /\ StackExact /\ ListExact(walk.cache)
=============================================================================
