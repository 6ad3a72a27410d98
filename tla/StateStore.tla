---------------------------- MODULE StateStore ----------------------------
(***************************************************************************)
(* The collection of states in memory: the hash of fcs_hash.h, with chains *)
(* of items, and the records of the states that the items point to.  Both  *)
(* are cells that an allocator hands out in order, and hands out again     *)
(* after the instance was recycled; the cells of trimmed states wait in    *)
(* two lists of vacant ones, linked through the cells themselves.          *)
(***************************************************************************)
EXTENDS Integers, FiniteSets, SequencesExt

CONSTANTS Boards,          \* what a state holds
          HashValue,       \* of each board
          InitialSlots,    \* initial_hash_size
          MaxCells,           \* bound: 1..MaxCells are the cells of either allocator
          MaxCalls,        \* bound: operations in all
          TrimThenRecycle  \* bound: may an instance be recycled after it was trimmed

ASSUME StateStoreAssumption ==
    /\ InitialSlots \in Nat \ {0} /\ MaxCells \in Nat /\ TrimThenRecycle \in BOOLEAN
    /\ HashValue \in [Boards -> Nat]

VARIABLES slots,   \* entries: the first item of each chain
          item,    \* of each cell: key (the cell of a state), hash and next
          state,   \* of each cell: board, and next: the next vacant one (in a state
                   \* in use that field is the parent, which Scans has)
          vacant_items, vacant_states, \* the heads of the lists
          next_item, next_state,       \* the allocators: the next fresh cells
          num_elems,
          added,  \* the boards that were added and not trimmed
          calls
storeVars == <<slots, item, state, vacant_items, vacant_states, next_item,
               next_state, num_elems, added, calls>>

Null == 0
Slot(hash, entries) == hash % Cardinality(DOMAIN entries)
MaxElems(entries) == 2 * Cardinality(DOMAIN entries)

\* The cells of a chain in order; one that bites its tail ends there.
RECURSIVE ChainFrom(_, _, _)
ChainFrom(cells, i, seen) ==
    IF i = Null \/ i \in seen THEN <<>>
    ELSE <<i>> \o ChainFrom(cells, cells[i].next, seen \cup {i})
Chain(entries, items, n) == ChainFrom(items, entries[n], {})
AllItems(entries, items) ==
    FoldLeft(LAMBDA all, n : all \o Chain(entries, items, n - 1), <<>>,
             [n \in 1..Cardinality(DOMAIN entries) |-> n])

\* The cells after those of the list were linked in its order, the last to tail.
Linked(cells, list, tail) ==
    [i \in DOMAIN cells |->
        IF i \notin ToSet(list) THEN cells[i]
        ELSE LET n == CHOOSE m \in DOMAIN list : list[m] = i
             IN [cells[i] EXCEPT !.next = IF n = Len(list) THEN tail ELSE list[n + 1]]]
\* The table and the items whose chains are these.
Chained(items, chains) ==
    [entries |-> [n \in DOMAIN chains |-> IF chains[n] = <<>> THEN Null ELSE Head(chains[n])],
     items |-> FoldSet(LAMBDA n, linked : Linked(linked, chains[n], Null),
                       items, DOMAIN chains)]

\* The item at which fc_solve_hash_insert() finds the board, or Null.
Find(entries, items, states, board) ==
    LET hit(i) == items[i].hash = HashValue[board] /\ states[items[i].key].board = board
        hits == SelectSeq(Chain(entries, items, Slot(HashValue[board], entries)), hit)
    IN IF hits = <<>> THEN Null ELSE Head(hits)

RehashedByOldMask(entries, items) ==               \* mutant of Rehashed
    LET of(n) == SelectSeq(AllItems(entries, items), LAMBDA i : Slot(items[i].hash, entries) = n)
    IN Chained(items, [n \in 0..2 * Cardinality(DOMAIN entries) - 1 |-> Reverse(of(n))])

\* fc_solve_hash_rehash(): each item in turn goes to the head of its new chain.
Rehashed(entries, items) ==
    LET twice == [n \in 0..2 * Cardinality(DOMAIN entries) - 1 |-> Null]
        of(n) == SelectSeq(AllItems(entries, items), LAMBDA i : Slot(items[i].hash, twice) = n)
    IN Chained(items, [n \in DOMAIN twice |-> Reverse(of(n))])

\* The insertion of a new item at the end of its chain, with the growth that
\* it may cause.
Hung(entries, items, i, new) ==
    LET n == Slot(new.hash, entries)
        chain == Append(Chain(entries, items, n), i)
        longer == [entries |-> [entries EXCEPT ![n] = Head(chain)],
                   items |-> Linked([items EXCEPT ![i] = new], chain, Null)]
    IN IF num_elems + 1 > MaxElems(entries)
       THEN Rehashed(longer.entries, longer.items) ELSE longer

-----------------------------------------------------------------------------
StoreInit ==
    /\ slots = [n \in 0..InitialSlots - 1 |-> Null]
    /\ item = [i \in 1..MaxCells |-> [key |-> Null, hash |-> 0, next |-> Null]]
    /\ state = [s \in 1..MaxCells |-> [board |-> "garbage", next |-> Null]]
    /\ vacant_items = Null /\ vacant_states = Null
    /\ next_item = 1 /\ next_state = 1
    /\ num_elems = 0
    /\ added = {}
    /\ calls = 0

\* fc_solve_sfs_check_state_begin(), fc_solve_check_and_add_state() and the end
\* of fc_solve_sfs_check_state_end(): the new state is written into a cell, a
\* vacant one if there is one, before the collection is asked whether it is
\* known; if it is, the cell is given back.
CheckState(board) ==
    LET reuse == vacant_states # Null
        s == IF reuse THEN vacant_states ELSE next_state
        rest == IF reuse THEN state[s].next ELSE Null
        written == [state EXCEPT ![s] = [board |-> board, next |-> Null]]
        known == Find(slots, item, written, board) # Null
        i == IF vacant_items # Null THEN vacant_items ELSE next_item
        grown == Hung(slots, item, i, [key |-> s, hash |-> HashValue[board], next |-> Null])
    IN /\ s <= MaxCells
       /\ known \/ i <= MaxCells
       /\ IF known
          THEN /\ state' = [written EXCEPT ![s].next = rest]
               /\ UNCHANGED <<slots, item, vacant_items, vacant_states, next_item,
                              next_state, num_elems>>
          ELSE /\ state' = written
               /\ slots' = grown.entries
               /\ item' = grown.items
               /\ vacant_items' = IF vacant_items = Null THEN Null ELSE item[i].next
               /\ next_item' = IF vacant_items = Null THEN next_item + 1 ELSE next_item
               /\ vacant_states' = rest
               /\ next_state' = IF reuse THEN next_state ELSE next_state + 1
               /\ num_elems' = num_elems + 1
       /\ added' = added \cup {board}

\* free_states() by way of fc_solve_hash_foreach(): the items of dead ends
\* leave their chains, and they and their states become vacant.
Trim(dead) ==
    LET isDead(i) == state[item[i].key].board \in dead
        gone == Reverse(SelectSeq(AllItems(slots, item), isDead))
        cells == [n \in DOMAIN gone |-> item[gone[n]].key]
        kept == [n \in DOMAIN slots |->
                   SelectSeq(Chain(slots, item, n), LAMBDA i : ~isDead(i))]
        thinner == Chained(Linked(item, gone, vacant_items), kept)
    IN /\ gone # <<>>
       /\ slots' = thinner.entries
       /\ item' = thinner.items
       /\ vacant_items' = Head(gone)
       /\ state' = Linked(state, cells, vacant_states)
       /\ vacant_states' = Head(cells)
       /\ num_elems' = num_elems - Len(gone)
       /\ added' = added \ dead
       /\ UNCHANGED <<next_item, next_state>>

\* fc_solve_hash_recycle(), and recycle_ht() for the allocator of the states.
\* The lists of vacant cells are left as they are.
Recycle ==
    /\ TrimThenRecycle \/ (vacant_items = Null /\ vacant_states = Null)
    /\ slots' = [n \in DOMAIN slots |-> Null]
    /\ next_item' = 1 /\ next_state' = 1
    /\ num_elems' = 0
    /\ added' = {}
    /\ UNCHANGED <<item, state, vacant_items, vacant_states>>

StoreNext ==
    /\ calls < MaxCalls
    /\ calls' = calls + 1
    /\ \/ \E board \in Boards : CheckState(board)
       \/ \E dead \in SUBSET added : Trim(dead)
       \/ Recycle

-----------------------------------------------------------------------------
\* fcs_hash__insert.h:65 says "Returns NULL if the key is new", and "the
\* existing key if the key is not new": a state is added once, whatever was
\* trimmed, recycled or moved to other chains since.
AddedOnce ==
    [][\A board \in Boards :
          CheckState(board) => (num_elems' > num_elems <=> board \notin added)]_storeVars

\* The collection holds what was added to it: each such board is found along
\* its chain, in a state of its own, and no other is; the items are as many as
\* num_elems says; and no vacant cell is in use.
StoreExact ==
    LET all == AllItems(slots, item)
    IN /\ \A board \in Boards : (Find(slots, item, state, board) # Null) <=> board \in added
       /\ {state[item[i].key].board : i \in ToSet(all)} = added
       /\ Len(all) = Cardinality(added) /\ num_elems = Len(all)
       /\ ToSet(all) \cap ToSet(ChainFrom(item, vacant_items, {})) = {}
       /\ {item[i].key : i \in ToSet(all)}
             \cap ToSet(ChainFrom(state, vacant_states, {})) = {}
=============================================================================
