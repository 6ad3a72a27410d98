--------------------------- MODULE PriorityQueue ---------------------------
(***************************************************************************)
(* The heap of pqueue.h, which a best-first scan takes the states from     *)
(* that it expands, and its copying by free_states() of lib.c, which drops *)
(* the dead ends from it.                                                  *)
(***************************************************************************)
EXTENDS Integers, Sequences, FiniteSets, SequencesExt

CONSTANTS Vals,            \* the states, numbered above zero
          Rating,          \* of each state
          HeapInitialSize, \* elements the array has room for at first
          HeapGrowBy       \* and how many more each time it is full

VARIABLES elems,    \* the array, from PQ_FIRST_ENTRY to current_size
          max_size,
          queued,   \* the states that should be in the heap
          popped    \* the state that the last call removed, if it did
heapVars == <<elems, max_size, queued, popped>>

Nobody == 0

\* fc_solve_pq_push(): worse parents of the hole come down.
RECURSIVE SiftUp(_, _, _)
SiftUp(heap, i, v) ==
    LET parent == i \div 2
    IN IF i > 1 /\ Rating[heap[parent]] < Rating[v]
       THEN SiftUp([heap EXCEPT ![i] = heap[parent]], parent, v)
       ELSE [heap EXCEPT ![i] = v]
Pushed(heap, v) == SiftUp(Append(heap, v), Len(heap) + 1, v)

\* fc_solve_pq_pop(): the hole at the root goes down along the better children
\* until the last element fits.
RECURSIVE SiftDown(_, _, _)
SiftDown(heap, i, last) ==
    LET left == 2 * i
        child == IF left < Len(heap) /\ Rating[heap[left + 1]] > Rating[heap[left]]
                 THEN left + 1 ELSE left
    IN IF left <= Len(heap) /\ Rating[last] < Rating[heap[child]]
       THEN SiftDown([heap EXCEPT ![i] = heap[child]], child, last)
       ELSE [heap EXCEPT ![i] = last]
Popped(heap) == IF Len(heap) = 1 THEN <<>> ELSE SiftDown(Front(heap), 1, Last(heap))

Roomier(size, room) == IF size > room THEN room + HeapGrowBy ELSE room

HeapInit ==
    /\ elems = <<>>
    /\ max_size = HeapInitialSize
    /\ queued = {}
    /\ popped = Nobody

HeapPush ==
    /\ \E v \in Vals \ queued :
          /\ elems' = Pushed(elems, v)
          /\ queued' = queued \cup {v}
    /\ max_size' = Roomier(Len(elems'), max_size)
    /\ popped' = Nobody

HeapPop ==
    /\ elems # <<>>
    /\ popped' = Head(elems)
    /\ elems' = Popped(elems)
    /\ queued' = queued \ {popped'}
    /\ UNCHANGED max_size

DropDeadEndsInPlace ==                          \* mutant of DropDeadEnds
    /\ \E dead \in SUBSET queued :
          /\ elems' = SelectSeq(elems, LAMBDA v : v \notin dead)
          /\ queued' = queued \ dead
    /\ UNCHANGED max_size
    /\ popped' = Nobody

\* The heap's part of free_states(): a new heap gets what is no dead end, in
\* the order of the old array.
DropDeadEnds ==
    /\ \E dead \in SUBSET queued :
          LET kept == SelectSeq(elems, LAMBDA v : v \notin dead)
          IN /\ elems' = FoldLeft(Pushed, <<>>, kept)
             /\ max_size' = FoldLeftDomain(LAMBDA room, n : Roomier(n, room), HeapInitialSize, kept)
             /\ queued' = queued \ dead
    /\ popped' = Nobody

HeapNext == HeapPush \/ HeapPop \/ DropDeadEnds

\* The best state comes first: what was removed is rated no worse than what is
\* left, every state that was put in is there once, no child is better than
\* its parent, and the array has room for all of them.
HeapExact ==
    /\ popped # Nobody => \A v \in queued : Rating[v] <= Rating[popped]
    /\ ToSet(elems) = queued /\ Len(elems) = Cardinality(queued)
    /\ \A i \in 2..Len(elems) : Rating[elems[i]] <= Rating[elems[i \div 2]]
    /\ Len(elems) <= max_size
=============================================================================
