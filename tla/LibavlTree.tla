----------------------------- MODULE LibavlTree -----------------------------
(***************************************************************************)
(* The red-black tree of fcs-libavl/rb.c, which builds may put below the   *)
(* disk-backed solvers instead of the tree of kaz_tree.c, with whole       *)
(* records in its nodes (CMakeLists.txt:771).  Its nodes have no parent    *)
(* pointers: a call keeps the way that it came down, and a traverser keeps *)
(* the one to the node where it is, with the generation of the table for   *)
(* which it is right.  A node is named by its key; NoNode is the null      *)
(* pointer, and rb_proto_root, above the root.                             *)
(***************************************************************************)
EXTENDS Integers, FiniteSets, SequencesExt

CONSTANTS AvlKeys,   \* a set of integers above zero
          AvlItems   \* what may be stored under each key

ASSUME AvlKeysAssumption == IsFiniteSet(AvlKeys) /\ \A k \in AvlKeys : k \in Nat /\ k > 0

VARIABLES table,      \* link: the subtrees by direction; color; data
          recycled,   \* rb_recycle_bin: how many nodes are on it
          rb_count,
          trav,       \* a traverser: node, stack, and whether its generation is
                      \* that of the table
          held        \* what should be in the table
avlVars == <<table, recycled, rb_count, trav, held>>

NoNode == 0
Dir == {0, 1}
TableRoot(t) == t.link[0][NoNode]

SetLink(t, n, d, k) == [t EXCEPT !.link[d][n] = k]
SetColor(t, n, c) == [t EXCEPT !.color[n] = c]
IsRed(t, n) == n # NoNode /\ t.color[n] = "red"

\* A step of the way down: the node, and the direction that was taken there.
Came(n, d) == [node |-> n, dir |-> d]
Hang(t, step, n) == SetLink(t, step.node, step.dir, n)
Along(t, step) == t.link[step.dir][step.node]
FromRoot == <<Came(NoNode, 0)>>

\* The child of upper away from d comes up, below the step above, and upper goes
\* down to the direction d.
TurnOther(t, above, upper, d) ==                   \* mutant of Turn
    LET lower == t.link[1 - d][upper]
    IN Hang(SetLink(SetLink(t, lower, d, upper), upper, 1 - d, t.link[1 - d][lower]), above, lower)
Turn(t, above, upper, d) ==
    LET lower == t.link[1 - d][upper]
    IN Hang(SetLink(SetLink(t, upper, 1 - d, t.link[d][lower]), lower, d, upper), above, lower)

-----------------------------------------------------------------------------
(* Finding and inserting.                                                  *)

RECURSIVE WayDown(_, _, _)
WayDown(t, k, way) ==
    LET p == Along(t, Last(way))
    IN IF p \in {NoNode, k} THEN way
       ELSE WayDown(t, k, Append(way, Came(p, IF k > p THEN 1 ELSE 0)))
RbFind(t, k) == Along(t, Last(WayDown(t, k, FromRoot)))

\* The loop of rb_probe() after a node was hung below the last step.
RECURSIVE Rebalance(_, _)
Rebalance(t, way) ==
    LET n == Len(way)
        parent == way[n]
        grandpa == way[n - 1]
        d == grandpa.dir
        uncle == t.link[1 - d][grandpa.node]
        straight == IF parent.dir = d THEN t ELSE Turn(t, grandpa, parent.node, d)
        top == Along(straight, grandpa)
        painted == SetColor(SetColor(straight, grandpa.node, "red"), top, "black")
    IN IF n < 3 \/ ~IsRed(t, parent.node) THEN t
       ELSE IF IsRed(t, uncle)
       THEN Rebalance(SetColor(SetColor(SetColor(t, parent.node, "black"), uncle, "black"),
                               grandpa.node, "red"),
                      SubSeq(way, 1, n - 2))
       ELSE Turn(painted, way[n - 2], grandpa.node, 1 - d)

Probed(t, k, item) ==
    LET way == WayDown(t, k, FromRoot)
        hung == Hang([t EXCEPT !.data[k] = item], Last(way), k)
        leaf == SetColor(SetLink(SetLink(hung, k, 0, NoNode), k, 1, NoNode), k, "red")
        done == Rebalance(leaf, way)
    IN SetColor(done, TableRoot(done), "black")

-----------------------------------------------------------------------------
(* Deleting.                                                               *)

\* The way from the right child of a node on to the left, down to the node that
\* has nothing on its left, which is not a step of it.
RECURSIVE Leftward(_, _, _)
Leftward(t, r, way) ==
    IF t.link[0][r] = NoNode THEN way
    ELSE Leftward(t, t.link[0][r], Append(way, Came(r, 0)))

SwapColors(t, a, b) == SetColor(SetColor(t, a, t.color[b]), b, t.color[a])

\* The table without the node, and the way to where it is short of a black node.
\* A node with a child on its right changes places with its successor.
Unhung(t, p, way) ==
    LET r == t.link[1][p]
        down == Leftward(t, r, <<>>)
        s == t.link[0][Last(down).node]
        near == Hang(SwapColors(SetLink(t, r, 0, t.link[0][p]), p, r), Last(way), r)
        far == SetLink(SetLink(SetLink(Hang(t, Last(way), s), s, 0, t.link[0][p]),
                               Last(down).node, 0, t.link[1][s]),
                       s, 1, t.link[1][p])
    IN IF r = NoNode THEN [table |-> Hang(t, Last(way), t.link[0][p]), way |-> way]
       ELSE IF down = <<>> THEN [table |-> near, way |-> Append(way, Came(r, 1))]
       ELSE [table |-> SwapColors(far, p, s), way |-> Append(way, Came(s, 1)) \o down]

\* The loop of rb_delete(): x lacks a black node above it.
RECURSIVE FillUp(_, _)
FillUp(t, way) ==
    LET n == Len(way)
        here == way[n]
        up == here.node
        d == here.dir
        x == Along(t, here)
        w1 == t.link[1 - d][up]
        turned == Turn(SetColor(SetColor(t, w1, "black"), up, "red"), way[n - 1], up, d)
        redSister == IsRed(t, w1)
        t1 == IF redSister THEN turned ELSE t
        way1 == IF redSister THEN Append([way EXCEPT ![n].node = w1], Came(up, d)) ELSE way
        w == t1.link[1 - d][up]
        farBlack == ~IsRed(t1, t1.link[1 - d][w])
        y == t1.link[d][w]
        t2 == IF farBlack
              THEN Turn(SetColor(SetColor(t1, y, "black"), w, "red"), Came(up, 1 - d), w, 1 - d)
              ELSE t1
        w2 == t2.link[1 - d][up]
        leveled == SetColor(SetColor(SetColor(t2, w2, t2.color[up]), up, "black"),
                            t2.link[1 - d][w2], "black")
    IN IF IsRed(t, x) THEN SetColor(t, x, "black")
       ELSE IF n < 2 THEN t
       ELSE IF farBlack /\ ~IsRed(t1, y) THEN FillUp(SetColor(t1, w, "red"), Front(way1))
       ELSE Turn(leveled, way1[Len(way1) - 1], up, d)

\* What was in the node is not read again: rb_probe() sets it when it uses it next.
Forgotten(t, k) ==
    [link |-> [d \in Dir |-> [t.link[d] EXCEPT ![k] = NoNode]],
     color |-> [t.color EXCEPT ![k] = "black"], data |-> [t.data EXCEPT ![k] = NoNode]]
RbDeleted(t, k) ==
    LET out == Unhung(t, k, WayDown(t, k, FromRoot))
    IN Forgotten(IF IsRed(out.table, k) THEN out.table ELSE FillUp(out.table, out.way), k)

-----------------------------------------------------------------------------
(* Traversers.                                                             *)

At(n, stack) == [node |-> n, stack |-> stack, fresh |-> TRUE]
AtNone == At(NoNode, <<>>)

\* On to the last node in a direction: rb_t_first() and rb_t_last(), and
\* the way down of rb_t_next() and rb_t_prev().
RECURSIVE Outmost(_, _, _, _)
Outmost(t, x, d, stack) ==
    IF x = NoNode \/ t.link[d][x] = NoNode THEN At(x, stack)
    ELSE Outmost(t, t.link[d][x], d, Append(stack, x))
Extreme(t, d) == Outmost(t, TableRoot(t), d, <<>>)

StackOf(way) == [i \in 1..Len(way) - 1 |-> way[i + 1].node]
Refresh(t, tr) ==
    IF tr.fresh \/ tr.node = NoNode THEN [tr EXCEPT !.fresh = TRUE]
    ELSE At(tr.node, StackOf(WayDown(t, tr.node, FromRoot)))

RECURSIVE BackUp(_, _, _, _)
BackUp(t, y, stack, d) ==
    IF stack = <<>> THEN AtNone
    ELSE IF y = t.link[d][Last(stack)] THEN BackUp(t, Last(stack), Front(stack), d)
    ELSE At(Last(stack), Front(stack))

\* rb_t_next() for the direction 1 and rb_t_prev() for 0.
Moved(t, stale, d) ==
    LET tr == Refresh(t, stale)
    IN IF tr.node = NoNode THEN Extreme(t, 1 - d)
       ELSE IF t.link[d][tr.node] # NoNode
       THEN Outmost(t, t.link[d][tr.node], 1 - d, Append(tr.stack, tr.node))
       ELSE BackUp(t, tr.node, tr.stack, d)

Found(t, k) ==
    LET way == WayDown(t, k, FromRoot)
    IN IF Along(t, Last(way)) = NoNode THEN AtNone ELSE At(k, StackOf(way))

-----------------------------------------------------------------------------
AvlInit ==
    /\ table = [link |-> [d \in Dir |-> [n \in AvlKeys \cup {NoNode} |-> NoNode]],
                color |-> [n \in AvlKeys \cup {NoNode} |-> "black"],
                data |-> [n \in AvlKeys \cup {NoNode} |-> NoNode]]
    /\ recycled = 0 /\ rb_count = 0
    /\ trav = AtNone
    /\ held = [k \in {} |-> NoNode]

Counted(k) ==
    /\ recycled' = IF recycled > 0 THEN recycled - 1 ELSE 0
    /\ rb_count' = rb_count + 1
Put(k, item) == held' = [h \in DOMAIN held \cup {k} |-> IF h = k THEN item ELSE held[h]]
\* Nothing reads an outdated stack before it is made anew.
Outdated(n) == [node |-> n, stack |-> <<>>, fresh |-> FALSE]

\* rb_insert() of a key that is there changes nothing.
RbInsert(k, item) ==
    IF RbFind(table, k) # NoNode THEN UNCHANGED avlVars
    ELSE /\ table' = Probed(table, k, item)
         /\ Counted(k)
         /\ trav' = Outdated(trav.node)
         /\ Put(k, item)

\* rb_replace(), which is as rb_insert() for a key that is not there, and, with the
\* traverser at a key, rb_t_replace().  They return where the record that was
\* replaced has been, which in builds with whole records is the new one; no program
\* calls them.
RbReplace(k, item) ==
    /\ RbFind(table, k) # NoNode
    /\ table' = [table EXCEPT !.data[k] = item]
    /\ Put(k, item)
    /\ UNCHANGED <<recycled, rb_count, trav>>

\* rb_t_insert(): the way to the node is not known, and the generation is set
\* to one that is gone.  It returns where the record is, as rb_t_find() does.
RbTInsert(k, item) ==
    /\ trav' = Outdated(k)
    /\ IF RbFind(table, k) # NoNode THEN UNCHANGED <<table, recycled, rb_count, held>>
       ELSE table' = Probed(table, k, item) /\ Counted(k) /\ Put(k, item)

\* The caller does not delete what it is at.
RbDelete(k) ==
    /\ k # trav.node
    /\ RbFind(table, k) # NoNode
    /\ table' = RbDeleted(table, k)
    /\ recycled' = recycled + 1
    /\ rb_count' = rb_count - 1
    /\ trav' = Outdated(trav.node)
    /\ held' = [h \in DOMAIN held \ {k} |-> held[h]]

Traverse(to) == trav' = to /\ UNCHANGED <<table, recycled, rb_count, held>>
RbTFind(k) == Traverse(Found(table, k))
RbTExtreme(d) == Traverse(Extreme(table, d))
RbTMove(d) == Traverse(Moved(table, trav, d))

AvlNext ==
    \/ \E k \in AvlKeys : RbDelete(k) \/ RbTFind(k)
    \/ \E k \in AvlKeys : \E item \in AvlItems[k] : RbInsert(k, item) \/ RbReplace(k, item) \/ RbTInsert(k, item)
    \/ \E d \in Dir : RbTExtreme(d) \/ RbTMove(d)

-----------------------------------------------------------------------------
RECURSIVE Heights(_, _)
Heights(t, n) ==
    IF n = NoNode THEN {0}
    ELSE {h + (IF t.color[n] = "black" THEN 1 ELSE 0) : h \in UNION {Heights(t, t.link[d][n]) : d \in Dir}}

\* The tree keeps its promise: each key is found with what was stored last; no red
\* node has a red child and every way down passes the same number of black
\* nodes; and from wherever a traverser is, whatever was inserted and
\* deleted since it came there, it goes on to the next key that is there now.
AvlExact ==
    LET keys == DOMAIN held
        Beyond(d) == {k \in keys : IF d = 1 THEN k > trav.node ELSE k < trav.node}
    IN /\ \A k \in AvlKeys : RbFind(table, k) = IF k \in keys THEN k ELSE NoNode
       /\ \A k \in keys : table.data[k] = held[k]
       /\ rb_count = Cardinality(keys)
       /\ Cardinality(Heights(table, TableRoot(table))) = 1
       /\ \A k \in keys, d \in Dir : IsRed(table, k) => ~IsRed(table, table.link[d][k])
       /\ \A d \in Dir :
             LET next == Moved(table, trav, d).node
             IN /\ next \in keys \cup {NoNode}
                /\ trav.node # NoNode =>
                      IF Beyond(d) = {} THEN next = NoNode
                      ELSE /\ next \in Beyond(d)
                           /\ \A k \in Beyond(d) : IF d = 1 THEN next <= k ELSE next >= k
                /\ trav.node = NoNode /\ keys # {} =>
                      \A k \in keys : IF d = 1 THEN next <= k ELSE next >= k
=============================================================================
