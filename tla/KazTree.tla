------------------------------ MODULE KazTree ------------------------------
(***************************************************************************)
(* The red-black tree of kaz_tree.c, the dictionary below the stores of    *)
(* the disk-backed solvers and the cache of states that are kept by their  *)
(* moves only.  A node is named by its key.  The sentinel Nil stands for   *)
(* every leaf and for the parent of the root, which is its left child.     *)
(***************************************************************************)
EXTENDS Integers, FiniteSets, SequencesExt

CONSTANT Keys  \* a set of integers above zero

ASSUME KeysAssumption == IsFiniteSet(Keys) /\ \A k \in Keys : k \in Nat /\ k > 0

VARIABLES tree,      \* kid: the children by side; parent; color
          bin,       \* dict_recycle_bin: how many nodes are on it
          nodes_allocated, \* nodes taken from the allocator
          content    \* the keys that should be in the tree
treeVars == <<tree, bin, nodes_allocated, content>>

Nil == 0
Side == {"left", "right"}
Other(s) == IF s = "left" THEN "right" ELSE "left"
Root(t) == t.kid["left"][Nil]
SideOf(t, above, n) == IF t.kid["left"][above] = n THEN "left" ELSE "right"

SetKid(t, n, s, k) == [t EXCEPT !.kid[s][n] = k]
SetParent(t, n, p) == [t EXCEPT !.parent[n] = p]
Paint(t, nodes, c) ==
    [t EXCEPT !.color = [n \in DOMAIN @ |-> IF n \in nodes THEN c ELSE @[n]]]
SpliceOneWay(t, n, child) ==                       \* mutant of Splice
    SetKid(t, t.parent[n], SideOf(t, t.parent[n], n), child)
\* Puts child where n is below the parent of n.
Splice(t, n, child) ==
    LET above == t.parent[n]
    IN SetKid(SetParent(t, child, above), above, SideOf(t, above, n), child)

\* rotate_left() for the side "left" and rotate_right() for "right": the child
\* of upper on the other side comes up, and upper goes down to this side.
Rotate(t, upper, s) ==
    LET lower == t.kid[Other(s)][upper]
        inner == t.kid[s][lower]
        handed == SetParent(SetKid(t, upper, Other(s), inner), inner, upper)
    IN SetParent(SetKid(Splice(handed, upper, lower), lower, s, upper), upper, lower)

-----------------------------------------------------------------------------
\* fc_solve_kaz_tree_lookup() and the descent of the insertion: where the
\* search for k ends, and the node above.
RECURSIVE SearchDown(_, _, _, _)
SearchDown(t, k, where, above) ==
    IF where \in {Nil, k} THEN [where |-> where, above |-> above]
    ELSE SearchDown(t, k, t.kid[IF k < where THEN "left" ELSE "right"][where], where)

RECURSIVE FixInsertion(_, _)
FixInsertion(t, node) ==
    LET parent == t.parent[node]
        grandpa == t.parent[parent]
        s == SideOf(t, grandpa, parent)
        uncle == t.kid[Other(s)][grandpa]
        inside == node = t.kid[Other(s)][parent]
        straight == IF inside THEN Rotate(t, parent, s) ELSE t
        top == IF inside THEN node ELSE parent
    IN IF t.color[parent] # "red" THEN t
       ELSE IF t.color[uncle] = "red"
       THEN FixInsertion(Paint(Paint(t, {parent, uncle}, "black"), {grandpa}, "red"), grandpa)
       ELSE Rotate(Paint(Paint(straight, {top}, "black"), {grandpa}, "red"), grandpa, Other(s))

\* fc_solve_kaz_tree_insert() of a key that is not there.
Inserted(t, node) ==
    LET above == SearchDown(t, node, Root(t), Nil).above
        s == IF above = Nil \/ node < above THEN "left" ELSE "right"
        hung == SetParent(SetKid(t, above, s, node), node, above)
        leaf == SetKid(SetKid(hung, node, "left", Nil), node, "right", Nil)
        fixed == FixInsertion(Paint(leaf, {node}, "red"), node)
    IN Paint(fixed, {Root(fixed)}, "black")

RECURSIVE FarLeft(_, _)
FarLeft(t, n) == IF t.kid["left"][n] = Nil THEN n ELSE FarLeft(t, t.kid["left"][n])
RECURSIVE Climb(_, _, _)
Climb(t, n, above) ==
    IF above # Nil /\ n = t.kid["right"][above] THEN Climb(t, above, t.parent[above])
    ELSE above

\* fc_solve_kaz_tree_first() and fc_solve_kaz_tree_next(); Nil for NULL.
First(t) == IF Root(t) = Nil THEN Nil ELSE FarLeft(t, Root(t))
NextOf(t, n) ==
    IF t.kid["right"][n] # Nil THEN FarLeft(t, t.kid["right"][n])
    ELSE Climb(t, n, t.parent[n])

RECURSIVE FixDeletion(_, _)
FixDeletion(t, child) ==
    LET parent == t.parent[child]
        s == SideOf(t, parent, child)
        o == Other(s)
        redSister == t.color[t.kid[o][parent]] = "red"
        t1 == IF redSister
              THEN Rotate(Paint(Paint(t, {t.kid[o][parent]}, "black"), {parent}, "red"), parent, s)
              ELSE t
        sister == t1.kid[o][parent]
        far == t1.kid[o][sister]
        near == t1.kid[s][sister]
        t2 == IF t1.color[far] = "black"
              THEN Rotate(Paint(Paint(t1, {near}, "black"), {sister}, "red"), sister, o)
              ELSE t1
        turned == t2.kid[o][parent]
        leveled == Paint(Paint(t2, {turned}, t2.color[parent]),
                         {t2.kid[o][turned], parent}, "black")
    IN IF t.color[child] # "black" THEN Paint(t, {child}, "black")
       ELSE IF t1.color[near] = "black" /\ t1.color[far] = "black"
       THEN FixDeletion(Paint(t1, {sister}, "red"), parent)
       ELSE Paint(Rotate(leveled, parent, s), {child}, "black")

\* fc_solve_kaz_tree_delete(): a target with two children is replaced by its
\* successor, and not overwritten by it, since others hold pointers to nodes.
Deleted(t, target) ==
    LET two == \A s \in Side : t.kid[s][target] # Nil
        next == NextOf(t, target)
        below == IF two THEN t.kid["right"][next]
                 ELSE IF t.kid["left"][target] # Nil THEN t.kid["left"][target]
                 ELSE t.kid["right"][target]
        out == Splice(t, next, below)
        kids == [s \in Side |-> out.kid[s][target]]
        moved == SetKid(SetKid(Splice(out, target, next), next, "left", kids["left"]),
                        next, "right", kids["right"])
        adopted == Paint(SetParent(SetParent(moved, kids["left"], next), kids["right"], next),
                         {next}, t.color[target])
        t1 == IF two THEN adopted ELSE Splice(t, target, below)
        gone == IF two THEN t.color[next] ELSE t.color[target]
        t2 == FixDeletion(Paint(t1, {Root(t1)}, "red"), below)
        unlinked(u) == [u EXCEPT !.kid["left"][target] = Nil, !.kid["right"][target] = Nil,
                                !.parent[target] = Nil, !.color[target] = "red"]
    IN IF gone = "black" THEN unlinked(Paint(t2, {Root(t2)}, "black")) ELSE unlinked(t1)

-----------------------------------------------------------------------------
TreeInit ==
    /\ tree = [kid |-> [s \in Side |-> [n \in Keys \cup {Nil} |-> Nil]],
               parent |-> [n \in Keys \cup {Nil} |-> Nil],
               color |-> [n \in Keys \cup {Nil} |-> IF n = Nil THEN "black" ELSE "red"]]
    /\ bin = 0
    /\ nodes_allocated = 0
    /\ content = {}

\* fc_solve_kaz_tree_alloc_insert(): the node comes from the bin or from the
\* allocator, and goes back there if the key was found.
AllocInsert(k) ==
    /\ IF SearchDown(tree, k, Root(tree), Nil).where # Nil
       THEN UNCHANGED <<tree, bin, nodes_allocated>>
       ELSE /\ tree' = Inserted(tree, k)
            /\ bin' = IF bin > 0 THEN bin - 1 ELSE 0
            /\ nodes_allocated' = IF bin > 0 THEN nodes_allocated ELSE nodes_allocated + 1
    /\ content' = content \cup {k}

\* fc_solve_kaz_tree_delete_free() of what a lookup returned.
DeleteFree(k) ==
    /\ k \in content
    /\ tree' = Deleted(tree, SearchDown(tree, k, Root(tree), Nil).where)
    /\ bin' = bin + 1
    /\ content' = content \ {k}
    /\ UNCHANGED nodes_allocated

TreeNext == \E k \in Keys : AllocInsert(k) \/ DeleteFree(k)

-----------------------------------------------------------------------------
RECURSIVE Walk(_, _)
Walk(t, n) == IF n = Nil THEN <<>> ELSE <<n>> \o Walk(t, NextOf(t, n))
RECURSIVE BlackHeights(_, _)
BlackHeights(t, n) ==
    IF n = Nil THEN {0}
    ELSE {h + (IF t.color[n] = "black" THEN 1 ELSE 0) :
             h \in UNION {BlackHeights(t, t.kid[s][n]) : s \in Side}}

\* The tree keeps its promise: going from the first node to the next visits
\* each key once, in order, and every search for one of them finds it; no red
\* node has a red child and every way down passes the same number of black
\* nodes, however insertions and deletions were mixed; parents and children
\* agree; and a node is in the tree or in the bin.
TreeExact ==
    /\ LET walk == Walk(tree, First(tree))
       IN /\ ToSet(walk) = content
          /\ \A i \in 2..Len(walk) : walk[i - 1] < walk[i]
    /\ \A k \in Keys : (SearchDown(tree, k, Root(tree), Nil).where = k) <=> k \in content
    /\ tree.color[Root(tree)] = "black"
    /\ Cardinality(BlackHeights(tree, Root(tree))) = 1
    /\ \A n \in content, s \in Side :
          LET k == tree.kid[s][n]
          IN k # Nil => /\ tree.parent[k] = n
                        /\ "black" \in {tree.color[n], tree.color[k]}
    /\ nodes_allocated = Cardinality(content) + bin
=============================================================================
