-------------------------------- MODULE RbTree --------------------------------
(***************************************************************************)
(* The red-black tree of src/src/algorithm/rbt.c and bst.c, in which the   *)
(* heap keeps its large free blocks by size.  A tree is a record of its    *)
(* root and of the fields of its nodes.  A turn of the loops of            *)
(* rbt_internal_insert and rbt_internal_delete is a step of its own, so    *)
(* that what a loop leaves broken in between, and that it ends, can be     *)
(* said.  A failed assert stops the program: "ok" is FALSE from then on.   *)
(* A definition named after a fault (SuccessorColorKept, ...) is not part  *)
(* of the model.                                                           *)
(***************************************************************************)
EXTENDS Integers, FiniteSets

CONSTANTS
    Nodes,      \* the nodes there are
    Key,        \* their keys, the sizes of free blocks: equal ones are allowed
    NULL_ID

ASSUME RbTreeAssumption ==
    /\ IsFiniteSet(Nodes) /\ NULL_ID \notin Nodes
    /\ Key \in [Nodes -> Nat]

VARIABLES
    tree,       \* the tree
    members,    \* the nodes inserted and not deleted since
    pc,         \* "idle", "float" in the loop of the insertion, "rebalance" in the other
    cursor      \* the local n of the insertion; db and p of the deletion

vars == <<tree, members, pc, cursor>>

Sides == {"left", "right"}
Other(side) == IF side = "left" THEN "right" ELSE "left"

Require(t, condition) == [t EXCEPT !.ok = @ /\ condition]
IsNode(t, n) == Require(t, n \in Nodes)

get_color(t, n) == IF n = NULL_ID THEN "black" ELSE t.color[n]
set_color(t, n, color) == IF n = NULL_ID THEN t ELSE [t EXCEPT !.color[n] = color]
set_parent(t, n, p) == IF n = NULL_ID THEN t ELSE [t EXCEPT !.parent[n] = p]
Colored(t, assignment) ==
    [t EXCEPT !.color = [n \in Nodes |-> IF n \in DOMAIN assignment THEN assignment[n] ELSE @[n]]]

\* bst_internal_setchild
ParentNotSet(t, p, side, child) == [t EXCEPT ![side][p] = child]
setchild(t, p, side, child) == set_parent([t EXCEPT ![side][p] = child], child, p)

SideOf(t, p, n) == IF t.left[p] = n THEN "left" ELSE "right"

\* bst_internal_replace
replace(t, victim, node) ==
    LET p == t.parent[victim]
    IN  IF t.root = victim
        THEN set_parent([Require(t, p = NULL_ID) EXCEPT !.root = node], node, NULL_ID)
        ELSE IF p \in Nodes /\ victim \in {t.left[p], t.right[p]}
             THEN setchild(t, p, SideOf(t, p, victim), node)
             ELSE Require(t, FALSE)

\* rbt_internal_rotate: n and its ancestors p and g become a subtree of height two,
\* under p when n is an outer grandchild and under n when it is an inner one
InnerSubtreesSwapped(t, n, p, g) ==
    LET side  == SideOf(t, g, p)
        other == Other(side)
    IN  setchild(setchild(setchild(setchild(replace(t, g, n), n, side, p), n, other, g),
                          p, other, t[other][n]), g, side, t[side][n])
RotateInner(t, n, p, g) ==
    LET side  == SideOf(t, g, p)
        other == Other(side)
    IN  setchild(setchild(setchild(setchild(replace(t, g, n), n, side, p), n, other, g),
                          p, other, t[side][n]), g, side, t[other][n])
RotateOuter(t, p, g) ==
    LET side  == SideOf(t, g, p)
        other == Other(side)
    IN  setchild(setchild(replace(t, g, p), p, other, g), g, side, t[other][p])

IsOuter(t, n, p, g) == SideOf(t, p, n) = SideOf(t, g, p)
RotatedRoot(t, n, p, g) == IF IsOuter(t, n, p, g) THEN p ELSE n

rotate(t, n, p, g) ==
    LET lineage == Require(t, n \in Nodes /\ p \in Nodes /\ g \in Nodes
                                /\ t.parent[n] = p /\ t.parent[p] = g)
    IN  IF ~lineage.ok THEN lineage
        ELSE IF IsOuter(t, n, p, g) THEN RotateOuter(t, p, g) ELSE RotateInner(t, n, p, g)

-----------------------------------------------------------------------------
(* Searches: walks down from the root *)

\* The place of x in bst_internal_insert: equal keys go to the right
Place(t, x) ==
    LET down[n \in Nodes] ==
            LET side == IF Key[x] < Key[n] THEN "left" ELSE "right"
            IN  IF t[side][n] = NULL_ID THEN [parent |-> n, side |-> side] ELSE down[t[side][n]]
    IN  down[t.root]

Leftmost(t, n) ==
    LET down[m \in Nodes] == IF t.left[m] = NULL_ID THEN m ELSE down[t.left[m]]
    IN  down[n]

\* bst_internal_find_succ, with the best successor so far
FirstLargerKept(best, n) == IF best = NULL_ID THEN n ELSE best
Closer(best, n) == IF best = NULL_ID THEN n ELSE IF Key[n] <= Key[best] THEN n ELSE best

find_succ(t, key) ==
    LET down[n \in Nodes \cup {NULL_ID}] ==
            [best \in Nodes \cup {NULL_ID} |->
                IF n = NULL_ID THEN best
                ELSE IF key = Key[n] THEN n
                ELSE IF key < Key[n] THEN down[t.left[n]][Closer(best, n)]
                ELSE down[t.right[n]][best]]
    IN  down[t.root][NULL_ID]

-----------------------------------------------------------------------------
(* Insertion *)

\* The node as redblack_tree_insert prepares it and redblack_tree_delete leaves it
Fresh(t, x) ==
    [t EXCEPT !.color[x] = "red", !.parent[x] = NULL_ID, !.left[x] = NULL_ID, !.right[x] = NULL_ID]

insert(x) ==
    /\ pc = "idle" /\ tree.ok
    /\ x \notin members
    /\ tree' = LET fresh == Fresh(tree, x)
                   place == Place(tree, x)
               IN  IF tree.root = NULL_ID
                   THEN [fresh EXCEPT !.root = x, !.color[x] = "black"]
                   ELSE setchild(fresh, place.parent, place.side, x)
    /\ members' = members \cup {x}
    /\ pc' = "float"
    /\ cursor' = [n |-> x, db |-> NULL_ID, p |-> NULL_ID]

\* The loop arrives at the root.
FloatAtRoot ==
    /\ pc = "float" /\ tree.ok
    /\ tree.parent[cursor.n] = NULL_ID
    /\ tree' = set_color(tree, cursor.n, "black")
    /\ pc' = "idle"
    /\ UNCHANGED <<members, cursor>>

\* A black parent ends the loop.
FloatUnderBlack ==
    LET p == tree.parent[cursor.n]
    IN  /\ pc = "float" /\ tree.ok
        /\ p # NULL_ID
        /\ get_color(tree, p) = "black"
        /\ tree' = Require(tree, get_color(tree, cursor.n) = "red")
        /\ pc' = "idle"
        /\ UNCHANGED <<members, cursor>>

\* A red parent: rotate at the grandparent; the new root of the three floats on.
FloatUnderRed ==
    LET n == cursor.n
        p == tree.parent[n]
        g == tree.parent[p]
        shape == Require(IsNode(tree, g), get_color(tree, n) = "red" /\ get_color(tree, g) = "black")
        root  == RotatedRoot(tree, n, p, g)
        three == [m \in {n, p, g} |-> IF m = root THEN "red" ELSE "black"]
    IN  /\ pc = "float" /\ tree.ok
        /\ p # NULL_ID
        /\ get_color(tree, p) = "red"
        /\ tree' = IF shape.ok THEN Colored(rotate(tree, n, p, g), three) ELSE shape
        /\ cursor' = IF shape.ok THEN [cursor EXCEPT !.n = root] ELSE cursor
        /\ UNCHANGED <<members, pc>>

-----------------------------------------------------------------------------
(* Deletion *)

\* bst_internal_delete, case 3: x and its successor change places, and colours
SuccessorColorKept(t, x, s) == t
SwapColors(t, x, s) == [t EXCEPT !.color[x] = t.color[s], !.color[s] = t.color[x]]

ChangePlaces(t, x) ==
    LET x_left   == t.left[x]
        x_right  == t.right[x]
        s        == Leftmost(t, x_right)
        s_right  == t.right[s]
        s_parent == t.parent[s]
        adopted  == setchild(setchild(t, x, "right", s_right), x, "left", NULL_ID)
    IN  IF s = x_right
        THEN SwapColors(setchild(setchild(replace(adopted, x, s), s, "left", x_left),
                                 s, "right", x), x, s)
        ELSE SwapColors(setchild(replace(setchild(setchild(adopted, s, "left", x_left),
                                                  s, "right", x_right), x, s),
                                 s_parent, "left", x), x, s)

Children(t, x) == {t.left[x], t.right[x]} \ {NULL_ID}

\* Cases 1 and 2: x has at most one child, which must be a red leaf
Unhook(t, x) ==
    IF Children(t, x) = {} THEN replace(t, x, NULL_ID)
    ELSE LET y == CHOOSE child \in Children(t, x) : TRUE
             shape == Require(t, /\ get_color(t, x) = "black"
                                 /\ get_color(t, y) = "red"
                                 /\ Children(t, y) = {})
         IN  replace(set_color(shape, y, "black"), x, y)

\* What bst_internal_delete reports: the parent of a black leaf
db_parent(t, x) ==
    IF Children(t, x) = {} /\ get_color(t, x) = "black" THEN t.parent[x] ELSE NULL_ID

delete(x) ==
    LET placed == IF Cardinality(Children(tree, x)) = 2 THEN ChangePlaces(tree, x) ELSE tree
        p      == db_parent(placed, x)
    IN  /\ pc = "idle" /\ tree.ok
        /\ x \in members
        /\ tree' = [Fresh(Unhook(placed, x), x) EXCEPT !.color[x] = "black"]
        /\ members' = members \ {x}
        /\ pc' = IF p = NULL_ID THEN "idle" ELSE "rebalance"
        /\ cursor' = [n |-> NULL_ID, db |-> NULL_ID, p |-> p]

\* rbt_get_psnf: parent and sibling of the doubly black db, which is NULL_ID at
\* first, and the sibling's children, near to and far from db
Family ==
    LET p    == IF cursor.db = NULL_ID THEN cursor.p ELSE tree.parent[cursor.db]
        side == SideOf(tree, p, cursor.db)
        s    == tree[Other(side)][p]
    IN  [p |-> p, s |-> s,
         n |-> IF s = NULL_ID THEN NULL_ID ELSE tree[side][s],
         f |-> IF s = NULL_ID THEN NULL_ID ELSE tree[Other(side)][s]]

Red(n) == get_color(tree, n) = "red"

\* The loop of rbt_internal_delete goes on at a node that is not the root, in one
\* of five colourings; any other is assert(0), and there is no step.
Unbalanced == pc = "rebalance" /\ tree.ok /\ cursor.db # tree.root

Turn(done, t, db, p) ==
    /\ tree' = Require(t, Family.s # NULL_ID)
    /\ pc' = IF done THEN "idle" ELSE "rebalance"
    /\ cursor' = [n |-> NULL_ID, db |-> db, p |-> p]
    /\ UNCHANGED members

\* 0xF: all black; the deficit moves to the parent
RebalanceUp ==
    LET fam == Family
    IN  /\ Unbalanced
        /\ \A m \in {fam.p, fam.s, fam.n, fam.f} : ~Red(m)
        /\ Turn(FALSE, set_color(tree, fam.s, "red"), fam.p, fam.p)

\* 0xB: only the sibling is red; db gets another sibling
RebalanceRedSibling ==
    LET fam == Family
    IN  /\ Unbalanced
        /\ Red(fam.s)
        /\ \A m \in {fam.p, fam.n, fam.f} : ~Red(m)
        /\ Turn(FALSE, Colored(rotate(tree, fam.f, fam.s, fam.p),
                               [m \in {fam.s, fam.p} |-> IF m = fam.s THEN "black" ELSE "red"]),
                cursor.db, fam.p)

\* 0x7: only the parent is red
ParentLeftRed(fam) == [m \in {fam.s} |-> "red"]
ColorsSwapped(fam) == [m \in {fam.p, fam.s} |-> IF m = fam.p THEN "black" ELSE "red"]
RebalanceRedParent ==
    LET fam == Family
    IN  /\ Unbalanced
        /\ Red(fam.p)
        /\ \A m \in {fam.s, fam.n, fam.f} : ~Red(m)
        /\ Turn(TRUE, Colored(tree, ColorsSwapped(fam)), cursor.db, fam.p)

\* 0x4, 0x5, 0xC, 0xD: the near child is red and comes up in the parent's colour
RebalanceNearRed ==
    LET fam == Family
    IN  /\ Unbalanced
        /\ Red(fam.n) /\ ~Red(fam.s)
        /\ Turn(TRUE, Colored(rotate(tree, fam.n, fam.s, fam.p),
                              [m \in {fam.p, fam.s, fam.n} |->
                                  IF m = fam.n THEN get_color(tree, fam.p) ELSE "black"]),
                cursor.db, fam.p)

\* 0x6, 0xE: the far child is red and the sibling comes up in the parent's colour
RebalanceFarRed ==
    LET fam == Family
    IN  /\ Unbalanced
        /\ Red(fam.f) /\ ~Red(fam.n) /\ ~Red(fam.s)
        /\ Turn(TRUE, Colored(rotate(tree, fam.f, fam.s, fam.p),
                              [m \in {fam.p, fam.s, fam.f} |->
                                  IF m = fam.s THEN get_color(tree, fam.p) ELSE "black"]),
                cursor.db, fam.p)

\* The deficit has reached the root and is the whole tree's.
RebalanceAtRoot ==
    /\ pc = "rebalance" /\ tree.ok
    /\ cursor.db = tree.root
    /\ pc' = "idle"
    /\ UNCHANGED <<tree, members, cursor>>

-----------------------------------------------------------------------------
EmptyTree ==
    [root |-> NULL_ID, ok |-> TRUE,
     parent |-> [n \in Nodes |-> NULL_ID], left |-> [n \in Nodes |-> NULL_ID],
     right |-> [n \in Nodes |-> NULL_ID], color |-> [n \in Nodes |-> "black"]]

Init ==
    /\ tree = EmptyTree
    /\ members = {}
    /\ pc = "idle"
    /\ cursor = [n |-> NULL_ID, db |-> NULL_ID, p |-> NULL_ID]

Loops ==
    \/ FloatAtRoot \/ FloatUnderBlack \/ FloatUnderRed
    \/ RebalanceUp \/ RebalanceRedSibling \/ RebalanceRedParent
    \/ RebalanceNearRed \/ RebalanceFarRed \/ RebalanceAtRoot

Next ==
    \/ \E x \in Nodes : insert(x) \/ delete(x)
    \/ Loops

\* A call runs until it returns: one thread has nothing else to do.
Spec == Init /\ [][Next]_vars /\ WF_vars(Loops)

-----------------------------------------------------------------------------
(* Properties *)

Optional == Nodes \cup {NULL_ID}
\* The nodes under n, itself included, walking at most Cardinality(Nodes) levels
Under ==
    LET level[i \in 0 .. Cardinality(Nodes)] ==
            [n \in Optional |->
                IF n = NULL_ID THEN {}
                ELSE IF i = 0 THEN {n}
                ELSE {n} \cup level[i - 1][tree.left[n]] \cup level[i - 1][tree.right[n]]]
    IN  level[Cardinality(Nodes)]

\* Whatever the rotations do, also between two turns of a loop, the tree has exactly
\* the members, each parent pointer is the inverse of a child pointer, and the keys
\* are in order (rbt_internal_verify checks the order only).
MembersInOrder ==
    LET under == Under
    IN  /\ under[tree.root] = members
        /\ tree.root # NULL_ID => tree.parent[tree.root] = NULL_ID
        /\ \A n \in members :
              /\ \A child \in Children(tree, n) : tree.parent[child] = n
              /\ under[tree.left[n]] \cap under[tree.right[n]] = {}
              /\ \A m \in under[tree.left[n]] : Key[m] <= Key[n]
              /\ \A m \in under[tree.right[n]] : Key[n] <= Key[m]

\* The black nodes on the paths from n down to the leaves, one number for each length
BlackHeights ==
    LET level[i \in 0 .. Cardinality(Nodes)] ==
            [n \in Optional |->
                IF n = NULL_ID \/ i = 0 THEN {0}
                ELSE {h + (IF tree.color[n] = "black" THEN 1 ELSE 0) :
                         h \in level[i - 1][tree.left[n]] \cup level[i - 1][tree.right[n]]}]
    IN  level[Cardinality(Nodes)]

\* When a call has returned, the tree is red and black: a black root, no red node
\* under a red one, and as many black nodes on each path (rbt_verify_dfs).
RedAndBlack ==
    pc = "idle" =>
        LET heights == BlackHeights
        IN  /\ get_color(tree, tree.root) = "black"
            /\ \A n \in members : Red(n) => \A child \in Children(tree, n) : ~Red(child)
            /\ Cardinality(heights[tree.root]) = 1

\* The search for a block returns one of the smallest that are large enough, and
\* none only if there is none: what Heap takes it to do.
FindSuccIsBestFit ==
    pc = "idle" /\ tree.ok =>
        \A key \in {Key[n] : n \in Nodes} :
            LET fitting == {n \in members : Key[n] >= key}
                found   == find_succ(tree, key)
            IN  IF fitting = {} THEN found = NULL_ID
                ELSE found \in fitting /\ \A n \in fitting : Key[found] <= Key[n]

\* Each insertion and each deletion returns: the loops end and meet no assert.
CallsReturn == (pc # "idle") ~> (pc = "idle" /\ tree.ok)
=============================================================================
