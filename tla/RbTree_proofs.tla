---------------------------- MODULE RbTree_proofs ----------------------------
(***************************************************************************)
(* Proofs about RbTree for any finite set of nodes, any keys and any       *)
(* sequence of calls.                                                      *)
(*                                                                         *)
(* The pointers are read through two functions that no variable holds: U   *)
(* maps a node to the nodes under it, and H to the number of black nodes   *)
(* on the paths below it.  A tree has its members in order when some U     *)
(* fits its pointers and keys, and is balanced when some H fits its        *)
(* colours, with one black node missing on one side of one node while a    *)
(* deletion is being mended.                                               *)
(***************************************************************************)
EXTENDS RbTree, FiniteSetTheorems, TLAPS

Colors == {"red", "black"}
TreeType ==
    [root : Optional, ok : BOOLEAN, parent : [Nodes -> Optional], left : [Nodes -> Optional],
     right : [Nodes -> Optional], color : [Nodes -> Colors]]
Kid(t, side, n) == IF side = "left" THEN t.left[n] ELSE t.right[n]

\* The shape: U maps each node to the nodes under it, itself included.
Tree(t, M, U) ==
    /\ t \in TreeType /\ M \subseteq Nodes
    /\ U \in [Optional -> SUBSET Nodes] /\ U[NULL_ID] = {}
    /\ t.root \in M \cup {NULL_ID} /\ U[t.root] = M
    /\ t.root # NULL_ID => t.parent[t.root] = NULL_ID
    /\ \A n \in M :
          /\ U[n] = {n} \cup U[t.left[n]] \cup U[t.right[n]]
          /\ U[t.left[n]] \cap U[t.right[n]] = {}
          /\ \A r \in Sides :
                /\ Kid(t, r, n) \in M \cup {NULL_ID}
                /\ Kid(t, r, n) # NULL_ID => t.parent[Kid(t, r, n)] = n
                /\ n \notin U[Kid(t, r, n)]
          /\ n # t.root => /\ t.parent[n] \in M
                           /\ \E r \in Sides : Kid(t, r, t.parent[n]) = n
    /\ \A n \in Nodes \ M :
          t.parent[n] = NULL_ID /\ \A r \in Sides : Kid(t, r, n) = NULL_ID

\* The keys of K are in order.
Ordered(t, K, U) ==
    \A n \in K : /\ \A m \in K \cap U[t.left[n]] : Key[m] <= Key[n]
                 /\ \A m \in K \cap U[t.right[n]] : Key[n] <= Key[m]

-----------------------------------------------------------------------------
(* Recursive functions                                                      *)

\* A monotone function on sets has a fixed point, the least of the sets it does not enlarge.
LEMMA FixedPoint ==
  ASSUME NEW D, NEW Phi \in [SUBSET D -> SUBSET D],
         \A A, B \in SUBSET D : A \subseteq B => Phi[A] \subseteq Phi[B]
  PROVE  \E S \in SUBSET D : Phi[S] = S
<1> DEFINE closed == {C \in SUBSET D : Phi[C] \subseteq C}
           S == {d \in D : \A C \in closed : d \in C}
<1>1. Phi[S] \subseteq S
  <2>1. ASSUME NEW C \in closed PROVE Phi[S] \subseteq C
    <3>1. Phi[S] \subseteq Phi[C] /\ Phi[C] \subseteq C
      OBVIOUS
    <3>. QED BY <3>1
  <2>2. Phi[S] \subseteq D
    OBVIOUS
  <2>. QED BY <2>1, <2>2
<1>2. Phi[S] \in closed
  <2>1. S \in SUBSET D
    OBVIOUS
  <2> HIDE DEF S
  <2>2. Phi[S] \in SUBSET D
    BY <2>1
  <2>3. Phi[Phi[S]] \subseteq Phi[S]
    <3> HIDE DEF closed
    <3>. QED BY <1>1, <2>1, <2>2
  <2>. QED BY <2>2, <2>3
<1>3. S \subseteq Phi[S]
  <2> HIDE DEF closed
  <2>. QED BY <1>2
<1>4. S \in SUBSET D
  OBVIOUS
<1> HIDE DEF S
<1>. QED BY <1>1, <1>3, <1>4

\* F goes on from each node to the next one, up to one of Base.
WalksOn(F, D, Base, next, b) == F = [n \in D |-> IF n \in Base THEN b[n] ELSE F[next[n]]]

\* A walk that ends at a node of Base or never does is a function: where two walks meet, they go on
\* alike, so what CHOOSE picks at the end is the same for both.
LEMMA TailRecursion ==
  ASSUME NEW D, NEW Base \in SUBSET D, NEW next \in [D -> D], NEW b
  PROVE  \E F : WalksOn(F, D, Base, next, b)
<1> DEFINE Closed(C) == \A k \in C \ Base : next[k] \in C
           R(n) == {m \in D : \A C \in SUBSET D : n \in C /\ Closed(C) => m \in C}
           End(n) == CHOOSE e : e \in R(n) \cap Base
           F == [n \in D |-> b[End(n)]]
<1>1. ASSUME NEW n \in Base PROVE End(n) = n
  <2>1. Closed({n})
    OBVIOUS
  <2>2. R(n) = {n}
    BY <2>1
  <2>. QED BY <2>2
<1>2. ASSUME NEW n \in D \ Base PROVE End(n) = End(next[n])
  <2>1. next[n] \in D
    OBVIOUS
  <2>2. \A C \in SUBSET D : n \in C /\ Closed(C) => next[n] \in C
    OBVIOUS
  <2>3. R(next[n]) \subseteq R(n)
    BY <2>2
  <2>4. ASSUME NEW m \in R(n) PROVE m = n \/ m \in R(next[n])
    <3> DEFINE C == {n} \cup R(next[n])
    <3>1. next[n] \in R(next[n])
      BY <2>1
    <3>2. \A k \in R(next[n]) \ Base : next[k] \in R(next[n])
      OBVIOUS
    <3>3. Closed(C) /\ C \in SUBSET D
      BY <3>1, <3>2
    <3> HIDE DEF C
    <3>4. m \in C
      BY <3>3 DEF C
    <3>. QED BY <3>4 DEF C
  <2>5. R(n) \cap Base = R(next[n]) \cap Base
    <3> HIDE DEF R
    <3>. QED BY <2>3, <2>4
  <2>. QED BY <2>5
<1> HIDE DEF End
<1>3. ASSUME NEW n \in D PROVE b[End(n)] = IF n \in Base THEN b[n] ELSE F[next[n]]
  BY <1>1, <1>2
<1>4. F = [n \in D |-> IF n \in Base THEN b[n] ELSE F[next[n]]]
  BY <1>3
<1>. QED BY <1>4 DEF WalksOn

-----------------------------------------------------------------------------
(* Pointers                                                                 *)

\* A child by the name of its side is the field of the record or Kid, as suits.
LEMMA KidIs ==
  ASSUME NEW t \in TreeType, NEW side \in Sides, NEW n \in Nodes
  PROVE  /\ t[side][n] = Kid(t, side, n) /\ Kid(t, side, n) \in Optional
         /\ Kid(t, "left", n) = t.left[n] /\ Kid(t, "right", n) = t.right[n]
BY DEF Kid, Sides, TreeType, Optional

\* There are two sides, each the other of the other.
LEMMA OtherSide ==
  /\ "left" \in Sides /\ "right" \in Sides /\ "left" # "right"
  /\ \A s \in Sides : Other(s) \in Sides /\ Other(s) # s /\ Other(Other(s)) = s
  /\ \A r, s \in Sides : r = s \/ r = Other(s)
BY DEF Sides, Other

\* From t to u, c became the child of p on a side.
ChildSet(t, u, p, side, c) ==
    /\ u \in TreeType
    /\ u.root = t.root /\ u.ok = t.ok /\ u.color = t.color
    /\ \A r \in Sides, m \in Nodes :
          Kid(u, r, m) = IF r = side /\ m = p THEN c ELSE Kid(t, r, m)
    /\ \A m \in Nodes : u.parent[m] = IF m = c THEN p ELSE t.parent[m]

\* setchild hangs a node or a leaf below p and leaves the other pointers alone.
LEMMA SetChild ==
  ASSUME NEW t \in TreeType, NEW p \in Nodes, NEW side \in Sides, NEW c \in Optional
  PROVE  ChildSet(t, setchild(t, p, side, c), p, side, c)
<1>0. USE DEF ChildSet
<1>1. CASE side = "left"
  BY <1>1, RbTreeAssumption DEF setchild, set_parent, TreeType, Optional, Sides, Kid
<1>2. CASE side = "right"
  BY <1>2, RbTreeAssumption DEF setchild, set_parent, TreeType, Optional, Sides, Kid
<1>. QED BY <1>1, <1>2 DEF Sides

\* A node hangs on its parent, and nowhere else.
Hangs(t, v) ==
    /\ \A r \in Sides, m \in Nodes : Kid(t, r, m) = v => m = t.parent[v] /\ Kid(t, Other(r), m) # v
    /\ IF t.root = v THEN t.parent[v] = NULL_ID
       ELSE t.parent[v] \in Nodes /\ \E r \in Sides : Kid(t, r, t.parent[v]) = v

\* SideOf finds the side of p a node hangs on, when it hangs on one only.
LEMMA SideIs ==
  ASSUME NEW t \in TreeType, NEW p \in Nodes, NEW n, NEW r \in Sides,
         Kid(t, r, p) = n, Kid(t, Other(r), p) # n
  PROVE  SideOf(t, p, n) = r
BY DEF SideOf, Sides, Kid, Other

\* bst_replace hangs a node in the place of v, whether v is the root or not.
LEMMA Replace ==
  ASSUME NEW t \in TreeType, NEW v \in Nodes, NEW node \in Optional, Hangs(t, v)
  PROVE  LET u == replace(t, v, node)
         IN /\ u \in TreeType
            /\ u.ok = t.ok /\ u.color = t.color
            /\ u.root = IF t.root = v THEN node ELSE t.root
            /\ \A r \in Sides, m \in Nodes :
                  Kid(u, r, m) = IF Kid(t, r, m) = v THEN node ELSE Kid(t, r, m)
            /\ \A m \in Nodes : u.parent[m] = IF m = node THEN t.parent[v] ELSE t.parent[m]
<1> DEFINE p == t.parent[v]
           u == replace(t, v, node)
<1>1. CASE t.root = v
  <2>1. p = NULL_ID
    BY <1>1 DEF Hangs
  <2>2. \A r \in Sides, m \in Nodes : Kid(t, r, m) # v
    BY <2>1, RbTreeAssumption DEF Hangs
  <2> DEFINE w == [t EXCEPT !.root = node]
  <2>3. u = set_parent(w, node, NULL_ID)
    <3>1. Require(t, p = NULL_ID) = t
      BY <2>1 DEF Require, TreeType
    <3>. QED BY <1>1, <3>1 DEF replace
  <2>4. w \in TreeType /\ w.ok = t.ok /\ w.color = t.color /\ w.root = node
        /\ w.parent = t.parent /\ w.left = t.left /\ w.right = t.right
    BY DEF TreeType
  <2>5. u = IF node = NULL_ID THEN w ELSE [w EXCEPT !.parent[node] = NULL_ID]
    BY <2>3 DEF set_parent
  <2> HIDE DEF w, u
  <2>6. /\ u \in TreeType /\ u.ok = w.ok /\ u.color = w.color /\ u.root = w.root
        /\ u.left = w.left /\ u.right = w.right
        /\ \A m \in Nodes : u.parent[m] = IF m = node THEN NULL_ID ELSE w.parent[m]
    BY <2>4, <2>5, RbTreeAssumption DEF TreeType, Optional
  <2>7. \A r \in Sides, m \in Nodes : Kid(u, r, m) = Kid(t, r, m)
    BY <2>4, <2>6 DEF Kid
  <2>. QED BY <1>1, <2>1, <2>2, <2>4, <2>6, <2>7 DEF u
<1>2. CASE t.root # v
  <2>1. p \in Nodes
    BY <1>2 DEF Hangs
  <2>2. PICK r \in Sides : Kid(t, r, p) = v
    BY <1>2 DEF Hangs
  <2>3. Kid(t, Other(r), p) # v
    BY <2>1, <2>2 DEF Hangs
  <2>4. SideOf(t, p, v) = r
    BY <2>1, <2>2, <2>3, SideIs
  <2>5. v \in {t.left[p], t.right[p]}
    BY <2>2 DEF Kid
  <2>6. u = setchild(t, p, r, node)
    BY <1>2, <2>1, <2>4, <2>5 DEF replace
  <2>7. \A q \in Sides, m \in Nodes : Kid(t, q, m) = v <=> q = r /\ m = p
    BY <2>1, <2>2, <2>3, OtherSide DEF Hangs
  <2>8. u \in TreeType /\ u.root = t.root /\ u.ok = t.ok /\ u.color = t.color
    BY <2>1, <2>6, SetChild DEF ChildSet
  <2>9. \A q \in Sides, m \in Nodes :
            Kid(u, q, m) = IF Kid(t, q, m) = v THEN node ELSE Kid(t, q, m)
    BY <2>1, <2>6, <2>7, SetChild DEF ChildSet
  <2>10. \A m \in Nodes : u.parent[m] = IF m = node THEN p ELSE t.parent[m]
    BY <2>1, <2>6, SetChild DEF ChildSet
  <2>. QED BY <1>2, <2>8, <2>9, <2>10
<1>. QED BY <1>1, <1>2

-----------------------------------------------------------------------------
\* What Tree says of one node, in terms of sides
LEMMA TreeNode ==
  ASSUME NEW t, NEW M, NEW U, Tree(t, M, U), NEW n \in M, NEW r \in Sides
  PROVE  /\ n \in Nodes /\ n \in Optional /\ n # NULL_ID
         /\ t.left[n] \in M \cup {NULL_ID} /\ t.right[n] \in M \cup {NULL_ID}
         /\ t[r][n] = Kid(t, r, n) /\ Kid(t, r, n) \in M \cup {NULL_ID}
         /\ Kid(t, r, n) \in Optional
         /\ U[n] = {n} \cup U[Kid(t, r, n)] \cup U[Kid(t, Other(r), n)]
         /\ U[Kid(t, r, n)] \cap U[Kid(t, Other(r), n)] = {}
         /\ n \in U[n] /\ n \notin U[Kid(t, r, n)] /\ n \notin U[Kid(t, Other(r), n)]
         /\ Kid(t, r, n) # NULL_ID =>
               /\ t.parent[Kid(t, r, n)] = n /\ Kid(t, r, n) # n
               /\ Kid(t, r, n) # Kid(t, Other(r), n)
               /\ Kid(t, r, n) # t.root
<1>1. n \in Nodes /\ n \in Optional /\ n # NULL_ID /\ t \in TreeType
  BY RbTreeAssumption DEF Tree, Optional
<1>2. /\ Kid(t, "left", n) = t.left[n] /\ Kid(t, "right", n) = t.right[n]
      /\ t[r][n] = Kid(t, r, n)
  BY <1>1, KidIs
<1>3. \A q \in Sides : Kid(t, q, n) \in M \cup {NULL_ID}
  BY DEF Tree
<1>4. /\ U[n] = {n} \cup U[t.left[n]] \cup U[t.right[n]]
      /\ U[t.left[n]] \cap U[t.right[n]] = {}
  BY DEF Tree
<1>5. (r = "left" /\ Other(r) = "right") \/ (r = "right" /\ Other(r) = "left")
  BY DEF Sides, Other
<1>6. /\ U[n] = {n} \cup U[Kid(t, r, n)] \cup U[Kid(t, Other(r), n)]
      /\ U[Kid(t, r, n)] \cap U[Kid(t, Other(r), n)] = {}
  BY <1>2, <1>4, <1>5
<1>7. n \notin U[Kid(t, r, n)] /\ n \notin U[Kid(t, Other(r), n)]
  BY OtherSide DEF Tree
<1>8. ASSUME Kid(t, r, n) # NULL_ID
      PROVE  /\ t.parent[Kid(t, r, n)] = n /\ Kid(t, r, n) # n
             /\ Kid(t, r, n) # Kid(t, Other(r), n) /\ Kid(t, r, n) # t.root
  <2>1. t.parent[Kid(t, r, n)] = n
    BY <1>8 DEF Tree
  <2>2. Kid(t, r, n) \in M
    BY <1>3, <1>8
  <2>3. Kid(t, r, n) \in U[Kid(t, r, n)]
    BY <2>2 DEF Tree
  <2>4. Kid(t, r, n) # t.root
    BY <1>1, <1>8, <2>1 DEF Tree
  <2>. QED BY <1>6, <1>7, <2>1, <2>3, <2>4
<1>9. t.left[n] \in M \cup {NULL_ID} /\ t.right[n] \in M \cup {NULL_ID}
  BY <1>2, <1>3, OtherSide
<1>10. Kid(t, r, n) \in M \cup {NULL_ID} /\ Kid(t, r, n) \in Optional
  BY <1>3 DEF Tree, Optional
<1>11. n \in U[n]
  BY <1>4
<1>. QED BY <1>1, <1>2, <1>6, <1>7, <1>8, <1>9, <1>10, <1>11

\* What Tree says of a child
LEMMA TreeChild ==
  ASSUME NEW t, NEW M, NEW U, Tree(t, M, U), NEW n \in M, NEW r \in Sides, Kid(t, r, n) # NULL_ID
  PROVE  LET k == Kid(t, r, n)
         IN  /\ k \in M /\ k \in Nodes /\ k # n /\ k # t.root /\ t.parent[k] = n
             /\ k # Kid(t, Other(r), n)
             /\ k \in U[k] /\ k \in U[n] /\ n \in U[n] /\ U[k] \subseteq U[n] /\ n \notin U[k]
<1> DEFINE k == Kid(t, r, n)
<1>1. /\ k \in M \cup {NULL_ID} /\ U[n] = {n} \cup U[k] \cup U[Kid(t, Other(r), n)]
      /\ n \notin U[k] /\ n \in U[n]
      /\ t.parent[k] = n /\ k # n /\ k # Kid(t, Other(r), n) /\ k # t.root
  BY TreeNode
<1> HIDE DEF k
<1>2. k \in M /\ M \subseteq Nodes
  BY <1>1 DEF k, Tree
<1>3. k \in U[k]
  BY <1>2, OtherSide, TreeNode
<1>. QED BY <1>1, <1>2, <1>3 DEF k

\* Who has a node for a child is its parent.
LEMMA TreeHangs ==
  ASSUME NEW t, NEW M, NEW U, Tree(t, M, U), NEW v \in M
  PROVE  Hangs(t, v)
<1>1. ASSUME NEW r \in Sides, NEW m \in Nodes, Kid(t, r, m) = v
      PROVE  m = t.parent[v] /\ Kid(t, Other(r), m) # v
  <2>1. v # NULL_ID
    BY RbTreeAssumption DEF Tree
  <2>2. m \in M
    BY <1>1, <2>1 DEF Tree
  <2>. QED BY <1>1, <2>1, <2>2, TreeNode
<1>2. t.root = v => t.parent[v] = NULL_ID
  BY RbTreeAssumption DEF Tree
<1>3. t.root # v => t.parent[v] \in Nodes /\ \E r \in Sides : Kid(t, r, t.parent[v]) = v
  BY DEF Tree
<1>. QED BY <1>1, <1>2, <1>3 DEF Hangs

\* Induction from the leaves up: a set that has each node whose children it has
LEMMA TreeInduction ==
  ASSUME NEW t, NEW M, NEW U, Tree(t, M, U), NEW P,
         \A n \in M : (\A r \in Sides : Kid(t, r, n) \in P \cup {NULL_ID}) => n \in P
  PROVE  M \subseteq P
<1> DEFINE bad == {n \in M : n \notin P}
           subtrees == {U[n] : n \in bad}
<1>1. SUFFICES ASSUME bad # {} PROVE FALSE
  OBVIOUS
<1>2. \A n \in M : n \in Optional /\ U[n] \in SUBSET Nodes
  BY RbTreeAssumption DEF Tree, Optional
<1>3. subtrees \subseteq FiniteSubsetsOf(Nodes) /\ subtrees # {}
  BY <1>1, <1>2, FS_Subset, RbTreeAssumption DEF FiniteSubsetsOf
<1>4. PICK least \in subtrees : \A S \in subtrees : <<S, least>> \notin StrictSubsetOrdering(Nodes)
  <2> HIDE DEF subtrees
  <2>. QED BY <1>3, FS_StrictSubsetOrderingWellFounded, WFMin
<1>5. PICK n \in bad : least = U[n]
  OBVIOUS
<1>6. PICK r \in Sides : Kid(t, r, n) \notin P \cup {NULL_ID}
  BY <1>5
<1> DEFINE c == Kid(t, r, n)
<1>7. c \in bad /\ U[c] \subseteq U[n] /\ U[c] # U[n]
  <2>1. n \in M /\ c # NULL_ID /\ c \notin P
    BY <1>6
  <2>2. c \in M /\ U[c] \subseteq U[n] /\ n \in U[n] /\ n \notin U[c]
    BY <2>1, TreeChild
  <2>. QED BY <2>1, <2>2
<1>8. U[c] \in subtrees
  BY <1>7
<1> HIDE DEF c
<1>9. <<U[c], U[n]>> \in StrictSubsetOrdering(Nodes)
  BY <1>2, <1>7 DEF StrictSubsetOrdering
<1>. QED BY <1>4, <1>5, <1>8, <1>9

\* What is under a node is under the nodes it is under.
LEMMA TreeNested ==
  ASSUME NEW t, NEW M, NEW U, Tree(t, M, U), NEW a \in M, NEW c \in U[a]
  PROVE  c \in M /\ U[c] \subseteq U[a] /\ (c # a => t.parent[c] \in U[a])
<1> DEFINE P == {b \in M : \A d \in U[b] :
                    d \in M /\ U[d] \subseteq U[b] /\ (d # b => t.parent[d] \in U[b])}
<1>1. ASSUME NEW b \in M, \A r \in Sides : Kid(t, r, b) \in P \cup {NULL_ID}, NEW d \in U[b]
      PROVE  d \in M /\ U[d] \subseteq U[b] /\ (d # b => t.parent[d] \in U[b])
  <2>1. CASE d = b
    BY <2>1
  <2>2. CASE d # b
    <3>1. PICK r \in Sides : d \in U[Kid(t, r, b)]
      BY <2>2, TreeNode, OtherSide
    <3>2. Kid(t, r, b) # NULL_ID
      BY <3>1 DEF Tree
    <3> DEFINE k == Kid(t, r, b)
    <3>3. k \in P /\ t.parent[k] = b /\ U[k] \subseteq U[b] /\ b \in U[b]
      BY <1>1, <3>2, TreeNode
    <3> HIDE DEF k
    <3>4. d \in M /\ U[d] \subseteq U[k] /\ (d # k => t.parent[d] \in U[k])
      BY <3>1, <3>3 DEF k
    <3>. QED BY <3>3, <3>4
  <2>. QED BY <2>1, <2>2
<1>2. \A b \in M : (\A r \in Sides : Kid(t, r, b) \in P \cup {NULL_ID}) => b \in P
  BY <1>1
<1> HIDE DEF P
<1>3. M \subseteq P
  BY <1>2, TreeInduction
<1>. QED BY <1>3 DEF P

\* A node of a tree, said of its two sides in any order
Fits(t, M, U, n) ==
    /\ \E s \in Sides :
          /\ U[n] = {n} \cup U[Kid(t, s, n)] \cup U[Kid(t, Other(s), n)]
          /\ U[Kid(t, s, n)] \cap U[Kid(t, Other(s), n)] = {}
    /\ \A r \in Sides :
          /\ Kid(t, r, n) \in M \cup {NULL_ID}
          /\ Kid(t, r, n) # NULL_ID => t.parent[Kid(t, r, n)] = n
          /\ n \notin U[Kid(t, r, n)]
HasPlace(t, M, n) ==
    n # t.root => /\ t.parent[n] \in M
                  /\ \E r \in Sides : Kid(t, r, t.parent[n]) = n
Apart(t, n) == t.parent[n] = NULL_ID /\ \A r \in Sides : Kid(t, r, n) = NULL_ID
Rooted(t, M, U) ==
    /\ t.root \in M \cup {NULL_ID} /\ U[t.root] = M
    /\ t.root # NULL_ID => t.parent[t.root] = NULL_ID

\* The parts above make a tree.
LEMMA TreeFrom ==
  ASSUME NEW t \in TreeType, NEW M \in SUBSET Nodes, NEW U \in [Optional -> SUBSET Nodes],
         U[NULL_ID] = {}, Rooted(t, M, U),
         \A n \in M : Fits(t, M, U, n), \A n \in M : HasPlace(t, M, n),
         \A n \in Nodes \ M : Apart(t, n)
  PROVE  Tree(t, M, U)
<1>1. ASSUME NEW n \in M
      PROVE  /\ U[n] = {n} \cup U[t.left[n]] \cup U[t.right[n]]
             /\ U[t.left[n]] \cap U[t.right[n]] = {}
  <2>1. PICK s \in Sides : /\ U[n] = {n} \cup U[Kid(t, s, n)] \cup U[Kid(t, Other(s), n)]
                           /\ U[Kid(t, s, n)] \cap U[Kid(t, Other(s), n)] = {}
    BY DEF Fits
  <2>2. n \in Nodes /\ Kid(t, "left", n) = t.left[n] /\ Kid(t, "right", n) = t.right[n]
    BY DEF Kid
  <2>3. (s = "left" /\ Other(s) = "right") \/ (s = "right" /\ Other(s) = "left")
    BY DEF Sides, Other
  <2>. QED BY <2>1, <2>2, <2>3
<1>. QED BY <1>1 DEF Tree, Fits, HasPlace, Apart, Rooted

\* The order, of the sides of a node
Below(t, K, U, n, r) ==
    \A m \in K \cap U[Kid(t, r, n)] : IF r = "left" THEN Key[m] <= Key[n] ELSE Key[n] <= Key[m]

\* Keys are in order if and only if they are on each side of every node.
LEMMA OrderedSides ==
  ASSUME NEW t \in TreeType, NEW K \in SUBSET Nodes, NEW U
  PROVE  Ordered(t, K, U) <=> \A n \in K, r \in Sides : Below(t, K, U, n, r)
<1>1. \A n \in K : /\ Kid(t, "left", n) = t.left[n] /\ Kid(t, "right", n) = t.right[n]
  BY DEF Kid
<1>. QED BY <1>1 DEF Ordered, Below, Sides

-----------------------------------------------------------------------------
(* Rotations                                                                *)

\* From t to u, the child p on side s of g came up over g.
Lifted(t, u, p, g, s) ==
    /\ u \in TreeType
    /\ u.root = IF t.root = g THEN p ELSE t.root
    /\ \A r \in Sides, m \in Nodes :
          Kid(u, r, m) = IF m = p THEN IF r = s THEN Kid(t, r, m) ELSE g
                         ELSE IF m = g THEN IF r = s THEN Kid(t, Other(s), p) ELSE Kid(t, r, m)
                         ELSE IF Kid(t, r, m) = g THEN p ELSE Kid(t, r, m)
    /\ \A m \in Nodes : u.parent[m] = IF m = p THEN t.parent[g]
                                      ELSE IF m = g THEN p
                                      ELSE IF m = Kid(t, Other(s), p) THEN g ELSE t.parent[m]

\* Lifting p over g keeps the tree and the order of the keys: the nodes under g are now under
\* p, and g has the inner subtree of p in the place of p.
LEMMA LiftTree ==
  ASSUME NEW t, NEW M, NEW U, Tree(t, M, U), NEW g \in M, NEW s \in Sides,
         NEW p, p = Kid(t, s, g), p # NULL_ID, NEW u, Lifted(t, u, p, g, s)
  PROVE  LET W == [U EXCEPT ![g] = {g} \cup U[Kid(t, Other(s), p)] \cup U[Kid(t, Other(s), g)],
                            ![p] = U[g]]
         IN  Tree(u, M, W) /\ (Ordered(t, M, U) => Ordered(u, M, W))
<1> DEFINE o == Other(s)
           b == Kid(t, s, p)
           c == Kid(t, o, p)
           d == Kid(t, o, g)
           V == {g} \cup U[c] \cup U[d]
           W == [U EXCEPT ![g] = V, ![p] = U[g]]
<1>0. o \in Sides /\ o # s /\ Other(o) = s /\ (\A r \in Sides : r = s \/ r = o)
  BY OtherSide
<1>1. /\ M \subseteq Nodes /\ M \subseteq Optional /\ NULL_ID \in Optional /\ NULL_ID \notin M
      /\ t \in TreeType /\ u \in TreeType /\ U \in [Optional -> SUBSET Nodes] /\ U[NULL_ID] = {}
  BY RbTreeAssumption DEF Tree, Optional, Lifted
<1>2. p \in M /\ p # g /\ t.parent[p] = g
  BY TreeChild
<1>3. /\ U[g] = {g} \cup U[p] \cup U[d] /\ U[p] \cap U[d] = {} /\ g \notin U[p] /\ g \notin U[d]
      /\ d \in M \cup {NULL_ID} /\ d # p
  <2>1. /\ U[g] = {g} \cup U[Kid(t, s, g)] \cup U[d] /\ U[Kid(t, s, g)] \cap U[d] = {}
        /\ g \notin U[Kid(t, s, g)] /\ g \notin U[d]
    BY TreeNode
  <2>2. d \in M \cup {NULL_ID}
    BY <1>0, TreeNode
  <2>3. d # p
    BY TreeChild
  <2>. QED BY <2>1, <2>2, <2>3
<1>4. /\ U[p] = {p} \cup U[b] \cup U[c] /\ U[b] \cap U[c] = {} /\ p \notin U[b] /\ p \notin U[c]
      /\ b \in M \cup {NULL_ID} /\ c \in M \cup {NULL_ID}
      /\ (b # NULL_ID => t.parent[b] = p) /\ (c # NULL_ID => t.parent[c] = p)
      /\ p \in U[p]
  BY <1>0, <1>2, TreeNode
<1>5. (d # NULL_ID => t.parent[d] = g)
  BY <1>0, TreeNode
<1>6. \A k \in M : k \in U[k]
  BY OtherSide, TreeNode
<1>7. b # g /\ b # p /\ c # g /\ c # p /\ d # g /\ d # p /\ (b # NULL_ID => b # c) /\ (d # NULL_ID => d # c)
  BY <1>1, <1>2, <1>3, <1>4, <1>5, <1>6
<1>8. /\ W \in [Optional -> SUBSET Nodes] /\ W[NULL_ID] = {} /\ W[g] = V /\ W[p] = U[g]
      /\ \A k \in Optional : k # g /\ k # p => W[k] = U[k]
  BY <1>1, <1>2, <1>3, <1>4
<1>9. /\ Kid(u, s, p) = b /\ Kid(u, o, p) = g /\ Kid(u, s, g) = c /\ Kid(u, o, g) = d
      /\ u.parent[p] = t.parent[g] /\ u.parent[g] = p /\ (c # NULL_ID => u.parent[c] = g)
  BY <1>0, <1>1, <1>2, <1>4, <1>7 DEF Lifted
<1>10. W[b] = U[b] /\ W[c] = U[c] /\ W[d] = U[d]
  BY <1>1, <1>3, <1>4, <1>7, <1>8
<1> HIDE DEF W, V
<1>11. ASSUME NEW m \in M, m # g, m # p, NEW r \in Sides
       PROVE  /\ Kid(u, r, m) = IF Kid(t, r, m) = g THEN p ELSE Kid(t, r, m)
              /\ Kid(t, r, m) # p /\ Kid(t, r, m) \in M \cup {NULL_ID}
              /\ W[Kid(u, r, m)] = U[Kid(t, r, m)]
  <2>1. Kid(u, r, m) = IF Kid(t, r, m) = g THEN p ELSE Kid(t, r, m)
    BY <1>1, <1>11 DEF Lifted
  <2>2. Kid(t, r, m) # p /\ Kid(t, r, m) \in M \cup {NULL_ID}
    <3>1. Kid(t, r, m) \in M \cup {NULL_ID}
      BY TreeNode
    <3>2. Kid(t, r, m) # NULL_ID => t.parent[Kid(t, r, m)] = m
      BY TreeNode
    <3>. QED BY <1>2, <1>11, <3>1, <3>2
  <2>. QED BY <1>1, <1>8, <2>1, <2>2
<1>12. ASSUME NEW n \in M
       PROVE  /\ \E q \in Sides :
                    /\ W[n] = {n} \cup W[Kid(u, q, n)] \cup W[Kid(u, Other(q), n)]
                    /\ W[Kid(u, q, n)] \cap W[Kid(u, Other(q), n)] = {}
              /\ \A r \in Sides : /\ Kid(u, r, n) \in M \cup {NULL_ID}
                                  /\ Kid(u, r, n) # NULL_ID => u.parent[Kid(u, r, n)] = n
                                  /\ n \notin W[Kid(u, r, n)]
  <2>1. CASE n = p
    <3>1. W[p] = {p} \cup W[b] \cup W[g] /\ W[b] \cap W[g] = {} /\ p \notin W[b] /\ p \notin W[g]
      BY <1>3, <1>4, <1>8, <1>10 DEF V
    <3>2. b # NULL_ID => u.parent[b] = p
      BY <1>1, <1>4, <1>7 DEF Lifted
    <3>. QED BY <1>0, <1>4, <1>9, <2>1, <3>1, <3>2
  <2>2. CASE n = g
    <3>1. W[g] = {g} \cup W[c] \cup W[d] /\ W[c] \cap W[d] = {} /\ g \notin W[c] /\ g \notin W[d]
      BY <1>3, <1>4, <1>8, <1>10 DEF V
    <3>2. d # NULL_ID => u.parent[d] = g
      BY <1>1, <1>3, <1>5, <1>7 DEF Lifted
    <3>. QED BY <1>0, <1>3, <1>4, <1>9, <2>2, <3>1, <3>2
  <2>3. CASE n # g /\ n # p
    <3>1. /\ U[n] = {n} \cup U[Kid(t, s, n)] \cup U[Kid(t, o, n)]
          /\ U[Kid(t, s, n)] \cap U[Kid(t, o, n)] = {} /\ n \notin U[Kid(t, s, n)] /\ n \notin U[Kid(t, o, n)]
      BY TreeNode
    <3>2. W[n] = U[n]
      BY <1>1, <1>8, <2>3
    <3>3. W[Kid(u, s, n)] = U[Kid(t, s, n)] /\ W[Kid(u, o, n)] = U[Kid(t, o, n)]
      BY <1>0, <1>11, <2>3
    <3>4. ASSUME NEW r \in Sides
          PROVE  /\ Kid(u, r, n) \in M \cup {NULL_ID}
                 /\ Kid(u, r, n) # NULL_ID => u.parent[Kid(u, r, n)] = n
      <4>1. Kid(t, r, n) # NULL_ID => t.parent[Kid(t, r, n)] = n
        BY TreeChild
      <4>2. CASE Kid(t, r, n) = g
        BY <1>1, <1>2, <1>9, <1>11, <2>3, <4>1, <4>2
      <4>3. CASE Kid(t, r, n) # g
        <5>1. Kid(u, r, n) = Kid(t, r, n) /\ Kid(u, r, n) \in M \cup {NULL_ID} /\ Kid(u, r, n) # p
          BY <1>11, <2>3, <4>3
        <5>2. Kid(u, r, n) # NULL_ID => Kid(u, r, n) # c
          BY <1>4, <2>3, <4>1, <5>1
        <5>. QED BY <1>1, <4>1, <4>3, <5>1, <5>2 DEF Lifted
      <4>. QED BY <4>2, <4>3
    <3>. QED BY <1>0, <3>1, <3>2, <3>3, <3>4
  <2>. QED BY <2>1, <2>2, <2>3
<1>13. ASSUME NEW n \in M, n # u.root
       PROVE  u.parent[n] \in M /\ \E r \in Sides : Kid(u, r, u.parent[n]) = n
  <2>1. CASE n = p
    <3>1. g # t.root
      BY <1>13, <2>1 DEF Lifted
    <3>2. t.parent[g] \in M /\ \E r \in Sides : Kid(t, r, t.parent[g]) = g
      BY <3>1 DEF Tree
    <3>3. t.parent[g] # g /\ t.parent[g] # p
      BY <1>0, <1>2, <1>4, <1>7, <3>2, TreeNode
    <3>. QED BY <1>9, <1>11, <2>1, <3>2, <3>3
  <2>2. CASE n = g
    BY <1>0, <1>2, <1>9, <2>2
  <2>3. CASE n # g /\ n # p
    <3>1. n # t.root
      BY <1>13, <2>3 DEF Lifted
    <3>2. t.parent[n] \in M
      BY <3>1 DEF Tree
    <3>3. PICK r \in Sides : Kid(t, r, t.parent[n]) = n
      BY <3>1 DEF Tree
    <3>4. CASE n = c
      BY <1>0, <1>1, <1>9, <3>4
    <3>5. CASE n # c
      <4>1. u.parent[n] = t.parent[n]
        BY <1>1, <2>3, <3>5 DEF Lifted
      <4>2. CASE t.parent[n] = p
        BY <1>0, <1>2, <1>9, <3>3, <3>5, <4>1, <4>2
      <4>3. CASE t.parent[n] = g
        BY <1>0, <1>9, <2>3, <3>3, <4>1, <4>3
      <4>4. CASE t.parent[n] # g /\ t.parent[n] # p
        BY <1>11, <2>3, <3>2, <3>3, <4>1, <4>4
      <4>. QED BY <4>2, <4>3, <4>4
    <3>. QED BY <3>4, <3>5
  <2>. QED BY <2>1, <2>2, <2>3
<1>14. ASSUME NEW n \in Nodes \ M
       PROVE  u.parent[n] = NULL_ID /\ \A r \in Sides : Kid(u, r, n) = NULL_ID
  <2>1. t.parent[n] = NULL_ID /\ \A r \in Sides : Kid(t, r, n) = NULL_ID
    BY DEF Tree
  <2>2. n # g /\ n # p /\ n # c /\ g # NULL_ID
    BY <1>1, <1>2, <1>4, RbTreeAssumption
  <2>. QED BY <2>1, <2>2 DEF Lifted
<1>15. u.root \in M \cup {NULL_ID} /\ W[u.root] = M /\ (u.root # NULL_ID => u.parent[u.root] = NULL_ID)
  <2>1. CASE t.root = g
    <3>1. u.root = p /\ U[g] = M /\ t.parent[g] = NULL_ID
      BY <1>1, <2>1 DEF Lifted, Tree
    <3>. QED BY <1>2, <1>8, <1>9, <3>1
  <2>2. CASE t.root # g
    <3>1. u.root = t.root /\ t.root \in M \cup {NULL_ID} /\ U[t.root] = M
      BY <2>2 DEF Lifted, Tree
    <3>2. t.root # NULL_ID => t.parent[t.root] = NULL_ID /\ t.root # p /\ t.root # c
      BY <1>1, <1>2, <1>4 DEF Tree
    <3>3. W[t.root] = U[t.root]
      BY <1>1, <1>8, <2>2, <3>1, <3>2
    <3>4. t.root # NULL_ID => u.parent[t.root] = NULL_ID
      BY <1>1, <2>2, <3>1, <3>2 DEF Lifted
    <3>. QED BY <3>1, <3>3, <3>4
  <2>. QED BY <2>1, <2>2
<1>16. Tree(u, M, W)
  <2>1. M \in SUBSET Nodes /\ W[NULL_ID] = {}
    BY <1>1, <1>8
  <2>2. \A n \in M : HasPlace(u, M, n)
    BY <1>13 DEF HasPlace
  <2>3. \A n \in Nodes \ M : Apart(u, n)
    BY <1>14 DEF Apart
  <2>4. W \in [Optional -> SUBSET Nodes] /\ u \in TreeType
    BY <1>1, <1>8
  <2>5. \A n \in M : Fits(u, M, W, n)
    BY <1>12 DEF Fits
  <2>6. Rooted(u, M, W)
    BY <1>15 DEF Rooted
  <2>. QED BY <2>1, <2>2, <2>3, <2>4, <2>5, <2>6, TreeFrom
<1>17. ASSUME Ordered(t, M, U) PROVE Ordered(u, M, W)
  <2>1. \A n \in M, r \in Sides : Below(t, M, U, n, r)
    BY <1>1, <1>17, OrderedSides
  <2>2. ASSUME NEW n \in M, NEW r \in Sides PROVE Below(u, M, W, n, r)
    <3>1. CASE n # g /\ n # p
      <4>1. W[Kid(u, r, n)] = U[Kid(t, r, n)]
        BY <1>11, <3>1
      <4>. QED BY <2>1, <4>1 DEF Below
    <3>2. CASE n = p /\ r = s
      BY <1>9, <1>10, <2>1, <3>2 DEF Below
    <3>3. CASE n = g /\ r = o
      BY <1>9, <1>10, <2>1, <3>3 DEF Below
    <3>4. CASE n = g /\ r = s
      <4>1. Below(t, M, U, g, s) /\ U[c] \subseteq U[p]
        BY <1>4, <2>1
      <4>. QED BY <1>9, <1>10, <3>4, <4>1 DEF Below
    <3>5. CASE n = p /\ r = o
      <4>1. Below(t, M, U, g, s) /\ Below(t, M, U, g, o) /\ Below(t, M, U, p, o) /\ p \in U[p]
        BY <1>0, <1>2, <1>4, <2>1
      <4>2. W[Kid(u, r, n)] = {g} \cup U[c] \cup U[d]
        BY <1>8, <1>9, <3>5 DEF V
      <4>3. Key \in [Nodes -> Nat]
        BY RbTreeAssumption
      <4>4. \A m \in M : Key[m] \in Nat
        BY <1>1, <4>3
      <4>5. (s = "left" /\ o = "right") \/ (s = "right" /\ o = "left")
        BY DEF Sides, Other
      <4>6. CASE s = "left" /\ o = "right"
        <5>1. Key[p] <= Key[g]
          BY <1>2, <4>1, <4>6 DEF Below
        <5>2. ASSUME NEW m \in M, m \in {g} \cup U[c] \cup U[d] PROVE Key[p] <= Key[m]
          BY <1>2, <4>1, <4>4, <4>6, <5>1, <5>2 DEF Below
        <5>. QED BY <3>5, <4>2, <4>6, <5>2 DEF Below
      <4>7. CASE s = "right" /\ o = "left"
        <5>1. Key[g] <= Key[p]
          BY <1>2, <4>1, <4>7 DEF Below
        <5>2. ASSUME NEW m \in M, m \in {g} \cup U[c] \cup U[d] PROVE Key[m] <= Key[p]
          BY <1>2, <4>1, <4>4, <4>7, <5>1, <5>2 DEF Below
        <5>. QED BY <3>5, <4>2, <4>7, <5>2 DEF Below
      <4>. QED BY <4>5, <4>6, <4>7
    <3>. QED BY <1>0, <3>1, <3>2, <3>3, <3>4, <3>5
  <2>. QED BY <1>1, <2>2, OrderedSides
<1>. QED BY <1>16, <1>17 DEF W, V

\* So the members are in order after a lift as before.
LEMMA LiftOrdered ==
  ASSUME NEW t, NEW M, NEW U, Tree(t, M, U), Ordered(t, M, U), NEW g \in M, NEW s \in Sides,
         NEW p, p = Kid(t, s, g), p # NULL_ID, NEW u, Lifted(t, u, p, g, s)
  PROVE  \E W : Tree(u, M, W) /\ Ordered(u, M, W)
BY LiftTree

\* The outer rotation of bst.c lifts the middle node.
LEMMA OuterLifts ==
  ASSUME NEW t, NEW M, NEW U, Tree(t, M, U), NEW g \in M, NEW s \in Sides,
         NEW p, p = Kid(t, s, g), p # NULL_ID
  PROVE  LET u == RotateOuter(t, p, g)
         IN  Lifted(t, u, p, g, s) /\ u.ok = t.ok /\ u.color = t.color
<1> DEFINE o == Other(s)
           c == Kid(t, o, p)
           v1 == replace(t, g, p)
           v2 == setchild(v1, p, o, g)
           v3 == setchild(v2, g, s, c)
<1>0. o \in Sides /\ o # s /\ (\A r \in Sides : r = s \/ r = o)
  BY OtherSide
<1>1. t \in TreeType /\ p \in Nodes /\ g \in Nodes /\ p \in Optional /\ g \in Optional /\ p \in M /\ p # g
  <2>1. p \in M /\ p \in Nodes /\ p # g
    BY TreeChild
  <2>. QED BY <2>1 DEF Tree, Optional
<1>2. c \in Optional /\ c # g /\ c # p /\ Kid(t, s, p) # g /\ t[o][p] = c
  <2>1. c \in M \cup {NULL_ID} /\ t[o][p] = c /\ c \in Optional
    BY <1>0, <1>1, TreeNode
  <2>2. c # NULL_ID => t.parent[c] = p /\ c # p
    BY <1>0, <1>1, TreeChild
  <2>3. g # p /\ g # Kid(t, s, p) /\ g # c
    <3>1. g \notin U[p]
      BY TreeChild
    <3>2. \A r \in Sides : Kid(t, r, p) # NULL_ID => Kid(t, r, p) \in U[p]
      BY <1>1, TreeChild
    <3>3. g # NULL_ID
      BY <1>1, RbTreeAssumption
    <3>. QED BY <1>0, <1>1, <3>1, <3>2, <3>3
  <2>4. p # NULL_ID
    BY <1>1, RbTreeAssumption
  <2>. QED BY <2>1, <2>2, <2>3, <2>4
<1>3. SideOf(t, g, p) = s
  <2>1. Kid(t, o, g) # p
    BY TreeChild
  <2>. QED BY <1>1, <2>1, SideIs
<1>4. RotateOuter(t, p, g) = v3
  BY <1>2, <1>3 DEF RotateOuter
<1>5. /\ v1 \in TreeType /\ v1.ok = t.ok /\ v1.color = t.color
      /\ v1.root = (IF t.root = g THEN p ELSE t.root)
      /\ \A r \in Sides, m \in Nodes : Kid(v1, r, m) = IF Kid(t, r, m) = g THEN p ELSE Kid(t, r, m)
      /\ \A m \in Nodes : v1.parent[m] = IF m = p THEN t.parent[g] ELSE t.parent[m]
  BY <1>1, TreeHangs, Replace
<1> HIDE DEF v1
<1>6. /\ v2 \in TreeType /\ v2.ok = v1.ok /\ v2.color = v1.color /\ v2.root = v1.root
      /\ \A r \in Sides, m \in Nodes : Kid(v2, r, m) = IF r = o /\ m = p THEN g ELSE Kid(v1, r, m)
      /\ \A m \in Nodes : v2.parent[m] = IF m = g THEN p ELSE v1.parent[m]
  <2>1. ChildSet(v1, v2, p, o, g)
    BY <1>0, <1>1, <1>5, SetChild
  <2> HIDE DEF v2
  <2>. QED BY <2>1 DEF ChildSet
<1> HIDE DEF v2
<1>7. /\ v3 \in TreeType /\ v3.ok = v2.ok /\ v3.color = v2.color /\ v3.root = v2.root
      /\ \A r \in Sides, m \in Nodes : Kid(v3, r, m) = IF r = s /\ m = g THEN c ELSE Kid(v2, r, m)
      /\ \A m \in Nodes : v3.parent[m] = IF m = c THEN g ELSE v2.parent[m]
  <2>1. ChildSet(v2, v3, g, s, c)
    BY <1>1, <1>2, <1>6, SetChild
  <2> HIDE DEF v3
  <2>. QED BY <2>1 DEF ChildSet
<1> HIDE DEF v3
<1>8. ASSUME NEW r \in Sides, NEW m \in Nodes
      PROVE  Kid(v3, r, m) = IF m = p THEN IF r = s THEN Kid(t, r, m) ELSE g
                             ELSE IF m = g THEN IF r = s THEN Kid(t, o, p) ELSE Kid(t, r, m)
                             ELSE IF Kid(t, r, m) = g THEN p ELSE Kid(t, r, m)
  <2>1. Kid(t, r, g) # g
    BY <1>1, TreeNode, RbTreeAssumption
  <2>. QED BY <1>0, <1>1, <1>2, <1>5, <1>6, <1>7, <2>1
<1>9. ASSUME NEW m \in Nodes
      PROVE  v3.parent[m] = IF m = p THEN t.parent[g] ELSE IF m = g THEN p
                            ELSE IF m = Kid(t, o, p) THEN g ELSE t.parent[m]
  BY <1>1, <1>2, <1>5, <1>6, <1>7
<1>10. Lifted(t, v3, p, g, s)
  BY <1>5, <1>6, <1>7, <1>8, <1>9 DEF Lifted
<1>. QED BY <1>4, <1>5, <1>6, <1>7, <1>10

\* The inner rotation is two of them: the grandchild comes up twice.
LEMMA InnerLifts ==
  ASSUME NEW t, NEW M, NEW U, Tree(t, M, U), NEW g \in M, NEW s \in Sides,
         NEW p, p = Kid(t, s, g), p # NULL_ID, NEW n, n = Kid(t, Other(s), p), n # NULL_ID
  PROVE  LET v == RotateOuter(t, n, p)
             w == RotateInner(t, n, p, g)
         IN  /\ Lifted(t, v, n, p, Other(s)) /\ Lifted(v, w, n, g, s)
             /\ w.ok = t.ok /\ w.color = t.color
<1> DEFINE o == Other(s)
           v == RotateOuter(t, n, p)
           a == Kid(t, s, n)
           b == Kid(t, o, n)
           w1 == replace(t, g, n)
           w2 == setchild(w1, n, s, p)
           w3 == setchild(w2, n, o, g)
           w4 == setchild(w3, p, o, a)
           w5 == setchild(w4, g, s, b)
<1>0. o \in Sides /\ o # s /\ Other(o) = s /\ (\A r \in Sides : r = s \/ r = o)
  BY OtherSide
<1>1. /\ t \in TreeType /\ p \in Nodes /\ g \in Nodes /\ n \in Nodes
      /\ p \in Optional /\ g \in Optional /\ n \in Optional
      /\ p \in M /\ p # g /\ n \in M /\ n # p /\ n # g
  <2>1. p \in M /\ p \in Nodes /\ p # g /\ g \notin U[p]
    BY TreeChild
  <2>2. n \in M /\ n \in Nodes /\ n # p /\ n \in U[p]
    BY <1>0, <2>1, TreeChild
  <2>. QED BY <2>1, <2>2 DEF Tree, Optional
<1>2. /\ a \in Optional /\ b \in Optional /\ t[s][n] = a /\ t[o][n] = b
      /\ a # n /\ b # n /\ a # p /\ b # p /\ a # g /\ b # g /\ (a # NULL_ID => a # b)
  <2>1. a \in Optional /\ b \in Optional /\ t[s][n] = a /\ t[o][n] = b
    BY <1>0, <1>1, TreeNode
  <2>2. \A r \in Sides : Kid(t, r, n) # NULL_ID => Kid(t, r, n) \in U[n] /\ Kid(t, r, n) # n
    BY <1>1, TreeChild
  <2>3. p \notin U[n] /\ U[n] \subseteq U[p]
    BY <1>0, <1>1, TreeChild
  <2>4. g \notin U[p]
    BY TreeChild
  <2>5. a # NULL_ID => a # b
    BY <1>1, TreeChild
  <2>. QED BY <1>0, <1>1, <2>1, <2>2, <2>3, <2>4, <2>5, RbTreeAssumption
<1>3. SideOf(t, g, p) = s
  <2>1. Kid(t, o, g) # p
    BY TreeChild
  <2>. QED BY <1>1, <2>1, SideIs
<1>4. RotateInner(t, n, p, g) = w5
  BY <1>2, <1>3 DEF RotateInner
<1>5. Lifted(t, v, n, p, o) /\ v.ok = t.ok /\ v.color = t.color
  BY <1>0, <1>1, OuterLifts
<1> HIDE DEF v
<1>6. /\ w1 \in TreeType /\ w1.ok = t.ok /\ w1.color = t.color
      /\ w1.root = (IF t.root = g THEN n ELSE t.root)
      /\ \A r \in Sides, m \in Nodes : Kid(w1, r, m) = IF Kid(t, r, m) = g THEN n ELSE Kid(t, r, m)
      /\ \A m \in Nodes : w1.parent[m] = IF m = n THEN t.parent[g] ELSE t.parent[m]
  BY <1>1, TreeHangs, Replace
<1> HIDE DEF w1
<1>7. /\ w2 \in TreeType /\ w2.ok = w1.ok /\ w2.color = w1.color /\ w2.root = w1.root
      /\ \A r \in Sides, m \in Nodes : Kid(w2, r, m) = IF r = s /\ m = n THEN p ELSE Kid(w1, r, m)
      /\ \A m \in Nodes : w2.parent[m] = IF m = p THEN n ELSE w1.parent[m]
  <2>1. ChildSet(w1, w2, n, s, p)
    BY <1>0, <1>1, <1>6, SetChild
  <2> HIDE DEF w2
  <2>. QED BY <2>1 DEF ChildSet
<1> HIDE DEF w2
<1>8. /\ w3 \in TreeType /\ w3.ok = w2.ok /\ w3.color = w2.color /\ w3.root = w2.root
      /\ \A r \in Sides, m \in Nodes : Kid(w3, r, m) = IF r = o /\ m = n THEN g ELSE Kid(w2, r, m)
      /\ \A m \in Nodes : w3.parent[m] = IF m = g THEN n ELSE w2.parent[m]
  <2>1. ChildSet(w2, w3, n, o, g)
    BY <1>0, <1>1, <1>7, SetChild
  <2> HIDE DEF w3
  <2>. QED BY <2>1 DEF ChildSet
<1> HIDE DEF w3
<1>9. /\ w4 \in TreeType /\ w4.ok = w3.ok /\ w4.color = w3.color /\ w4.root = w3.root
      /\ \A r \in Sides, m \in Nodes : Kid(w4, r, m) = IF r = o /\ m = p THEN a ELSE Kid(w3, r, m)
      /\ \A m \in Nodes : w4.parent[m] = IF m = a THEN p ELSE w3.parent[m]
  <2>1. ChildSet(w3, w4, p, o, a)
    BY <1>0, <1>1, <1>2, <1>8, SetChild
  <2> HIDE DEF w4
  <2>. QED BY <2>1 DEF ChildSet
<1> HIDE DEF w4
<1>10. /\ w5 \in TreeType /\ w5.ok = w4.ok /\ w5.color = w4.color /\ w5.root = w4.root
       /\ \A r \in Sides, m \in Nodes : Kid(w5, r, m) = IF r = s /\ m = g THEN b ELSE Kid(w4, r, m)
       /\ \A m \in Nodes : w5.parent[m] = IF m = b THEN g ELSE w4.parent[m]
  <2>1. ChildSet(w4, w5, g, s, b)
    BY <1>0, <1>1, <1>2, <1>9, SetChild
  <2> HIDE DEF w5
  <2>. QED BY <2>1 DEF ChildSet
<1> HIDE DEF w5
<1>11. /\ \A m \in Nodes, r \in Sides : Kid(t, r, m) = g => m # g /\ m # n /\ m # p
       /\ \A m \in Nodes, r \in Sides : Kid(t, r, m) = p => m = g /\ r = s
       /\ t.root # p /\ t.root # n
  <2>1. Hangs(t, g) /\ Hangs(t, p)
    BY <1>1, TreeHangs
  <2>2. t.parent[p] = g /\ t.root # p /\ Kid(t, o, g) # p
    BY TreeChild
  <2>3. t.root # n
    BY <1>0, <1>1, TreeChild
  <2>4. \A r \in Sides : Kid(t, r, g) # g
    BY <1>1, TreeNode, RbTreeAssumption
  <2>5. \A r \in Sides : Kid(t, r, n) # g
    BY <1>0, <1>2
  <2>6. \A r \in Sides : Kid(t, r, p) # g
    <3>1. \A r \in Sides : Kid(t, r, p) # NULL_ID => Kid(t, r, p) \in U[p]
      BY <1>1, TreeChild
    <3>2. g \notin U[p]
      BY TreeChild
    <3>. QED BY <1>1, <3>1, <3>2, RbTreeAssumption
  <2>. QED BY <1>0, <1>1, <2>1, <2>2, <2>3, <2>4, <2>5, <2>6 DEF Hangs
<1>12. /\ v \in TreeType /\ v.root = t.root
       /\ \A r \in Sides, m \in Nodes :
             Kid(v, r, m) = IF m = n THEN IF r = o THEN b ELSE p
                            ELSE IF m = p THEN IF r = o THEN a ELSE Kid(t, r, m)
                            ELSE IF m = g /\ r = s THEN n ELSE Kid(t, r, m)
       /\ \A m \in Nodes : v.parent[m] = IF m = n THEN g ELSE IF m = p THEN n
                                         ELSE IF m = a THEN p ELSE t.parent[m]
  <2>1. t.parent[p] = g
    BY TreeChild
  <2>. QED BY <1>0, <1>1, <1>2, <1>5, <1>11, <2>1 DEF Lifted
<1>13. ASSUME NEW r \in Sides, NEW m \in Nodes
       PROVE  Kid(w5, r, m) = IF m = n THEN IF r = s THEN Kid(v, r, m) ELSE g
                              ELSE IF m = g THEN IF r = s THEN Kid(v, o, n) ELSE Kid(v, r, m)
                              ELSE IF Kid(v, r, m) = g THEN n ELSE Kid(v, r, m)
  BY <1>0, <1>1, <1>2, <1>6, <1>7, <1>8, <1>9, <1>10, <1>11, <1>12
<1>14. ASSUME NEW m \in Nodes
       PROVE  w5.parent[m] = IF m = n THEN v.parent[g] ELSE IF m = g THEN n
                             ELSE IF m = Kid(v, o, n) THEN g ELSE v.parent[m]
  BY <1>0, <1>1, <1>2, <1>6, <1>7, <1>8, <1>9, <1>10, <1>11, <1>12
<1>15. Lifted(v, w5, n, g, s)
  <2>1. w5.root = IF v.root = g THEN n ELSE v.root
    BY <1>6, <1>7, <1>8, <1>9, <1>10, <1>12
  <2>. QED BY <1>10, <1>13, <1>14, <2>1 DEF Lifted
<1>. QED BY <1>4, <1>5, <1>6, <1>7, <1>8, <1>9, <1>10, <1>15 DEF v

\* rotate lifts the middle node or, from the inside, the lowest.
LEMMA RotatedOuter ==
  ASSUME NEW t, NEW M, NEW U, Tree(t, M, U), Ordered(t, M, U), t.ok,
         NEW g \in M, NEW s \in Sides,
         NEW p, p = Kid(t, s, g), p # NULL_ID, NEW n, n = Kid(t, s, p), n # NULL_ID
  PROVE  LET u == rotate(t, n, p, g)
         IN  /\ RotatedRoot(t, n, p, g) = p
             /\ Lifted(t, u, p, g, s) /\ u.ok /\ u.color = t.color
             /\ \E W : Tree(u, M, W) /\ Ordered(u, M, W)
<1>1. /\ t \in TreeType /\ p \in M /\ p \in Nodes /\ g \in Nodes
      /\ t.parent[p] = g /\ Kid(t, Other(s), g) # p
  <2>1. p \in M /\ p \in Nodes /\ t.parent[p] = g /\ Kid(t, Other(s), g) # p
    BY TreeChild
  <2>. QED BY <2>1 DEF Tree
<1>2. n \in Nodes /\ t.parent[n] = p /\ Kid(t, Other(s), p) # n
  BY <1>1, TreeChild
<1>3. SideOf(t, g, p) = s /\ SideOf(t, p, n) = s
  BY <1>1, <1>2, SideIs
<1>4. IsOuter(t, n, p, g) /\ Require(t, n \in Nodes /\ p \in Nodes /\ g \in Nodes
                                           /\ t.parent[n] = p /\ t.parent[p] = g) = t
  BY <1>1, <1>2, <1>3 DEF IsOuter, Require, TreeType
<1>5. rotate(t, n, p, g) = RotateOuter(t, p, g) /\ RotatedRoot(t, n, p, g) = p
  BY <1>4 DEF rotate, RotatedRoot
<1> DEFINE u == RotateOuter(t, p, g)
<1>6. Lifted(t, u, p, g, s) /\ u.ok /\ u.color = t.color
  BY OuterLifts
<1> HIDE DEF u
<1>7. \E W : Tree(u, M, W) /\ Ordered(u, M, W)
  BY <1>6, LiftOrdered
<1>. QED BY <1>5, <1>6, <1>7 DEF u

\* The inner rotation lifts the node twice: over its parent, then over its grandparent.
LEMMA RotatedInner ==
  ASSUME NEW t, NEW M, NEW U, Tree(t, M, U), Ordered(t, M, U), t.ok,
         NEW g \in M, NEW s \in Sides,
         NEW p, p = Kid(t, s, g), p # NULL_ID, NEW n, n = Kid(t, Other(s), p), n # NULL_ID
  PROVE  LET u == rotate(t, n, p, g)
         IN  /\ RotatedRoot(t, n, p, g) = n
             /\ \E v : Lifted(t, v, n, p, Other(s)) /\ Lifted(v, u, n, g, s)
             /\ u.ok /\ u.color = t.color
             /\ \E W : Tree(u, M, W) /\ Ordered(u, M, W)
<1> DEFINE o == Other(s)
<1>0. o \in Sides /\ o # s /\ Other(o) = s
  BY OtherSide
<1>1. /\ t \in TreeType /\ p \in M /\ p \in Nodes /\ g \in Nodes
      /\ t.parent[p] = g /\ Kid(t, Other(s), g) # p
  <2>1. p \in M /\ p \in Nodes /\ t.parent[p] = g /\ Kid(t, Other(s), g) # p
    BY TreeChild
  <2>. QED BY <2>1 DEF Tree
<1>2. n \in Nodes /\ t.parent[n] = p /\ Kid(t, s, p) # n
  BY <1>0, <1>1, TreeChild
<1>3. SideOf(t, g, p) = s /\ SideOf(t, p, n) = o
  BY <1>0, <1>1, <1>2, SideIs
<1>4. ~IsOuter(t, n, p, g) /\ Require(t, n \in Nodes /\ p \in Nodes /\ g \in Nodes
                                           /\ t.parent[n] = p /\ t.parent[p] = g) = t
  BY <1>0, <1>1, <1>2, <1>3 DEF IsOuter, Require, TreeType
<1>5. rotate(t, n, p, g) = RotateInner(t, n, p, g) /\ RotatedRoot(t, n, p, g) = n
  BY <1>4 DEF rotate, RotatedRoot
<1> DEFINE u == RotateInner(t, n, p, g)
           v == RotateOuter(t, n, p)
<1>6. Lifted(t, v, n, p, o) /\ Lifted(v, u, n, g, s) /\ u.ok /\ u.color = t.color
  BY InnerLifts
<1> HIDE DEF u, v
<1>7. PICK V : Tree(v, M, V) /\ Ordered(v, M, V)
  <2>1. Lifted(t, v, n, p, o) /\ o \in Sides /\ p \in M /\ n = Kid(t, o, p)
    BY <1>0, <1>1, <1>6
  <2> HIDE DEF o
  <2>. QED BY <2>1, LiftOrdered
<1>8. n = Kid(v, s, g)
  <2>1. g # n /\ g # p
    <3>1. g \notin U[p] /\ g # p
      BY TreeChild
    <3>2. n \in U[p]
      BY <1>0, <1>1, TreeChild
    <3>. QED BY <3>1, <3>2
  <2>. QED BY <1>0, <1>1, <1>6, <2>1 DEF Lifted
<1>9. \E W : Tree(u, M, W) /\ Ordered(u, M, W)
  BY <1>6, <1>7, <1>8, LiftOrdered
<1>. QED BY <1>5, <1>6, <1>9 DEF u

-----------------------------------------------------------------------------
(* Colours                                                                  *)

SamePointers(t, u) ==
    /\ u \in TreeType /\ u.root = t.root /\ u.parent = t.parent
    /\ u.left = t.left /\ u.right = t.right

\* Colours do not matter to the shape and to the order.
LEMMA TreeRecolored ==
  ASSUME NEW t, NEW M, NEW U, Tree(t, M, U), NEW u, SamePointers(t, u)
  PROVE  /\ Tree(u, M, U) /\ \A r, n : Kid(u, r, n) = Kid(t, r, n)
         /\ \A K : Ordered(t, K, U) => Ordered(u, K, U)
BY DEF SamePointers, Tree, Ordered, Kid

\* Colours of the nodes and of the leaves
LEMMA ColorIs ==
  ASSUME NEW t \in TreeType
  PROVE  /\ \A n \in Nodes : get_color(t, n) = t.color[n] /\ get_color(t, n) \in Colors
         /\ get_color(t, NULL_ID) = "black"
         /\ \A n \in Optional : get_color(t, n) \in Colors
BY RbTreeAssumption DEF get_color, TreeType, Colors, Optional

\* From t to u, the nodes of A got the colours that a says.
ColoredAs(t, u, A, a) ==
    /\ SamePointers(t, u) /\ u.ok = t.ok
    /\ \A n \in Nodes : get_color(u, n) = IF n \in A THEN a[n] ELSE get_color(t, n)
    /\ get_color(u, NULL_ID) = "black"

\* Colored recolours the nodes it is given and no other.
LEMMA ColoredIs ==
  ASSUME NEW t \in TreeType, NEW A \in SUBSET Nodes, NEW a \in [A -> Colors]
  PROVE  ColoredAs(t, Colored(t, a), A, a)
<1> DEFINE u == Colored(t, a)
<1>1. /\ SamePointers(t, u) /\ u.ok = t.ok
      /\ \A n \in Nodes : u.color[n] = IF n \in A THEN a[n] ELSE t.color[n]
  BY DEF Colored, SamePointers, TreeType
<1>2. u \in TreeType
  BY <1>1 DEF SamePointers
<1> HIDE DEF u
<1>. QED BY <1>1, <1>2, ColorIs DEF u, ColoredAs

\* set_color recolours one node; the colour of a leaf cannot be set.
LEMMA SetColorIs ==
  ASSUME NEW t \in TreeType, NEW m \in Optional, NEW c \in Colors
  PROVE  LET u == set_color(t, m, c)
         IN  /\ SamePointers(t, u) /\ u.ok = t.ok
             /\ \A n \in Nodes : get_color(u, n) = IF n = m THEN c ELSE get_color(t, n)
             /\ get_color(u, NULL_ID) = "black"
<1> DEFINE u == set_color(t, m, c)
<1>1. /\ SamePointers(t, u) /\ u.ok = t.ok
      /\ \A n \in Nodes : u.color[n] = IF n = m THEN c ELSE t.color[n]
  BY RbTreeAssumption DEF set_color, SamePointers, TreeType, Optional
<1>2. u \in TreeType
  BY <1>1 DEF SamePointers
<1> HIDE DEF u
<1>. QED BY <1>1, <1>2, ColorIs DEF u

\* H counts the black nodes below, the same on every path; on side "ds" of "dp" one is missing.
Blacks(t, n) == IF get_color(t, n) = "black" THEN 1 ELSE 0
Balanced(t, M, H, dp, ds) ==
    /\ H \in [Optional -> Nat] /\ H[NULL_ID] = 0
    /\ \A n \in M, r \in Sides :
          H[n] = H[Kid(t, r, n)] + (IF n = dp /\ r = ds THEN 1 ELSE 0) + Blacks(t, n)

\* Without a deficit both sides of every node have the same black height.
LEMMA NoDeficit ==
  ASSUME NEW t \in TreeType, NEW M \in SUBSET Nodes, NEW H
  PROVE  Balanced(t, M, H, NULL_ID, "left") <=>
            /\ H \in [Optional -> Nat] /\ H[NULL_ID] = 0
            /\ \A n \in M, r \in Sides : H[n] = H[Kid(t, r, n)] + Blacks(t, n)
<1>1. SUFFICES ASSUME H \in [Optional -> Nat], NEW n \in M, NEW r \in Sides
               PROVE  H[Kid(t, r, n)] + (IF n = NULL_ID /\ r = "left" THEN 1 ELSE 0) + Blacks(t, n)
                         = H[Kid(t, r, n)] + Blacks(t, n)
  BY DEF Balanced
<1>2. n # NULL_ID
  BY RbTreeAssumption
<1>3. Kid(t, r, n) \in Optional
  BY KidIs
<1>4. H[Kid(t, r, n)] \in Nat /\ Blacks(t, n) \in Nat
  BY <1>1, <1>3 DEF Blacks
<1>. QED BY <1>2, <1>4

LEMMA BalancedHeights ==
  ASSUME NEW t \in TreeType, NEW M \in SUBSET Nodes, NEW H, Balanced(t, M, H, NULL_ID, "left")
  PROVE  /\ H \in [Optional -> Nat] /\ H[NULL_ID] = 0
         /\ \A n \in M, r \in Sides : H[n] = H[Kid(t, r, n)] + Blacks(t, n)
  BY NoDeficit, ZenonT(30)

\* No red node has a red child, but x may be one.
RedsApart(t, M, x) ==
    \A m \in M, r \in Sides :
        get_color(t, m) = "red" /\ get_color(t, Kid(t, r, m)) = "red" => Kid(t, r, m) = x

Settled(t, M, H) ==
    /\ RedsApart(t, M, NULL_ID) /\ get_color(t, t.root) = "black"
    /\ Balanced(t, M, H, NULL_ID, "left")
\* In the loop of the insertion
Floating(t, M, H, x) ==
    /\ x \in M /\ RedsApart(t, M, x) /\ (get_color(t, x) = "red" \/ t.root = x)
    /\ (t.root # x => get_color(t, t.root) = "black")
    /\ Balanced(t, M, H, NULL_ID, "left")
\* In the loop of the deletion
Deficient(t, M, H, db, p) ==
    /\ RedsApart(t, M, NULL_ID) /\ get_color(t, t.root) = "black"
    /\ db \in M \cup {NULL_ID} /\ get_color(t, db) = "black"
    /\ \/ db = t.root /\ db # NULL_ID /\ Balanced(t, M, H, NULL_ID, "left")
       \/ /\ db # t.root
          /\ \E q \in M, r \in Sides : /\ Kid(t, r, q) = db /\ (db = NULL_ID => q = p)
                                       /\ Balanced(t, M, H, q, r)

-----------------------------------------------------------------------------
\* What is the same of an outer and of an inner rotation: top is the new root of the three
\* nodes, with low on side s and g on the other; a, b, c and d are what hangs on these two.
Turned(t, u, M, top, low, g, s, a, b, c, d) ==
    /\ top \in M /\ low \in M /\ g \in M /\ top # low /\ top # g /\ low # g
    /\ {a, b, c, d} \subseteq (M \cup {NULL_ID}) \ {top, low, g}
    /\ Kid(u, s, top) = low /\ Kid(u, Other(s), top) = g
    /\ Kid(u, s, low) = a /\ Kid(u, Other(s), low) = b
    /\ Kid(u, s, g) = c /\ Kid(u, Other(s), g) = d
    /\ \A m \in M \ {top, low, g}, r \in Sides :
          /\ Kid(t, r, m) \in (M \cup {NULL_ID}) \ {top, low}
          /\ Kid(u, r, m) = IF Kid(t, r, m) = g THEN top ELSE Kid(t, r, m)
    /\ u.root = (IF t.root = g THEN top ELSE t.root) /\ t.root # top /\ t.root # low

\* One lift turns the three nodes so that the middle one of a straight line is on top.
LEMMA TurnedOuter ==
  ASSUME NEW t, NEW M, NEW U, Tree(t, M, U), NEW g \in M, NEW s \in Sides,
         NEW p, p = Kid(t, s, g), p # NULL_ID, NEW n, n = Kid(t, s, p), n # NULL_ID,
         NEW u, Lifted(t, u, p, g, s)
  PROVE  Turned(t, u, M, p, n, g, s, Kid(t, s, n), Kid(t, Other(s), n),
                Kid(t, Other(s), p), Kid(t, Other(s), g))
<1> DEFINE o == Other(s)
<1>0. o \in Sides /\ o # s /\ Other(o) = s /\ (\A r \in Sides : r = s \/ r = o)
  BY OtherSide
<1>1. M \subseteq Nodes /\ NULL_ID \notin M
  BY RbTreeAssumption DEF Tree
<1>2. /\ p \in M /\ p # g /\ p # t.root /\ t.parent[p] = g /\ p # Kid(t, o, g)
      /\ g \notin U[p]
  BY TreeChild
<1>3. /\ n \in M /\ n # p /\ n # t.root /\ t.parent[n] = p /\ n # Kid(t, o, p)
      /\ n \in U[p] /\ U[n] \subseteq U[p] /\ p \notin U[n]
  BY <1>2, TreeChild
<1>4. \A m \in {n, p, g}, r \in Sides :
          Kid(t, r, m) # NULL_ID => /\ Kid(t, r, m) \in M /\ Kid(t, r, m) # m
                                    /\ t.parent[Kid(t, r, m)] = m /\ Kid(t, r, m) \in U[m]
  BY <1>2, <1>3, TreeChild
<1>5. n # g
  BY <1>2, <1>3
<1>6. /\ Kid(t, s, n) \in (M \cup {NULL_ID}) \ {p, n, g}
      /\ Kid(t, o, n) \in (M \cup {NULL_ID}) \ {p, n, g}
      /\ Kid(t, o, p) \in (M \cup {NULL_ID}) \ {p, n, g}
      /\ Kid(t, o, g) \in (M \cup {NULL_ID}) \ {p, n, g}
  BY <1>0, <1>1, <1>2, <1>3, <1>4, <1>5
<1>7. /\ Kid(u, s, p) = n /\ Kid(u, o, p) = g /\ Kid(u, s, g) = Kid(t, o, p)
      /\ Kid(u, o, g) = Kid(t, o, g)
      /\ Kid(u, s, n) = Kid(t, s, n) /\ Kid(u, o, n) = Kid(t, o, n)
  BY <1>0, <1>1, <1>2, <1>3, <1>5, <1>6 DEF Lifted
<1>8. ASSUME NEW m \in M \ {p, n, g}, NEW r \in Sides
      PROVE  /\ Kid(t, r, m) \in (M \cup {NULL_ID}) \ {p, n}
             /\ Kid(u, r, m) = IF Kid(t, r, m) = g THEN p ELSE Kid(t, r, m)
  <2>1. Kid(t, r, m) # NULL_ID => t.parent[Kid(t, r, m)] = m /\ Kid(t, r, m) \in M
    BY TreeChild
  <2>. QED BY <1>1, <1>2, <1>3, <2>1 DEF Lifted
<1>9. u.root = IF t.root = g THEN p ELSE t.root
  BY DEF Lifted
<1>. QED BY <1>2, <1>3, <1>5, <1>6, <1>7, <1>8, <1>9 DEF Turned

\* Two lifts turn them so that the lowest one of a bent line is on top.
LEMMA TurnedInner ==
  ASSUME NEW t, NEW M, NEW U, Tree(t, M, U), NEW g \in M, NEW s \in Sides,
         NEW p, p = Kid(t, s, g), p # NULL_ID, NEW n, n = Kid(t, Other(s), p), n # NULL_ID,
         NEW v, NEW u, Lifted(t, v, n, p, Other(s)), Lifted(v, u, n, g, s)
  PROVE  Turned(t, u, M, n, p, g, s, Kid(t, s, p), Kid(t, s, n),
                Kid(t, Other(s), n), Kid(t, Other(s), g))
<1> DEFINE o == Other(s)
<1>0. o \in Sides /\ o # s /\ Other(o) = s /\ (\A r \in Sides : r = s \/ r = o)
  BY OtherSide
<1>1. M \subseteq Nodes /\ NULL_ID \notin M
  BY RbTreeAssumption DEF Tree
<1>2. /\ p \in M /\ p # g /\ p # t.root /\ t.parent[p] = g /\ p # Kid(t, o, g)
      /\ g \notin U[p]
  BY TreeChild
<1>3. /\ n \in M /\ n # p /\ n # t.root /\ t.parent[n] = p /\ n # Kid(t, s, p)
      /\ n \in U[p] /\ U[n] \subseteq U[p] /\ p \notin U[n]
  BY <1>0, <1>2, TreeChild
<1>4. \A m \in {n, p, g}, r \in Sides :
          Kid(t, r, m) # NULL_ID => /\ Kid(t, r, m) \in M /\ Kid(t, r, m) # m
                                    /\ t.parent[Kid(t, r, m)] = m /\ Kid(t, r, m) \in U[m]
  BY <1>2, <1>3, TreeChild
<1>5. n # g
  BY <1>2, <1>3
<1>6. /\ Kid(t, s, n) \in (M \cup {NULL_ID}) \ {p, n, g}
      /\ Kid(t, o, n) \in (M \cup {NULL_ID}) \ {p, n, g}
      /\ Kid(t, s, p) \in (M \cup {NULL_ID}) \ {p, n, g}
      /\ Kid(t, o, g) \in (M \cup {NULL_ID}) \ {p, n, g}
  BY <1>0, <1>1, <1>2, <1>3, <1>4, <1>5
<1>7. /\ Kid(v, o, n) = Kid(t, o, n) /\ Kid(v, s, n) = p
      /\ Kid(v, o, p) = Kid(t, s, n) /\ Kid(v, s, p) = Kid(t, s, p)
      /\ Kid(v, o, g) = Kid(t, o, g)
  BY <1>0, <1>1, <1>2, <1>3, <1>5, <1>6 DEF Lifted
<1>8. /\ Kid(u, s, n) = p /\ Kid(u, o, n) = g /\ Kid(u, s, g) = Kid(t, o, n)
      /\ Kid(u, o, g) = Kid(t, o, g)
      /\ Kid(u, s, p) = Kid(t, s, p) /\ Kid(u, o, p) = Kid(t, s, n)
  BY <1>0, <1>1, <1>2, <1>3, <1>5, <1>6, <1>7 DEF Lifted
<1>9. ASSUME NEW m \in M \ {p, n, g}, NEW r \in Sides
      PROVE  /\ Kid(t, r, m) \in (M \cup {NULL_ID}) \ {p, n}
             /\ Kid(u, r, m) = IF Kid(t, r, m) = g THEN n ELSE Kid(t, r, m)
  <2>1. Kid(t, r, m) # NULL_ID => t.parent[Kid(t, r, m)] = m /\ Kid(t, r, m) \in M
    BY TreeChild
  <2>2. Kid(v, r, m) = Kid(t, r, m)
    BY <1>1, <1>2, <2>1 DEF Lifted
  <2>. QED BY <1>1, <1>2, <1>3, <2>1, <2>2 DEF Lifted
<1>10. u.root = IF t.root = g THEN n ELSE t.root
  BY <1>2 DEF Lifted
<1>. QED BY <1>2, <1>3, <1>5, <1>6, <1>8, <1>9, <1>10 DEF Turned

\* What came of t when a rotation at g brought up top and the three got their colours
Recolored(t, u, w, top, low, g, color) ==
    /\ SamePointers(u, w) /\ w.ok /\ get_color(w, NULL_ID) = get_color(t, NULL_ID)
    /\ \A m \in Nodes : get_color(w, m) = IF m = top THEN color
                            ELSE IF m \in {low, g} THEN "black" ELSE get_color(t, m)
\* The four subtrees are as high as each other, and outside the three nodes nothing is wrong.
Level(t, M, H, h, three, four, g, color) ==
    /\ h \in Nat /\ H \in [Optional -> Nat] /\ H[NULL_ID] = 0
    /\ \A x \in four : H[x] = h
    /\ H[g] = h + 1 + (IF color = "black" THEN 1 ELSE 0)
    /\ \A m \in M \ three, r \in Sides :
          /\ H[m] = H[Kid(t, r, m)] + Blacks(t, m)
          /\ ~(get_color(t, m) = "red" /\ get_color(t, Kid(t, r, m)) = "red")

\* A rotation after which the three nodes carry four subtrees as high as each other, low and g
\* black, keeps the tree balanced, and no red node gets a red child but, perhaps, top.
LEMMA TurnedBalanced ==
  ASSUME NEW t, NEW u, NEW w, NEW M \in SUBSET Nodes, NEW top, NEW low, NEW g, NEW s \in Sides,
         NEW a, NEW b, NEW c, NEW d, Turned(t, u, M, top, low, g, s, a, b, c, d),
         NEW color \in Colors, NEW h, NEW H, Level(t, M, H, h, {top, low, g}, {a, b, c, d}, g, color),
         Recolored(t, u, w, top, low, g, color)
  PROVE  /\ RedsApart(w, M, top)
         /\ color = get_color(t, g) => RedsApart(w, M, NULL_ID)
         /\ \E I : Balanced(w, M, I, NULL_ID, "left")
<1> DEFINE o == Other(s)
           I == [H EXCEPT ![top] = H[g], ![low] = h + 1, ![g] = h + 1]
<1>. USE DEF Level, Recolored
<1>0. o \in Sides /\ o # s /\ (\A r \in Sides : r = s \/ r = o)
  BY OtherSide
<1>1. /\ \A m \in M : m \in Optional /\ m # NULL_ID /\ m \in Nodes
      /\ NULL_ID \in Optional
  BY RbTreeAssumption DEF Optional
<1>2. \A r, m : Kid(w, r, m) = Kid(u, r, m)
  BY DEF SamePointers, Kid
<1>3. /\ top \in M /\ low \in M /\ g \in M /\ top # low /\ top # g /\ low # g
      /\ {a, b, c, d} \subseteq (M \cup {NULL_ID}) \ {top, low, g}
      /\ Kid(u, s, top) = low /\ Kid(u, o, top) = g
      /\ Kid(u, s, low) = a /\ Kid(u, o, low) = b
      /\ Kid(u, s, g) = c /\ Kid(u, o, g) = d
  BY DEF Turned
<1>4. ASSUME NEW m \in M \ {top, low, g}, NEW r \in Sides
      PROVE  /\ Kid(t, r, m) \in (M \cup {NULL_ID}) \ {top, low}
             /\ Kid(u, r, m) = IF Kid(t, r, m) = g THEN top ELSE Kid(t, r, m)
  BY DEF Turned
<1>5. /\ I \in [Optional -> Nat] /\ I[NULL_ID] = 0
      /\ I[top] = H[g] /\ I[low] = h + 1 /\ I[g] = h + 1
      /\ \A m \in Optional \ {top, low, g} : I[m] = H[m]
  BY <1>1, <1>3
<1> HIDE DEF I
<1>6. /\ Blacks(w, low) = 1 /\ Blacks(w, g) = 1
      /\ Blacks(w, top) = IF color = "black" THEN 1 ELSE 0
      /\ \A m \in M \ {top, low, g} : Blacks(w, m) = Blacks(t, m)
  BY <1>1, <1>3 DEF Blacks
<1>7. ASSUME NEW m \in M, NEW r \in Sides
      PROVE  I[m] = I[Kid(w, r, m)] + Blacks(w, m)
  <2>1. CASE m = top
    BY <1>0, <1>1, <1>2, <1>3, <1>5, <1>6, <2>1
  <2>2. CASE m = low
    <3>1. Kid(w, r, m) \in {a, b}
      BY <1>0, <1>2, <1>3, <2>2
    <3>2. I[Kid(w, r, m)] = h
      BY <1>1, <1>3, <1>5, <3>1
    <3>. QED BY <1>5, <1>6, <2>2, <3>2
  <2>3. CASE m = g
    <3>1. Kid(w, r, m) \in {c, d}
      BY <1>0, <1>2, <1>3, <2>3
    <3>2. I[Kid(w, r, m)] = h
      BY <1>1, <1>3, <1>5, <3>1
    <3>. QED BY <1>5, <1>6, <2>3, <3>2
  <2>4. CASE m \in M \ {top, low, g}
    <3>1. H[m] = H[Kid(t, r, m)] + Blacks(t, m)
      BY <2>4
    <3>2. I[m] = H[m] /\ Blacks(w, m) = Blacks(t, m)
      BY <1>1, <1>5, <1>6, <2>4
    <3>3. I[Kid(w, r, m)] = H[Kid(t, r, m)]
      <4>1. CASE Kid(t, r, m) = g
        BY <1>2, <1>4, <1>5, <2>4, <4>1
      <4>2. CASE Kid(t, r, m) # g
        <5>1. Kid(w, r, m) = Kid(t, r, m) /\ Kid(t, r, m) \notin {top, low, g}
          BY <1>2, <1>4, <2>4, <4>2
        <5>. QED BY <1>1, <1>4, <1>5, <2>4, <5>1
      <4>. QED BY <4>1, <4>2
    <3>. QED BY <3>1, <3>2, <3>3
  <2>. QED BY <2>1, <2>2, <2>3, <2>4
<1>8. ASSUME NEW m \in M, NEW r \in Sides,
             get_color(w, m) = "red", get_color(w, Kid(w, r, m)) = "red"
      PROVE  Kid(w, r, m) = top /\ color # get_color(t, g)
  <2>1. m # low /\ m # g
    BY <1>1, <1>3, <1>8
  <2>2. m # top
    <3>1. SUFFICES ASSUME m = top PROVE FALSE
      OBVIOUS
    <3>2. Kid(w, r, m) \in {low, g}
      BY <1>0, <1>2, <1>3, <3>1
    <3>. QED BY <1>1, <1>3, <1>8, <3>2
  <2>3. m \in M \ {top, low, g} /\ get_color(t, m) = "red"
    BY <1>1, <1>8, <2>1, <2>2
  <2>4. get_color(t, Kid(t, r, m)) # "red"
    BY <2>3
  <2>5. CASE Kid(t, r, m) = g
    <3>1. Kid(w, r, m) = top /\ get_color(w, top) = color
      BY <1>1, <1>2, <1>3, <1>4, <2>3, <2>5
    <3>. QED BY <1>8, <2>4, <2>5, <3>1
  <2>6. CASE Kid(t, r, m) # g
    BY <1>1, <1>2, <1>3, <1>4, <1>8, <2>3, <2>4, <2>6
  <2>. QED BY <2>5, <2>6
<1>9. Balanced(w, M, I, NULL_ID, "left")
  <2>1. w \in TreeType
    BY DEF SamePointers
  <2>. QED BY <1>5, <1>7, <2>1, NoDeficit
<1>. QED BY <1>8, <1>9 DEF RedsApart

-----------------------------------------------------------------------------
InOrder(t, M) == \E U : Tree(t, M, U) /\ Ordered(t, M, U)

\* The same for trees that are in order.
LEMMA InOrderRecolored ==
  ASSUME NEW t, NEW M, InOrder(t, M), NEW u, SamePointers(t, u)
  PROVE  InOrder(u, M)
BY TreeRecolored DEF InOrder

\* After such a turn
Risen(t, w, M, top, g, color) ==
    /\ InOrder(w, M) /\ w.ok /\ top \in M /\ get_color(w, top) = color
    /\ RedsApart(w, M, top)
    /\ color = get_color(t, g) => RedsApart(w, M, NULL_ID)
    /\ \E I : Balanced(w, M, I, NULL_ID, "left")
    /\ w.root = IF t.root = g THEN top ELSE t.root
    /\ t.root # g => get_color(w, t.root) = get_color(t, t.root)

\* A rotation of three nodes, coloured with the given colour on top and black below, keeps
\* the colours apart.
LEMMA TurnedColored ==
  ASSUME NEW t, NEW u, NEW M \in SUBSET Nodes, NEW top, NEW low, NEW g, NEW s,
         NEW a, NEW b, NEW c, NEW d, Turned(t, u, M, top, low, g, s, a, b, c, d),
         t \in TreeType, u \in TreeType, u.color = t.color, u.ok, NEW color \in Colors,
         NEW three, three = {top, low, g}
  PROVE  Recolored(t, u, Colored(u, [m \in three |-> IF m = top THEN color ELSE "black"]),
                   top, low, g, color)
<1> DEFINE f == [m \in three |-> IF m = top THEN color ELSE "black"]
           w == Colored(u, f)
<1>1. f \in [three -> Colors] /\ three \in SUBSET Nodes
  BY DEF Turned, Colors
<1>2. /\ SamePointers(u, w) /\ w.ok = u.ok
      /\ \A m \in Nodes : get_color(w, m) = IF m \in three THEN f[m] ELSE get_color(u, m)
      /\ get_color(w, NULL_ID) = "black"
  <2>1. f \in [three -> Colors] /\ three \in SUBSET Nodes /\ u \in TreeType
    BY <1>1
  <2> HIDE DEF f
  <2>2. ColoredAs(u, w, three, f)
    BY <2>1, ColoredIs
  <2>. QED BY <2>2 DEF ColoredAs
<1>3. \A m \in Nodes : get_color(u, m) = get_color(t, m)
  BY ColorIs
<1>4. get_color(t, NULL_ID) = "black"
  BY ColorIs
<1> HIDE DEF w
<1>. QED BY <1>2, <1>3, <1>4 DEF w, Recolored

\* A red n and its ancestors p and g change so that the new root of the three gets a colour and
\* the others are black: a turn of the insertion, or the last one of the deletion.
LEMMA ThreeUp ==
  ASSUME NEW t, NEW M, NEW U, Tree(t, M, U), Ordered(t, M, U), t.ok,
         NEW g \in M, NEW s \in Sides, NEW p, p = Kid(t, s, g), p # NULL_ID,
         NEW q \in Sides, NEW n, n = Kid(t, q, p), n # NULL_ID,
         NEW color \in Colors, NEW H, NEW dp, NEW ds, Balanced(t, M, H, dp, ds),
         dp = NULL_ID \/ dp = g,
         get_color(t, n) = "red",
         H[Kid(t, Other(s), g)] = H[n],
         H[g] = H[n] + 1 + (IF color = "black" THEN 1 ELSE 0),
         \A m \in M \ {n, p, g}, r \in Sides :
            ~(get_color(t, m) = "red" /\ get_color(t, Kid(t, r, m)) = "red"),
         NEW three, three = {n, p, g}
  PROVE  LET top == RotatedRoot(t, n, p, g)
         IN  Risen(t, Colored(rotate(t, n, p, g), [m \in three |-> IF m = top THEN color ELSE "black"]),
                   M, top, g, color)
<1> DEFINE o == Other(s)
           u == rotate(t, n, p, g)
           top == RotatedRoot(t, n, p, g)
           w == Colored(u, [m \in three |-> IF m = top THEN color ELSE "black"])
<1>0. o \in Sides /\ o # s /\ (\A r \in Sides : r = s \/ r = o)
  BY OtherSide
<1>1. /\ t \in TreeType /\ M \in SUBSET Nodes /\ H \in [Optional -> Nat] /\ H[NULL_ID] = 0
      /\ NULL_ID \notin M /\ \A m \in M : m \in Optional
  BY RbTreeAssumption DEF Tree, Balanced, Optional
<1>2. p \in M /\ n \in M /\ p # g /\ n # p /\ n # g
  <2>1. p \in M /\ p # g /\ g \notin U[p]
    BY TreeChild
  <2>2. n \in M /\ n # p /\ n \in U[p]
    BY <2>1, TreeChild
  <2>. QED BY <2>1, <2>2
<1>3. ASSUME NEW m \in M, m # g, NEW r \in Sides
      PROVE  H[m] = H[Kid(t, r, m)] + Blacks(t, m)
  <2>1. m # dp /\ H[m] = H[Kid(t, r, m)] + 0 + Blacks(t, m)
    BY <1>1, <1>3 DEF Balanced
  <2>2. Kid(t, r, m) \in Optional
    BY <1>1, KidIs
  <2>3. H[Kid(t, r, m)] \in Nat /\ Blacks(t, m) \in Nat
    BY <1>1, <2>2 DEF Blacks
  <2>. QED BY <2>1, <2>3
<1>4. H[n] \in Nat /\ Blacks(t, n) = 0
  BY <1>1, <1>2 DEF Blacks
<1>5. \A r \in Sides : H[Kid(t, r, n)] = H[n] /\ H[Kid(t, r, p)] = H[n]
  <2>1. ASSUME NEW r \in Sides PROVE H[Kid(t, r, n)] = H[n] /\ H[Kid(t, r, p)] = H[Kid(t, q, p)]
    <3>1. /\ H[n] = H[Kid(t, r, n)] + Blacks(t, n)
          /\ H[p] = H[Kid(t, r, p)] + Blacks(t, p) /\ H[p] = H[Kid(t, q, p)] + Blacks(t, p)
      BY <1>2, <1>3
    <3>2. Kid(t, r, n) \in Optional /\ Kid(t, r, p) \in Optional /\ Kid(t, q, p) \in Optional
      BY <1>1, <1>2, KidIs
    <3>3. H[Kid(t, r, n)] \in Nat /\ H[Kid(t, r, p)] \in Nat /\ H[Kid(t, q, p)] \in Nat /\ Blacks(t, p) \in Nat
      BY <1>1, <3>2 DEF Blacks
    <3>. QED BY <1>4, <3>1, <3>3
  <2>. QED BY <2>1
<1> HIDE DEF u, top
<1>6. ASSUME NEW low, NEW a, NEW b, NEW c, NEW d,
             Turned(t, u, M, top, low, g, s, a, b, c, d), three = {top, low, g},
             H[a] = H[n], H[b] = H[n], H[c] = H[n], H[d] = H[n],
             u.ok, u.color = t.color, InOrder(u, M)
      PROVE  Risen(t, w, M, top, g, color)
  <2>1. u \in TreeType
    BY <1>6 DEF InOrder, Tree
  <2>2. Recolored(t, u, w, top, low, g, color)
    BY <1>1, <1>6, <2>1, TurnedColored
  <2> HIDE DEF w
  <2>3. \A m \in M \ {top, low, g}, r \in Sides :
            /\ H[m] = H[Kid(t, r, m)] + Blacks(t, m)
            /\ ~(get_color(t, m) = "red" /\ get_color(t, Kid(t, r, m)) = "red")
    <3>1. {top, low, g} = {n, p, g}
      BY <1>6
    <3>. QED BY <1>3, <3>1
  <2>4. /\ RedsApart(w, M, top)
        /\ color = get_color(t, g) => RedsApart(w, M, NULL_ID)
        /\ \E I : Balanced(w, M, I, NULL_ID, "left")
    <3>1. Level(t, M, H, H[n], {top, low, g}, {a, b, c, d}, g, color)
      BY <1>1, <1>4, <1>6, <2>3 DEF Level
    <3>. QED BY <1>6, <2>2, <3>1, <1>1, TurnedBalanced
  <2>5. InOrder(w, M)
    BY <1>6, <2>2, InOrderRecolored DEF Recolored
  <2>6. /\ top \in M /\ u.root = (IF t.root = g THEN top ELSE t.root)
        /\ t.root # top /\ t.root # low
    BY <1>6 DEF Turned
  <2>7. get_color(w, top) = color
    BY <1>1, <2>2, <2>6 DEF Recolored
  <2>8. w.root = IF t.root = g THEN top ELSE t.root
    BY <2>2, <2>6 DEF SamePointers, Recolored
  <2>9. ASSUME t.root # g PROVE get_color(w, t.root) = get_color(t, t.root)
    <3>1. t.root \in M \cup {NULL_ID}
      BY DEF Tree
    <3>. QED BY <1>1, <2>2, <2>6, <2>9, <3>1 DEF Recolored
  <2>. QED BY <2>2, <2>4, <2>5, <2>6, <2>7, <2>8, <2>9 DEF Risen, Recolored
<1>7. ASSUME q = s PROVE Risen(t, w, M, top, g, color)
  <2>1. /\ top = p /\ Lifted(t, u, p, g, s) /\ u.ok /\ u.color = t.color
        /\ \E W : Tree(u, M, W) /\ Ordered(u, M, W)
    BY <1>7, RotatedOuter DEF u, top
  <2>2. Turned(t, u, M, p, n, g, s, Kid(t, s, n), Kid(t, o, n), Kid(t, o, p), Kid(t, o, g))
    BY <1>7, <2>1, TurnedOuter
  <2>3. /\ H[Kid(t, s, n)] = H[n] /\ H[Kid(t, o, n)] = H[n] /\ H[Kid(t, o, p)] = H[n]
        /\ H[Kid(t, o, g)] = H[n]
    BY <1>0, <1>5
  <2>4. three = {top, n, g} /\ InOrder(u, M)
    BY <2>1 DEF InOrder
  <2> HIDE DEF o, w
  <2>. QED BY <1>6, <2>1, <2>2, <2>3, <2>4
<1>8. ASSUME q = o PROVE Risen(t, w, M, top, g, color)
  <2>1. /\ top = n /\ u.ok /\ u.color = t.color
        /\ \E v : Lifted(t, v, n, p, o) /\ Lifted(v, u, n, g, s)
        /\ \E W : Tree(u, M, W) /\ Ordered(u, M, W)
    BY <1>8, RotatedInner DEF u, top
  <2>2. Turned(t, u, M, n, p, g, s, Kid(t, s, p), Kid(t, s, n), Kid(t, o, n), Kid(t, o, g))
    BY <1>8, <2>1, TurnedInner
  <2>3. /\ H[Kid(t, s, n)] = H[n] /\ H[Kid(t, o, n)] = H[n] /\ H[Kid(t, s, p)] = H[n]
        /\ H[Kid(t, o, g)] = H[n]
    BY <1>0, <1>5
  <2>4. three = {top, p, g} /\ InOrder(u, M)
    BY <2>1 DEF InOrder
  <2> HIDE DEF o, w
  <2>. QED BY <1>6, <2>1, <2>2, <2>3, <2>4
<1> HIDE DEF w, o
<1>9. Risen(t, w, M, top, g, color)
  BY <1>0, <1>7, <1>8
<1>. QED BY <1>9 DEF w, u, top

-----------------------------------------------------------------------------
(* The turns of the loop of the insertion                                   *)

\* The invariant: in each state of a call there are U and H.
RbInv ==
    /\ tree.ok
    /\ pc \in {"idle", "float", "rebalance"}
    /\ cursor \in [n : Optional, db : Optional, p : Optional]
    /\ InOrder(tree, members)
    /\ pc = "idle" => \E H : Settled(tree, members, H)
    /\ pc = "float" => \E H : Floating(tree, members, H, cursor.n)
    /\ pc = "rebalance" => \E H : Deficient(tree, members, H, cursor.db, cursor.p)

\* An assertion that holds leaves the tree alone.
LEMMA RequireHolds ==
  ASSUME NEW t \in TreeType, t.ok
  PROVE  Require(t, TRUE) = t
BY DEF Require, TreeType

\* The red node has floated to the root, which becomes black: every path has one more.
LEMMA FloatAtRootKeeps ==
  ASSUME RbInv, FloatAtRoot
  PROVE  RbInv'
<1> DEFINE n == cursor.n
           u == set_color(tree, n, "black")
<1>1. PICK U : Tree(tree, members, U)
  BY DEF RbInv, InOrder
<1>2. PICK H : Floating(tree, members, H, n)
  BY DEF RbInv, FloatAtRoot
<1>3. /\ tree \in TreeType /\ members \subseteq Nodes /\ n \in members /\ n \in Optional
      /\ n \in Nodes /\ n # NULL_ID /\ \A m \in members : m \in Optional
  BY <1>1, <1>2, RbTreeAssumption DEF Tree, Floating, Optional
<1>4. n = tree.root
  <2>1. n # tree.root => tree.parent[n] \in members
    BY <1>1, <1>3 DEF Tree
  <2>. QED BY <1>3, <2>1, RbTreeAssumption DEF FloatAtRoot
<1>5. /\ SamePointers(tree, u) /\ u.ok = tree.ok
      /\ \A m \in Nodes : get_color(u, m) = IF m = n THEN "black" ELSE get_color(tree, m)
      /\ get_color(u, NULL_ID) = "black" /\ get_color(tree, NULL_ID) = "black"
  BY <1>3, SetColorIs, ColorIs DEF Colors
<1>6. tree' = u /\ pc' = "idle" /\ members' = members /\ cursor' = cursor
  BY DEF FloatAtRoot
<1> HIDE DEF n, u
<1>7. \A r \in Sides, m \in members : /\ Kid(tree, r, m) # n /\ Kid(u, r, m) = Kid(tree, r, m)
                                      /\ Kid(tree, r, m) \in members \cup {NULL_ID}
  <2>1. \A r, m : Kid(u, r, m) = Kid(tree, r, m)
    BY <1>5 DEF SamePointers, Kid
  <2>. QED BY <1>1, <1>3, <1>4, <2>1, TreeNode
<1>8. RedsApart(u, members, NULL_ID)
  BY <1>2, <1>3, <1>5, <1>7 DEF RedsApart, Floating
<1>9. get_color(u, u.root) = "black"
  BY <1>3, <1>4, <1>5 DEF SamePointers
<1> DEFINE I == [H EXCEPT ![n] = @ + 1 - Blacks(tree, n)]
<1>10. /\ H \in [Optional -> Nat] /\ H[NULL_ID] = 0
       /\ \A m \in members, r \in Sides : H[m] = H[Kid(tree, r, m)] + Blacks(tree, m)
  <2>1. Balanced(tree, members, H, NULL_ID, "left") /\ members \in SUBSET Nodes
    BY <1>2, <1>3 DEF Floating
  <2>. QED BY <1>3, <2>1, NoDeficit
<1>11. Blacks(tree, n) \in {0, 1} /\ Blacks(u, n) = 1 /\ H[n] \in Nat
  BY <1>3, <1>5, <1>10 DEF Blacks
<1>12. H[n] + 1 - Blacks(tree, n) \in Nat
  BY <1>11
<1>13. /\ I \in [Optional -> Nat] /\ I[NULL_ID] = 0 /\ I[n] = H[n] + 1 - Blacks(tree, n)
       /\ \A m \in Optional : m # n => I[m] = H[m]
  BY <1>3, <1>10, <1>12
<1> HIDE DEF I
<1>14. ASSUME NEW m \in members, NEW r \in Sides
       PROVE  I[m] = I[Kid(u, r, m)] + Blacks(u, m)
  <2>1. I[Kid(u, r, m)] = H[Kid(tree, r, m)] /\ H[Kid(tree, r, m)] \in Nat
    BY <1>3, <1>7, <1>10, <1>13 DEF Optional
  <2>2. CASE m = n
    BY <1>10, <1>11, <1>13, <2>1, <2>2
  <2>3. CASE m # n
    <3>1. Blacks(u, m) = Blacks(tree, m)
      BY <1>3, <1>5, <2>3 DEF Blacks
    <3>. QED BY <1>3, <1>10, <1>13, <2>1, <2>3, <3>1
  <2>. QED BY <2>2, <2>3
<1>15. Balanced(u, members, I, NULL_ID, "left")
  BY <1>3, <1>5, <1>13, <1>14, NoDeficit DEF SamePointers
<1>16. InOrder(u, members)
  BY <1>5, InOrderRecolored DEF RbInv
<1>. QED BY <1>5, <1>6, <1>8, <1>9, <1>15, <1>16 DEF RbInv, Settled

\* The parent of the red node is black: nothing is left to mend.
LEMMA FloatUnderBlackKeeps ==
  ASSUME RbInv, FloatUnderBlack
  PROVE  RbInv'
<1> DEFINE n == cursor.n
           p == tree.parent[n]
<1>1. PICK U : Tree(tree, members, U)
  BY DEF RbInv, InOrder
<1>2. PICK H : Floating(tree, members, H, n)
  BY DEF RbInv, FloatUnderBlack
<1>3. tree \in TreeType /\ members \subseteq Nodes /\ n \in members /\ n # NULL_ID
  BY <1>1, <1>2, RbTreeAssumption DEF Tree, Floating
<1>4. n # tree.root
  BY <1>1, <1>3 DEF Tree, FloatUnderBlack
<1>5. get_color(tree, n) = "red" /\ get_color(tree, tree.root) = "black"
  BY <1>2, <1>4 DEF Floating
<1>6. tree' = tree /\ members' = members /\ cursor' = cursor /\ pc' = "idle"
  <2>1. tree' = Require(tree, TRUE)
    BY <1>5 DEF FloatUnderBlack
  <2>. QED BY <1>3, <2>1, RequireHolds DEF FloatUnderBlack, RbInv
<1>7. RedsApart(tree, members, NULL_ID)
  <2>1. SUFFICES ASSUME NEW m \in members, NEW r \in Sides,
                        get_color(tree, m) = "red", get_color(tree, Kid(tree, r, m)) = "red"
                 PROVE  FALSE
    BY DEF RedsApart
  <2>2. Kid(tree, r, m) = n
    BY <1>2, <2>1 DEF Floating, RedsApart
  <2>3. tree.parent[n] = m
    BY <1>1, <1>3, <2>2, TreeChild
  <2>. QED BY <2>1, <2>3 DEF FloatUnderBlack
<1>8. Settled(tree, members, H)
  BY <1>2, <1>5, <1>7 DEF Settled, Floating
<1>. QED BY <1>6, <1>8 DEF RbInv

\* Parent and node are red: after the rotation a red node may be left under a red one only on
\* top of the three, where the loop goes on.
LEMMA FloatUnderRedKeeps ==
  ASSUME RbInv, FloatUnderRed
  PROVE  RbInv'
<1> DEFINE n == cursor.n
           p == tree.parent[n]
           g == tree.parent[p]
           top == RotatedRoot(tree, n, p, g)
           three == {n, p, g}
           w == Colored(rotate(tree, n, p, g), [m \in three |-> IF m = top THEN "red" ELSE "black"])
<1>1. PICK U : Tree(tree, members, U) /\ Ordered(tree, members, U)
  BY DEF RbInv, InOrder
<1>2. PICK H : Floating(tree, members, H, n)
  BY DEF RbInv, FloatUnderRed
<1>3. tree \in TreeType /\ members \subseteq Nodes /\ n \in members /\ n # NULL_ID /\ p # NULL_ID
  BY <1>1, <1>2, RbTreeAssumption DEF Tree, Floating, FloatUnderRed
<1>4. n # tree.root
  BY <1>1, <1>3 DEF Tree
<1>5. get_color(tree, n) = "red" /\ get_color(tree, tree.root) = "black" /\ get_color(tree, p) = "red"
  BY <1>2, <1>4 DEF Floating, FloatUnderRed
<1>6. p # tree.root /\ p \in members /\ \E q \in Sides : Kid(tree, q, p) = n
  BY <1>1, <1>3, <1>4, <1>5 DEF Tree
<1>7. g \in members /\ \E s \in Sides : Kid(tree, s, g) = p
  BY <1>1, <1>6 DEF Tree
<1>8. PICK q \in Sides, s \in Sides : Kid(tree, q, p) = n /\ Kid(tree, s, g) = p
  BY <1>6, <1>7
<1>9. p # n
  BY <1>1, <1>6, <1>8, <1>3, TreeChild
<1>10. get_color(tree, g) = "black"
  <2>1. get_color(tree, g) \in Colors
    BY <1>3, <1>7, ColorIs
  <2>2. get_color(tree, g) = "red" => p = n
    BY <1>2, <1>5, <1>7, <1>8 DEF Floating, RedsApart
  <2>. QED BY <1>9, <2>1, <2>2 DEF Colors
<1>11. tree' = w /\ cursor' = [cursor EXCEPT !.n = top] /\ members' = members /\ pc' = "float"
  <2>1. IsNode(tree, g) = tree
    <3>1. g \in Nodes
      BY <1>3, <1>7
    <3>. QED BY <1>3, <3>1, RequireHolds DEF IsNode, RbInv
  <2>2. Require(IsNode(tree, g), get_color(tree, n) = "red" /\ get_color(tree, g) = "black") = tree
    BY <1>3, <1>5, <1>10, <2>1, RequireHolds DEF RbInv
  <2>. QED BY <2>2 DEF FloatUnderRed, RbInv
<1>12. /\ Balanced(tree, members, H, NULL_ID, "left") /\ H \in [Optional -> Nat]
       /\ \A m \in members, r \in Sides : H[m] = H[Kid(tree, r, m)] + Blacks(tree, m)
       /\ \A m \in Optional : H[m] \in Nat
  <2>1. Balanced(tree, members, H, NULL_ID, "left")
    BY <1>2 DEF Floating
  <2>2. tree \in TreeType /\ members \in SUBSET Nodes
    BY <1>3
  <2>3. H \in [Optional -> Nat]
    BY <2>1 DEF Balanced
  <2>4. ASSUME NEW m \in members, NEW r \in Sides
        PROVE  H[m] = H[Kid(tree, r, m)] + Blacks(tree, m)
    <3>1. H[m] = H[Kid(tree, r, m)] + (IF m = NULL_ID /\ r = "left" THEN 1 ELSE 0) + Blacks(tree, m)
      BY <2>1 DEF Balanced
    <3>2. m # NULL_ID
      BY <1>3, RbTreeAssumption
    <3>3. Kid(tree, r, m) \in Optional /\ m \in Nodes
      BY <2>2, KidIs
    <3>4. H[Kid(tree, r, m)] \in Nat /\ Blacks(tree, m) \in Nat
      BY <2>3, <3>3 DEF Blacks
    <3>. QED BY <3>1, <3>2, <3>4
  <2>. QED BY <2>1, <2>3, <2>4
<1>13. H[Kid(tree, Other(s), g)] = H[n] /\ H[g] = H[n] + 1
  <2>1. Other(s) \in Sides
    BY OtherSide
  <2>2. /\ H[g] = H[Kid(tree, Other(s), g)] + Blacks(tree, g)
        /\ H[g] = H[p] + Blacks(tree, g) /\ H[p] = H[n] + Blacks(tree, p)
    BY <1>6, <1>7, <1>8, <1>12, <2>1
  <2>3. Blacks(tree, g) = 1 /\ Blacks(tree, p) = 0
    BY <1>5, <1>10 DEF Blacks
  <2>4. Kid(tree, Other(s), g) \in Optional /\ n \in Optional /\ p \in Optional
    BY <1>3, <1>6, <1>7, <2>1, KidIs DEF Optional
  <2>5. H[Kid(tree, Other(s), g)] \in Nat /\ H[n] \in Nat /\ H[p] \in Nat
    BY <1>12, <2>4
  <2>. QED BY <2>2, <2>3, <2>5
<1>14. \A m \in members \ {n, p, g}, r \in Sides :
            ~(get_color(tree, m) = "red" /\ get_color(tree, Kid(tree, r, m)) = "red")
  <2>1. SUFFICES ASSUME NEW m \in members \ {n, p, g}, NEW r \in Sides,
                        get_color(tree, m) = "red", get_color(tree, Kid(tree, r, m)) = "red"
                 PROVE  FALSE
    OBVIOUS
  <2>2. Kid(tree, r, m) = n
    BY <1>2, <2>1 DEF Floating, RedsApart
  <2>3. m = p
    BY <1>1, <1>3, <2>2, TreeChild
  <2>. QED BY <2>3
<1> HIDE DEF n, p, g
<1>15. Risen(tree, w, members, top, g, "red")
  <2>1. "red" \in Colors /\ "red" # "black" /\ H[n] \in Nat
    BY <1>12, <1>3 DEF Colors, Optional
  <2>2. H[g] = H[n] + 1 + (IF "red" = "black" THEN 1 ELSE 0)
    BY <1>13, <2>1
  <2>3. tree.ok /\ p = Kid(tree, s, g) /\ n = Kid(tree, q, p)
    BY <1>8 DEF RbInv
  <2>. QED BY <1>1, <1>3, <1>5, <1>7, <1>12, <1>13, <1>14, <2>1, <2>2, <2>3, ThreeUp
<1> HIDE DEF w, top
<1>16. PICK I : Balanced(w, members, I, NULL_ID, "left")
  BY <1>15 DEF Risen
<1>17. Floating(w, members, I, top)
  BY <1>5, <1>15, <1>16 DEF Risen, Floating
<1>18. cursor' \in [n : Optional, db : Optional, p : Optional] /\ cursor'.n = top
  <2>1. top \in Optional
    BY <1>3, <1>15 DEF Risen, Optional
  <2>. QED BY <1>11, <2>1 DEF RbInv
<1>. QED BY <1>11, <1>15, <1>17, <1>18 DEF RbInv, Risen

-----------------------------------------------------------------------------
(* The turns of the loop of the deletion                                    *)

\* The doubly black node db and its family: S is the sibling of db, on the other side of P.
FamilyAt(U, H, P, r, S) ==
    /\ Tree(tree, members, U) /\ Ordered(tree, members, U)
    /\ RedsApart(tree, members, NULL_ID) /\ get_color(tree, tree.root) = "black"
    /\ P \in members /\ r \in Sides /\ Kid(tree, r, P) = cursor.db
    /\ S = Kid(tree, Other(r), P) /\ S \in members
    /\ get_color(tree, cursor.db) = "black"
    /\ Balanced(tree, members, H, P, r)
    /\ H[S] = H[cursor.db] + 1 /\ H[P] = H[S] + Blacks(tree, P)
    /\ Family = [p |-> P, s |-> S, n |-> Kid(tree, r, S), f |-> Kid(tree, Other(r), S)]

\* There is a node on the other side of the one the black is missing from: the assertions of
\* the rebalancing hold, and the sides it reads are the ones they should be.
LEMMA FamilyExists ==
  ASSUME RbInv, Unbalanced
  PROVE  \E U, H, P, r, S : FamilyAt(U, H, P, r, S)
<1> DEFINE db == cursor.db
<1>1. PICK U : Tree(tree, members, U) /\ Ordered(tree, members, U)
  BY DEF RbInv, InOrder
<1>2. PICK H : Deficient(tree, members, H, db, cursor.p)
  BY DEF RbInv, Unbalanced
<1>3. /\ tree \in TreeType /\ members \subseteq Nodes /\ NULL_ID \notin members
      /\ db \in members \cup {NULL_ID} /\ db # tree.root
  BY <1>1, <1>2, RbTreeAssumption DEF Tree, Deficient, Unbalanced
<1>4. PICK P \in members, r \in Sides :
         /\ Kid(tree, r, P) = db /\ (db = NULL_ID => P = cursor.p)
         /\ Balanced(tree, members, H, P, r)
  BY <1>2, <1>3 DEF Deficient
<1> DEFINE o == Other(r)
           S == Kid(tree, o, P)
<1>5. o \in Sides /\ o # r
  BY OtherSide
<1>6. S \in members \cup {NULL_ID} /\ S \in Optional /\ db \in Optional /\ P \in Optional /\ P \in Nodes
  BY <1>1, <1>3, <1>4, <1>5, TreeNode DEF Optional
<1>7. H \in [Optional -> Nat] /\ H[NULL_ID] = 0 /\ Blacks(tree, P) \in Nat /\ H[S] \in Nat /\ H[db] \in Nat
  BY <1>4, <1>6 DEF Balanced, Blacks
<1>8. H[P] = H[db] + 1 + Blacks(tree, P) /\ H[P] = H[S] + 0 + Blacks(tree, P)
  BY <1>4, <1>5 DEF Balanced
<1>9. H[S] = H[db] + 1 /\ H[P] = H[S] + Blacks(tree, P)
  BY <1>7, <1>8
<1>10. S # NULL_ID /\ S \in members /\ S # db
  BY <1>6, <1>7, <1>9
<1>11. Family.p = P
  <2>1. db # NULL_ID => tree.parent[db] = P
    BY <1>1, <1>4, TreeChild
  <2>. QED BY <1>4, <2>1 DEF Family
<1>12. SideOf(tree, P, db) = r
  BY <1>3, <1>4, <1>6, <1>10, SideIs
<1>13. /\ tree[o][P] = S /\ tree[r][S] = Kid(tree, r, S) /\ tree[o][S] = Kid(tree, o, S)
  BY <1>3, <1>5, <1>6, <1>10, KidIs
<1>14. Family = [p |-> P, s |-> S, n |-> Kid(tree, r, S), f |-> Kid(tree, o, S)]
  BY <1>10, <1>11, <1>12, <1>13 DEF Family
<1>. QED BY <1>1, <1>2, <1>4, <1>9, <1>10, <1>14 DEF FamilyAt, Deficient

\* Facts of the family that the turns use
LEMMA FamilyFacts ==
  ASSUME NEW U, NEW H, NEW P, NEW r, NEW S, FamilyAt(U, H, P, r, S)
  PROVE  /\ tree \in TreeType /\ members \in SUBSET Nodes /\ NULL_ID \notin members
         /\ \A m \in members : m \in Optional /\ m \in Nodes
         /\ H \in [Optional -> Nat] /\ H[NULL_ID] = 0 /\ \A m \in Optional : H[m] \in Nat
         /\ Other(r) \in Sides /\ Other(r) # r /\ Other(Other(r)) = r
         /\ \A q \in Sides : q = r \/ q = Other(r)
         /\ S # P /\ S # cursor.db /\ P # cursor.db /\ S # tree.root
         /\ cursor.db \in members \cup {NULL_ID}
         /\ \A m \in members, q \in Sides :
               /\ Kid(tree, q, m) \in members \cup {NULL_ID} /\ Kid(tree, q, m) # m
               /\ Kid(tree, q, m) \in Optional
               /\ Kid(tree, q, m) # NULL_ID => tree.parent[Kid(tree, q, m)] = m
               /\ Kid(tree, q, m) = S => m = P /\ q = Other(r)
         /\ \A q \in Sides : Kid(tree, q, S) # P
         /\ \A m \in members : m # P =>
               \A q \in Sides : H[m] = H[Kid(tree, q, m)] + Blacks(tree, m)
         /\ \A m \in members : Blacks(tree, m) \in {0, 1} /\ get_color(tree, m) \in Colors
         /\ get_color(tree, NULL_ID) = "black"
         /\ \A m \in members, q \in Sides :
               ~(get_color(tree, m) = "red" /\ get_color(tree, Kid(tree, q, m)) = "red")
<1> DEFINE o == Other(r)
<1>1. /\ tree \in TreeType /\ members \in SUBSET Nodes /\ NULL_ID \notin members
      /\ \A m \in members : m \in Optional /\ m \in Nodes
  BY RbTreeAssumption DEF FamilyAt, Tree, Optional
<1>2. /\ H \in [Optional -> Nat] /\ H[NULL_ID] = 0 /\ \A m \in Optional : H[m] \in Nat
  BY DEF FamilyAt, Balanced
<1>3. r \in Sides /\ o \in Sides /\ o # r /\ Other(o) = r /\ \A q \in Sides : q = r \/ q = o
  BY OtherSide DEF FamilyAt
<1>4. Tree(tree, members, U) /\ P \in members /\ S \in members /\ S = Kid(tree, o, P) /\ Kid(tree, r, P) = cursor.db
  BY DEF FamilyAt
<1>5. S # P /\ S # tree.root /\ tree.parent[S] = P /\ S # Kid(tree, r, P) /\ S \in U[P] /\ U[S] \subseteq U[P] /\ P \notin U[S]
  BY <1>1, <1>3, <1>4, TreeChild
<1>6. \A m \in members, q \in Sides :
               /\ Kid(tree, q, m) \in members \cup {NULL_ID} /\ Kid(tree, q, m) # m
               /\ Kid(tree, q, m) \in Optional
               /\ Kid(tree, q, m) # NULL_ID => tree.parent[Kid(tree, q, m)] = m /\ Kid(tree, q, m) \in U[m]
  <2>1. ASSUME NEW m \in members, NEW q \in Sides
        PROVE  Kid(tree, q, m) \in members \cup {NULL_ID} /\ Kid(tree, q, m) \in Optional
    BY <1>4, TreeNode
  <2>2. ASSUME NEW m \in members, NEW q \in Sides, Kid(tree, q, m) # NULL_ID
        PROVE  Kid(tree, q, m) # m /\ tree.parent[Kid(tree, q, m)] = m /\ Kid(tree, q, m) \in U[m]
    BY <1>4, <2>2, TreeChild
  <2>. QED BY <1>1, <2>1, <2>2
<1>7. \A m \in members, q \in Sides : Kid(tree, q, m) = S => m = P /\ q = o
  BY <1>1, <1>3, <1>4, <1>5, <1>6
<1>8. \A q \in Sides : Kid(tree, q, S) # P
  BY <1>1, <1>4, <1>5, <1>6
<1>9. \A m \in members : Blacks(tree, m) \in {0, 1} /\ get_color(tree, m) \in Colors
  BY <1>1, ColorIs DEF Blacks
<1>10. ASSUME NEW m \in members, m # P, NEW q \in Sides
       PROVE  H[m] = H[Kid(tree, q, m)] + Blacks(tree, m)
  <2>1. H[m] = H[Kid(tree, q, m)] + 0 + Blacks(tree, m)
    BY <1>10 DEF FamilyAt, Balanced
  <2>2. H[Kid(tree, q, m)] \in Nat /\ Blacks(tree, m) \in {0, 1}
    BY <1>2, <1>6, <1>9
  <2>. QED BY <2>1, <2>2
<1>11. get_color(tree, NULL_ID) = "black"
  BY <1>1, ColorIs
<1>12. \A m \in members, q \in Sides :
           ~(get_color(tree, m) = "red" /\ get_color(tree, Kid(tree, q, m)) = "red")
  BY <1>11 DEF FamilyAt, RedsApart
<1>. QED BY <1>1, <1>2, <1>3, <1>4, <1>5, <1>6, <1>7, <1>8, <1>9, <1>10, <1>11, <1>12

\* A turn goes on with w if w is a tree that has not failed an assertion.
LEMMA TurnIs ==
  ASSUME NEW U, NEW H, NEW P, NEW r, NEW S, FamilyAt(U, H, P, r, S),
         NEW done \in BOOLEAN, NEW w \in TreeType, w.ok, NEW db \in Optional, Turn(done, w, db, P)
  PROVE  /\ tree' = w /\ members' = members
         /\ pc' = IF done THEN "idle" ELSE "rebalance"
         /\ cursor' \in [n : Optional, db : Optional, p : Optional]
         /\ cursor'.db = db /\ cursor'.p = P
<1>1. Family.s # NULL_ID
  BY FamilyFacts DEF FamilyAt
<1>2. tree' = w
  BY <1>1, RequireHolds DEF Turn
<1>3. P \in Optional /\ NULL_ID \in Optional
  BY FamilyFacts DEF FamilyAt, Optional
<1>. QED BY <1>2, <1>3 DEF Turn

\* The sibling becomes red and the parent black: one black node less below the sibling.
LEMMA SiblingReddened ==
  ASSUME NEW U, NEW H, NEW P, NEW r, NEW S, FamilyAt(U, H, P, r, S),
         get_color(tree, S) = "black", \A q \in Sides : get_color(tree, Kid(tree, q, S)) = "black",
         NEW w, SamePointers(tree, w), get_color(w, NULL_ID) = "black",
         \A m \in Nodes : get_color(w, m) = IF m = S THEN "red" ELSE IF m = P THEN "black"
                                            ELSE get_color(tree, m)
  PROVE  /\ InOrder(w, members) /\ RedsApart(w, members, NULL_ID) /\ get_color(w, w.root) = "black"
         /\ \E I \in [Optional -> Nat] :
               /\ I[NULL_ID] = 0
               /\ \A m \in members, q \in Sides :
                     I[m] = I[Kid(tree, q, m)] + (IF Kid(tree, q, m) = P THEN Blacks(tree, P) ELSE 0)
                               + Blacks(w, m)
<1> DEFINE I == [H EXCEPT ![S] = @ - 1, ![P] = H[S]]
<1>1. /\ tree \in TreeType /\ members \in SUBSET Nodes /\ NULL_ID \notin members
      /\ \A m \in members : m \in Optional /\ m \in Nodes
      /\ H \in [Optional -> Nat] /\ H[NULL_ID] = 0 /\ \A m \in Optional : H[m] \in Nat
      /\ S # P /\ S # cursor.db /\ P # cursor.db /\ S # tree.root
      /\ cursor.db \in members \cup {NULL_ID} /\ P \in members /\ S \in members
      /\ tree.root \in members \cup {NULL_ID}
  <2>1. /\ tree \in TreeType /\ members \in SUBSET Nodes /\ NULL_ID \notin members
        /\ \A m \in members : m \in Optional /\ m \in Nodes
        /\ H \in [Optional -> Nat] /\ H[NULL_ID] = 0 /\ \A m \in Optional : H[m] \in Nat
        /\ S # P /\ S # cursor.db /\ P # cursor.db /\ S # tree.root
        /\ cursor.db \in members \cup {NULL_ID}
    BY FamilyFacts
  <2>2. P \in members /\ S \in members /\ tree.root \in members \cup {NULL_ID}
    BY DEF FamilyAt, Tree
  <2>. QED BY <2>1, <2>2
<1>2. /\ Tree(tree, members, U) /\ Kid(tree, r, P) = cursor.db /\ Kid(tree, Other(r), P) = S
      /\ H[S] = H[cursor.db] + 1 /\ H[P] = H[S] + Blacks(tree, P)
      /\ get_color(tree, tree.root) = "black" /\ get_color(tree, cursor.db) = "black"
  BY DEF FamilyAt
<1>3. ASSUME NEW m \in members, NEW q \in Sides
      PROVE  /\ Kid(tree, q, m) \in members \cup {NULL_ID} /\ Kid(tree, q, m) # m
             /\ Kid(tree, q, m) \in Optional
             /\ Kid(tree, q, m) = S => m = P /\ q = Other(r)
             /\ m = P => Kid(tree, q, m) = IF q = r THEN cursor.db ELSE S
             /\ m = S => Kid(tree, q, m) # P
             /\ Blacks(tree, m) \in {0, 1}
             /\ m # P => H[m] = H[Kid(tree, q, m)] + Blacks(tree, m)
             /\ ~(get_color(tree, m) = "red" /\ get_color(tree, Kid(tree, q, m)) = "red")
  BY <1>2, FamilyFacts
<1>4. InOrder(w, members) /\ \A q, m : Kid(w, q, m) = Kid(tree, q, m)
  BY InOrderRecolored DEF FamilyAt, InOrder, SamePointers, Kid
<1>5. ASSUME NEW m \in members, NEW q \in Sides,
             get_color(w, m) = "red", get_color(w, Kid(w, q, m)) = "red"
      PROVE  FALSE
  <2>1. CASE m = S
    <3>1. Kid(w, q, m) # S /\ Kid(w, q, m) # P /\ get_color(tree, Kid(w, q, m)) = "black"
      BY <1>1, <1>3, <1>4, <2>1
    <3>. QED BY <1>1, <1>3, <1>4, <1>5, <2>1, <3>1
  <2>2. CASE m # S /\ m # P
    <3>1. Kid(w, q, m) # S /\ get_color(tree, m) = "red"
      BY <1>1, <1>3, <1>4, <1>5, <2>2
    <3>. QED BY <1>1, <1>3, <1>4, <1>5, <2>2, <3>1
  <2>3. CASE m = P
    BY <1>1, <1>5, <2>3
  <2>. QED BY <2>1, <2>2, <2>3
<1>6. get_color(w, w.root) = "black"
  BY <1>1, <1>2 DEF SamePointers
<1>7. /\ I \in [Optional -> Nat] /\ I[NULL_ID] = 0 /\ I[S] = H[S] - 1 /\ I[P] = H[S]
      /\ \A m \in Optional : m # S /\ m # P => I[m] = H[m]
  <2>1. H[S] - 1 \in Nat /\ H[S] \in Nat
    <3>1. cursor.db \in Optional
      BY <1>1 DEF Optional
    <3>. QED BY <1>1, <1>2, <3>1
  <2>2. S \in Optional /\ P \in Optional /\ NULL_ID \in Optional /\ S # NULL_ID /\ P # NULL_ID /\ S # P
    BY <1>1 DEF Optional
  <2>. QED BY <1>1, <2>1, <2>2
<1>8. ASSUME NEW m \in members, NEW q \in Sides
      PROVE  I[m] = I[Kid(tree, q, m)] + (IF Kid(tree, q, m) = P THEN Blacks(tree, P) ELSE 0)
                       + Blacks(w, m)
  <2> HIDE DEF I
  <2>1. H[Kid(tree, q, m)] \in Nat /\ H[S] \in Nat /\ H[cursor.db] \in Nat /\ H[m] \in Nat /\ Blacks(tree, m) \in {0, 1}
        /\ cursor.db \in Optional /\ Blacks(tree, P) \in {0, 1}
    BY <1>1, <1>3 DEF Optional
  <2>2. CASE m = P
    <3>1. Blacks(w, m) = 1 /\ Kid(tree, q, m) # P
      BY <1>1, <1>3, <2>2 DEF Blacks
    <3>2. CASE q = r
      <4>1. I[Kid(tree, q, m)] = H[cursor.db]
        BY <1>1, <1>3, <1>7, <2>1, <2>2, <3>2
      <4>. QED BY <1>2, <1>7, <2>1, <2>2, <3>1, <4>1
    <3>3. CASE q # r
      <4>1. I[Kid(tree, q, m)] = H[S] - 1
        BY <1>1, <1>3, <1>7, <2>1, <2>2, <3>3
      <4>. QED BY <1>2, <1>7, <2>1, <2>2, <3>1, <4>1
    <3>. QED BY <3>2, <3>3
  <2>3. CASE m = S
    <3>1. Blacks(w, m) = 0 /\ Blacks(tree, m) = 1 /\ Kid(tree, q, m) # P /\ Kid(tree, q, m) # S
      BY <1>1, <1>3, <2>3 DEF Blacks
    <3>2. I[Kid(tree, q, m)] = H[Kid(tree, q, m)] /\ H[m] = H[Kid(tree, q, m)] + 1
      BY <1>1, <1>3, <1>7, <2>3, <3>1
    <3>. QED BY <1>7, <2>1, <2>3, <3>1, <3>2
  <2>4. CASE m # S /\ m # P
    <3>1. Blacks(w, m) = Blacks(tree, m) /\ I[m] = H[m] /\ H[m] = H[Kid(tree, q, m)] + Blacks(tree, m)
          /\ Kid(tree, q, m) # S
      BY <1>1, <1>3, <1>7, <2>4 DEF Blacks
    <3>2. CASE Kid(tree, q, m) = P
      BY <1>2, <1>7, <2>1, <3>1, <3>2
    <3>3. CASE Kid(tree, q, m) # P
      <4>1. I[Kid(tree, q, m)] = H[Kid(tree, q, m)]
        BY <1>3, <1>7, <3>1, <3>3
      <4>. QED BY <2>1, <3>1, <3>3, <4>1
    <3>. QED BY <3>2, <3>3
  <2>. QED BY <2>2, <2>3, <2>4
<1>9. RedsApart(w, members, NULL_ID)
  BY <1>5 DEF RedsApart
<1> HIDE DEF I
<1>. QED BY <1>4, <1>6, <1>7, <1>8, <1>9

\* Not red is black.
LEMMA NotRed ==
  ASSUME tree \in TreeType, NEW m \in Optional
  PROVE  ~Red(m) <=> get_color(tree, m) = "black"
BY ColorIs DEF Red, Colors

\* All are black: the sibling becomes red, and the black is missing one node further up.
LEMMA RebalanceUpKeeps ==
  ASSUME RbInv, RebalanceUp
  PROVE  RbInv'
<1>1. PICK U, H, P, r, S : FamilyAt(U, H, P, r, S)
  BY FamilyExists DEF RebalanceUp
<1> DEFINE w == set_color(tree, S, "red")
<1>2. /\ tree \in TreeType /\ P \in members /\ S \in members /\ r \in Sides /\ members \in SUBSET Nodes
      /\ \A m \in members : m \in Optional /\ m \in Nodes
      /\ NULL_ID \notin members /\ get_color(tree, NULL_ID) = "black"
  <2>1. P \in members /\ S \in members /\ r \in Sides
    BY <1>1 DEF FamilyAt
  <2>2. /\ tree \in TreeType /\ members \in SUBSET Nodes /\ \A m \in members : m \in Optional /\ m \in Nodes
        /\ NULL_ID \notin members /\ get_color(tree, NULL_ID) = "black"
    BY <1>1, FamilyFacts
  <2>. QED BY <2>1, <2>2
<1>3. /\ get_color(tree, P) = "black" /\ get_color(tree, S) = "black"
      /\ \A q \in Sides : get_color(tree, Kid(tree, q, S)) = "black"
  <2>1. ~Red(P) /\ ~Red(S) /\ ~Red(Kid(tree, r, S)) /\ ~Red(Kid(tree, Other(r), S))
    BY <1>1 DEF RebalanceUp, FamilyAt
  <2>2. \A q \in Sides : q = r \/ q = Other(r)
    BY <1>1, FamilyFacts
  <2>3. \A q \in Sides : Kid(tree, q, S) \in Optional
    BY <1>2, KidIs
  <2>. QED BY <1>2, <2>1, <2>2, <2>3, NotRed
<1>4. /\ SamePointers(tree, w) /\ w.ok = tree.ok
      /\ \A m \in Nodes : get_color(w, m) = IF m = S THEN "red" ELSE get_color(tree, m)
      /\ get_color(w, NULL_ID) = "black"
  BY <1>2, SetColorIs DEF Colors
<1>5. Turn(FALSE, w, P, P)
  BY <1>1 DEF RebalanceUp, FamilyAt
<1> HIDE DEF w
<1>6. w \in TreeType /\ w.ok
  BY <1>4 DEF SamePointers, RbInv
<1>7. /\ tree' = w /\ members' = members /\ pc' = "rebalance"
      /\ cursor' \in [n : Optional, db : Optional, p : Optional] /\ cursor'.db = P /\ cursor'.p = P
  BY <1>1, <1>2, <1>5, <1>6, TurnIs
<1>8. \A m \in Nodes : get_color(w, m) = IF m = S THEN "red" ELSE IF m = P THEN "black"
                                            ELSE get_color(tree, m)
  BY <1>2, <1>3, <1>4
<1>9. /\ InOrder(w, members) /\ RedsApart(w, members, NULL_ID) /\ get_color(w, w.root) = "black"
      /\ \E I \in [Optional -> Nat] :
               /\ I[NULL_ID] = 0
               /\ \A m \in members, q \in Sides :
                     I[m] = I[Kid(tree, q, m)] + (IF Kid(tree, q, m) = P THEN Blacks(tree, P) ELSE 0)
                               + Blacks(w, m)
  BY <1>1, <1>3, <1>4, <1>8, SiblingReddened
<1>10. PICK I \in [Optional -> Nat] :
               /\ I[NULL_ID] = 0
               /\ \A m \in members, q \in Sides :
                     I[m] = I[Kid(tree, q, m)] + (IF Kid(tree, q, m) = P THEN 1 ELSE 0)
                               + Blacks(w, m)
  BY <1>3, <1>9 DEF Blacks
<1>11. \A q, m : Kid(w, q, m) = Kid(tree, q, m)
  BY <1>4 DEF SamePointers, Kid
<1>12. Tree(tree, members, U) /\ Hangs(tree, P)
  <2>1. Tree(tree, members, U)
    BY <1>1 DEF FamilyAt
  <2>. QED BY <1>2, <2>1, TreeHangs
<1>13. Deficient(w, members, I, P, P)
  <2>1. get_color(w, P) = "black"
    BY <1>2, <1>3, <1>8, FamilyFacts, <1>1
  <2>2. CASE P = w.root
    <3>1. \A m \in members, q \in Sides : Kid(tree, q, m) # P
      BY <1>2, <1>4, <1>12, <2>2, TreeNode DEF SamePointers
    <3>2. \A m \in members, q \in Sides :
              I[m] = I[Kid(w, q, m)] + (IF m = NULL_ID /\ q = "left" THEN 1 ELSE 0) + Blacks(w, m)
      BY <1>2, <1>10, <1>11, <3>1
    <3>3. Balanced(w, members, I, NULL_ID, "left")
      BY <1>10, <3>2 DEF Balanced
    <3>. QED BY <1>2, <1>9, <2>1, <2>2, <3>3 DEF Deficient
  <2>3. CASE P # w.root
    <3> DEFINE g == tree.parent[P]
    <3>1. g \in members /\ \E s \in Sides : Kid(tree, s, g) = P
      BY <1>2, <1>4, <1>12, <2>3 DEF SamePointers, Tree
    <3>2. PICK s \in Sides : Kid(tree, s, g) = P
      BY <3>1
    <3>3. ASSUME NEW m \in members, NEW q \in Sides
          PROVE  Kid(tree, q, m) = P <=> m = g /\ q = s
      BY <1>2, <1>12, <3>1, <3>2, OtherSide DEF Hangs
    <3> HIDE DEF g
    <3>4. Balanced(w, members, I, g, s)
      BY <1>10, <1>11, <3>3 DEF Balanced
    <3>. QED BY <1>2, <1>9, <1>11, <2>1, <2>3, <3>1, <3>2, <3>4 DEF Deficient
  <2>. QED BY <2>2, <2>3
<1>. QED BY <1>6, <1>7, <1>9, <1>13 DEF RbInv

\* The parent is red and gives its black to both sides: nothing is left to mend.
LEMMA RebalanceRedParentKeeps ==
  ASSUME RbInv, RebalanceRedParent
  PROVE  RbInv'
<1>1. PICK U, H, P, r, S : FamilyAt(U, H, P, r, S)
  BY FamilyExists DEF RebalanceRedParent
<1> DEFINE f == [m \in {P, S} |-> IF m = P THEN "black" ELSE "red"]
           w == Colored(tree, f)
<1>2. /\ tree \in TreeType /\ P \in members /\ S \in members /\ r \in Sides /\ members \in SUBSET Nodes
      /\ \A m \in members : m \in Optional /\ m \in Nodes
      /\ NULL_ID \notin members /\ get_color(tree, NULL_ID) = "black" /\ S # P
      /\ cursor.db \in Optional
  <2>1. P \in members /\ S \in members /\ r \in Sides
    BY <1>1 DEF FamilyAt
  <2>2. /\ tree \in TreeType /\ members \in SUBSET Nodes /\ \A m \in members : m \in Optional /\ m \in Nodes
        /\ NULL_ID \notin members /\ get_color(tree, NULL_ID) = "black" /\ S # P
        /\ cursor.db \in members \cup {NULL_ID}
    BY <1>1, FamilyFacts
  <2>. QED BY <2>1, <2>2 DEF Optional
<1>3. /\ get_color(tree, P) = "red" /\ get_color(tree, S) = "black"
      /\ \A q \in Sides : get_color(tree, Kid(tree, q, S)) = "black"
  <2>1. Red(P) /\ ~Red(S) /\ ~Red(Kid(tree, r, S)) /\ ~Red(Kid(tree, Other(r), S))
    BY <1>1 DEF RebalanceRedParent, FamilyAt
  <2>2. \A q \in Sides : q = r \/ q = Other(r)
    BY <1>1, FamilyFacts
  <2>3. \A q \in Sides : Kid(tree, q, S) \in Optional
    BY <1>2, KidIs
  <2>. QED BY <1>2, <2>1, <2>2, <2>3, NotRed DEF Red
<1>4. ColoredAs(tree, w, {P, S}, f)
  <2>1. f \in [{P, S} -> Colors] /\ {P, S} \in SUBSET Nodes
    BY <1>2 DEF Colors
  <2> HIDE DEF f
  <2>. QED BY <1>2, <2>1, ColoredIs
<1>5. Turn(TRUE, w, cursor.db, P)
  BY <1>1 DEF RebalanceRedParent, FamilyAt, ColorsSwapped
<1> HIDE DEF w
<1>6. w \in TreeType /\ w.ok
  BY <1>4 DEF SamePointers, RbInv, ColoredAs
<1>7. /\ tree' = w /\ members' = members /\ pc' = "idle"
      /\ cursor' \in [n : Optional, db : Optional, p : Optional]
  BY <1>1, <1>2, <1>5, <1>6, TurnIs
<1>8. /\ SamePointers(tree, w) /\ get_color(w, NULL_ID) = "black"
      /\ \A m \in Nodes : get_color(w, m) = IF m = S THEN "red" ELSE IF m = P THEN "black"
                                            ELSE get_color(tree, m)
  BY <1>2, <1>4 DEF ColoredAs
<1>9. /\ InOrder(w, members) /\ RedsApart(w, members, NULL_ID) /\ get_color(w, w.root) = "black"
      /\ \E I \in [Optional -> Nat] :
               /\ I[NULL_ID] = 0
               /\ \A m \in members, q \in Sides :
                     I[m] = I[Kid(tree, q, m)] + (IF Kid(tree, q, m) = P THEN Blacks(tree, P) ELSE 0)
                               + Blacks(w, m)
  BY <1>1, <1>3, <1>8, SiblingReddened
<1>10. PICK I \in [Optional -> Nat] :
               /\ I[NULL_ID] = 0
               /\ \A m \in members, q \in Sides :
                     I[m] = I[Kid(tree, q, m)] + (IF Kid(tree, q, m) = P THEN 0 ELSE 0)
                               + Blacks(w, m)
  BY <1>3, <1>9 DEF Blacks
<1>11. \A q, m : Kid(w, q, m) = Kid(tree, q, m)
  BY <1>8 DEF SamePointers, Kid
<1>12. \A m \in members, q \in Sides :
          I[m] = I[Kid(w, q, m)] + (IF m = NULL_ID /\ q = "left" THEN 1 ELSE 0) + Blacks(w, m)
  BY <1>2, <1>10, <1>11
<1>13. Settled(w, members, I)
  BY <1>9, <1>10, <1>12 DEF Settled, Balanced
<1>. QED BY <1>6, <1>7, <1>9, <1>13 DEF RbInv

\* A black that is missing from every path is not missing.
LEMMA RebalanceAtRootKeeps ==
  ASSUME RbInv, RebalanceAtRoot
  PROVE  RbInv'
<1>1. PICK H : Deficient(tree, members, H, cursor.db, cursor.p)
  BY DEF RbInv, RebalanceAtRoot
<1>2. Settled(tree, members, H)
  BY <1>1 DEF Deficient, Settled, RebalanceAtRoot
<1>. QED BY <1>2 DEF RbInv, RebalanceAtRoot

\* A red child of the sibling: near to db or far from it
ThirdRed(P, r, S, q, n, top, three, w) ==
    /\ q \in Sides /\ n = Kid(tree, q, S) /\ top = (IF q = r THEN n ELSE S)
    /\ get_color(tree, n) = "red" /\ get_color(tree, S) = "black"
    /\ three = {n, S, P}
    /\ w = Colored(rotate(tree, n, S, P),
                   [m \in three |-> IF m = top THEN get_color(tree, P) ELSE "black"])

\* A rotation of parent, sibling and a red child of the sibling mends the deficit.
LEMMA ThreeUpEnds ==
  ASSUME RbInv, NEW U, NEW H, NEW P, NEW r, NEW S, FamilyAt(U, H, P, r, S),
         NEW q, NEW n, NEW top, NEW three, NEW w, ThirdRed(P, r, S, q, n, top, three, w),
         Turn(TRUE, w, cursor.db, P)
  PROVE  RbInv'
<1> DEFINE o == Other(r)
           color == get_color(tree, P)
<1>. USE DEF ThirdRed
<1>1. /\ tree \in TreeType /\ members \in SUBSET Nodes /\ \A m \in members : m \in Optional /\ m \in Nodes
      /\ NULL_ID \notin members /\ get_color(tree, NULL_ID) = "black" /\ S # P
      /\ cursor.db \in Optional /\ H \in [Optional -> Nat] /\ \A m \in Optional : H[m] \in Nat
      /\ o \in Sides /\ o # r /\ Other(o) = r
      /\ \A m \in members, d \in Sides :
               ~(get_color(tree, m) = "red" /\ get_color(tree, Kid(tree, d, m)) = "red")
  <2>1. cursor.db \in members \cup {NULL_ID} /\ \A m \in members : m \in Optional
    BY FamilyFacts
  <2>2. cursor.db \in Optional
    BY <2>1 DEF Optional
  <2>. QED BY <2>2, FamilyFacts
<1>2. /\ Tree(tree, members, U) /\ Ordered(tree, members, U) /\ P \in members /\ S \in members
      /\ r \in Sides /\ S = Kid(tree, o, P) /\ Kid(tree, r, P) = cursor.db
      /\ H[S] = H[cursor.db] + 1 /\ H[P] = H[S] + Blacks(tree, P)
      /\ Balanced(tree, members, H, P, r) /\ get_color(tree, tree.root) = "black"
  BY DEF FamilyAt
<1>3. n # NULL_ID /\ n \in Optional /\ S # NULL_ID
  BY <1>1, <1>2, KidIs
<1>4. H[S] = H[n] + Blacks(tree, S) /\ Blacks(tree, S) = 1
  BY <1>1, <1>2, FamilyFacts DEF Blacks
<1>5. /\ H[Kid(tree, Other(o), P)] = H[n]
      /\ H[P] = H[n] + 1 + (IF color = "black" THEN 1 ELSE 0)
  BY <1>1, <1>2, <1>3, <1>4 DEF Blacks
<1>6. color \in Colors /\ tree.ok
  BY <1>1, <1>2, ColorIs DEF RbInv
<1>7. top = RotatedRoot(tree, n, S, P)
  <2>1. CASE q = r
    BY <1>1, <1>2, <1>3, <1>6, <2>1, RotatedInner
  <2>2. CASE q = o
    BY <1>1, <1>2, <1>3, <1>6, <2>2, RotatedOuter
  <2>. QED BY <1>1, <1>2, <2>1, <2>2, OtherSide
<1>8. \A m \in members \ {n, S, P}, d \in Sides :
               ~(get_color(tree, m) = "red" /\ get_color(tree, Kid(tree, d, m)) = "red")
  BY <1>1
<1>10. w = Colored(rotate(tree, n, S, P), [m \in three |-> IF m = top THEN color ELSE "black"])
  OBVIOUS
<1> HIDE DEF o, color
<1>9. Risen(tree, w, members, top, P, color)
  BY <1>1, <1>2, <1>3, <1>5, <1>6, <1>7, <1>8, <1>10, ThreeUp
<1>11. w \in TreeType /\ w.ok /\ InOrder(w, members)
  BY <1>9 DEF Risen, InOrder, Tree
<1>12. /\ tree' = w /\ members' = members /\ pc' = "idle"
       /\ cursor' \in [n : Optional, db : Optional, p : Optional]
  BY <1>1, <1>11, TurnIs
<1>13. PICK I : Balanced(w, members, I, NULL_ID, "left")
  BY <1>9 DEF Risen
<1>14. RedsApart(w, members, NULL_ID)
  BY <1>9 DEF Risen, color
<1>15. get_color(w, w.root) = "black"
  BY <1>2, <1>9 DEF Risen, color
<1>16. Settled(w, members, I)
  BY <1>13, <1>14, <1>15 DEF Settled
<1>. QED BY <1>11, <1>12, <1>16 DEF RbInv

\* The near child of the sibling is red: it comes out on top.
LEMMA RebalanceNearRedKeeps ==
  ASSUME RbInv, RebalanceNearRed
  PROVE  RbInv'
<1>1. PICK U, H, P, r, S : FamilyAt(U, H, P, r, S)
  BY FamilyExists DEF RebalanceNearRed
<1> DEFINE n == Kid(tree, r, S)
           three == {P, S, n}
<1>2. r \in Sides /\ tree \in TreeType /\ S \in Optional
  <2>1. S \in members /\ r \in Sides
    BY <1>1 DEF FamilyAt
  <2>. QED BY <1>1, <2>1, FamilyFacts
<1>3. get_color(tree, n) = "red" /\ get_color(tree, S) = "black"
  <2>1. Red(n) /\ ~Red(S)
    BY <1>1 DEF RebalanceNearRed, FamilyAt
  <2>. QED BY <1>2, <2>1, NotRed DEF Red
<1> DEFINE w == Colored(rotate(tree, n, S, P),
                         [m \in three |-> IF m = n THEN get_color(tree, P) ELSE "black"])
<1>4. Turn(TRUE, w, cursor.db, P)
  BY <1>1 DEF RebalanceNearRed, FamilyAt
<1>5. ThirdRed(P, r, S, r, n, n, three, w)
  BY <1>2, <1>3 DEF ThirdRed
<1> HIDE DEF n, three, w
<1>. QED BY <1>1, <1>4, <1>5, ThreeUpEnds

\* The far child of the sibling is red: the sibling comes out on top.
LEMMA RebalanceFarRedKeeps ==
  ASSUME RbInv, RebalanceFarRed
  PROVE  RbInv'
<1>1. PICK U, H, P, r, S : FamilyAt(U, H, P, r, S)
  BY FamilyExists DEF RebalanceFarRed
<1> DEFINE n == Kid(tree, Other(r), S)
           three == {P, S, n}
<1>2. r \in Sides /\ tree \in TreeType /\ S \in Optional /\ Other(r) \in Sides /\ Other(r) # r
  <2>1. S \in members /\ r \in Sides
    BY <1>1 DEF FamilyAt
  <2>. QED BY <1>1, <2>1, FamilyFacts
<1>3. get_color(tree, n) = "red" /\ get_color(tree, S) = "black"
  <2>1. Red(n) /\ ~Red(S)
    BY <1>1 DEF RebalanceFarRed, FamilyAt
  <2>. QED BY <1>2, <2>1, NotRed DEF Red
<1> DEFINE w == Colored(rotate(tree, n, S, P),
                         [m \in three |-> IF m = S THEN get_color(tree, P) ELSE "black"])
<1>4. Turn(TRUE, w, cursor.db, P)
  BY <1>1 DEF RebalanceFarRed, FamilyAt
<1>5. ThirdRed(P, r, S, Other(r), n, S, three, w)
  BY <1>2, <1>3 DEF ThirdRed
<1> HIDE DEF n, three, w
<1>. QED BY <1>1, <1>4, <1>5, ThreeUpEnds

\* A red sibling comes up: db gets a black sibling, under a parent that is red now.
LEMMA RebalanceRedSiblingKeeps ==
  ASSUME RbInv, RebalanceRedSibling
  PROVE  RbInv'
<1>1. PICK U, H, P, r, S : FamilyAt(U, H, P, r, S)
  BY FamilyExists DEF RebalanceRedSibling
<1> DEFINE o == Other(r)
           db == cursor.db
           F == Kid(tree, o, S)
           N == Kid(tree, r, S)
           u == rotate(tree, F, S, P)
           f == [m \in {S, P} |-> IF m = S THEN "black" ELSE "red"]
           w == Colored(u, f)
<1>2. /\ tree \in TreeType /\ members \in SUBSET Nodes /\ \A m \in members : m \in Optional /\ m \in Nodes
      /\ NULL_ID \notin members /\ get_color(tree, NULL_ID) = "black" /\ S # P
      /\ S # db /\ P # db /\ S # tree.root
      /\ db \in members \cup {NULL_ID}
      /\ H \in [Optional -> Nat] /\ H[NULL_ID] = 0 /\ \A m \in Optional : H[m] \in Nat
      /\ o \in Sides /\ o # r /\ Other(o) = r /\ \A q \in Sides : q = r \/ q = o
      /\ \A m \in members, d \in Sides :
               ~(get_color(tree, m) = "red" /\ get_color(tree, Kid(tree, d, m)) = "red")
  BY <1>1, FamilyFacts
<1>3. /\ Tree(tree, members, U) /\ Ordered(tree, members, U) /\ P \in members /\ S \in members
      /\ r \in Sides /\ S = Kid(tree, o, P) /\ Kid(tree, r, P) = db
      /\ H[S] = H[db] + 1 /\ H[P] = H[S] + Blacks(tree, P)
      /\ get_color(tree, tree.root) = "black" /\ get_color(tree, db) = "black" /\ tree.ok
  BY <1>1 DEF FamilyAt, RbInv
<1>4. ASSUME NEW m \in members, NEW q \in Sides
      PROVE  /\ Kid(tree, q, m) \in members \cup {NULL_ID} /\ Kid(tree, q, m) \in Optional
             /\ Blacks(tree, m) \in {0, 1} /\ H[Kid(tree, q, m)] \in Nat
             /\ m # P => H[m] = H[Kid(tree, q, m)] + Blacks(tree, m)
  BY <1>1, <1>2, FamilyFacts
<1>5. /\ get_color(tree, P) = "black" /\ get_color(tree, S) = "red"
      /\ get_color(tree, N) = "black" /\ get_color(tree, F) = "black"
      /\ Turn(FALSE, w, db, P)
  <2>1. ~Red(P) /\ Red(S) /\ ~Red(N) /\ ~Red(F) /\ Turn(FALSE, w, db, P)
    BY <1>1 DEF RebalanceRedSibling, FamilyAt
  <2>. QED BY <1>2, <1>3, <1>4, <2>1, NotRed DEF Red
<1>6. Blacks(tree, P) = 1 /\ Blacks(tree, S) = 0
  BY <1>5 DEF Blacks
<1>7. H[S] \in Nat /\ H[db] \in Nat /\ H[N] \in Nat /\ H[F] \in Nat /\ H[N] = H[S] /\ H[F] = H[S]
      /\ H[P] = H[S] + 1 /\ H[P] \in Nat
  <2>1. H[S] = H[N] + Blacks(tree, S) /\ H[S] = H[F] + Blacks(tree, S) /\ H[N] \in Nat /\ H[F] \in Nat
    BY <1>2, <1>3, <1>4
  <2>2. H[S] \in Nat /\ H[P] \in Nat /\ db \in Optional
    BY <1>2, <1>3 DEF Optional
  <2>. QED BY <1>2, <1>3, <1>6, <2>1, <2>2
<1>8. F # NULL_ID /\ S # NULL_ID
  BY <1>2, <1>3, <1>7
<1> HIDE DEF o, db, F, N, u, f, w
<1>9. /\ Lifted(tree, u, S, P, o) /\ u.ok /\ u.color = tree.color
      /\ \E W : Tree(u, members, W) /\ Ordered(u, members, W)
  BY <1>2, <1>3, <1>8, RotatedOuter DEF u, F
<1>10. Turned(tree, u, members, S, F, P, o, Kid(tree, o, F), Kid(tree, r, F), N, db)
  <2>1. Turned(tree, u, members, S, F, P, o, Kid(tree, o, F), Kid(tree, Other(o), F),
               Kid(tree, Other(o), S), Kid(tree, Other(o), P))
    BY <1>2, <1>3, <1>8, <1>9, TurnedOuter DEF F
  <2>. QED BY <1>2, <1>3, <2>1 DEF N
<1>11. u \in TreeType
  BY <1>9 DEF Tree
<1>12. ColoredAs(u, w, {S, P}, f)
  <2>1. f \in [{S, P} -> Colors] /\ {S, P} \in SUBSET Nodes
    BY <1>2, <1>3 DEF Colors, f
  <2>. QED BY <1>11, <2>1, ColoredIs DEF w
<1>13. /\ SamePointers(u, w) /\ w.ok /\ get_color(w, NULL_ID) = "black"
       /\ \A m \in Nodes : get_color(w, m) = IF m = S THEN "black" ELSE IF m = P THEN "red"
                                             ELSE get_color(tree, m)
  <2>1. \A m \in Nodes : get_color(u, m) = get_color(tree, m)
    BY <1>2, <1>9, <1>11, ColorIs
  <2>. QED BY <1>2, <1>9, <1>12, <2>1 DEF ColoredAs, f
<1>14. InOrder(w, members)
  BY <1>9, <1>13, InOrderRecolored DEF InOrder
<1>15. w \in TreeType /\ \A q, m : Kid(w, q, m) = Kid(u, q, m)
  BY <1>13 DEF SamePointers, Kid
<1>16. /\ F \in members /\ F # S /\ F # P
       /\ {Kid(tree, o, F), Kid(tree, r, F), N, db} \subseteq (members \cup {NULL_ID}) \ {S, F, P}
       /\ Kid(w, o, S) = F /\ Kid(w, r, S) = P
       /\ Kid(w, o, F) = Kid(tree, o, F) /\ Kid(w, r, F) = Kid(tree, r, F)
       /\ Kid(w, o, P) = N /\ Kid(w, r, P) = db
  BY <1>2, <1>10, <1>15 DEF Turned
<1>17. \A m \in members \ {S, F, P}, q \in Sides :
          /\ Kid(tree, q, m) \in (members \cup {NULL_ID}) \ {S, F}
          /\ Kid(w, q, m) = IF Kid(tree, q, m) = P THEN S ELSE Kid(tree, q, m)
  BY <1>10, <1>15 DEF Turned
<1>18. w.root = IF tree.root = P THEN S ELSE tree.root
  BY <1>10, <1>13 DEF Turned, SamePointers
<1>19. ASSUME NEW m \in members, NEW q \in Sides,
              get_color(w, m) = "red", get_color(w, Kid(w, q, m)) = "red"
       PROVE  FALSE
  <2>1. CASE m = S
    BY <1>2, <1>13, <1>19, <2>1
  <2>2. CASE m = P
    <3>1. Kid(w, q, m) \in {N, db} /\ N \in Optional
      BY <1>2, <1>16, <2>2 DEF Optional
    <3>2. get_color(w, N) = "black" /\ get_color(w, db) = "black"
      BY <1>2, <1>3, <1>5, <1>13, <1>16
    <3>. QED BY <1>19, <3>1, <3>2
  <2>3. CASE m = F
    BY <1>2, <1>5, <1>13, <1>16, <1>19, <2>3
  <2>4. CASE m \in members \ {S, F, P}
    <3>1. get_color(tree, m) = "red"
      BY <1>2, <1>13, <1>19, <2>4
    <3>2. Kid(tree, q, m) # P
      BY <1>2, <1>3, <1>13, <1>17, <1>19, <2>4
    <3>3. Kid(w, q, m) = Kid(tree, q, m) /\ Kid(tree, q, m) # S /\ Kid(tree, q, m) \in members \cup {NULL_ID}
      BY <1>17, <2>4, <3>2
    <3>4. get_color(tree, Kid(tree, q, m)) = "red"
      BY <1>2, <1>13, <1>19, <3>2, <3>3
    <3>. QED BY <1>2, <3>1, <3>4
  <2>. QED BY <2>1, <2>2, <2>3, <2>4
<1>20. get_color(w, w.root) = "black" /\ db # w.root
  <2>1. tree.root \in members \cup {NULL_ID} /\ db # tree.root
    BY <1>3, RbTreeAssumption DEF Tree, RebalanceRedSibling, Unbalanced, db
  <2>. QED BY <1>2, <1>3, <1>13, <1>18, <2>1
<1>21. get_color(w, db) = "black"
  BY <1>2, <1>3, <1>13
<1> DEFINE I == [H EXCEPT ![S] = H[P], ![P] = H[S]]
<1>22. /\ I \in [Optional -> Nat] /\ I[NULL_ID] = 0 /\ I[S] = H[P] /\ I[P] = H[S]
       /\ \A m \in Optional : m # S /\ m # P => I[m] = H[m]
  <2>1. S \in Optional /\ P \in Optional /\ NULL_ID \in Optional /\ NULL_ID # S /\ NULL_ID # P
    BY <1>2, <1>3 DEF Optional
  <2>. QED BY <1>2, <1>7, <2>1
<1> HIDE DEF I
<1>23. ASSUME NEW m \in members, NEW q \in Sides
       PROVE  I[m] = I[Kid(w, q, m)] + (IF m = P /\ q = r THEN 1 ELSE 0) + Blacks(w, m)
  <2>1. db \in Optional /\ N \in Optional /\ F \in Optional
    BY <1>2, <1>16 DEF Optional
  <2>2. CASE m = S
    <3>1. Blacks(w, m) = 1 /\ m # P
      BY <1>2, <1>3, <1>13, <2>2 DEF Blacks
    <3>2. Kid(w, q, m) \in {F, P}
      BY <1>2, <1>16, <2>2
    <3>3. I[Kid(w, q, m)] = H[S]
      BY <1>7, <1>16, <1>22, <2>1, <3>2
    <3>. QED BY <1>7, <1>22, <2>2, <3>1, <3>3
  <2>3. CASE m = P
    <3>1. Blacks(w, m) = 0
      BY <1>2, <1>3, <1>13, <2>3 DEF Blacks
    <3>2. I[N] = H[S] /\ I[db] = H[db]
      BY <1>2, <1>7, <1>16, <1>22, <2>1
    <3>. QED BY <1>2, <1>3, <1>7, <1>16, <1>22, <2>3, <3>1, <3>2
  <2>4. CASE m = F
    <3>1. Blacks(w, m) = Blacks(tree, m) /\ Kid(w, q, m) = Kid(tree, q, m)
      BY <1>2, <1>13, <1>16, <2>4 DEF Blacks
    <3>2. /\ Kid(tree, q, m) \in Optional /\ Kid(tree, q, m) # S /\ Kid(tree, q, m) # P
          /\ H[Kid(tree, q, m)] \in Nat /\ Blacks(tree, m) \in {0, 1}
          /\ H[m] = H[Kid(tree, q, m)] + Blacks(tree, m)
      BY <1>2, <1>4, <1>16, <2>4
    <3>. QED BY <1>16, <1>22, <2>1, <2>4, <3>1, <3>2
  <2>5. CASE m \in members \ {S, F, P}
    <3>1. Blacks(w, m) = Blacks(tree, m) /\ I[m] = H[m]
      BY <1>2, <1>13, <1>22, <2>5 DEF Blacks
    <3>2. /\ Kid(tree, q, m) \in Optional /\ Kid(tree, q, m) # S
          /\ H[Kid(tree, q, m)] \in Nat /\ Blacks(tree, m) \in {0, 1}
          /\ H[m] = H[Kid(tree, q, m)] + Blacks(tree, m)
      BY <1>4, <1>17, <2>5
    <3>3. I[Kid(w, q, m)] = H[Kid(tree, q, m)]
      BY <1>17, <1>22, <2>5, <3>2
    <3>. QED BY <2>5, <3>1, <3>2, <3>3
  <2>. QED BY <2>2, <2>3, <2>4, <2>5
<1>24. Balanced(w, members, I, P, r)
  BY <1>22, <1>23 DEF Balanced
<1>25. Deficient(w, members, I, db, P)
  BY <1>2, <1>3, <1>16, <1>19, <1>20, <1>21, <1>24 DEF Deficient, RedsApart
<1>26. /\ tree' = w /\ members' = members /\ pc' = "rebalance"
       /\ cursor' \in [n : Optional, db : Optional, p : Optional]
       /\ cursor'.db = db /\ cursor'.p = P
  <2>1. db \in Optional
    BY <1>2 DEF Optional
  <2>. QED BY <1>1, <1>5, <1>13, <1>15, <2>1, TurnIs
<1>. QED BY <1>13, <1>14, <1>25, <1>26 DEF RbInv

-----------------------------------------------------------------------------
(* Insertion                                                                *)

\* The search for a free place
SideFor(n, x) == IF Key[x] < Key[n] THEN "left" ELSE "right"
PlaceWalk(t, x, F) ==
    F = [n \in Nodes |-> LET side == SideFor(n, x)
                         IN  IF t[side][n] = NULL_ID THEN [parent |-> n, side |-> side]
                             ELSE F[t[side][n]]]

\* The search of bst_insert for a place is a function, by TailRecursion.
LEMMA PlaceExists ==
  ASSUME NEW t \in TreeType, NEW x
  PROVE  \E F : PlaceWalk(t, x, F) /\ Place(t, x) = F[t.root]
<1> DEFINE side(n) == SideFor(n, x)
           Base == {n \in Nodes : t[side(n)][n] = NULL_ID}
           next == [n \in Nodes |-> IF n \in Base THEN n ELSE t[side(n)][n]]
           b == [n \in Nodes |-> [parent |-> n, side |-> side(n)]]
           F == CHOOSE F : PlaceWalk(t, x, F)
<1>1. ASSUME NEW n \in Nodes \ Base PROVE t[side(n)][n] \in Nodes
  <2>1. side(n) \in Sides
    BY DEF SideFor, Sides
  <2>2. t[side(n)][n] \in Optional
    BY <2>1, KidIs
  <2>. QED BY <1>1, <2>2 DEF Optional
<1>2. next \in [Nodes -> Nodes] /\ Base \in SUBSET Nodes
  BY <1>1
<1> HIDE DEF side
<1>3. PICK G : WalksOn(G, Nodes, Base, next, b)
  <2> HIDE DEF Base, next, b
  <2>. QED BY <1>2, TailRecursion
<1>4. G = [n \in Nodes |-> IF t[side(n)][n] = NULL_ID THEN [parent |-> n, side |-> side(n)]
                           ELSE G[t[side(n)][n]]]
  <2>1. \A n \in Nodes : (IF n \in Base THEN b[n] ELSE G[next[n]])
                          = IF t[side(n)][n] = NULL_ID THEN [parent |-> n, side |-> side(n)]
                            ELSE G[t[side(n)][n]]
    OBVIOUS
  <2>. QED BY <1>3, <2>1 DEF WalksOn
<1>5. PlaceWalk(t, x, G)
  BY <1>4 DEF PlaceWalk, side
<1>6. PlaceWalk(t, x, F)
  BY <1>5
<1>7. Place(t, x) = F[t.root]
  BY DEF Place, PlaceWalk, SideFor
<1>. QED BY <1>6, <1>7

\* The way down to the place e passes n towards its side r.
Through(t, U, n, r, e) == e.parent \in U[Kid(t, r, n)] \/ (n = e.parent /\ r = e.side)
\* The place e, under n, is free, and on the right side of each node on the way to it.
PlaceUnder(t, U, x, n, e) ==
    /\ e.parent \in U[n] /\ e.side \in Sides /\ Kid(t, e.side, e.parent) = NULL_ID
    /\ \A a \in U[n], r \in Sides : Through(t, U, a, r, e) => r = SideFor(a, x)

\* The place bst_insert finds is free, and lies on the right side of every node above it.
LEMMA PlaceFound ==
  ASSUME NEW t, NEW M, NEW U, Tree(t, M, U), NEW x, t.root # NULL_ID
  PROVE  PlaceUnder(t, U, x, t.root, Place(t, x))
<1>1. t \in TreeType /\ M \subseteq Nodes /\ t.root \in M /\ NULL_ID \notin M
  BY RbTreeAssumption DEF Tree
<1>2. PICK F : PlaceWalk(t, x, F) /\ Place(t, x) = F[t.root]
  BY <1>1, PlaceExists
<1> DEFINE P == {n \in M : PlaceUnder(t, U, x, n, F[n])}
<1>3. ASSUME NEW n \in M, \A r \in Sides : Kid(t, r, n) \in P \cup {NULL_ID}
      PROVE  n \in P
  <2> DEFINE s == SideFor(n, x)
             k == Kid(t, s, n)
  <2>1. s \in Sides /\ n \in Nodes
    BY <1>1 DEF SideFor, Sides
  <2>2. F[n] = IF k = NULL_ID THEN [parent |-> n, side |-> s] ELSE F[k]
    <3>1. t[s][n] = k
      BY <1>1, <2>1, KidIs
    <3>. QED BY <1>2, <2>1, <3>1 DEF PlaceWalk
  <2>3. \A a \in U[n] : a \in M /\ U[a] \subseteq U[n]
    BY TreeNested
  <2>4. \A a \in M, r \in Sides : /\ a \notin U[Kid(t, r, a)] /\ U[Kid(t, r, a)] \subseteq U[a]
                                  /\ U[Kid(t, r, a)] \cap U[Kid(t, Other(r), a)] = {} /\ a \in U[a]
                                  /\ U[a] = {a} \cup U[Kid(t, r, a)] \cup U[Kid(t, Other(r), a)]
    BY TreeNode
  <2>5. CASE k = NULL_ID
    <3>1. ASSUME NEW a \in U[n], NEW r \in Sides, Through(t, U, a, r, F[n])
          PROVE  r = SideFor(a, x)
      <4>1. F[n].parent = n /\ F[n].side = s
        BY <2>2, <2>5
      <4>2. n \notin U[Kid(t, r, a)]
        <5>1. SUFFICES ASSUME n \in U[Kid(t, r, a)] PROVE FALSE
          OBVIOUS
        <5>2. Kid(t, r, a) # NULL_ID
          BY <5>1 DEF Tree
        <5>3. Kid(t, r, a) \in M
          BY <2>3, <5>2, TreeChild
        <5>4. U[n] \subseteq U[Kid(t, r, a)]
          BY <5>1, <5>3, TreeNested
        <5>. QED BY <2>3, <2>4, <5>4
      <4>. QED BY <3>1, <4>1, <4>2 DEF Through
    <3>2. F[n].parent = n /\ F[n].side = s
      BY <2>2, <2>5
    <3>3. F[n].parent \in U[n] /\ F[n].side \in Sides /\ Kid(t, F[n].side, F[n].parent) = NULL_ID
      BY <2>1, <2>4, <2>5, <3>2
    <3>. QED BY <3>1, <3>3 DEF PlaceUnder
  <2>6. CASE k # NULL_ID
    <3>1. k \in P /\ F[n] = F[k]
      BY <1>3, <2>1, <2>2, <2>6
    <3> DEFINE e == F[k]
    <3> HIDE DEF e, k
    <3>2. /\ e.parent \in U[k] /\ e.side \in Sides /\ Kid(t, e.side, e.parent) = NULL_ID
          /\ \A a \in U[k], r \in Sides : Through(t, U, a, r, e) => r = SideFor(a, x)
      BY <3>1 DEF PlaceUnder, e
    <3>3. U[k] \subseteq U[n] /\ n \notin U[k]
      BY <2>1, <2>4 DEF k
    <3>4. ASSUME NEW a \in U[n], NEW r \in Sides, Through(t, U, a, r, e)
          PROVE  r = SideFor(a, x)
      <4>1. CASE a = n
        <5>1. n # e.parent
          BY <3>2, <3>3
        <5>2. e.parent \in U[Kid(t, r, n)]
          BY <3>4, <4>1, <5>1 DEF Through
        <5>3. r = s
          BY <2>1, <2>4, <3>2, <5>2, OtherSide DEF k
        <5>. QED BY <4>1, <5>3
      <4>2. CASE a \in U[k]
        BY <3>2, <3>4, <4>2
      <4>3. CASE a \in U[Kid(t, Other(s), n)]
        <5> DEFINE l == Kid(t, Other(s), n)
        <5>1. l # NULL_ID
          BY <4>3 DEF Tree
        <5>2. l \in M
          BY <2>1, <5>1, OtherSide, TreeChild
        <5>3. U[a] \subseteq U[l]
          BY <4>3, <5>2, TreeNested
        <5>4. e.parent \in U[a]
          BY <2>3, <2>4, <3>4 DEF Through
        <5>. QED BY <2>1, <2>4, <3>2, <5>3, <5>4 DEF k
      <4>. QED BY <2>1, <2>4, <4>1, <4>2, <4>3 DEF k
    <3>. QED BY <3>1, <3>2, <3>3, <3>4 DEF PlaceUnder, e
  <2>. QED BY <2>5, <2>6
<1> HIDE DEF P
<1>4. M \subseteq P
  BY <1>3, TreeInduction
<1>. QED BY <1>1, <1>2, <1>4 DEF P

\* From t to u, x became a child without children of its own where there was none.
LeafAdded(t, u, M, x, p, s) ==
    /\ t \in TreeType /\ u \in TreeType /\ x \in Nodes \ M /\ p \in M /\ s \in Sides
    /\ Kid(t, s, p) = NULL_ID /\ u.root = t.root /\ t.root # NULL_ID
    /\ \A r \in Sides, m \in Nodes : Kid(u, r, m) = IF r = s /\ m = p THEN x ELSE Kid(t, r, m)
    /\ \A m \in Nodes : u.parent[m] = IF m = x THEN p ELSE t.parent[m]

\* A new leaf in that place keeps the tree and the order.
LEMMA LeafInOrder ==
  ASSUME NEW t, NEW M, NEW U, Tree(t, M, U), Ordered(t, M, U), NEW u, NEW x, NEW p, NEW s,
         LeafAdded(t, u, M, x, p, s),
         PlaceUnder(t, U, x, t.root, [parent |-> p, side |-> s])
  PROVE  InOrder(u, M \cup {x})
<1> DEFINE e == [parent |-> p, side |-> s]
           N == M \cup {x}
           V == [n \in Optional |-> IF n = x THEN {x} ELSE IF p \in U[n] THEN U[n] \cup {x} ELSE U[n]]
<1>1. /\ t \in TreeType /\ u \in TreeType /\ M \subseteq Nodes /\ N \in SUBSET Nodes
      /\ x \in Nodes /\ x \notin M /\ x # NULL_ID /\ p \in M /\ s \in Sides /\ NULL_ID \notin M
      /\ U \in [Optional -> SUBSET Nodes] /\ U[NULL_ID] = {} /\ \A n \in Nodes : n \in Optional
      /\ NULL_ID \in Optional
  BY RbTreeAssumption DEF LeafAdded, Tree, Optional
<1>2. /\ V \in [Optional -> SUBSET Nodes] /\ V[NULL_ID] = {} /\ V[x] = {x}
      /\ \A n \in M : V[n] = IF p \in U[n] THEN U[n] \cup {x} ELSE U[n]
  BY <1>1
<1>3. \A n \in M : U[n] \subseteq M
  BY TreeNested
<1>4. ASSUME NEW n \in M, NEW r \in Sides
      PROVE  /\ Kid(t, r, n) \in M \cup {NULL_ID} /\ n \notin U[Kid(t, r, n)]
             /\ U[n] = {n} \cup U[Kid(t, r, n)] \cup U[Kid(t, Other(r), n)]
             /\ U[Kid(t, r, n)] \cap U[Kid(t, Other(r), n)] = {}
             /\ Kid(t, r, n) # NULL_ID => t.parent[Kid(t, r, n)] = n
             /\ U[Kid(t, r, n)] \subseteq M
             /\ Kid(u, r, n) = IF r = s /\ n = p THEN x ELSE Kid(t, r, n)
             /\ r = s /\ n = p => Kid(t, r, n) = NULL_ID
  <2>1. /\ Kid(t, r, n) \in M \cup {NULL_ID} /\ n \notin U[Kid(t, r, n)]
        /\ U[n] = {n} \cup U[Kid(t, r, n)] \cup U[Kid(t, Other(r), n)]
        /\ U[Kid(t, r, n)] \cap U[Kid(t, Other(r), n)] = {}
        /\ Kid(t, r, n) # NULL_ID => t.parent[Kid(t, r, n)] = n
    BY TreeNode
  <2>. QED BY <1>1, <1>3, <2>1 DEF LeafAdded
<1>5. p \in U[p] /\ s \in Sides /\ Other(s) \in Sides /\ Other(s) # s
  BY <1>1, OtherSide, TreeNode
<1>6. t.root \in M /\ u.root = t.root /\ U[t.root] = M /\ t.parent[t.root] = NULL_ID /\ t.root # x
  BY <1>1 DEF LeafAdded, Tree
<1> HIDE DEF V
<1>7. ASSUME NEW n \in M, NEW r \in Sides
      PROVE  V[Kid(u, r, n)] = IF Through(t, U, n, r, e) THEN U[Kid(t, r, n)] \cup {x} ELSE U[Kid(t, r, n)]
  <2>1. CASE r = s /\ n = p
    <3>1. Kid(u, r, n) = x /\ Kid(t, r, n) = NULL_ID /\ Through(t, U, n, r, e)
      BY <1>4, <2>1 DEF Through
    <3>. QED BY <1>1, <1>2, <3>1
  <2>2. CASE ~(r = s /\ n = p)
    <3>1. Kid(u, r, n) = Kid(t, r, n) /\ (Through(t, U, n, r, e) <=> p \in U[Kid(t, r, n)])
      BY <1>4, <2>2 DEF Through
    <3>2. V[Kid(t, r, n)] = IF p \in U[Kid(t, r, n)] THEN U[Kid(t, r, n)] \cup {x} ELSE U[Kid(t, r, n)]
      <4>1. Kid(t, r, n) \in M \/ Kid(t, r, n) = NULL_ID
        BY <1>4
      <4>. QED BY <1>1, <1>2, <4>1
    <3>. QED BY <3>1, <3>2
  <2>. QED BY <2>1, <2>2
<1>8. ASSUME NEW n \in M
      PROVE  Fits(u, N, V, n)
  <2>1. \A r \in Sides : /\ Kid(u, r, n) \in N \cup {NULL_ID}
                         /\ Kid(u, r, n) # NULL_ID => u.parent[Kid(u, r, n)] = n
                         /\ n \notin V[Kid(u, r, n)]
    <3> SUFFICES ASSUME NEW r \in Sides
                 PROVE  /\ Kid(u, r, n) \in N \cup {NULL_ID}
                        /\ Kid(u, r, n) # NULL_ID => u.parent[Kid(u, r, n)] = n
                        /\ n \notin V[Kid(u, r, n)]
      OBVIOUS
    <3>1. n \notin V[Kid(u, r, n)]
      <4>1. V[Kid(u, r, n)] \subseteq U[Kid(t, r, n)] \cup {x}
        BY <1>7
      <4>2. n \notin U[Kid(t, r, n)] /\ n # x
        BY <1>1, <1>4
      <4>. QED BY <4>1, <4>2
    <3>2. Kid(u, r, n) \in N \cup {NULL_ID}
      BY <1>4
    <3>3. Kid(u, r, n) # NULL_ID => u.parent[Kid(u, r, n)] = n
      BY <1>1, <1>4 DEF LeafAdded
    <3>. QED BY <3>1, <3>2, <3>3
  <2> DEFINE k == Kid(t, s, n)
             l == Kid(t, Other(s), n)
  <2>2. /\ U[n] = {n} \cup U[k] \cup U[l] /\ U[k] \cap U[l] = {} /\ U[k] \subseteq M /\ U[l] \subseteq M
    BY <1>4, <1>5
  <2>3. /\ V[Kid(u, s, n)] = IF Through(t, U, n, s, e) THEN U[k] \cup {x} ELSE U[k]
        /\ V[Kid(u, Other(s), n)] = IF Through(t, U, n, Other(s), e) THEN U[l] \cup {x} ELSE U[l]
    BY <1>5, <1>7
  <2>4. /\ Through(t, U, n, s, e) <=> (p \in U[k] \/ n = p)
        /\ Through(t, U, n, Other(s), e) <=> p \in U[l]
    BY <1>5 DEF Through
  <2>5. n = p => n \notin U[k] /\ n \notin U[l]
    BY <1>4, <1>5
  <2> HIDE DEF k, l
  <2>6. /\ V[n] = {n} \cup V[Kid(u, s, n)] \cup V[Kid(u, Other(s), n)]
        /\ V[Kid(u, s, n)] \cap V[Kid(u, Other(s), n)] = {}
    <3>1. V[n] = IF p \in U[n] THEN U[n] \cup {x} ELSE U[n]
      BY <1>2
    <3>2. x \notin U[k] /\ x \notin U[l]
      BY <1>1, <2>2
    <3>3. CASE p \in U[k] \/ n = p
      <4>1. p \notin U[l] /\ p \in U[n]
        BY <2>2, <2>5, <3>3
      <4>2. /\ V[n] = U[n] \cup {x}
            /\ V[Kid(u, s, n)] = U[k] \cup {x} /\ V[Kid(u, Other(s), n)] = U[l]
        BY <2>3, <2>4, <3>1, <3>3, <4>1
      <4>. QED BY <2>2, <3>2, <4>2
    <3>4. CASE p \in U[l]
      <4>1. p \notin U[k] /\ n # p /\ p \in U[n]
        BY <2>2, <2>5, <3>4
      <4>2. /\ V[n] = U[n] \cup {x}
            /\ V[Kid(u, s, n)] = U[k] /\ V[Kid(u, Other(s), n)] = U[l] \cup {x}
        BY <2>3, <2>4, <3>1, <3>4, <4>1
      <4>. QED BY <2>2, <3>2, <4>2
    <3>5. CASE p \notin U[k] /\ p \notin U[l] /\ n # p
      <4>1. p \notin U[n]
        BY <2>2, <3>5
      <4>2. /\ V[n] = U[n]
            /\ V[Kid(u, s, n)] = U[k] /\ V[Kid(u, Other(s), n)] = U[l]
        BY <2>3, <2>4, <3>1, <3>5, <4>1
      <4>. QED BY <2>2, <4>2
    <3>. QED BY <3>3, <3>4, <3>5
  <2>. QED BY <1>5, <2>1, <2>6 DEF Fits
<1>9. Fits(u, N, V, x)
  <2>1. \A r \in Sides : Kid(u, r, x) = NULL_ID
    BY <1>1 DEF LeafAdded, Tree
  <2>. QED BY <1>1, <1>2, <1>5, <2>1 DEF Fits
<1>10. ASSUME NEW n \in N PROVE HasPlace(u, N, n)
  <2>1. CASE n = x
    <3>1. u.parent[x] = p /\ Kid(u, s, p) = x
      BY <1>1 DEF LeafAdded
    <3>. QED BY <1>1, <2>1, <3>1 DEF HasPlace
  <2>2. CASE n # x
    <3>1. u.parent[n] = t.parent[n] /\ n \in M
      BY <1>1, <2>2 DEF LeafAdded
    <3>2. ASSUME n # u.root PROVE u.parent[n] \in N /\ \E r \in Sides : Kid(u, r, u.parent[n]) = n
      <4>1. t.parent[n] \in M /\ \E r \in Sides : Kid(t, r, t.parent[n]) = n
        BY <1>6, <3>1, <3>2 DEF Tree
      <4>2. PICK r \in Sides : Kid(t, r, t.parent[n]) = n
        BY <4>1
      <4>3. Kid(u, r, t.parent[n]) = n
        BY <1>1, <1>4, <3>1, <4>1, <4>2
      <4>. QED BY <3>1, <4>1, <4>3
    <3>. QED BY <3>2 DEF HasPlace
  <2>. QED BY <2>1, <2>2
<1>11. ASSUME NEW n \in Nodes \ N PROVE Apart(u, n)
  BY <1>1 DEF Apart, Tree, LeafAdded
<1>12. Rooted(u, N, V)
  <2>1. u.parent[t.root] = NULL_ID
    BY <1>1, <1>6 DEF LeafAdded
  <2>2. V[t.root] = N
    BY <1>1, <1>2, <1>6
  <2>. QED BY <1>6, <2>1, <2>2 DEF Rooted
<1>13. Tree(u, N, V)
  <2>1. \A n \in N : Fits(u, N, V, n)
    BY <1>8, <1>9
  <2> HIDE DEF N
  <2>. QED BY <1>1, <1>2, <1>10, <1>11, <1>12, <2>1, TreeFrom
<1>14. Ordered(u, N, V)
  <2>1. \A n \in M, r \in Sides : Below(t, M, U, n, r)
    BY <1>1, OrderedSides
  <2>2. ASSUME NEW n \in N, NEW r \in Sides PROVE Below(u, N, V, n, r)
    <3>1. CASE n = x
      <4>1. Kid(u, r, x) = NULL_ID
        BY <1>1 DEF LeafAdded, Tree
      <4>. QED BY <1>2, <3>1, <4>1 DEF Below
    <3>2. CASE n # x
      <4>1. n \in M /\ n \in U[t.root] /\ Key[n] \in Nat /\ Key[x] \in Nat
        BY <1>1, <1>6, <3>2, RbTreeAssumption
      <4>2. Through(t, U, n, r, e) => r = SideFor(n, x)
        BY <4>1 DEF PlaceUnder
      <4>3. Through(t, U, n, r, e) => IF r = "left" THEN Key[x] <= Key[n] ELSE Key[n] <= Key[x]
        BY <4>1, <4>2 DEF SideFor
      <4>4. V[Kid(u, r, n)] = IF Through(t, U, n, r, e) THEN U[Kid(t, r, n)] \cup {x} ELSE U[Kid(t, r, n)]
        BY <1>7, <4>1
      <4>5. U[Kid(t, r, n)] \subseteq M
        BY <1>4, <4>1
      <4>. QED BY <2>1, <4>1, <4>3, <4>4, <4>5 DEF Below
    <3>. QED BY <3>1, <3>2
  <2> HIDE DEF N
  <2>. QED BY <1>1, <2>2, OrderedSides
<1>. QED BY <1>13, <1>14 DEF InOrder

\* Of a node that is not in the tree, only the colour is still to be made.
LEMMA FreshIs ==
  ASSUME NEW t, NEW M, NEW U, Tree(t, M, U), NEW x \in Nodes \ M
  PROVE  LET u == Fresh(t, x)
         IN  /\ SamePointers(t, u) /\ u.ok = t.ok
             /\ \A m \in Nodes : u.color[m] = IF m = x THEN "red" ELSE t.color[m]
<1> DEFINE u == Fresh(t, x)
<1>1. /\ t \in TreeType /\ t.parent[x] = NULL_ID /\ t.left[x] = NULL_ID /\ t.right[x] = NULL_ID
  BY DEF Tree, Sides, Kid
<1>2. /\ u.ok = t.ok /\ u.root = t.root /\ u \in TreeType
      /\ \A m \in Nodes : u.color[m] = IF m = x THEN "red" ELSE t.color[m]
  BY <1>1, RbTreeAssumption DEF Fresh, TreeType, Colors, Optional
<1>3. u.parent = t.parent /\ u.left = t.left /\ u.right = t.right
  <2>1. /\ u.parent = [t.parent EXCEPT ![x] = NULL_ID]
        /\ u.left = [t.left EXCEPT ![x] = NULL_ID]
        /\ u.right = [t.right EXCEPT ![x] = NULL_ID]
    BY <1>1 DEF Fresh, TreeType
  <2>2. t.parent \in [Nodes -> Optional] /\ t.left \in [Nodes -> Optional] /\ t.right \in [Nodes -> Optional]
    BY <1>1 DEF TreeType
  <2> HIDE DEF u
  <2>. QED BY <1>1, <2>1, <2>2
<1>. QED BY <1>2, <1>3 DEF SamePointers

\* Into an empty tree
LEMMA InsertRoot ==
  ASSUME RbInv, NEW x \in Nodes, insert(x), tree.root = NULL_ID
  PROVE  RbInv'
<1>1. PICK U : Tree(tree, members, U)
  BY DEF RbInv, InOrder
<1> DEFINE fresh == Fresh(tree, x)
           u == [fresh EXCEPT !.root = x, !.color[x] = "black"]
           V == [n \in Optional |-> IF n = x THEN {x} ELSE {}]
           H == [n \in Optional |-> IF n = x THEN 1 ELSE 0]
<1>2. members = {}
  BY <1>1 DEF Tree
<1>3. x \in Nodes \ members /\ x # NULL_ID /\ tree \in TreeType /\ x \in Optional /\ NULL_ID \in Optional
  BY <1>1, <1>2, RbTreeAssumption DEF Tree, Optional
<1>4. /\ SamePointers(tree, fresh) /\ fresh.ok = tree.ok
      /\ \A m \in Nodes : fresh.color[m] = IF m = x THEN "red" ELSE tree.color[m]
  BY <1>1, <1>3, FreshIs
<1> HIDE DEF fresh
<1>5. /\ u \in TreeType /\ u.root = x /\ u.ok /\ u.parent = tree.parent /\ u.left = tree.left
      /\ u.right = tree.right /\ u.color[x] = "black"
  BY <1>3, <1>4 DEF SamePointers, TreeType, Colors, RbInv
<1>6. tree' = u /\ members' = {x} /\ pc' = "float" /\ cursor' = [n |-> x, db |-> NULL_ID, p |-> NULL_ID]
  BY <1>2 DEF insert, fresh
<1> HIDE DEF u
<1>7. /\ \A n \in Nodes : u.parent[n] = NULL_ID /\ \A r \in Sides : Kid(u, r, n) = NULL_ID
  <2>1. \A n \in Nodes : tree.parent[n] = NULL_ID /\ \A r \in Sides : Kid(tree, r, n) = NULL_ID
    BY <1>1, <1>2 DEF Tree
  <2>. QED BY <1>5, <2>1 DEF Kid
<1>8. V \in [Optional -> SUBSET Nodes] /\ V[NULL_ID] = {} /\ V[x] = {x}
  BY <1>3
<1> HIDE DEF V
<1>9. Tree(u, {x}, V)
  <2>1. Fits(u, {x}, V, x)
    BY <1>3, <1>7, <1>8, OtherSide DEF Fits
  <2>2. \A n \in Nodes \ {x} : Apart(u, n)
    BY <1>7 DEF Apart
  <2>3. Rooted(u, {x}, V) /\ HasPlace(u, {x}, x)
    BY <1>5, <1>7, <1>8 DEF Rooted, HasPlace
  <2>. QED BY <1>5, <1>8, <2>1, <2>2, <2>3, TreeFrom
<1>10. Ordered(u, {x}, V)
  <2>1. u.left[x] = NULL_ID /\ u.right[x] = NULL_ID
    BY <1>7, OtherSide DEF Kid
  <2>. QED BY <1>8, <2>1 DEF Ordered
<1>11. H \in [Optional -> Nat] /\ H[NULL_ID] = 0 /\ H[x] = 1
  BY <1>3
<1> HIDE DEF H
<1>12. get_color(u, x) = "black" /\ Blacks(u, x) = 1
  BY <1>3, <1>5 DEF get_color, Blacks
<1>13. Floating(u, {x}, H, x)
  <2>1. Balanced(u, {x}, H, NULL_ID, "left")
    BY <1>3, <1>5, <1>7, <1>11, <1>12, NoDeficit
  <2>. QED BY <1>5, <1>12, <2>1 DEF Floating, RedsApart
<1>. QED BY <1>3, <1>5, <1>6, <1>9, <1>10, <1>13 DEF RbInv, InOrder

\* At the place that the search found
LEMMA InsertLeaf ==
  ASSUME RbInv, NEW x \in Nodes, insert(x), tree.root # NULL_ID
  PROVE  RbInv'
<1>1. PICK U : Tree(tree, members, U) /\ Ordered(tree, members, U)
  BY DEF RbInv, InOrder
<1>2. PICK G : Settled(tree, members, G)
  BY DEF RbInv, insert
<1> DEFINE fresh == Fresh(tree, x)
           e == Place(tree, x)
           p == e.parent
           s == e.side
           u == setchild(fresh, p, s, x)
           N == members \cup {x}
           H == [G EXCEPT ![x] = 0]
<1>3. /\ x \in Nodes \ members /\ x # NULL_ID /\ tree \in TreeType /\ x \in Optional /\ NULL_ID \in Optional
      /\ members \in SUBSET Nodes /\ NULL_ID \notin members /\ \A m \in members : m \in Optional
  BY <1>1, RbTreeAssumption DEF Tree, Optional, insert
<1>4. /\ SamePointers(tree, fresh) /\ fresh.ok = tree.ok
      /\ \A m \in Nodes : fresh.color[m] = IF m = x THEN "red" ELSE tree.color[m]
  BY <1>1, <1>3, FreshIs
<1>5. PlaceUnder(tree, U, x, tree.root, e)
  BY <1>1, PlaceFound
<1>6. tree' = u /\ members' = N /\ pc' = "float" /\ cursor' = [n |-> x, db |-> NULL_ID, p |-> NULL_ID]
  BY DEF insert
<1> HIDE DEF fresh, e
<1>7. /\ p \in members /\ s \in Sides /\ Kid(tree, s, p) = NULL_ID
      /\ PlaceUnder(tree, U, x, tree.root, [parent |-> p, side |-> s])
  <2>1. U[tree.root] = members
    BY <1>1 DEF Tree
  <2>. QED BY <1>5, <2>1 DEF PlaceUnder, Through
<1> HIDE DEF p, s
<1>8. ChildSet(fresh, u, p, s, x)
  <2>1. fresh \in TreeType /\ p \in Nodes
    BY <1>3, <1>4, <1>7 DEF SamePointers
  <2>. QED BY <1>3, <1>7, <2>1, SetChild
<1> HIDE DEF u
<1>9. LeafAdded(tree, u, members, x, p, s)
  BY <1>3, <1>4, <1>7, <1>8 DEF LeafAdded, ChildSet, SamePointers, Kid
<1>10. InOrder(u, N)
  BY <1>1, <1>7, <1>9, LeafInOrder
<1>11. /\ u \in TreeType /\ u.ok /\ u.root = tree.root
       /\ \A m \in Nodes : get_color(u, m) = IF m = x THEN "red" ELSE get_color(tree, m)
       /\ get_color(u, NULL_ID) = "black"
  <2>1. u \in TreeType /\ u.ok = tree.ok /\ u.root = tree.root /\ u.color = fresh.color
    BY <1>4, <1>8 DEF ChildSet, SamePointers
  <2>2. get_color(u, NULL_ID) = "black" /\ \A m \in Nodes : get_color(u, m) = u.color[m] /\ get_color(tree, m) = tree.color[m]
    BY <1>3, <2>1, ColorIs
  <2>. QED BY <1>4, <2>1, <2>2 DEF RbInv
<1>12. tree.root \in members /\ tree.root # x /\ get_color(tree, tree.root) = "black"
  BY <1>1, <1>2, <1>3 DEF Tree, Settled
<1>13. /\ G \in [Optional -> Nat] /\ G[NULL_ID] = 0
       /\ \A n \in members, r \in Sides : G[n] = G[Kid(tree, r, n)] + Blacks(tree, n)
  <2>1. Balanced(tree, members, G, NULL_ID, "left") /\ tree \in TreeType /\ members \in SUBSET Nodes
    BY <1>2, <1>3 DEF Settled
  <2>. QED BY <2>1, NoDeficit
<1>14. H \in [Optional -> Nat] /\ H[x] = 0 /\ \A n \in Optional : n # x => H[n] = G[n]
  BY <1>3, <1>13
<1>15. \A r \in Sides : Kid(u, r, x) = NULL_ID
  BY <1>1, <1>3, <1>7, <1>9 DEF LeafAdded, Tree
<1>16. ASSUME NEW n \in members, NEW r \in Sides
       PROVE  /\ Kid(tree, r, n) \in members \cup {NULL_ID}
              /\ Kid(u, r, n) = IF r = s /\ n = p THEN x ELSE Kid(tree, r, n)
              /\ r = s /\ n = p => Kid(tree, r, n) = NULL_ID
  <2>1. Kid(tree, r, n) \in members \cup {NULL_ID}
    BY <1>1, TreeNode
  <2>. QED BY <1>3, <1>7, <1>9, <2>1 DEF LeafAdded
<1> HIDE DEF H
<1>17. ASSUME NEW n \in N, NEW r \in Sides PROVE H[n] = H[Kid(u, r, n)] + Blacks(u, n)
  <2>1. CASE n = x
    <3>1. Blacks(u, x) = 0
      BY <1>3, <1>11 DEF Blacks
    <3>. QED BY <1>3, <1>13, <1>14, <1>15, <2>1, <3>1
  <2>2. CASE n # x
    <3>1. n \in members /\ Blacks(u, n) = Blacks(tree, n) /\ H[n] = G[n]
      BY <1>3, <1>11, <1>14, <2>2 DEF Blacks
    <3>2. H[Kid(u, r, n)] = G[Kid(tree, r, n)]
      BY <1>3, <1>13, <1>14, <1>16, <3>1
    <3>. QED BY <1>13, <3>1, <3>2
  <2>. QED BY <2>1, <2>2
<1>18. RedsApart(u, N, x)
  <2>1. SUFFICES ASSUME NEW n \in N, NEW r \in Sides,
                        get_color(u, n) = "red", get_color(u, Kid(u, r, n)) = "red"
                 PROVE  Kid(u, r, n) = x
    BY DEF RedsApart
  <2>2. n # x
    BY <1>11, <1>15, <2>1
  <2>3. CASE Kid(u, r, n) = Kid(tree, r, n)
    <3>1. get_color(tree, n) = "red" /\ get_color(tree, Kid(tree, r, n)) = "red" /\ Kid(tree, r, n) # NULL_ID
      BY <1>3, <1>11, <1>16, <2>1, <2>2, <2>3
    <3>. QED BY <1>2, <2>2, <3>1 DEF Settled, RedsApart
  <2>. QED BY <1>16, <2>2, <2>3
<1>19. Floating(u, N, H, x)
  <2>1. Balanced(u, N, H, NULL_ID, "left")
    <3>1. N \in SUBSET Nodes /\ H[NULL_ID] = 0
      BY <1>3, <1>13, <1>14
    <3> HIDE DEF N
    <3>. QED BY <1>11, <1>14, <1>17, <3>1, NoDeficit
  <2>2. get_color(u, x) = "red" /\ get_color(u, u.root) = "black"
    BY <1>3, <1>11, <1>12
  <2>. QED BY <1>18, <2>1, <2>2 DEF Floating
<1>. QED BY <1>3, <1>6, <1>10, <1>11, <1>19 DEF RbInv

-----------------------------------------------------------------------------
(* Deletion                                                                 *)

\* The search for the leftmost node
LeftWalk(t, F) == F = [m \in Nodes |-> IF t.left[m] = NULL_ID THEN m ELSE F[t.left[m]]]

\* The search of bst_delete for the successor is a function, by TailRecursion.
LEMMA LeftmostExists ==
  ASSUME NEW t \in TreeType, NEW n
  PROVE  \E F : LeftWalk(t, F) /\ Leftmost(t, n) = F[n]
<1> DEFINE Base == {m \in Nodes : t.left[m] = NULL_ID}
           next == [m \in Nodes |-> IF m \in Base THEN m ELSE t.left[m]]
           b == [m \in Nodes |-> m]
           F == CHOOSE F : LeftWalk(t, F)
<1>1. next \in [Nodes -> Nodes] /\ Base \in SUBSET Nodes
  BY DEF TreeType, Optional
<1>2. PICK G : WalksOn(G, Nodes, Base, next, b)
  <2> HIDE DEF Base, next, b
  <2>. QED BY <1>1, TailRecursion
<1>3. LeftWalk(t, G)
  <2>1. \A m \in Nodes : (IF m \in Base THEN b[m] ELSE G[next[m]])
                          = IF t.left[m] = NULL_ID THEN m ELSE G[t.left[m]]
    OBVIOUS
  <2>. QED BY <1>2, <2>1 DEF WalksOn, LeftWalk
<1>4. LeftWalk(t, F)
  BY <1>3
<1>5. Leftmost(t, n) = F[n]
  BY DEF Leftmost, LeftWalk
<1>. QED BY <1>4, <1>5

\* The leftmost node e under n has no left child and one of the least keys.
FirstUnder(t, U, n, e) ==
    /\ e \in U[n] /\ Kid(t, "left", e) = NULL_ID
    /\ e # n => Kid(t, "left", t.parent[e]) = e
    /\ \A m \in U[n] : Key[e] <= Key[m]

\* The leftmost node under n has no left child, and no key under n is smaller.
LEMMA LeftmostFound ==
  ASSUME NEW t, NEW M, NEW U, Tree(t, M, U), Ordered(t, M, U), NEW n \in M
  PROVE  FirstUnder(t, U, n, Leftmost(t, n))
<1>1. t \in TreeType /\ M \subseteq Nodes /\ NULL_ID \notin M /\ "left" \in Sides /\ "right" \in Sides
      /\ Other("left") = "right" /\ \A m \in M : Key[m] \in Nat
  BY RbTreeAssumption DEF Tree, Sides, Other
<1>2. PICK F : LeftWalk(t, F) /\ Leftmost(t, n) = F[n]
  BY <1>1, LeftmostExists
<1> DEFINE P == {m \in M : FirstUnder(t, U, m, F[m])}
<1>3. ASSUME NEW m \in M, \A r \in Sides : Kid(t, r, m) \in P \cup {NULL_ID}
      PROVE  m \in P
  <2> DEFINE k == Kid(t, "left", m)
             l == Kid(t, "right", m)
  <2>1. F[m] = IF k = NULL_ID THEN m ELSE F[k]
    <3>1. t.left[m] = k
      BY DEF Kid
    <3>. QED BY <1>1, <1>2, <3>1 DEF LeftWalk
  <2>2. U[m] = {m} \cup U[k] \cup U[l] /\ U[k] \subseteq U[m] /\ m \in U[m] /\ U[l] \subseteq U[m]
    BY <1>1, TreeNode
  <2>3. \A a \in U[m] : a \in M
    BY TreeNested
  <2>4. /\ \A a \in U[k] : Key[a] <= Key[m]
        /\ \A a \in U[l] : Key[m] <= Key[a]
    <3>1. k = t.left[m] /\ l = t.right[m]
      BY DEF Kid
    <3>. QED BY <2>2, <2>3, <3>1 DEF Ordered
  <2>5. CASE k = NULL_ID
    <3>1. F[m] = m /\ U[k] = {}
      BY <2>1, <2>5 DEF Tree
    <3>2. \A a \in U[m] : Key[m] <= Key[a]
      BY <1>1, <2>2, <2>4, <3>1
    <3>. QED BY <2>2, <2>5, <3>1, <3>2 DEF FirstUnder
  <2>6. CASE k # NULL_ID
    <3>1. k \in P /\ F[m] = F[k] /\ t.parent[k] = m /\ k \in U[k]
      BY <1>1, <1>3, <2>1, <2>6, TreeChild
    <3> DEFINE e == F[k]
    <3> HIDE DEF e
    <3>2. /\ e \in U[k] /\ Kid(t, "left", e) = NULL_ID /\ (e # k => Kid(t, "left", t.parent[e]) = e)
          /\ \A a \in U[k] : Key[e] <= Key[a]
      BY <3>1 DEF FirstUnder, e
    <3>3. Kid(t, "left", t.parent[e]) = e
      BY <3>1, <3>2
    <3>4. e \in M /\ k \in M
      BY <2>2, <2>3, <3>1, <3>2
    <3>5. ASSUME NEW a \in U[m] PROVE Key[e] <= Key[a]
      <4>1. Key[e] \in Nat /\ Key[a] \in Nat /\ Key[m] \in Nat /\ Key[e] <= Key[m]
        BY <1>1, <2>3, <2>4, <3>2, <3>4
      <4>. QED BY <2>2, <2>4, <3>2, <4>1
    <3>6. e \in U[m]
      BY <2>2, <3>2
    <3>. QED BY <3>1, <3>2, <3>3, <3>5, <3>6 DEF FirstUnder, e
  <2>. QED BY <2>5, <2>6
<1> HIDE DEF P
<1>4. M \subseteq P
  BY <1>3, TreeInduction
<1>. QED BY <1>2, <1>4 DEF P

\* Two nodes changed places.
Swapped(x, s, m) == IF m = x THEN s ELSE IF m = s THEN x ELSE m
PlacesChanged(t, u, M, x, s) ==
    /\ u \in TreeType
    /\ u.root = Swapped(x, s, t.root)
    /\ \A m \in M, r \in Sides : Kid(u, r, m) = Swapped(x, s, Kid(t, r, Swapped(x, s, m)))
    /\ \A m \in M : u.parent[m] = Swapped(x, s, t.parent[Swapped(x, s, m)])
    /\ \A m \in Nodes \ M : u.parent[m] = t.parent[m] /\ \A r \in Sides : Kid(u, r, m) = Kid(t, r, m)
    /\ \A m \in M : get_color(u, m) = get_color(t, Swapped(x, s, m))

\* To swap two nodes is a renaming, its own inverse.
LEMMA SwappedTwice ==
  ASSUME NEW M, NEW x \in M, NEW s \in M, NULL_ID \notin M
  PROVE  /\ \A m : Swapped(x, s, Swapped(x, s, m)) = m
         /\ \A m \in M : Swapped(x, s, m) \in M
         /\ \A m : m \in M \cup {NULL_ID} <=> Swapped(x, s, m) \in M \cup {NULL_ID}
         /\ Swapped(x, s, NULL_ID) = NULL_ID
         /\ \A m, n : Swapped(x, s, m) = n <=> m = Swapped(x, s, n)
BY DEF Swapped

\* When two nodes have changed places it is the same tree, up to the renaming.
LEMMA ChangedTree ==
  ASSUME NEW t, NEW M, NEW U, Tree(t, M, U), NEW u, NEW x \in M, NEW s \in M,
         PlacesChanged(t, u, M, x, s)
  PROVE  Tree(u, M, [n \in Optional |-> {m \in M : Swapped(x, s, m) \in U[Swapped(x, s, n)]}])
<1> DEFINE pi(m) == Swapped(x, s, m)
           V == [n \in Optional |-> {m \in M : pi(m) \in U[pi(n)]}]
<1>1. /\ M \in SUBSET Nodes /\ NULL_ID \notin M /\ \A m \in M : m \in Optional /\ m \in Nodes
      /\ NULL_ID \in Optional /\ u \in TreeType
  BY RbTreeAssumption DEF Tree, Optional, PlacesChanged
<1>2. /\ (\A m : pi(pi(m)) = m) /\ \A m \in M : pi(m) \in M
      /\ \A m : m \in M \cup {NULL_ID} <=> pi(m) \in M \cup {NULL_ID}
      /\ pi(NULL_ID) = NULL_ID /\ \A m, n : pi(m) = n <=> m = pi(n)
  BY <1>1, SwappedTwice
<1>3. /\ u.root = pi(t.root)
      /\ \A m \in M, r \in Sides : Kid(u, r, m) = pi(Kid(t, r, pi(m)))
      /\ \A m \in M : u.parent[m] = pi(t.parent[pi(m)])
      /\ \A m \in Nodes \ M : u.parent[m] = t.parent[m] /\ \A r \in Sides : Kid(u, r, m) = Kid(t, r, m)
  BY DEF PlacesChanged
<1>4. \A n \in M : U[n] \subseteq M
  BY TreeNested
<1> HIDE DEF pi
<1>5. V \in [Optional -> SUBSET Nodes]
  BY <1>1
<1>6. ASSUME NEW n \in M \cup {NULL_ID}, NEW m
      PROVE  m \in V[n] <=> pi(m) \in U[pi(n)]
  <2>1. n \in Optional /\ pi(n) \in M \cup {NULL_ID}
    BY <1>1, <1>2
  <2>2. U[pi(n)] \subseteq M
    BY <1>4, <2>1 DEF Tree
  <2>3. pi(m) \in M => m \in M
    BY <1>2
  <2>. QED BY <2>1, <2>2, <2>3
<1>7. V[NULL_ID] = {}
  BY <1>2, <1>6 DEF Tree
<1> HIDE DEF V
<1>8. ASSUME NEW n \in M PROVE Fits(u, M, V, n)
  <2> DEFINE k == Kid(t, "left", pi(n))
             l == Kid(t, "right", pi(n))
  <2>0. "left" \in Sides /\ "right" \in Sides /\ Other("left") = "right" /\ \A r \in Sides : r = "left" \/ r = "right"
    BY DEF Sides, Other
  <2>1. /\ k \in M \cup {NULL_ID} /\ l \in M \cup {NULL_ID}
        /\ U[pi(n)] = {pi(n)} \cup U[k] \cup U[l] /\ U[k] \cap U[l] = {}
        /\ pi(n) \notin U[k] /\ pi(n) \notin U[l]
        /\ (k # NULL_ID => t.parent[k] = pi(n)) /\ (l # NULL_ID => t.parent[l] = pi(n))
    <3> DEFINE c == pi(n)
    <3>1. c \in M /\ "left" \in Sides /\ "right" \in Sides
      BY <1>2, <2>0
    <3> HIDE DEF c
    <3>2. /\ Kid(t, "left", c) \in M \cup {NULL_ID}
          /\ U[c] = {c} \cup U[Kid(t, "left", c)] \cup U[Kid(t, Other("left"), c)]
          /\ U[Kid(t, "left", c)] \cap U[Kid(t, Other("left"), c)] = {}
          /\ c \notin U[Kid(t, "left", c)] /\ c \notin U[Kid(t, Other("left"), c)]
          /\ (Kid(t, "left", c) # NULL_ID => t.parent[Kid(t, "left", c)] = c)
      BY <3>1, TreeNode, SMTT(30)
    <3>3. /\ Kid(t, "right", c) \in M \cup {NULL_ID}
          /\ (Kid(t, "right", c) # NULL_ID => t.parent[Kid(t, "right", c)] = c)
      BY <3>1, TreeNode
    <3>. QED BY <2>0, <3>2, <3>3 DEF c
  <2>2. Kid(u, "left", n) = pi(k) /\ Kid(u, "right", n) = pi(l)
    BY <1>3, <2>0
  <2> HIDE DEF k, l
  <2>3. pi(k) \in M \cup {NULL_ID} /\ pi(l) \in M \cup {NULL_ID}
    BY <1>2, <2>1
  <2>4. /\ \A m : m \in V[pi(k)] <=> pi(m) \in U[k]
        /\ \A m : m \in V[pi(l)] <=> pi(m) \in U[l]
        /\ \A m : m \in V[n] <=> pi(m) \in U[pi(n)]
    BY <1>2, <1>6, <2>3
  <2>5. V[n] = {n} \cup V[pi(k)] \cup V[pi(l)]
    <3>1. \A m : m \in V[n] <=> m = n \/ m \in V[pi(k)] \/ m \in V[pi(l)]
      BY <1>2, <2>1, <2>4
    <3>. QED BY <3>1
  <2>6. V[pi(k)] \cap V[pi(l)] = {} /\ n \notin V[pi(k)] /\ n \notin V[pi(l)]
    BY <2>1, <2>4
  <2>7. /\ pi(k) # NULL_ID => u.parent[pi(k)] = n
        /\ pi(l) # NULL_ID => u.parent[pi(l)] = n
    BY <1>2, <1>3, <2>1, <2>3
  <2>. QED BY <2>0, <2>2, <2>3, <2>5, <2>6, <2>7 DEF Fits
<1>9. ASSUME NEW n \in M PROVE HasPlace(u, M, n)
  <2>1. SUFFICES ASSUME n # u.root
                 PROVE  u.parent[n] \in M /\ \E r \in Sides : Kid(u, r, u.parent[n]) = n
    BY DEF HasPlace
  <2>2. pi(n) # t.root /\ pi(n) \in M
    BY <1>2, <1>3, <2>1
  <2>3. t.parent[pi(n)] \in M /\ \E r \in Sides : Kid(t, r, t.parent[pi(n)]) = pi(n)
    BY <2>2 DEF Tree
  <2>4. PICK r \in Sides : Kid(t, r, t.parent[pi(n)]) = pi(n)
    BY <2>3
  <2>5. u.parent[n] = pi(t.parent[pi(n)]) /\ u.parent[n] \in M
    BY <1>2, <1>3, <2>3
  <2>6. Kid(u, r, u.parent[n]) = n
    BY <1>2, <1>3, <2>4, <2>5
  <2>. QED BY <2>5, <2>6
<1>10. ASSUME NEW n \in Nodes \ M PROVE Apart(u, n)
  BY <1>3 DEF Apart, Tree
<1>11. Rooted(u, M, V)
  <2>1. t.root \in M \cup {NULL_ID} /\ U[t.root] = M /\ (t.root # NULL_ID => t.parent[t.root] = NULL_ID)
    BY DEF Tree
  <2>2. u.root \in M \cup {NULL_ID}
    BY <1>2, <1>3, <2>1
  <2>3. u.root # NULL_ID => u.parent[u.root] = NULL_ID
    BY <1>2, <1>3, <2>1, <2>2
  <2>4. \A m : m \in V[u.root] <=> m \in M
    BY <1>1, <1>2, <1>3, <1>6, <2>1, <2>2
  <2>. QED BY <2>2, <2>3, <2>4 DEF Rooted
<1>12. Tree(u, M, V)
  BY <1>1, <1>5, <1>7, <1>8, <1>9, <1>10, <1>11, TreeFrom
<1>. QED BY <1>12 DEF V, pi

\* After x has changed places with its successor only x itself is out of order.
LEMMA ChangedOrder ==
  ASSUME NEW t, NEW M, NEW U, Tree(t, M, U), Ordered(t, M, U), NEW u, NEW x \in M, NEW s \in M,
         PlacesChanged(t, u, M, x, s), s \in U[Kid(t, "right", x)],
         \A m \in U[Kid(t, "right", x)] : Key[s] <= Key[m]
  PROVE  Ordered(u, M \ {x}, [n \in Optional |-> {m \in M : Swapped(x, s, m) \in U[Swapped(x, s, n)]}])
<1> DEFINE pi(m) == Swapped(x, s, m)
           V == [n \in Optional |-> {m \in M : pi(m) \in U[pi(n)]}]
           K == M \ {x}
<1>1. /\ M \in SUBSET Nodes /\ NULL_ID \notin M /\ \A m \in M : m \in Optional /\ m \in Nodes /\ Key[m] \in Nat
      /\ NULL_ID \in Optional /\ t \in TreeType /\ u \in TreeType
  BY RbTreeAssumption DEF Tree, Optional, PlacesChanged
<1>2. /\ (\A m : pi(pi(m)) = m) /\ \A m \in M : pi(m) \in M
      /\ \A m : m \in M \cup {NULL_ID} <=> pi(m) \in M \cup {NULL_ID}
  BY <1>1, SwappedTwice
<1>3. \A m \in M, r \in Sides : Kid(u, r, m) = pi(Kid(t, r, pi(m)))
  BY DEF PlacesChanged
<1>4. /\ \A n \in M, r \in Sides : Below(t, M, U, n, r)
      /\ "left" \in Sides /\ "right" \in Sides /\ \A r \in Sides : r = "left" \/ r = "right"
  <2>1. \A n \in M, r \in Sides : Below(t, M, U, n, r)
    BY <1>1, OrderedSides
  <2>. QED BY <2>1 DEF Sides
<1>5. \A n \in M, r \in Sides : Kid(t, r, n) \in M \cup {NULL_ID} /\ n \notin U[Kid(t, r, n)]
  BY TreeNode
<1>6. \A n \in M, r \in Sides : \A m \in U[Kid(t, r, n)] : m \in M /\ U[m] \subseteq U[Kid(t, r, n)]
  <2> SUFFICES ASSUME NEW n \in M, NEW r \in Sides, NEW m \in U[Kid(t, r, n)]
               PROVE  m \in M /\ U[m] \subseteq U[Kid(t, r, n)]
    OBVIOUS
  <2>1. Kid(t, r, n) \in M
    <3>1. Kid(t, r, n) # NULL_ID
      BY DEF Tree
    <3>. QED BY <1>5, <3>1
  <2>. QED BY <2>1, TreeNested
<1>7. s # x /\ s \in U[x] /\ U[Kid(t, "right", x)] \subseteq U[x] /\ Key[x] <= Key[s]
  <2>1. s # x /\ U[Kid(t, "right", x)] \subseteq U[x]
    BY <1>4, <1>5, TreeNode
  <2>2. Key[x] <= Key[s]
    BY <1>4 DEF Below
  <2>. QED BY <2>1, <2>2
<1>8. ASSUME NEW n \in K, NEW r \in Sides, NEW m \in K, m \in V[Kid(u, r, n)]
      PROVE  IF r = "left" THEN Key[m] <= Key[n] ELSE Key[n] <= Key[m]
  <2>1. pi(m) \in U[Kid(t, r, pi(n))]
    <3>1. Kid(u, r, n) \in Optional
      BY <1>1, KidIs
    <3>. QED BY <1>2, <1>3, <1>8, <3>1
  <2>2. /\ pi(n) = IF n = s THEN x ELSE n
        /\ pi(m) = IF m = s THEN x ELSE m
    BY DEF Swapped
  <2>3. /\ m \in M /\ n \in M /\ Key[m] \in Nat /\ Key[n] \in Nat /\ Key[x] \in Nat /\ Key[s] \in Nat
    BY <1>1
  <2>4. CASE n # s /\ m # s
    <3>1. m \in U[Kid(t, r, n)] /\ Below(t, M, U, n, r)
      BY <1>4, <2>1, <2>2, <2>4
    <3>. QED BY <3>1 DEF Below
  <2>5. CASE n = s /\ m # s
    <3>1. m \in U[Kid(t, r, x)] /\ Below(t, M, U, x, r)
      BY <1>4, <2>1, <2>2, <2>5
    <3>2. CASE r = "left"
      <4>1. Key[m] <= Key[x]
        BY <3>1, <3>2 DEF Below
      <4>. QED BY <1>7, <2>3, <2>5, <3>2, <4>1
    <3>3. CASE r = "right"
      BY <2>5, <3>1, <3>3
    <3>. QED BY <1>4, <3>2, <3>3
  <2>6. CASE n # s /\ m = s
    <3>1. x \in U[Kid(t, r, n)] /\ Below(t, M, U, n, r)
      BY <1>4, <2>1, <2>2, <2>6
    <3>2. s \in U[Kid(t, r, n)]
      BY <1>6, <1>7, <3>1
    <3>. QED BY <2>6, <3>1, <3>2 DEF Below
  <2>7. CASE n = s /\ m = s
    BY <1>5, <2>1, <2>2, <2>7
  <2>. QED BY <2>4, <2>5, <2>6, <2>7
<1>9. \A n \in K, r \in Sides : Below(u, K, V, n, r)
  BY <1>8 DEF Below
<1>10. Ordered(u, K, V)
  <2>1. K \in SUBSET Nodes
    BY <1>1
  <2> HIDE DEF K, V
  <2>. QED BY <1>1, <1>9, <2>1, OrderedSides
<1>. QED BY <1>10 DEF V, pi

\* Colours move with the places.
LEMMA ChangedColors ==
  ASSUME NEW t, NEW M, NEW U, Tree(t, M, U), NEW u, NEW x \in M, NEW s \in M,
         PlacesChanged(t, u, M, x, s), \E H : Settled(t, M, H)
  PROVE  \E H : Settled(u, M, H)
<1> DEFINE pi(m) == Swapped(x, s, m)
<1>1. PICK H : Settled(t, M, H)
  OBVIOUS
<1>2. /\ M \in SUBSET Nodes /\ NULL_ID \notin M /\ \A m \in M : m \in Optional /\ m \in Nodes
      /\ NULL_ID \in Optional /\ t \in TreeType /\ u \in TreeType
      /\ get_color(t, NULL_ID) = "black" /\ get_color(u, NULL_ID) = "black"
  <2>1. /\ M \in SUBSET Nodes /\ NULL_ID \notin M /\ \A m \in M : m \in Optional /\ m \in Nodes
        /\ NULL_ID \in Optional /\ t \in TreeType /\ u \in TreeType
    BY RbTreeAssumption DEF Tree, Optional, PlacesChanged
  <2>. QED BY <2>1, ColorIs
<1>3. /\ (\A m : pi(pi(m)) = m) /\ \A m \in M : pi(m) \in M
      /\ \A m : m \in M \cup {NULL_ID} <=> pi(m) \in M \cup {NULL_ID}
      /\ pi(NULL_ID) = NULL_ID
      /\ \A m \in Optional : pi(m) \in Optional
  <2>1. \A m \in Optional : pi(m) \in Optional
    BY <1>2 DEF Swapped
  <2>. QED BY <1>2, <2>1, SwappedTwice
<1>4. /\ u.root = pi(t.root)
      /\ \A m \in M, r \in Sides : Kid(u, r, m) = pi(Kid(t, r, pi(m)))
      /\ \A m \in M : get_color(u, m) = get_color(t, pi(m))
  BY DEF PlacesChanged
<1> DEFINE I == [n \in Optional |-> H[pi(n)]]
<1>5. /\ H \in [Optional -> Nat] /\ H[NULL_ID] = 0
      /\ \A n \in M, r \in Sides : H[n] = H[Kid(t, r, n)] + Blacks(t, n)
  <2>1. Balanced(t, M, H, NULL_ID, "left") /\ t \in TreeType /\ M \in SUBSET Nodes
    BY <1>1, <1>2 DEF Settled
  <2>. QED BY <2>1, NoDeficit
<1> HIDE DEF pi
<1>6. I \in [Optional -> Nat] /\ I[NULL_ID] = 0 /\ \A n \in Optional : I[n] = H[pi(n)]
  BY <1>2, <1>3, <1>5
<1> HIDE DEF I
<1>7. ASSUME NEW n \in M, NEW r \in Sides
      PROVE  /\ I[n] = I[Kid(u, r, n)] + Blacks(u, n)
             /\ Kid(t, r, pi(n)) \in M \cup {NULL_ID}
  <2>1. Kid(t, r, pi(n)) \in M \cup {NULL_ID} /\ pi(n) \in M
    BY <1>3, TreeNode
  <2>2. Kid(u, r, n) \in Optional /\ pi(Kid(u, r, n)) = Kid(t, r, pi(n))
    BY <1>2, <1>3, <1>4, <2>1
  <2>3. Blacks(u, n) = Blacks(t, pi(n))
    BY <1>4 DEF Blacks
  <2>. QED BY <1>2, <1>5, <1>6, <2>1, <2>2, <2>3
<1>8. Balanced(u, M, I, NULL_ID, "left")
  BY <1>2, <1>6, <1>7, NoDeficit
<1>9. \A m \in M \cup {NULL_ID} : get_color(u, pi(m)) = get_color(t, m)
  BY <1>2, <1>3, <1>4
<1>10. RedsApart(u, M, NULL_ID)
  <2>1. SUFFICES ASSUME NEW m \in M, NEW r \in Sides,
                        get_color(u, m) = "red", get_color(u, Kid(u, r, m)) = "red"
                 PROVE  FALSE
    BY DEF RedsApart
  <2>2. get_color(t, pi(m)) = "red" /\ get_color(t, Kid(t, r, pi(m))) = "red" /\ pi(m) \in M
    BY <1>3, <1>4, <1>7, <1>9, <2>1
  <2>3. Kid(t, r, pi(m)) = NULL_ID
    BY <1>1, <2>2 DEF Settled, RedsApart
  <2>. QED BY <1>2, <2>2, <2>3
<1>11. get_color(u, u.root) = "black"
  <2>1. t.root \in M \cup {NULL_ID} /\ get_color(t, t.root) = "black"
    BY <1>1 DEF Tree, Settled
  <2>. QED BY <1>4, <1>9, <2>1
<1>. QED BY <1>8, <1>10, <1>11 DEF Settled

\* x has two children, and s is the first node on its right side.
Exchanges(t, M, U, x, s) ==
    /\ Tree(t, M, U) /\ x \in M /\ s \in U[Kid(t, "right", x)]
    /\ Kid(t, "left", x) # NULL_ID /\ Kid(t, "right", x) # NULL_ID /\ Kid(t, "left", s) = NULL_ID
    /\ s # Kid(t, "right", x) => Kid(t, "left", t.parent[s]) = s

\* Where the pointers around x and its successor lead, and where they do not.
LEMMA ExchangeFacts ==
  ASSUME NEW t, NEW M, NEW U, NEW x, NEW s, Exchanges(t, M, U, x, s)
  PROVE  LET b == Kid(t, "left", x)
             c == Kid(t, "right", x)
             d == Kid(t, "right", s)
         IN  /\ t \in TreeType /\ M \subseteq Nodes /\ NULL_ID \notin M
             /\ x \in M /\ s \in M /\ b \in M /\ c \in M /\ d \in M \cup {NULL_ID}
             /\ x # s /\ b # x /\ c # x /\ b # c /\ b # s /\ d # x /\ d # s /\ d # b /\ d # c
             /\ t.parent[b] = x /\ t.parent[c] = x /\ (d # NULL_ID => t.parent[d] = s)
             /\ t.parent[x] # x /\ t.parent[x] # s
             /\ s # c => t.parent[s] \in M /\ t.parent[s] # x /\ t.parent[s] # s
             /\ t.root # s
             /\ \A m \in M : t.parent[m] = x => m = b \/ m = c
             /\ \A m \in M : t.parent[m] = s => m = d
             /\ \A m \in M, r \in Sides : Kid(t, r, m) = s => m = t.parent[s] /\ r = IF s = c THEN "right" ELSE "left"
             /\ \A m \in M, r \in Sides : Kid(t, r, m) \in M \cup {NULL_ID}
<1> DEFINE b == Kid(t, "left", x)
           c == Kid(t, "right", x)
           d == Kid(t, "right", s)
<1>1. /\ Tree(t, M, U) /\ t \in TreeType /\ M \subseteq Nodes /\ NULL_ID \notin M
      /\ x \in M /\ s \in U[c] /\ b # NULL_ID /\ c # NULL_ID /\ Kid(t, "left", s) = NULL_ID
      /\ s # c => Kid(t, "left", t.parent[s]) = s
  BY RbTreeAssumption DEF Exchanges, Tree
<1>2. /\ "left" \in Sides /\ "right" \in Sides /\ Other("left") = "right" /\ Other("right") = "left"
      /\ \A r \in Sides : r = "left" \/ r = "right"
  BY DEF Sides, Other
<1>3. b \in M /\ b # x /\ t.parent[b] = x /\ b \in U[b] /\ x \notin U[b]
  BY <1>1, <1>2, TreeChild
<1>4. c \in M /\ c # x /\ t.parent[c] = x /\ c \in U[c] /\ x \notin U[c]
  BY <1>1, <1>2, TreeChild
<1>5. b # c /\ U[b] \cap U[c] = {}
  BY <1>1, <1>2, TreeChild, TreeNode
<1>6. s \in M /\ U[s] \subseteq U[c] /\ (s # c => t.parent[s] \in U[c])
  BY <1>1, <1>4, TreeNested
<1>7. s # x /\ b # s
  BY <1>1, <1>3, <1>4, <1>5
<1>8. d \in M \cup {NULL_ID}
  BY <1>1, <1>2, <1>6, TreeNode
<1>9. d # NULL_ID => d # s /\ t.parent[d] = s /\ d \in U[s] /\ d \in M
  BY <1>1, <1>2, <1>6, TreeChild
<1> HIDE DEF b, c, d
<1>10. d # x /\ d # s /\ d # b /\ d # c
  BY <1>1, <1>3, <1>4, <1>6, <1>7, <1>9
<1>11. ASSUME NEW m \in M, t.parent[m] \in M
       PROVE  m # t.root /\ \E r \in Sides : Kid(t, r, t.parent[m]) = m
  <2>1. m # t.root
    BY <1>1, <1>11 DEF Tree
  <2>. QED BY <1>1, <2>1 DEF Tree
<1>12. \A m \in M : t.parent[m] = x => m = b \/ m = c
  BY <1>1, <1>2, <1>11 DEF b, c
<1>13. \A m \in M : t.parent[m] = s => m = d
  BY <1>1, <1>2, <1>6, <1>11 DEF d
<1>14. t.parent[x] # x /\ t.parent[x] # s
  BY <1>1, <1>3, <1>4, <1>10, <1>12, <1>13
<1>15. s # c => t.parent[s] \in M /\ t.parent[s] # x /\ t.parent[s] # s
  <2>1. ASSUME s # c PROVE t.parent[s] \in M /\ t.parent[s] # x
    <3>1. t.parent[s] \in U[c]
      BY <1>6, <2>1
    <3>. QED BY <1>1, <1>4, <3>1, TreeNested
  <2>. QED BY <1>6, <1>10, <1>13, <2>1
<1>16. t.root # s
  <2>1. t.parent[s] # NULL_ID
    BY <1>1, <1>4, <1>15
  <2>. QED BY <1>1, <1>6, <2>1 DEF Tree
<1>17. \A m \in M, r \in Sides : Kid(t, r, m) = s => m = t.parent[s] /\ Kid(t, Other(r), m) # s
  <2>1. Hangs(t, s)
    BY <1>1, <1>6, TreeHangs
  <2>. QED BY <1>1, <2>1 DEF Hangs
<1>18. \A m \in M, r \in Sides : Kid(t, r, m) = s => m = t.parent[s] /\ r = IF s = c THEN "right" ELSE "left"
  <2>1. s = c => t.parent[s] = x /\ Kid(t, "right", x) = s
    BY <1>4 DEF c
  <2>. QED BY <1>1, <1>2, <1>17, <2>1
<1>19. \A m \in M, r \in Sides : Kid(t, r, m) \in M \cup {NULL_ID}
  BY <1>1, TreeNode
<1>. QED BY <1>1, <1>3, <1>4, <1>5, <1>6, <1>7, <1>8, <1>9, <1>10, <1>12, <1>13, <1>14, <1>15, <1>16, <1>18, <1>19
     DEF b, c, d

\* The pointers after the exchange
Exchanged(t, u, x, s) ==
    LET b == Kid(t, "left", x)
        c == Kid(t, "right", x)
        d == Kid(t, "right", s)
    IN  /\ u \in TreeType /\ u.ok = t.ok /\ u.root = IF t.root = x THEN s ELSE t.root
        /\ \A r \in Sides, m \in Nodes :
              Kid(u, r, m) = IF m = x THEN IF r = "left" THEN NULL_ID ELSE d
                             ELSE IF m = s THEN IF r = "left" THEN b ELSE IF s = c THEN x ELSE c
                             ELSE IF s # c /\ m = t.parent[s] /\ r = "left" THEN x
                             ELSE IF Kid(t, r, m) = x THEN s ELSE Kid(t, r, m)
        /\ \A m \in Nodes :
              u.parent[m] = IF m = x THEN IF s = c THEN s ELSE t.parent[s]
                            ELSE IF m = s THEN t.parent[x]
                            ELSE IF m = b \/ m = c THEN s
                            ELSE IF m = d THEN x ELSE t.parent[m]

\* The pointers the exchange writes are those of the renaming, whether the successor is the
\* child of x or further down.
LEMMA ExchangedPlaces ==
  ASSUME NEW t, NEW M, NEW U, NEW x, NEW s, Exchanges(t, M, U, x, s), NEW u, Exchanged(t, u, x, s),
         \A m \in M : get_color(u, m) = get_color(t, Swapped(x, s, m))
  PROVE  PlacesChanged(t, u, M, x, s)
<1> DEFINE b == Kid(t, "left", x)
           c == Kid(t, "right", x)
           d == Kid(t, "right", s)
           pi(m) == Swapped(x, s, m)
<1>1. /\ t \in TreeType /\ M \subseteq Nodes /\ NULL_ID \notin M
      /\ x \in M /\ s \in M /\ b \in M /\ c \in M /\ d \in M \cup {NULL_ID}
      /\ x # s /\ b # x /\ c # x /\ b # c /\ b # s /\ d # x /\ d # s /\ d # b /\ d # c
      /\ t.parent[b] = x /\ t.parent[c] = x /\ (d # NULL_ID => t.parent[d] = s)
      /\ t.parent[x] # x /\ t.parent[x] # s
      /\ s # c => t.parent[s] \in M /\ t.parent[s] # x /\ t.parent[s] # s
      /\ t.root # s
  BY ExchangeFacts
<1>2. /\ \A m \in M : t.parent[m] = x => m = b \/ m = c
      /\ \A m \in M : t.parent[m] = s => m = d
      /\ \A m \in M, r \in Sides : Kid(t, r, m) = s => m = t.parent[s] /\ r = IF s = c THEN "right" ELSE "left"
      /\ \A m \in M, r \in Sides : Kid(t, r, m) \in M \cup {NULL_ID}
  BY ExchangeFacts
<1>3. /\ u \in TreeType /\ u.root = IF t.root = x THEN s ELSE t.root
      /\ \A r \in Sides, m \in Nodes :
            Kid(u, r, m) = IF m = x THEN IF r = "left" THEN NULL_ID ELSE d
                           ELSE IF m = s THEN IF r = "left" THEN b ELSE IF s = c THEN x ELSE c
                           ELSE IF s # c /\ m = t.parent[s] /\ r = "left" THEN x
                           ELSE IF Kid(t, r, m) = x THEN s ELSE Kid(t, r, m)
      /\ \A m \in Nodes :
            u.parent[m] = IF m = x THEN IF s = c THEN s ELSE t.parent[s]
                          ELSE IF m = s THEN t.parent[x]
                          ELSE IF m = b \/ m = c THEN s
                          ELSE IF m = d THEN x ELSE t.parent[m]
  BY DEF Exchanged
<1>4. Tree(t, M, U) /\ Kid(t, "left", s) = NULL_ID /\ (s # c => Kid(t, "left", t.parent[s]) = s)
  BY DEF Exchanges
<1>5. \A r \in Sides : r = "left" \/ r = "right"
  BY DEF Sides
<1>6. /\ pi(x) = s /\ pi(s) = x /\ \A m : m # x /\ m # s => pi(m) = m
  BY DEF Swapped
<1>7. \A r \in Sides : /\ Kid(t, r, x) = IF r = "left" THEN b ELSE c
                       /\ Kid(t, r, s) = IF r = "left" THEN NULL_ID ELSE d
  BY <1>4, <1>5
<1> HIDE DEF b, c, d, pi
<1>8. ASSUME NEW m \in M, NEW r \in Sides PROVE Kid(u, r, m) = pi(Kid(t, r, pi(m)))
  <2>1. CASE m = x
    <3>1. Kid(u, r, m) = (IF r = "left" THEN NULL_ID ELSE d) /\ Kid(t, r, pi(m)) = IF r = "left" THEN NULL_ID ELSE d
      BY <1>1, <1>3, <1>6, <1>7, <2>1
    <3>. QED BY <1>1, <1>6, <3>1
  <2>2. CASE m = s
    <3>1. Kid(u, r, m) = (IF r = "left" THEN b ELSE IF s = c THEN x ELSE c) /\ Kid(t, r, pi(m)) = IF r = "left" THEN b ELSE c
      BY <1>1, <1>3, <1>6, <1>7, <2>2
    <3>. QED BY <1>1, <1>6, <3>1
  <2>3. CASE m # x /\ m # s
    <3>1. pi(m) = m /\ m \in Nodes
      BY <1>1, <1>6, <2>3
    <3>2. CASE Kid(t, r, m) = s
      <4>1. m = t.parent[s] /\ r = IF s = c THEN "right" ELSE "left"
        BY <1>2, <3>2
      <4>2. s # c
        BY <1>1, <2>3, <4>1
      <4>3. Kid(u, r, m) = x
        BY <1>3, <2>3, <3>1, <4>1, <4>2
      <4>. QED BY <1>6, <3>1, <3>2, <4>3
    <3>3. CASE Kid(t, r, m) # s
      <4>1. ~(s # c /\ m = t.parent[s] /\ r = "left")
        BY <1>4, <3>3 DEF c
      <4>2. Kid(u, r, m) = IF Kid(t, r, m) = x THEN s ELSE Kid(t, r, m)
        BY <1>3, <2>3, <3>1, <4>1
      <4>. QED BY <1>6, <3>1, <3>3, <4>2
    <3>. QED BY <3>2, <3>3
  <2>. QED BY <2>1, <2>2, <2>3
<1>9. ASSUME NEW m \in M PROVE u.parent[m] = pi(t.parent[pi(m)])
  <2>1. m \in Nodes
    BY <1>1
  <2>2. CASE m = x
    BY <1>1, <1>3, <1>6, <2>1, <2>2
  <2>3. CASE m = s
    BY <1>1, <1>3, <1>6, <2>1, <2>3
  <2>4. CASE m # x /\ m # s
    <3>1. t.parent[m] = x => u.parent[m] = s
      BY <1>2, <1>3, <2>1, <2>4
    <3>2. t.parent[m] = s => u.parent[m] = x
      BY <1>1, <1>2, <1>3, <2>1, <2>4
    <3>3. t.parent[m] # x /\ t.parent[m] # s => u.parent[m] = t.parent[m]
      BY <1>1, <1>3, <2>1, <2>4
    <3>. QED BY <1>6, <2>4, <3>1, <3>2, <3>3
  <2>. QED BY <2>2, <2>3, <2>4
<1>10. ASSUME NEW m \in Nodes \ M
       PROVE  u.parent[m] = t.parent[m] /\ \A r \in Sides : Kid(u, r, m) = Kid(t, r, m)
  <2>1. t.parent[m] = NULL_ID /\ \A r \in Sides : Kid(t, r, m) = NULL_ID
    BY <1>4 DEF Tree
  <2>2. m # x /\ m # s /\ m # b /\ m # c /\ m # d /\ m # NULL_ID
    BY <1>1, RbTreeAssumption
  <2>3. s # c => m # t.parent[s]
    BY <1>1
  <2>. QED BY <1>1, <1>3, <2>1, <2>2, <2>3
<1>11. u.root = pi(t.root)
  BY <1>1, <1>3, <1>6
<1>. QED BY <1>3, <1>8, <1>9, <1>10, <1>11 DEF PlacesChanged, pi

\* From v to u, two nodes have swapped their colours.
ColorsCrossed(v, u, x, s) ==
    /\ SamePointers(v, u) /\ u.ok = v.ok
    /\ \A m \in Nodes : u.color[m] = v.color[Swapped(x, s, m)]

\* The two colours are swapped back: each stays with its place.
LEMMA CrossingColors ==
  ASSUME NEW v \in TreeType, NEW x \in Nodes, NEW s \in Nodes
  PROVE  ColorsCrossed(v, SwapColors(v, x, s), x, s)
<1> DEFINE u == SwapColors(v, x, s)
<1>1. /\ u.root = v.root /\ u.parent = v.parent /\ u.left = v.left /\ u.right = v.right
      /\ u.ok = v.ok /\ u \in TreeType
  BY DEF SwapColors, TreeType
<1>2. \A m \in Nodes : u.color[m] = v.color[Swapped(x, s, m)]
  <2>1. u.color = [v.color EXCEPT ![x] = v.color[s], ![s] = v.color[x]] /\ v.color \in [Nodes -> Colors]
    BY DEF SwapColors, TreeType
  <2> HIDE DEF u
  <2>. QED BY <2>1 DEF Swapped
<1>. QED BY <1>1, <1>2 DEF SamePointers, ColorsCrossed

\* The colours of the pointers' tree, seen from the tree before
LEMMA CrossedColors ==
  ASSUME NEW t \in TreeType, NEW M \in SUBSET Nodes, NEW v \in TreeType, v.color = t.color,
         NEW x \in M, NEW s \in M, NEW u, ColorsCrossed(v, u, x, s)
  PROVE  \A m \in M : get_color(u, m) = get_color(t, Swapped(x, s, m))
<1>1. u \in TreeType /\ \A m \in Nodes : u.color[m] = t.color[Swapped(x, s, m)]
  BY DEF ColorsCrossed, SamePointers
<1>2. \A m \in M : Swapped(x, s, m) \in Nodes /\ m \in Nodes
  BY DEF Swapped
<1>3. \A m \in Nodes : get_color(u, m) = u.color[m] /\ get_color(t, m) = t.color[m]
  BY <1>1, ColorIs
<1>. QED BY <1>1, <1>2, <1>3

\* What bst_internal_delete makes of a node with two children
LEMMA ChangePlacesIs ==
  ASSUME NEW t, NEW M, NEW U, NEW x, NEW s, Exchanges(t, M, U, x, s),
         s = Leftmost(t, Kid(t, "right", x))
  PROVE  LET u == ChangePlaces(t, x)
         IN  Exchanged(t, u, x, s) /\ \A m \in M : get_color(u, m) = get_color(t, Swapped(x, s, m))
<1> DEFINE b == Kid(t, "left", x)
           c == Kid(t, "right", x)
           d == Kid(t, "right", s)
           sp == t.parent[s]
           v1 == setchild(t, x, "right", d)
           v2 == setchild(v1, x, "left", NULL_ID)
<1>1. /\ t \in TreeType /\ M \subseteq Nodes /\ NULL_ID \notin M
      /\ x \in M /\ s \in M /\ b \in M /\ c \in M /\ d \in M \cup {NULL_ID}
      /\ x # s /\ b # x /\ c # x /\ b # c /\ b # s /\ d # x /\ d # s /\ d # b /\ d # c
      /\ t.parent[b] = x /\ t.parent[c] = x /\ (d # NULL_ID => t.parent[d] = s)
      /\ t.parent[x] # x /\ t.parent[x] # s
      /\ s # c => t.parent[s] \in M /\ t.parent[s] # x /\ t.parent[s] # s
      /\ t.root # s
  BY ExchangeFacts
<1>2. /\ x \in Nodes /\ s \in Nodes /\ b \in Nodes /\ c \in Nodes /\ \A m \in M : m \in Nodes
      /\ x \in Optional /\ s \in Optional /\ b \in Optional /\ c \in Optional /\ d \in Optional
      /\ NULL_ID \in Optional /\ NULL_ID \notin Nodes
  BY <1>1, RbTreeAssumption DEF Optional
<1>3. "left" \in Sides /\ "right" \in Sides /\ Other("left") = "right" /\ Other("right") = "left"
      /\ \A r \in Sides : r = "left" \/ r = "right"
  BY DEF Sides, Other
<1>4. /\ Tree(t, M, U) /\ Kid(t, "left", s) = NULL_ID /\ (s # c => Kid(t, "left", sp) = s)
  BY DEF Exchanges
<1>5. t.left[x] = b /\ t.right[x] = c /\ t.right[s] = d
  BY DEF Kid
<1>6. ChangePlaces(t, x) =
        IF s = c
        THEN SwapColors(setchild(setchild(replace(v2, x, s), s, "left", b), s, "right", x), x, s)
        ELSE SwapColors(setchild(replace(setchild(setchild(v2, s, "left", b), s, "right", c), x, s),
                                 sp, "left", x), x, s)
  BY <1>5 DEF ChangePlaces
<1> HIDE DEF b, c, d, sp
<1>7. ChildSet(t, v1, x, "right", d)
  BY <1>1, <1>2, <1>3, SetChild
<1> HIDE DEF v1
<1>8. v1 \in TreeType
  BY <1>7 DEF ChildSet
<1>9. ChildSet(v1, v2, x, "left", NULL_ID)
  BY <1>2, <1>3, <1>8, SetChild
<1> HIDE DEF v2
<1>10. /\ v2 \in TreeType /\ v2.root = t.root /\ v2.ok = t.ok /\ v2.color = t.color
       /\ \A r \in Sides, m \in Nodes :
             Kid(v2, r, m) = IF m = x THEN IF r = "left" THEN NULL_ID ELSE d ELSE Kid(t, r, m)
       /\ \A m \in Nodes : v2.parent[m] = IF m = d THEN x ELSE t.parent[m]
  BY <1>2, <1>3, <1>7, <1>9 DEF ChildSet
<1>11. Hangs(t, x)
  BY <1>1, <1>4, TreeHangs
<1>12. /\ \A r \in Sides, m \in Nodes : Kid(t, r, m) = x => m = t.parent[x] /\ Kid(t, Other(r), m) # x
       /\ IF t.root = x THEN t.parent[x] = NULL_ID
          ELSE t.parent[x] \in Nodes /\ \E r \in Sides : Kid(t, r, t.parent[x]) = x
  BY <1>11 DEF Hangs
<1>13. CASE s = c
  <2> DEFINE v3 == replace(v2, x, s)
             v4 == setchild(v3, s, "left", b)
             v5 == setchild(v4, s, "right", x)
             u == SwapColors(v5, x, s)
  <2>1. Hangs(v2, x)
    <3>1. v2.parent[x] = t.parent[x]
      BY <1>1, <1>2, <1>10
    <3>2. ASSUME NEW r \in Sides, NEW m \in Nodes, Kid(v2, r, m) = x
          PROVE  m = v2.parent[x] /\ Kid(v2, Other(r), m) # x
      <4>1. m # x /\ Kid(t, r, m) = x /\ Other(r) \in Sides
        BY <1>1, <1>2, <1>3, <1>10, <3>2
      <4>. QED BY <1>10, <1>12, <3>1, <4>1
    <3>3. v2.root # x => v2.parent[x] \in Nodes /\ \E r \in Sides : Kid(v2, r, v2.parent[x]) = x
      BY <1>1, <1>10, <1>12, <3>1
    <3>. QED BY <1>10, <1>12, <3>1, <3>2, <3>3 DEF Hangs
  <2>2. /\ v3 \in TreeType /\ v3.ok = v2.ok /\ v3.color = v2.color
        /\ v3.root = IF v2.root = x THEN s ELSE v2.root
        /\ \A r \in Sides, m \in Nodes : Kid(v3, r, m) = IF Kid(v2, r, m) = x THEN s ELSE Kid(v2, r, m)
        /\ \A m \in Nodes : v3.parent[m] = IF m = s THEN v2.parent[x] ELSE v2.parent[m]
    BY <1>2, <1>10, <2>1, Replace
  <2> HIDE DEF v3
  <2>3. ChildSet(v3, v4, s, "left", b)
    BY <1>2, <1>3, <2>2, SetChild
  <2> HIDE DEF v4
  <2>4. v4 \in TreeType
    BY <2>3 DEF ChildSet
  <2>5. ChildSet(v4, v5, s, "right", x)
    BY <1>2, <1>3, <2>4, SetChild
  <2> HIDE DEF v5
  <2>6. /\ v5 \in TreeType /\ v5.ok = t.ok /\ v5.color = t.color
        /\ v5.root = IF t.root = x THEN s ELSE t.root
        /\ \A r \in Sides, m \in Nodes :
              Kid(v5, r, m) = IF m = s THEN IF r = "left" THEN b ELSE x ELSE Kid(v3, r, m)
        /\ \A m \in Nodes : v5.parent[m] = IF m = x THEN s ELSE IF m = b THEN s ELSE v3.parent[m]
    BY <1>2, <1>3, <1>10, <2>2, <2>3, <2>5 DEF ChildSet
  <2>7. /\ SamePointers(v5, u) /\ u.ok = v5.ok
        /\ \A m \in M : get_color(u, m) = get_color(t, Swapped(x, s, m))
    <3>1. ColorsCrossed(v5, u, x, s)
      BY <1>2, <2>6, CrossingColors
    <3>2. v5 \in TreeType /\ v5.color = t.color
      BY <2>6
    <3>. QED BY <1>1, <3>1, <3>2, CrossedColors DEF ColorsCrossed
  <2>8. ChangePlaces(t, x) = u
    BY <1>6, <1>13 DEF v3, v4, v5
  <2> HIDE DEF u
  <2>9. ASSUME NEW r \in Sides, NEW m \in Nodes
        PROVE  Kid(u, r, m) = IF m = x THEN IF r = "left" THEN NULL_ID ELSE d
                              ELSE IF m = s THEN IF r = "left" THEN b ELSE IF s = c THEN x ELSE c
                              ELSE IF s # c /\ m = t.parent[s] /\ r = "left" THEN x
                              ELSE IF Kid(t, r, m) = x THEN s ELSE Kid(t, r, m)
    <3>1. Kid(u, r, m) = Kid(v5, r, m)
      BY <2>7 DEF SamePointers, Kid
    <3>. QED BY <1>1, <1>2, <1>10, <1>13, <2>2, <2>6, <3>1
  <2>10. ASSUME NEW m \in Nodes
         PROVE  u.parent[m] = IF m = x THEN IF s = c THEN s ELSE t.parent[s]
                              ELSE IF m = s THEN t.parent[x]
                              ELSE IF m = b \/ m = c THEN s
                              ELSE IF m = d THEN x ELSE t.parent[m]
    <3>1. u.parent[m] = v5.parent[m]
      BY <2>7 DEF SamePointers
    <3>2. v3.parent[m] = IF m = s THEN t.parent[x] ELSE IF m = d THEN x ELSE t.parent[m]
      BY <1>1, <1>2, <1>10, <2>2
    <3>. QED BY <1>1, <1>2, <1>13, <2>6, <3>1, <3>2
  <2>11. u \in TreeType /\ u.ok = t.ok /\ u.root = IF t.root = x THEN s ELSE t.root
    BY <2>6, <2>7 DEF SamePointers
  <2>. QED BY <1>1, <1>2, <2>7, <2>8, <2>9, <2>10, <2>11 DEF Exchanged, b, c, d
<1>14. CASE s # c
  <2> DEFINE v3 == setchild(v2, s, "left", b)
             v4 == setchild(v3, s, "right", c)
             v5 == replace(v4, x, s)
             v6 == setchild(v5, sp, "left", x)
             u == SwapColors(v6, x, s)
  <2>1. ChildSet(v2, v3, s, "left", b)
    BY <1>2, <1>3, <1>10, SetChild
  <2> HIDE DEF v3
  <2>2. v3 \in TreeType
    BY <2>1 DEF ChildSet
  <2>3. ChildSet(v3, v4, s, "right", c)
    BY <1>2, <1>3, <2>2, SetChild
  <2> HIDE DEF v4
  <2>4. /\ v4 \in TreeType /\ v4.ok = t.ok /\ v4.color = t.color /\ v4.root = t.root
        /\ \A r \in Sides, m \in Nodes :
              Kid(v4, r, m) = IF m = s THEN IF r = "left" THEN b ELSE c
                              ELSE IF m = x THEN IF r = "left" THEN NULL_ID ELSE d ELSE Kid(t, r, m)
        /\ \A m \in Nodes : v4.parent[m] = IF m = c THEN s ELSE IF m = b THEN s
                                           ELSE IF m = d THEN x ELSE t.parent[m]
    BY <1>2, <1>3, <1>10, <2>1, <2>3 DEF ChildSet
  <2>5. Hangs(v4, x)
    <3>1. v4.parent[x] = t.parent[x]
      BY <1>1, <1>2, <2>4
    <3>2. ASSUME NEW r \in Sides, NEW m \in Nodes, Kid(v4, r, m) = x
          PROVE  m = v4.parent[x] /\ Kid(v4, Other(r), m) # x
      <4>1. m # x /\ m # s /\ Kid(t, r, m) = x /\ Other(r) \in Sides
        BY <1>1, <1>2, <1>3, <2>4, <3>2
      <4>. QED BY <1>12, <2>4, <3>1, <4>1
    <3>3. v4.root # x => v4.parent[x] \in Nodes /\ \E r \in Sides : Kid(v4, r, v4.parent[x]) = x
      BY <1>1, <1>12, <2>4, <3>1
    <3>. QED BY <1>12, <2>4, <3>1, <3>2, <3>3 DEF Hangs
  <2>6. /\ v5 \in TreeType /\ v5.ok = v4.ok /\ v5.color = v4.color
        /\ v5.root = IF v4.root = x THEN s ELSE v4.root
        /\ \A r \in Sides, m \in Nodes : Kid(v5, r, m) = IF Kid(v4, r, m) = x THEN s ELSE Kid(v4, r, m)
        /\ \A m \in Nodes : v5.parent[m] = IF m = s THEN v4.parent[x] ELSE v4.parent[m]
    BY <1>2, <2>4, <2>5, Replace
  <2> HIDE DEF v5
  <2>7. sp \in Nodes /\ sp = t.parent[s] /\ sp # x /\ sp # s
    BY <1>1, <1>14 DEF sp
  <2>8. ChildSet(v5, v6, sp, "left", x)
    BY <1>2, <1>3, <2>6, <2>7, SetChild
  <2> HIDE DEF v6
  <2>9. v6 \in TreeType /\ v6.ok = t.ok /\ v6.color = t.color /\ v6.root = IF t.root = x THEN s ELSE t.root
    BY <2>4, <2>6, <2>8 DEF ChildSet
  <2>10. /\ SamePointers(v6, u) /\ u.ok = v6.ok
         /\ \A m \in M : get_color(u, m) = get_color(t, Swapped(x, s, m))
    <3>1. ColorsCrossed(v6, u, x, s)
      BY <1>2, <2>9, CrossingColors
    <3>2. v6 \in TreeType /\ v6.color = t.color
      BY <2>9
    <3>. QED BY <1>1, <3>1, <3>2, CrossedColors DEF ColorsCrossed
  <2>11. ChangePlaces(t, x) = u
    BY <1>6, <1>14 DEF v3, v4, v5, v6
  <2> HIDE DEF u
  <2>12. ASSUME NEW r \in Sides, NEW m \in Nodes
         PROVE  Kid(u, r, m) = IF m = x THEN IF r = "left" THEN NULL_ID ELSE d
                               ELSE IF m = s THEN IF r = "left" THEN b ELSE IF s = c THEN x ELSE c
                               ELSE IF s # c /\ m = t.parent[s] /\ r = "left" THEN x
                               ELSE IF Kid(t, r, m) = x THEN s ELSE Kid(t, r, m)
    <3>1. Kid(u, r, m) = Kid(v6, r, m)
      BY <2>10 DEF SamePointers, Kid
    <3>2. Kid(v6, r, m) = IF r = "left" /\ m = sp THEN x ELSE Kid(v5, r, m)
      BY <2>8 DEF ChildSet
    <3>. QED BY <1>1, <1>2, <1>14, <2>4, <2>6, <2>7, <3>1, <3>2
  <2>13. ASSUME NEW m \in Nodes
         PROVE  u.parent[m] = IF m = x THEN IF s = c THEN s ELSE t.parent[s]
                              ELSE IF m = s THEN t.parent[x]
                              ELSE IF m = b \/ m = c THEN s
                              ELSE IF m = d THEN x ELSE t.parent[m]
    <3>1. u.parent[m] = IF m = x THEN sp ELSE v5.parent[m]
      BY <2>8, <2>10 DEF SamePointers, ChildSet
    <3>2. v5.parent[m] = IF m = s THEN t.parent[x] ELSE v4.parent[m]
      BY <1>1, <1>2, <2>4, <2>6
    <3>. QED BY <1>1, <1>2, <1>14, <2>4, <2>7, <3>1, <3>2
  <2>14. u \in TreeType /\ u.ok = t.ok /\ u.root = IF t.root = x THEN s ELSE t.root
    BY <2>9, <2>10 DEF SamePointers
  <2>. QED BY <1>1, <1>2, <2>10, <2>11, <2>12, <2>13, <2>14 DEF Exchanged, b, c, d
<1>. QED BY <1>13, <1>14

\* x has no child on side r: y, or nothing, took its place.
Removed(t, w, M, x, y, r) ==
    /\ x \in M /\ r \in Sides /\ Kid(t, r, x) = NULL_ID /\ y = Kid(t, Other(r), x)
    /\ w \in TreeType /\ w.root = IF t.root = x THEN y ELSE t.root
    /\ \A m \in Nodes, q \in Sides :
          Kid(w, q, m) = IF m = x THEN NULL_ID ELSE IF Kid(t, q, m) = x THEN y ELSE Kid(t, q, m)
    /\ \A m \in Nodes : w.parent[m] = IF m = x THEN NULL_ID ELSE IF m = y THEN t.parent[x] ELSE t.parent[m]

\* Where the pointers lead after x was taken out and its child y took its place.
LEMMA RemovedFacts ==
  ASSUME NEW t, NEW M, NEW U, Tree(t, M, U), NEW w, NEW x, NEW y, NEW r, Removed(t, w, M, x, y, r)
  PROVE  /\ t \in TreeType /\ w \in TreeType /\ M \in SUBSET Nodes /\ NULL_ID \notin M /\ x \in M
         /\ \A m \in M : m \in Nodes /\ m \in Optional
         /\ NULL_ID \in Optional /\ Other(r) \in Sides /\ \A q \in Sides : q = r \/ q = Other(r)
         /\ y \in M \cup {NULL_ID} /\ y # x /\ (y # NULL_ID => t.parent[y] = x)
         /\ U[x] = {x} \cup U[y] /\ x \notin U[y] /\ U[NULL_ID] = {}
         /\ t.root \in M \cup {NULL_ID} /\ (t.root # y \/ t.root = NULL_ID)
         /\ \A m \in M \ {x}, q \in Sides :
               /\ Kid(t, q, m) \in M \cup {NULL_ID}
               /\ Kid(t, q, m) # NULL_ID => t.parent[Kid(t, q, m)] = m /\ Kid(t, q, m) # y
               /\ Kid(t, q, m) = x => t.parent[x] = m /\ Kid(t, Other(q), m) # x
               /\ Kid(w, q, m) = IF Kid(t, q, m) = x THEN y ELSE Kid(t, q, m)
<1>1. /\ t \in TreeType /\ w \in TreeType /\ M \in SUBSET Nodes /\ NULL_ID \notin M /\ x \in M
      /\ \A m \in M : m \in Nodes /\ m \in Optional
      /\ NULL_ID \in Optional /\ U[NULL_ID] = {} /\ t.root \in M \cup {NULL_ID}
      /\ t.root # NULL_ID => t.parent[t.root] = NULL_ID
  BY RbTreeAssumption DEF Removed, Tree, Optional
<1>2. r \in Sides /\ Other(r) \in Sides /\ \A q \in Sides : q = r \/ q = Other(r)
  BY OtherSide DEF Removed
<1>3. Kid(t, r, x) = NULL_ID /\ y = Kid(t, Other(r), x)
  BY DEF Removed
<1>4. /\ Kid(t, Other(r), x) \in M \cup {NULL_ID}
      /\ U[x] = {x} \cup U[Kid(t, r, x)] \cup U[Kid(t, Other(r), x)]
      /\ x \notin U[Kid(t, Other(r), x)]
  BY <1>1, <1>2, TreeNode
<1>5. y # NULL_ID => y # x /\ t.parent[y] = x
  BY <1>1, <1>2, <1>3, TreeChild
<1>6. ASSUME NEW m \in M \ {x}, NEW q \in Sides
      PROVE  /\ Kid(t, q, m) \in M \cup {NULL_ID}
             /\ Kid(t, q, m) # NULL_ID => t.parent[Kid(t, q, m)] = m /\ Kid(t, q, m) # y
             /\ Kid(t, q, m) = x => t.parent[x] = m /\ Kid(t, Other(q), m) # x
             /\ Kid(w, q, m) = IF Kid(t, q, m) = x THEN y ELSE Kid(t, q, m)
  <2>1. Kid(t, q, m) \in M \cup {NULL_ID} /\ (Kid(t, q, m) # NULL_ID => t.parent[Kid(t, q, m)] = m)
    BY TreeNode
  <2>2. Hangs(t, x)
    BY <1>1, TreeHangs
  <2>3. Kid(t, q, m) = x => t.parent[x] = m /\ Kid(t, Other(q), m) # x
    BY <1>1, <2>2 DEF Hangs
  <2>4. Kid(w, q, m) = IF Kid(t, q, m) = x THEN y ELSE Kid(t, q, m)
    BY <1>1 DEF Removed
  <2>. QED BY <1>5, <2>1, <2>3, <2>4
<1>. QED BY <1>1, <1>2, <1>3, <1>4, <1>5, <1>6

\* What is left when x is taken out is a tree, and in order.
LEMMA RemovedInOrder ==
  ASSUME NEW t, NEW M, NEW U, Tree(t, M, U), NEW x, Ordered(t, M \ {x}, U),
         NEW w, NEW y, NEW r, Removed(t, w, M, x, y, r)
  PROVE  InOrder(w, M \ {x})
<1> DEFINE K == M \ {x}
           V == [n \in Optional |-> U[n] \ {x}]
<1>1. /\ t \in TreeType /\ w \in TreeType /\ M \in SUBSET Nodes /\ NULL_ID \notin M /\ x \in M
      /\ \A m \in M : m \in Nodes /\ m \in Optional
      /\ NULL_ID \in Optional /\ Other(r) \in Sides /\ \A q \in Sides : q = r \/ q = Other(r)
      /\ y \in M \cup {NULL_ID} /\ y # x /\ (y # NULL_ID => t.parent[y] = x)
      /\ U[x] = {x} \cup U[y] /\ x \notin U[y] /\ U[NULL_ID] = {}
      /\ t.root \in M \cup {NULL_ID} /\ (t.root # y \/ t.root = NULL_ID)
  BY RemovedFacts
<1>2. \A m \in K, q \in Sides :
         /\ Kid(t, q, m) \in M \cup {NULL_ID}
         /\ Kid(t, q, m) # NULL_ID => t.parent[Kid(t, q, m)] = m /\ Kid(t, q, m) # y
         /\ Kid(t, q, m) = x => t.parent[x] = m /\ Kid(t, Other(q), m) # x
         /\ Kid(w, q, m) = IF Kid(t, q, m) = x THEN y ELSE Kid(t, q, m)
  BY RemovedFacts
<1>3. K \in SUBSET Nodes /\ K \subseteq M /\ x \notin K /\ \A m \in M : m # x => m \in K
  BY <1>1
<1>4. /\ V \in [Optional -> SUBSET Nodes] /\ V[NULL_ID] = {} /\ \A n \in M \cup {NULL_ID} : V[n] = U[n] \ {x}
      /\ U[t.root] = M
  BY <1>1 DEF Tree
<1>5. /\ w.root = IF t.root = x THEN y ELSE t.root
      /\ \A m \in Nodes, q \in Sides :
            Kid(w, q, m) = IF m = x THEN NULL_ID ELSE IF Kid(t, q, m) = x THEN y ELSE Kid(t, q, m)
      /\ \A m \in Nodes : w.parent[m] = IF m = x THEN NULL_ID ELSE IF m = y THEN t.parent[x] ELSE t.parent[m]
  BY DEF Removed
<1> HIDE DEF K, V
<1>6. ASSUME NEW n \in K, NEW q \in Sides PROVE V[Kid(w, q, n)] = U[Kid(t, q, n)] \ {x}
  BY <1>1, <1>2, <1>4
<1>7. ASSUME NEW n \in K PROVE Fits(w, K, V, n)
  <2>1. /\ U[n] = {n} \cup U[Kid(t, r, n)] \cup U[Kid(t, Other(r), n)]
        /\ U[Kid(t, r, n)] \cap U[Kid(t, Other(r), n)] = {}
        /\ n \notin U[Kid(t, r, n)] /\ n \notin U[Kid(t, Other(r), n)]
    <3>1. n \in M /\ r \in Sides
      BY <1>3 DEF Removed
    <3>. QED BY <3>1, TreeNode
  <2>2. r \in Sides
    BY DEF Removed
  <2>3. n \in M /\ n # x /\ V[n] = U[n] \ {x}
    BY <1>3, <1>4
  <2>4. /\ V[n] = {n} \cup V[Kid(w, r, n)] \cup V[Kid(w, Other(r), n)]
        /\ V[Kid(w, r, n)] \cap V[Kid(w, Other(r), n)] = {}
        /\ n \notin V[Kid(w, r, n)] /\ n \notin V[Kid(w, Other(r), n)]
    BY <1>1, <1>6, <2>1, <2>2, <2>3
  <2>5. ASSUME NEW q \in Sides
        PROVE  /\ Kid(w, q, n) \in K \cup {NULL_ID}
               /\ Kid(w, q, n) # NULL_ID => w.parent[Kid(w, q, n)] = n
               /\ n \notin V[Kid(w, q, n)]
    <3>1. n \notin V[Kid(w, q, n)]
      BY <1>1, <2>4
    <3>2. CASE Kid(t, q, n) = x
      <4>1. Kid(w, q, n) = y /\ t.parent[x] = n
        BY <1>2, <3>2
      <4>. QED BY <1>1, <1>3, <1>5, <3>1, <4>1
    <3>3. CASE Kid(t, q, n) # x
      <4>1. Kid(w, q, n) = Kid(t, q, n)
        BY <1>2, <3>3
      <4>. QED BY <1>1, <1>2, <1>3, <1>5, <3>1, <3>3, <4>1
    <3>. QED BY <3>2, <3>3
  <2>. QED BY <2>2, <2>4, <2>5 DEF Fits
<1>8. ASSUME NEW n \in K PROVE HasPlace(w, K, n)
  <2>1. SUFFICES ASSUME n # w.root PROVE w.parent[n] \in K /\ \E q \in Sides : Kid(w, q, w.parent[n]) = n
    BY DEF HasPlace
  <2>2. \A m \in M : m # t.root => t.parent[m] \in M /\ \E q \in Sides : Kid(t, q, t.parent[m]) = m
    BY DEF Tree
  <2>3. CASE n = y
    <3>1. x # t.root /\ w.parent[n] = t.parent[x]
      BY <1>1, <1>3, <1>5, <2>1, <2>3
    <3>2. t.parent[x] \in M
      BY <1>1, <2>2, <3>1
    <3>3. PICK q \in Sides : Kid(t, q, t.parent[x]) = x
      BY <1>1, <2>2, <3>1
    <3>4. t.parent[x] # x
      BY <1>1, <3>3, TreeNode
    <3>. QED BY <1>2, <1>3, <2>3, <3>1, <3>2, <3>3, <3>4
  <2>4. CASE n # y
    <3>1. n \in M /\ n # t.root /\ n # x /\ w.parent[n] = t.parent[n]
      BY <1>1, <1>3, <1>5, <2>1, <2>4
    <3>2. PICK q \in Sides : Kid(t, q, t.parent[n]) = n
      BY <2>2, <3>1
    <3>3. t.parent[n] \in M /\ t.parent[n] # x
      <4>1. Kid(t, r, x) = NULL_ID /\ y = Kid(t, Other(r), x)
        BY DEF Removed
      <4>. QED BY <1>1, <2>2, <2>4, <3>1, <3>2, <4>1
    <3>. QED BY <1>2, <1>3, <3>1, <3>2, <3>3
  <2>. QED BY <2>3, <2>4
<1>9. ASSUME NEW n \in Nodes \ K PROVE Apart(w, n)
  <2>1. CASE n = x
    BY <1>1, <1>5, <2>1 DEF Apart
  <2>2. CASE n # x
    <3>1. n \notin M
      BY <1>3, <2>2
    <3>2. t.parent[n] = NULL_ID /\ \A q \in Sides : Kid(t, q, n) = NULL_ID
      BY <3>1 DEF Tree
    <3>3. n # y
      BY <1>1, <3>1, RbTreeAssumption
    <3>. QED BY <1>1, <1>5, <2>2, <3>2, <3>3 DEF Apart
  <2>. QED BY <2>1, <2>2
<1>10. Rooted(w, K, V)
  <2>1. t.root # NULL_ID => t.parent[t.root] = NULL_ID
    BY DEF Tree
  <2>2. CASE t.root = x
    <3>1. w.root = y /\ t.parent[x] = NULL_ID /\ V[y] = U[y] \ {x} /\ U[x] = M
      BY <1>1, <1>4, <1>5, <2>1, <2>2
    <3>2. V[y] = K
      BY <1>1, <3>1 DEF K
    <3>. QED BY <1>1, <1>3, <1>5, <3>1, <3>2 DEF Rooted
  <2>3. CASE t.root # x
    <3>1. w.root = t.root /\ V[t.root] = U[t.root] \ {x}
      BY <1>1, <1>4, <1>5, <2>3
    <3>2. V[t.root] = K
      BY <1>4, <3>1 DEF K
    <3>3. t.root # NULL_ID => t.root \in Nodes /\ t.root # y
      BY <1>1
    <3>. QED BY <1>1, <1>3, <1>5, <2>1, <2>3, <3>1, <3>2, <3>3 DEF Rooted
  <2>. QED BY <2>2, <2>3
<1>11. Tree(w, K, V)
  BY <1>1, <1>3, <1>4, <1>7, <1>8, <1>9, <1>10, TreeFrom
<1>12. Ordered(w, K, V)
  <2>1. \A n \in K, q \in Sides : Below(t, K, U, n, q)
    BY <1>1, <1>3, OrderedSides DEF K
  <2>2. \A n \in K, q \in Sides : Below(w, K, V, n, q)
    BY <1>6, <2>1 DEF Below
  <2>. QED BY <1>1, <1>3, <2>2, OrderedSides
<1>. QED BY <1>11, <1>12 DEF InOrder, K

\* What stays of the colours: an only child comes up black.
KeptColors(t, w, M, x, y) ==
    /\ \A m \in M \ {x} : get_color(w, m) = IF m = y THEN "black" ELSE get_color(t, m)
    /\ get_color(w, NULL_ID) = "black"

\* The black heights of a tree that is red and black
LEMMA SettledHeights ==
  ASSUME NEW t \in TreeType, NEW M \in SUBSET Nodes, NEW H, Settled(t, M, H)
  PROVE  /\ H \in [Optional -> Nat] /\ H[NULL_ID] = 0
         /\ \A n \in M, r \in Sides : H[n] = H[Kid(t, r, n)] + Blacks(t, n)
<1>1. Balanced(t, M, H, NULL_ID, "left")
  BY DEF Settled
<1>. QED BY <1>1, BalancedHeights

\* A node with one child at most is black over a red leaf, or alone.
LEMMA OnlyChild ==
  ASSUME NEW t, NEW M, NEW U, Tree(t, M, U), NEW H, Settled(t, M, H),
         NEW x \in M, NEW r \in Sides, Kid(t, r, x) = NULL_ID, NEW y, y = Kid(t, Other(r), x),
         y # NULL_ID
  PROVE  /\ get_color(t, x) = "black" /\ get_color(t, y) = "red" /\ H[y] = 0 /\ H[x] = 1
         /\ \A q \in Sides : Kid(t, q, y) = NULL_ID
<1>1. /\ t \in TreeType /\ M \in SUBSET Nodes /\ \A m \in M : m \in Nodes /\ m \in Optional
      /\ NULL_ID \in Optional /\ x \in Nodes /\ Other(r) \in Sides /\ NULL_ID \notin M
  BY OtherSide, RbTreeAssumption DEF Tree, Optional
<1>2. y \in M /\ \A q \in Sides : Kid(t, q, y) \in M \cup {NULL_ID}
  BY <1>1, TreeNode
<1>3. /\ H \in [Optional -> Nat] /\ H[NULL_ID] = 0
      /\ \A n \in M, q \in Sides : H[n] = H[Kid(t, q, n)] + Blacks(t, n)
  BY <1>1, SettledHeights
<1>4. \A m \in M : get_color(t, m) \in Colors
  BY <1>1, ColorIs
<1>5. H[x] = Blacks(t, x) /\ H[x] = H[y] + Blacks(t, x) /\ H[y] \in Nat
  BY <1>1, <1>2, <1>3 DEF Blacks
<1>6. H[y] = 0
  BY <1>5 DEF Blacks
<1>7. ASSUME NEW q \in Sides
      PROVE  H[Kid(t, q, y)] = 0 /\ Blacks(t, y) = 0
  <2>1. H[y] = H[Kid(t, q, y)] + Blacks(t, y) /\ H[Kid(t, q, y)] \in Nat
    BY <1>1, <1>2, <1>3
  <2>. QED BY <1>6, <2>1 DEF Blacks
<1>8. get_color(t, y) = "red"
  BY <1>1, <1>2, <1>4, <1>7 DEF Blacks, Colors
<1>9. get_color(t, x) = "black"
  <2>1. get_color(t, x) # "red"
    BY <1>1, <1>8 DEF Settled, RedsApart
  <2>. QED BY <1>4, <2>1 DEF Colors
<1>10. ASSUME NEW q \in Sides, Kid(t, q, y) # NULL_ID PROVE FALSE
  <2> DEFINE k == Kid(t, q, y)
  <2>1. k \in M /\ get_color(t, k) # "red"
    BY <1>2, <1>8, <1>10 DEF Settled, RedsApart
  <2>2. H[k] = H[Kid(t, q, k)] + Blacks(t, k) /\ H[k] = 0
    BY <1>3, <1>7, <2>1
  <2> HIDE DEF k
  <2>3. Kid(t, q, k) \in Optional
    BY <1>1, <2>1, TreeNode
  <2>4. H[Kid(t, q, k)] \in Nat /\ Blacks(t, k) = 1
    BY <1>3, <1>4, <2>1, <2>3 DEF Blacks, Colors
  <2>. QED BY <2>2, <2>4
<1>. QED BY <1>5, <1>6, <1>8, <1>9, <1>10 DEF Blacks

\* No red node under a red one is left, and the root is black.
LEMMA RemovedApart ==
  ASSUME NEW t, NEW M, NEW U, Tree(t, M, U), NEW H, Settled(t, M, H),
         NEW w, NEW x, NEW y, NEW r, Removed(t, w, M, x, y, r), KeptColors(t, w, M, x, y)
  PROVE  RedsApart(w, M \ {x}, NULL_ID) /\ get_color(w, w.root) = "black"
<1>1. /\ t \in TreeType /\ w \in TreeType /\ M \in SUBSET Nodes /\ NULL_ID \notin M /\ x \in M
      /\ y \in M \cup {NULL_ID} /\ y # x
      /\ t.root \in M \cup {NULL_ID} /\ (t.root # y \/ t.root = NULL_ID)
  BY RemovedFacts
<1>2. \A m \in M \ {x}, q \in Sides :
         /\ Kid(t, q, m) \in M \cup {NULL_ID}
         /\ Kid(t, q, m) # NULL_ID => t.parent[Kid(t, q, m)] = m /\ Kid(t, q, m) # y
         /\ Kid(t, q, m) = x => t.parent[x] = m /\ Kid(t, Other(q), m) # x
         /\ Kid(w, q, m) = IF Kid(t, q, m) = x THEN y ELSE Kid(t, q, m)
  BY RemovedFacts
<1>3. /\ \A m \in M \ {x} : get_color(w, m) = IF m = y THEN "black" ELSE get_color(t, m)
      /\ get_color(w, NULL_ID) = "black" /\ get_color(t, NULL_ID) = "black"
  BY <1>1, ColorIs DEF KeptColors
<1>4. w.root = IF t.root = x THEN y ELSE t.root
  BY DEF Removed
<1>5. get_color(w, y) = "black"
  BY <1>1, <1>3
<1>6. RedsApart(w, M \ {x}, NULL_ID)
  <2>1. SUFFICES ASSUME NEW m \in M \ {x}, NEW q \in Sides,
                        get_color(w, m) = "red", get_color(w, Kid(w, q, m)) = "red"
                 PROVE  FALSE
    BY DEF RedsApart
  <2>2. Kid(t, q, m) # x
    BY <1>2, <1>5, <2>1
  <2>3. Kid(w, q, m) = Kid(t, q, m) /\ Kid(t, q, m) \in M
    BY <1>2, <1>3, <2>1, <2>2
  <2>4. get_color(t, m) = "red" /\ get_color(t, Kid(t, q, m)) = "red"
    BY <1>3, <2>1, <2>2, <2>3
  <2>. QED BY <1>1, <2>3, <2>4 DEF Settled, RedsApart
<1>7. get_color(w, w.root) = "black"
  <2>1. get_color(t, t.root) = "black"
    BY DEF Settled
  <2>. QED BY <1>1, <1>3, <1>4, <1>5, <2>1
<1>. QED BY <1>6, <1>7

\* The black heights afterwards, with what a black node that left no child leaves behind
LEMMA RemovedBalance ==
  ASSUME NEW t, NEW M, NEW U, Tree(t, M, U), NEW H, Settled(t, M, H),
         NEW w, NEW x, NEW y, NEW r, Removed(t, w, M, x, y, r), KeptColors(t, w, M, x, y)
  PROVE  \E I : /\ I \in [Optional -> Nat] /\ I[NULL_ID] = 0
                /\ \A n \in M \ {x}, q \in Sides :
                      I[n] = I[Kid(w, q, n)] + Blacks(w, n)
                              + IF Kid(t, q, n) = x /\ y = NULL_ID /\ get_color(t, x) = "black" THEN 1 ELSE 0
<1> DEFINE I == [H EXCEPT ![y] = IF y = NULL_ID THEN 0 ELSE 1]
<1>1. /\ t \in TreeType /\ w \in TreeType /\ M \in SUBSET Nodes /\ NULL_ID \notin M /\ x \in M
      /\ \A m \in M : m \in Nodes /\ m \in Optional
      /\ NULL_ID \in Optional
      /\ y \in M \cup {NULL_ID} /\ y # x
  BY RemovedFacts
<1>2. \A m \in M \ {x}, q \in Sides :
         /\ Kid(t, q, m) \in M \cup {NULL_ID}
         /\ Kid(t, q, m) # NULL_ID => t.parent[Kid(t, q, m)] = m /\ Kid(t, q, m) # y
         /\ Kid(t, q, m) = x => t.parent[x] = m /\ Kid(t, Other(q), m) # x
         /\ Kid(w, q, m) = IF Kid(t, q, m) = x THEN y ELSE Kid(t, q, m)
  BY RemovedFacts
<1>3. r \in Sides /\ Kid(t, r, x) = NULL_ID /\ y = Kid(t, Other(r), x)
  BY DEF Removed
<1>4. /\ H \in [Optional -> Nat] /\ H[NULL_ID] = 0
      /\ \A n \in M, q \in Sides : H[n] = H[Kid(t, q, n)] + Blacks(t, n)
  <2>1. t \in TreeType /\ M \in SUBSET Nodes
    BY <1>1
  <2>. QED BY <2>1, SettledHeights, ZenonT(30)
<1>5. y # NULL_ID => /\ H[x] = 1 /\ \A q \in Sides : Kid(t, q, y) = NULL_ID
  BY <1>1, <1>3, OnlyChild
<1>6. y = NULL_ID => H[x] = Blacks(t, x)
  BY <1>1, <1>3, <1>4 DEF Blacks
<1>7. /\ I \in [Optional -> Nat] /\ I[NULL_ID] = 0 /\ (y # NULL_ID => I[y] = 1)
      /\ \A m \in Optional : m # y => I[m] = H[m]
  BY <1>1, <1>4
<1> HIDE DEF I
<1>8. \A m \in M \ {x} : Blacks(w, m) = IF m = y THEN 1 ELSE Blacks(t, m)
  BY DEF KeptColors, Blacks
<1>9. ASSUME NEW n \in M \ {x}, NEW q \in Sides
      PROVE  I[n] = I[Kid(w, q, n)] + Blacks(w, n)
                     + IF Kid(t, q, n) = x /\ y = NULL_ID /\ get_color(t, x) = "black" THEN 1 ELSE 0
  <2>1. CASE n = y
    <3>1. Kid(t, q, n) = NULL_ID /\ y # NULL_ID
      BY <1>1, <1>5, <2>1
    <3>2. Kid(w, q, n) = NULL_ID /\ Kid(t, q, n) # x
      BY <1>1, <1>2, <3>1
    <3>. QED BY <1>7, <1>8, <2>1, <3>1, <3>2
  <2>2. CASE n # y
    <3>1. /\ I[n] = H[n] /\ H[n] = H[Kid(t, q, n)] + Blacks(t, n) /\ Blacks(w, n) = Blacks(t, n)
          /\ Blacks(t, n) \in Nat /\ Blacks(t, x) = (IF get_color(t, x) = "black" THEN 1 ELSE 0)
      BY <1>1, <1>4, <1>7, <1>8, <2>2 DEF Blacks
    <3>2. CASE Kid(t, q, n) = x
      <4>1. Kid(w, q, n) = y
        BY <1>2, <3>2
      <4>. QED BY <1>5, <1>6, <1>7, <3>1, <3>2, <4>1
    <3>3. CASE Kid(t, q, n) # x
      <4>1. Kid(w, q, n) = Kid(t, q, n) /\ Kid(t, q, n) \in M \cup {NULL_ID}
        BY <1>2, <3>3
      <4>2. I[Kid(t, q, n)] = H[Kid(t, q, n)]
        BY <1>1, <1>2, <1>4, <1>7, <4>1
      <4>3. H[Kid(t, q, n)] \in Nat
        BY <1>1, <1>4, <4>1
      <4>. QED BY <3>1, <3>3, <4>1, <4>2, <4>3
    <3>. QED BY <3>2, <3>3
  <2>. QED BY <2>1, <2>2
<1>. QED BY <1>7, <1>9

\* What delete leaves of a tree whose node x Unhook took out
Left(v, x) == [Fresh(v, x) EXCEPT !.color[x] = "black"]
ChildBlack(t, t2, M, y) ==
    /\ SamePointers(t, t2) /\ t2.ok = t.ok
    /\ \A m \in M : get_color(t2, m) = IF m = y THEN "black" ELSE get_color(t, m)

\* What the code does when x has one child at most is to take x out in this sense.
LEMMA UnhookedIs ==
  ASSUME NEW t, NEW M, NEW U, Tree(t, M, U), NEW x \in M, NEW r \in Sides, Kid(t, r, x) = NULL_ID,
         NEW y, y = Kid(t, Other(r), x), NEW t2, ChildBlack(t, t2, M, y)
  PROVE  LET w == Left(replace(t2, x, y), x)
         IN  Removed(t, w, M, x, y, r) /\ KeptColors(t, w, M, x, y) /\ w.ok = t.ok
<1> DEFINE v == replace(t2, x, y)
           w == Left(v, x)
<1>1. /\ t \in TreeType /\ t2 \in TreeType /\ x \in Nodes /\ NULL_ID \in Optional /\ M \in SUBSET Nodes
      /\ SamePointers(t, t2) /\ t2.root = t.root /\ t2.parent = t.parent /\ t2.ok = t.ok
      /\ \A m \in M : get_color(t2, m) = IF m = y THEN "black" ELSE get_color(t, m)
  BY DEF Tree, SamePointers, Optional, ChildBlack
<1>2. y \in Optional
  BY OtherSide, TreeNode
<1>3. \A q, m : Kid(t2, q, m) = Kid(t, q, m)
  BY <1>1, TreeRecolored
<1>4. Hangs(t2, x)
  <2>1. Hangs(t, x)
    BY TreeHangs
  <2>. QED BY <1>1, <1>3, <2>1 DEF Hangs
<1>5. /\ v \in TreeType /\ v.ok = t2.ok /\ v.color = t2.color
      /\ v.root = IF t2.root = x THEN y ELSE t2.root
      /\ \A q \in Sides, m \in Nodes : Kid(v, q, m) = IF Kid(t2, q, m) = x THEN y ELSE Kid(t2, q, m)
      /\ \A m \in Nodes : v.parent[m] = IF m = y THEN t2.parent[x] ELSE t2.parent[m]
  BY <1>1, <1>2, <1>4, Replace
<1> HIDE DEF v
<1>6. /\ w.root = v.root /\ w.ok = v.ok
      /\ w.parent = [v.parent EXCEPT ![x] = NULL_ID]
      /\ w.left = [v.left EXCEPT ![x] = NULL_ID]
      /\ w.right = [v.right EXCEPT ![x] = NULL_ID]
      /\ w.color = [[v.color EXCEPT ![x] = "red"] EXCEPT ![x] = "black"]
      /\ w \in TreeType
  <2> DEFINE f == Fresh(v, x)
  <2>1. /\ f.root = v.root /\ f.ok = v.ok
        /\ f.parent = [v.parent EXCEPT ![x] = NULL_ID]
        /\ f.left = [v.left EXCEPT ![x] = NULL_ID]
        /\ f.right = [v.right EXCEPT ![x] = NULL_ID]
        /\ f.color = [v.color EXCEPT ![x] = "red"]
    BY <1>5 DEF Fresh, TreeType
  <2>2. f \in TreeType
    BY <1>1, <1>5 DEF Fresh, TreeType, Colors
  <2>3. w = [f EXCEPT !.color[x] = "black"]
    BY DEF Left
  <2> HIDE DEF f, w
  <2>4. /\ w.root = f.root /\ w.ok = f.ok /\ w.parent = f.parent /\ w.left = f.left /\ w.right = f.right
        /\ w.color = [f.color EXCEPT ![x] = "black"]
    BY <2>2, <2>3 DEF TreeType
  <2>5. w \in TreeType
    BY <1>1, <2>2, <2>3 DEF TreeType, Colors
  <2>. QED BY <2>1, <2>4, <2>5
<1> HIDE DEF w
<1>7. \A m \in Nodes, q \in Sides :
         Kid(w, q, m) = IF m = x THEN NULL_ID ELSE IF Kid(t, q, m) = x THEN y ELSE Kid(t, q, m)
  <2>1. \A m \in Nodes, q \in Sides : Kid(w, q, m) = IF m = x THEN NULL_ID ELSE Kid(v, q, m)
    <3>1. v.left \in [Nodes -> Optional] /\ v.right \in [Nodes -> Optional]
      BY <1>5 DEF TreeType
    <3>. QED BY <1>6, <3>1 DEF Kid
  <2>. QED BY <1>3, <1>5, <2>1
<1>8. \A m \in Nodes : w.parent[m] = IF m = x THEN NULL_ID ELSE IF m = y THEN t.parent[x] ELSE t.parent[m]
  <2>1. v.parent \in [Nodes -> Optional]
    BY <1>5 DEF TreeType
  <2>2. \A m \in Nodes : w.parent[m] = IF m = x THEN NULL_ID ELSE v.parent[m]
    BY <1>6, <2>1
  <2>. QED BY <1>1, <1>5, <2>2
<1>9. Removed(t, w, M, x, y, r)
  BY <1>1, <1>5, <1>6, <1>7, <1>8 DEF Removed
<1>10. KeptColors(t, w, M, x, y)
  <2>1. \A m \in Nodes : m # x => w.color[m] = t2.color[m]
    <3>1. t2.color \in [Nodes -> Colors]
      BY <1>1 DEF TreeType
    <3>. QED BY <1>5, <1>6, <3>1
  <2>2. \A m \in Nodes : get_color(w, m) = w.color[m] /\ get_color(t2, m) = t2.color[m]
    BY <1>1, <1>6, ColorIs
  <2>3. get_color(w, NULL_ID) = "black"
    BY DEF get_color
  <2>4. \A m \in M \ {x} : m \in Nodes /\ m \in M /\ m # x
    BY <1>1
  <2>. QED BY <1>1, <2>1, <2>2, <2>3, <2>4 DEF KeptColors
<1>. QED BY <1>1, <1>5, <1>6, <1>9, <1>10 DEF v, w

\* bst_internal_delete of a node that has one child at most
LEMMA UnhookIs ==
  ASSUME NEW t, NEW M, NEW U, Tree(t, M, U), NEW H, Settled(t, M, H), t.ok, NEW x \in M,
         NEW r \in Sides, Kid(t, r, x) = NULL_ID, NEW y, y = Kid(t, Other(r), x)
  PROVE  LET w == Left(Unhook(t, x), x)
         IN  /\ Removed(t, w, M, x, y, r) /\ KeptColors(t, w, M, x, y) /\ w.ok
             /\ db_parent(t, x) = IF y = NULL_ID /\ get_color(t, x) = "black" THEN t.parent[x] ELSE NULL_ID
<1>1. /\ t \in TreeType /\ x \in Nodes /\ NULL_ID \notin M /\ \A m \in M : m \in Nodes /\ m \in Optional
      /\ y \in M \cup {NULL_ID}
  <2>1. /\ t \in TreeType /\ x \in Nodes /\ NULL_ID \notin M /\ \A m \in M : m \in Nodes /\ m \in Optional
    BY RbTreeAssumption DEF Tree, Optional
  <2>2. y \in M \cup {NULL_ID}
    BY OtherSide, TreeNode
  <2>. QED BY <2>1, <2>2
<1>2. \A m \in Nodes : Children(t, m) = {Kid(t, "left", m), Kid(t, "right", m)} \ {NULL_ID}
  BY DEF Children, Kid
<1>3. Children(t, x) = {y} \ {NULL_ID}
  <2>1. {Kid(t, "left", x), Kid(t, "right", x)} = {NULL_ID, y}
    BY DEF Sides, Other
  <2>. QED BY <1>1, <1>2, <2>1
<1>4. CASE y = NULL_ID
  <2>1. Unhook(t, x) = replace(t, x, y) /\ Children(t, x) = {}
    BY <1>3, <1>4 DEF Unhook
  <2>2. ChildBlack(t, t, M, y)
    BY <1>1, <1>4 DEF SamePointers, ChildBlack
  <2>4. LET w == Left(replace(t, x, y), x)
        IN  Removed(t, w, M, x, y, r) /\ KeptColors(t, w, M, x, y) /\ w.ok = t.ok
    BY <2>2, UnhookedIs
  <2>5. db_parent(t, x) = IF y = NULL_ID /\ get_color(t, x) = "black" THEN t.parent[x] ELSE NULL_ID
    BY <1>4, <2>1 DEF db_parent
  <2>. QED BY <2>1, <2>4, <2>5
<1>5. CASE y # NULL_ID
  <2> DEFINE t2 == set_color(t, y, "black")
  <2>1. get_color(t, x) = "black" /\ get_color(t, y) = "red" /\ \A q \in Sides : Kid(t, q, y) = NULL_ID
    BY <1>5, OnlyChild
  <2>2. Children(t, x) = {y} /\ Children(t, y) = {} /\ y \in Nodes
    <3>1. Kid(t, "left", y) = NULL_ID /\ Kid(t, "right", y) = NULL_ID /\ y \in Nodes
      BY <1>1, <1>5, <2>1 DEF Sides
    <3>. QED BY <1>2, <1>3, <1>5, <3>1
  <2>3. (CHOOSE child \in Children(t, x) : TRUE) = y
    BY <2>2
  <2>4. Require(t, /\ get_color(t, x) = "black" /\ get_color(t, y) = "red" /\ Children(t, y) = {}) = t
    <3>1. (/\ get_color(t, x) = "black" /\ get_color(t, y) = "red" /\ Children(t, y) = {}) = TRUE
      BY <2>1, <2>2
    <3>. QED BY <1>1, <3>1, RequireHolds
  <2>5. Unhook(t, x) = replace(t2, x, y)
    BY <2>2, <2>3, <2>4 DEF Unhook
  <2>6. /\ SamePointers(t, t2) /\ t2.ok = t.ok
        /\ \A m \in Nodes : get_color(t2, m) = IF m = y THEN "black" ELSE get_color(t, m)
    <3>1. y \in Optional /\ t \in TreeType /\ "black" \in Colors
      BY <1>1, <2>2 DEF Optional, Colors
    <3>. QED BY <3>1, SetColorIs, ZenonT(30)
  <2> HIDE DEF t2
  <2>7. ChildBlack(t, t2, M, y)
    BY <1>1, <2>6 DEF ChildBlack
  <2>8. LET w == Left(replace(t2, x, y), x)
        IN  Removed(t, w, M, x, y, r) /\ KeptColors(t, w, M, x, y) /\ w.ok = t.ok
    BY <2>7, UnhookedIs
  <2>9. db_parent(t, x) = IF y = NULL_ID /\ get_color(t, x) = "black" THEN t.parent[x] ELSE NULL_ID
    BY <1>5, <2>2 DEF db_parent
  <2>. QED BY <2>5, <2>8, <2>9
<1>. QED BY <1>4, <1>5

\* x can be taken out: it has one child at most, and the rest is in order.
Unhookable(t, M, x) ==
    /\ t.ok /\ x \in M /\ \E r \in Sides : Kid(t, r, x) = NULL_ID
    /\ \E U : Tree(t, M, U) /\ Ordered(t, M \ {x}, U)
    /\ \E H : Settled(t, M, H)

\* bst_delete counts the children of x to know whether it has two.
LEMMA TwoChildren ==
  ASSUME NEW t, NEW M, NEW U, Tree(t, M, U), NEW x \in M
  PROVE  Cardinality(Children(t, x)) = 2 <=> Kid(t, "left", x) # NULL_ID /\ Kid(t, "right", x) # NULL_ID
<1> DEFINE a == Kid(t, "left", x)
           b == Kid(t, "right", x)
<1>1. Children(t, x) = {a, b} \ {NULL_ID}
  BY DEF Children, Kid
<1>2. "left" \in Sides /\ "right" \in Sides /\ Other("left") = "right"
  BY DEF Sides, Other
<1>3. a # NULL_ID => a # b
  BY <1>2, TreeChild
<1> HIDE DEF a, b
<1>4. CASE a # NULL_ID /\ b # NULL_ID
  <2>1. Children(t, x) = {a} \cup {b} /\ b \notin {a}
    BY <1>1, <1>3, <1>4
  <2>2. IsFiniteSet({a}) /\ Cardinality({a}) = 1
    BY FS_Singleton
  <2>3. Cardinality({a} \cup {b}) = Cardinality({a}) + 1
    BY <2>1, <2>2, FS_AddElement
  <2>. QED BY <1>4, <2>1, <2>2, <2>3 DEF a, b
<1>5. CASE ~(a # NULL_ID /\ b # NULL_ID)
  <2>1. Children(t, x) = {} \/ Children(t, x) = {a} \/ Children(t, x) = {b}
    BY <1>1, <1>5
  <2>2. Cardinality({}) = 0 /\ Cardinality({a}) = 1 /\ Cardinality({b}) = 1
    BY FS_Singleton, FS_EmptySet
  <2>3. Cardinality(Children(t, x)) # 2
    BY <2>1, <2>2
  <2>. QED BY <1>5, <2>3 DEF a, b
<1>. QED BY <1>4, <1>5

\* In its new place x has one child at most.
LEMMA PlacesChangedUnhookable ==
  ASSUME NEW t, NEW M, NEW U, Tree(t, M, U), Ordered(t, M, U), NEW H, Settled(t, M, H), t.ok,
         NEW x \in M, Kid(t, "left", x) # NULL_ID, Kid(t, "right", x) # NULL_ID
  PROVE  Unhookable(ChangePlaces(t, x), M, x)
<1> DEFINE c == Kid(t, "right", x)
           s == Leftmost(t, c)
           u == ChangePlaces(t, x)
           V == [n \in Optional |-> {m \in M : Swapped(x, s, m) \in U[Swapped(x, s, n)]}]
<1>1. c \in M
  BY OtherSide, TreeChild
<1>2. FirstUnder(t, U, c, s)
  BY <1>1, LeftmostFound
<1>3. /\ s \in U[c] /\ Kid(t, "left", s) = NULL_ID /\ (s # c => Kid(t, "left", t.parent[s]) = s)
      /\ \A m \in U[c] : Key[s] <= Key[m]
  BY <1>2 DEF FirstUnder
<1>4. s \in M
  BY <1>1, <1>3, TreeNested
<1>5. Exchanges(t, M, U, x, s)
  BY <1>3 DEF Exchanges
<1>6. Exchanged(t, u, x, s) /\ \A m \in M : get_color(u, m) = get_color(t, Swapped(x, s, m))
  BY <1>5, ChangePlacesIs
<1> HIDE DEF u, s
<1>7. PlacesChanged(t, u, M, x, s)
  BY <1>5, <1>6, ExchangedPlaces
<1>8. Tree(u, M, V)
  BY <1>4, <1>7, ChangedTree
<1>9. Ordered(u, M \ {x}, V)
  BY <1>3, <1>4, <1>7, ChangedOrder
<1>10. \E G : Settled(u, M, G)
  BY <1>4, <1>7, ChangedColors
<1>11. u.ok /\ Kid(u, "left", x) = NULL_ID /\ "left" \in Sides
  <2>1. x \in Nodes /\ "left" \in Sides
    BY DEF Tree, Sides
  <2>. QED BY <1>6, <2>1 DEF Exchanged
<1> HIDE DEF V
<1>. QED BY <1>8, <1>9, <1>10, <1>11 DEF Unhookable, u

\* However many children x had, it can be taken out afterwards.
LEMMA PlacedUnhookable ==
  ASSUME NEW t, NEW M, NEW U, Tree(t, M, U), Ordered(t, M, U), NEW H, Settled(t, M, H), t.ok, NEW x \in M
  PROVE  Unhookable(IF Cardinality(Children(t, x)) = 2 THEN ChangePlaces(t, x) ELSE t, M, x)
<1>1. CASE Cardinality(Children(t, x)) = 2
  BY <1>1, TwoChildren, PlacesChangedUnhookable
<1>2. CASE Cardinality(Children(t, x)) # 2
  <2>1. \E r \in Sides : Kid(t, r, x) = NULL_ID
    BY <1>2, TwoChildren DEF Sides
  <2>2. Ordered(t, M \ {x}, U)
    BY DEF Ordered
  <2>. QED BY <1>2, <2>1, <2>2 DEF Unhookable
<1>. QED BY <1>1, <1>2

\* What bst_internal_delete leaves: a tree that is red and black, or lacks one black under p
LEMMA UnhookedSettles ==
  ASSUME NEW t, NEW M, NEW x, Unhookable(t, M, x)
  PROVE  LET w == Left(Unhook(t, x), x)
             p == db_parent(t, x)
         IN  /\ w.ok /\ InOrder(w, M \ {x}) /\ p \in Optional
             /\ p = NULL_ID => \E I : Settled(w, M \ {x}, I)
             /\ p # NULL_ID => \E I : Deficient(w, M \ {x}, I, NULL_ID, p)
<1> DEFINE w == Left(Unhook(t, x), x)
           p == db_parent(t, x)
           K == M \ {x}
<1>1. PICK r \in Sides : Kid(t, r, x) = NULL_ID
  BY DEF Unhookable
<1>2. PICK U : Tree(t, M, U) /\ Ordered(t, M \ {x}, U)
  BY DEF Unhookable
<1>3. PICK H : Settled(t, M, H)
  BY DEF Unhookable
<1> DEFINE y == Kid(t, Other(r), x)
           hole == y = NULL_ID /\ get_color(t, x) = "black"
<1>4. t.ok /\ x \in M
  BY DEF Unhookable
<1>5. /\ Removed(t, w, M, x, y, r) /\ KeptColors(t, w, M, x, y) /\ w.ok
      /\ p = IF hole THEN t.parent[x] ELSE NULL_ID
  BY <1>1, <1>2, <1>3, <1>4, UnhookIs
<1> HIDE DEF w, p, y
<1>6. InOrder(w, K)
  BY <1>2, <1>5, RemovedInOrder
<1>7. RedsApart(w, K, NULL_ID) /\ get_color(w, w.root) = "black"
  BY <1>2, <1>3, <1>5, RemovedApart
<1>8. PICK I : /\ I \in [Optional -> Nat] /\ I[NULL_ID] = 0
               /\ \A n \in M \ {x}, q \in Sides :
                     I[n] = I[Kid(w, q, n)] + Blacks(w, n)
                             + IF Kid(t, q, n) = x /\ y = NULL_ID /\ get_color(t, x) = "black" THEN 1 ELSE 0
  BY <1>2, <1>3, <1>5, RemovedBalance
<1>9. /\ t \in TreeType /\ w \in TreeType /\ M \in SUBSET Nodes /\ NULL_ID \notin M /\ x \in M
      /\ \A m \in M : m \in Nodes /\ m \in Optional
      /\ NULL_ID \in Optional /\ U[NULL_ID] = {}
      /\ U[x] = {x} \cup U[y]
  BY <1>2, <1>5, RemovedFacts
<1>10. \A m \in M \ {x}, q \in Sides :
          /\ Kid(t, q, m) = x => t.parent[x] = m /\ Kid(t, Other(q), m) # x
          /\ Kid(w, q, m) = IF Kid(t, q, m) = x THEN y ELSE Kid(t, q, m)
          /\ Kid(w, q, m) \in Optional
  <2>1. \A m \in M \ {x}, q \in Sides : Kid(w, q, m) \in Optional
    BY <1>9, KidIs
  <2>. QED BY <1>2, <1>5, <2>1, RemovedFacts
<1>11. \A m \in K, q \in Sides : /\ I[Kid(w, q, m)] \in Nat /\ Blacks(w, m) \in Nat
                                 /\ I[Kid(w, q, m)] + Blacks(w, m) + 0 = I[Kid(w, q, m)] + Blacks(w, m)
                                 /\ I[Kid(w, q, m)] + Blacks(w, m) + 1 = I[Kid(w, q, m)] + 1 + Blacks(w, m)
  BY <1>8, <1>10 DEF Blacks
<1>12. CASE ~hole
  <2>1. p = NULL_ID
    BY <1>5, <1>12
  <2>2. \A n \in K, q \in Sides : I[n] = I[Kid(w, q, n)] + Blacks(w, n)
    BY <1>8, <1>11, <1>12
  <2>3. Balanced(w, K, I, NULL_ID, "left")
    <3>1. K \in SUBSET Nodes
      BY <1>9
    <3> HIDE DEF K
    <3>. QED BY <1>8, <1>9, <2>2, <3>1, NoDeficit
  <2>. QED BY <1>5, <1>6, <1>7, <1>9, <2>1, <2>3 DEF Settled, w, p
<1>13. CASE hole /\ t.root = x
  <2>1. p = NULL_ID /\ w.root = NULL_ID
    BY <1>2, <1>4, <1>5, <1>13, RbTreeAssumption DEF Tree, Removed
  <2>2. K = {}
    BY <1>2, <1>9, <1>13 DEF Tree
  <2>3. Balanced(w, K, I, NULL_ID, "left")
    BY <1>8, <2>2 DEF Balanced
  <2>. QED BY <1>5, <1>6, <1>7, <1>9, <2>1, <2>3 DEF Settled, w, p
<1>14. CASE hole /\ t.root # x
  <2>1. p = t.parent[x] /\ t.parent[x] \in M /\ \E q \in Sides : Kid(t, q, t.parent[x]) = x
    BY <1>2, <1>4, <1>5, <1>14 DEF Tree
  <2>2. PICK q \in Sides : Kid(t, q, p) = x
    BY <2>1
  <2>3. p \in K
    <3>1. ASSUME p = x PROVE FALSE
      <4>1. Kid(t, q, x) = x /\ Kid(t, q, x) # NULL_ID
        BY <1>9, <2>2, <3>1
      <4>. QED BY <1>2, <1>9, <4>1, TreeChild
    <3>. QED BY <2>1, <3>1
  <2>4. w.root # NULL_ID
    <3>1. w.root = t.root
      BY <1>14, <1>5 DEF Removed
    <3>2. t.root # NULL_ID
      BY <1>2, <1>4, <1>9 DEF Tree
    <3>. QED BY <3>1, <3>2
  <2>5. Kid(w, q, p) = NULL_ID
    BY <1>10, <1>14, <2>2, <2>3
  <2>6. ASSUME NEW n \in K, NEW a \in Sides
        PROVE  (Kid(t, a, n) = x) <=> (n = p /\ a = q)
    <3>1. a = q \/ a = Other(q)
      BY OtherSide
    <3>. QED BY <1>10, <2>1, <2>2, <2>3, <3>1
  <2>7. ASSUME NEW n \in K, NEW a \in Sides
        PROVE  I[n] = I[Kid(w, a, n)] + (IF n = p /\ a = q THEN 1 ELSE 0) + Blacks(w, n)
    <3>1. I[n] = I[Kid(w, a, n)] + Blacks(w, n) + (IF n = p /\ a = q THEN 1 ELSE 0)
      BY <1>8, <1>14, <2>6
    <3>2. I[Kid(w, a, n)] \in Nat /\ Blacks(w, n) \in Nat
      BY <1>11
    <3>. QED BY <3>1, <3>2
  <2>8. Balanced(w, K, I, p, q)
    BY <1>8, <2>7 DEF Balanced
  <2>9. get_color(w, NULL_ID) = "black"
    BY <1>5 DEF KeptColors
  <2>10. Deficient(w, K, I, NULL_ID, p)
    BY <1>7, <2>3, <2>4, <2>5, <2>8, <2>9 DEF Deficient
  <2>11. p \in Optional /\ p # NULL_ID
    BY <1>9, <2>3
  <2>. QED BY <1>5, <1>6, <2>10, <2>11 DEF w, p
<1>. QED BY <1>12, <1>13, <1>14

\* rbt_delete up to its first look at the double black node.
LEMMA DeleteKeeps ==
  ASSUME RbInv, NEW x \in Nodes, delete(x)
  PROVE  RbInv'
<1> DEFINE u == IF Cardinality(Children(tree, x)) = 2 THEN ChangePlaces(tree, x) ELSE tree
           w == Left(Unhook(u, x), x)
           p == db_parent(u, x)
<1>1. /\ x \in members /\ tree' = w /\ members' = members \ {x}
      /\ pc' = IF p = NULL_ID THEN "idle" ELSE "rebalance"
      /\ cursor' = [n |-> NULL_ID, db |-> NULL_ID, p |-> p]
  BY DEF delete, Left
<1>2. PICK U : Tree(tree, members, U) /\ Ordered(tree, members, U)
  BY DEF RbInv, InOrder
<1>3. PICK H : Settled(tree, members, H)
  BY DEF RbInv, delete
<1>4. Unhookable(u, members, x)
  BY <1>1, <1>2, <1>3, PlacedUnhookable DEF RbInv
<1> HIDE DEF u
<1>5. /\ w.ok /\ InOrder(w, members \ {x}) /\ p \in Optional
      /\ p = NULL_ID => \E I : Settled(w, members \ {x}, I)
      /\ p # NULL_ID => \E I : Deficient(w, members \ {x}, I, NULL_ID, p)
  BY <1>4, UnhookedSettles
<1> HIDE DEF w, p
<1>6. cursor' \in [n : Optional, db : Optional, p : Optional] /\ cursor'.db = NULL_ID /\ cursor'.p = p
  BY <1>1, <1>5 DEF Optional
<1>. QED BY <1>1, <1>5, <1>6 DEF RbInv

-----------------------------------------------------------------------------
(* The invariant                                                            *)

\* The empty tree is in order.
LEMMA InitIsInOrder == Init => RbInv
<1> SUFFICES ASSUME Init PROVE RbInv
  OBVIOUS
<1> DEFINE U == [n \in Optional |-> {}]
           H == [n \in Optional |-> 0]
<1>1. NULL_ID \in Optional /\ {} \in SUBSET Nodes
  BY DEF Optional
<1>2. /\ EmptyTree \in TreeType /\ EmptyTree.root = NULL_ID /\ EmptyTree.ok
      /\ \A n \in Nodes : EmptyTree.parent[n] = NULL_ID /\ \A r \in Sides : Kid(EmptyTree, r, n) = NULL_ID
  BY DEF EmptyTree, TreeType, Optional, Colors, Kid
<1>3. U \in [Optional -> SUBSET Nodes] /\ U[NULL_ID] = {} /\ H \in [Optional -> Nat] /\ H[NULL_ID] = 0
  BY <1>1
<1> HIDE DEF U, H
<1>4. Tree(EmptyTree, {}, U)
  BY <1>1, <1>2, <1>3, RbTreeAssumption DEF Tree
<1>5. Ordered(EmptyTree, {}, U)
  BY DEF Ordered
<1>6. Settled(EmptyTree, {}, H)
  <2>1. get_color(EmptyTree, EmptyTree.root) = "black"
    BY <1>2 DEF get_color
  <2>. QED BY <1>3, <2>1 DEF Settled, RedsApart, Balanced
<1>7. cursor \in [n : Optional, db : Optional, p : Optional]
  BY <1>1 DEF Init
<1>. QED BY <1>2, <1>4, <1>5, <1>6, <1>7 DEF Init, RbInv, InOrder

\* The invariant speaks of nothing but the variables.
LEMMA StutteringKeeps ==
  ASSUME RbInv, UNCHANGED vars
  PROVE  RbInv'
BY DEF RbInv, vars

\* Each turn of the two loops
LEMMA LoopsKeep ==
  ASSUME RbInv, Loops
  PROVE  RbInv'
<1>1. CASE FloatAtRoot
  BY <1>1, FloatAtRootKeeps
<1>2. CASE FloatUnderBlack
  BY <1>2, FloatUnderBlackKeeps
<1>3. CASE FloatUnderRed
  BY <1>3, FloatUnderRedKeeps
<1>4. CASE RebalanceUp
  BY <1>4, RebalanceUpKeeps
<1>5. CASE RebalanceRedSibling
  BY <1>5, RebalanceRedSiblingKeeps
<1>6. CASE RebalanceRedParent
  BY <1>6, RebalanceRedParentKeeps
<1>7. CASE RebalanceNearRed
  BY <1>7, RebalanceNearRedKeeps
<1>8. CASE RebalanceFarRed
  BY <1>8, RebalanceFarRedKeeps
<1>9. CASE RebalanceAtRoot
  BY <1>9, RebalanceAtRootKeeps
<1>. QED BY <1>1, <1>2, <1>3, <1>4, <1>5, <1>6, <1>7, <1>8, <1>9 DEF Loops

\* Between any two steps the tree has exactly the members, in the order of their keys, no
\* assertion has failed, and what a loop has still to mend is at most one red node under a red
\* one or one black node missing below one parent.
THEOREM TreeStaysInOrder == Spec => []RbInv
<1>1. ASSUME RbInv, [Next]_vars PROVE RbInv'
  <2>1. CASE \E x \in Nodes : insert(x)
    <3>1. PICK x \in Nodes : insert(x)
      BY <2>1
    <3>. QED BY <1>1, <3>1, InsertRoot, InsertLeaf
  <2>2. CASE \E x \in Nodes : delete(x)
    <3>1. PICK x \in Nodes : delete(x)
      BY <2>2
    <3>. QED BY <1>1, <3>1, DeleteKeeps
  <2>3. CASE Loops
    BY <1>1, <2>3, LoopsKeep
  <2>4. CASE UNCHANGED vars
    BY <1>1, <2>4, StutteringKeeps
  <2>. QED BY <1>1, <2>1, <2>2, <2>3, <2>4 DEF Next
<1>. QED BY <1>1, InitIsInOrder, PTL DEF Spec

-----------------------------------------------------------------------------
(* What the invariant says of the properties                                *)

\* The nodes found up to so many levels under a node; Under is the last of them.
UnderLevels(L) ==
    L = [i \in 0 .. Cardinality(Nodes) |->
            [n \in Optional |->
                IF n = NULL_ID THEN {}
                ELSE IF i = 0 THEN {n}
                ELSE {n} \cup L[i - 1][tree.left[n]] \cup L[i - 1][tree.right[n]]]]

\* The levels of Under are a function on the numbers up to their greatest.
LEMMA UnderExists ==
  ASSUME tree \in TreeType
  PROVE  \E L : UnderLevels(L) /\ Under = L[Cardinality(Nodes)]
<1> DEFINE N == Cardinality(Nodes)
           D == (0 .. N) \X Optional \X Nodes
           Step(S) == {d \in D : /\ d[2] # NULL_ID
                                 /\ \/ d[3] = d[2]
                                    \/ d[1] # 0 /\ <<d[1] - 1, tree.left[d[2]], d[3]>> \in S
                                    \/ d[1] # 0 /\ <<d[1] - 1, tree.right[d[2]], d[3]>> \in S}
<1>1. N \in Nat
  BY FS_CardinalityType, RbTreeAssumption
<1>2. PICK S \in SUBSET D : S = Step(S)
  <2> DEFINE Phi == [S \in SUBSET D |-> Step(S)]
  <2>1. Phi \in [SUBSET D -> SUBSET D]
    OBVIOUS
  <2>2. \A A, B \in SUBSET D : A \subseteq B => Phi[A] \subseteq Phi[B]
    OBVIOUS
  <2>3. PICK S \in SUBSET D : Phi[S] = S
    <3> HIDE DEF Phi, D
    <3>. QED BY <2>1, <2>2, FixedPoint
  <2>. QED BY <2>3
<1> DEFINE h == [i \in 0 .. N |-> [n \in Optional |-> {m \in Nodes : <<i, n, m>> \in S}]]
<1>3. ASSUME NEW i \in 0 .. N, NEW n \in Optional
      PROVE  h[i][n] = IF n = NULL_ID THEN {}
                       ELSE IF i = 0 THEN {n}
                       ELSE {n} \cup h[i - 1][tree.left[n]] \cup h[i - 1][tree.right[n]]
  <2>1. \A m \in Nodes : <<i, n, m>> \in S <=>
            /\ n # NULL_ID
            /\ \/ m = n
               \/ i # 0 /\ <<i - 1, tree.left[n], m>> \in S
               \/ i # 0 /\ <<i - 1, tree.right[n], m>> \in S
    <3> SUFFICES ASSUME NEW m \in Nodes
                 PROVE  <<i, n, m>> \in S <=> <<i, n, m>> \in Step(S)
      OBVIOUS
    <3> HIDE DEF Step, D
    <3>. QED BY <1>2
  <2>2. n # NULL_ID => n \in Nodes /\ tree.left[n] \in Optional /\ tree.right[n] \in Optional
    BY DEF TreeType, Optional
  <2>3. i # 0 => i - 1 \in 0 .. N
    BY <1>1
  <2> HIDE DEF Step, D, N
  <2>4. h[i][n] = {m \in Nodes : <<i, n, m>> \in S}
    OBVIOUS
  <2>5. i # 0 /\ n # NULL_ID =>
            /\ h[i - 1][tree.left[n]] = {m \in Nodes : <<i - 1, tree.left[n], m>> \in S}
            /\ h[i - 1][tree.right[n]] = {m \in Nodes : <<i - 1, tree.right[n], m>> \in S}
    BY <2>2, <2>3
  <2> HIDE DEF h
  <2>. QED BY <2>1, <2>2, <2>4, <2>5
<1>4. UnderLevels(h)
  <2> DEFINE g == [i \in 0 .. N |->
                      [n \in Optional |->
                          IF n = NULL_ID THEN {}
                          ELSE IF i = 0 THEN {n}
                          ELSE {n} \cup h[i - 1][tree.left[n]] \cup h[i - 1][tree.right[n]]]]
  <2>1. h \in [0 .. N -> [Optional -> SUBSET Nodes]]
    OBVIOUS
  <2>2. \A i \in 0 .. N : h[i] = g[i]
    <3> HIDE DEF h
    <3>. QED BY <1>3, <2>1
  <2>3. h = g
    <3> HIDE DEF h
    <3>. QED BY <2>1, <2>2
  <2>. QED BY <2>3 DEF UnderLevels
<1> DEFINE L == CHOOSE L : UnderLevels(L)
<1>5. UnderLevels(L)
  BY <1>4
<1>6. Under = L[Cardinality(Nodes)]
  BY DEF Under, UnderLevels
<1>. QED BY <1>5, <1>6

\* As many levels as there are nodes reach every node.
LEMMA UnderIs ==
  ASSUME NEW U, Tree(tree, members, U)
  PROVE  \A n \in members \cup {NULL_ID} : Under[n] = U[n]
<1> DEFINE N == Cardinality(Nodes)
<1>1. /\ tree \in TreeType /\ members \in SUBSET Nodes /\ NULL_ID \notin members /\ U[NULL_ID] = {}
      /\ \A n \in members : n \in Optional /\ n # NULL_ID
      /\ NULL_ID \in Optional /\ N \in Nat
  BY FS_CardinalityType, RbTreeAssumption DEF Tree, Optional
<1>2. PICK L : UnderLevels(L) /\ Under = L[N]
  BY <1>1, UnderExists
<1>3. \A n \in members : U[n] \subseteq Nodes /\ IsFiniteSet(U[n]) /\ Cardinality(U[n]) \in Nat /\ Cardinality(U[n]) <= N
  <2> SUFFICES ASSUME NEW n \in members
               PROVE  U[n] \subseteq Nodes /\ IsFiniteSet(U[n]) /\ Cardinality(U[n]) \in Nat /\ Cardinality(U[n]) <= N
    OBVIOUS
  <2>1. U[n] \in SUBSET Nodes
    BY <1>1 DEF Tree
  <2>. QED BY <2>1, FS_Subset, FS_CardinalityType, RbTreeAssumption
<1> HIDE DEF N
<1>4. ASSUME NEW i \in 0 .. N, NEW n \in Optional
      PROVE  L[i][n] = IF n = NULL_ID THEN {}
                       ELSE IF i = 0 THEN {n}
                       ELSE {n} \cup L[i - 1][tree.left[n]] \cup L[i - 1][tree.right[n]]
  <2>1. L[i] = [m \in Optional |->
                   IF m = NULL_ID THEN {}
                   ELSE IF i = 0 THEN {m}
                   ELSE {m} \cup L[i - 1][tree.left[m]] \cup L[i - 1][tree.right[m]]]
    BY <1>2 DEF UnderLevels, N
  <2>. QED BY <2>1
<1>5. \A i \in 0 .. N : L[i][NULL_ID] = {}
  BY <1>1, <1>4
<1> DEFINE P == {n \in members : \A i \in 0 .. N : Cardinality(U[n]) <= i => L[i][n] = U[n]}
<1>6. ASSUME NEW n \in members, \A r \in Sides : Kid(tree, r, n) \in P \cup {NULL_ID}
      PROVE  n \in P
  <2> SUFFICES ASSUME NEW i \in 0 .. N, Cardinality(U[n]) <= i PROVE L[i][n] = U[n]
    OBVIOUS
  <2> DEFINE k == Kid(tree, "left", n)
             l == Kid(tree, "right", n)
  <2>1. /\ k \in P \cup {NULL_ID} /\ l \in P \cup {NULL_ID} /\ tree.left[n] = k /\ tree.right[n] = l
        /\ "left" \in Sides /\ "right" \in Sides /\ Other("left") = "right" /\ Other("right") = "left"
    BY <1>6 DEF Sides, Kid, Other
  <2>2. U[n] = {n} \cup U[k] \cup U[l] /\ n \notin U[k] /\ n \notin U[l]
    BY <2>1, TreeNode
  <2> HIDE DEF k, l
  <2>3. ASSUME NEW c \in {k, l}, c # NULL_ID
        PROVE  L[i - 1][c] = U[c] /\ i - 1 \in 0 .. N
    <3>1. c \in members /\ c \in P
      BY <2>1, <2>3
    <3>2. U[c] \in SUBSET U[n] /\ U[c] # U[n] /\ IsFiniteSet(U[n])
      BY <1>3, <2>2
    <3>3. Cardinality(U[c]) <= Cardinality(U[n]) /\ Cardinality(U[c]) # Cardinality(U[n])
      BY <3>2, FS_Subset
    <3>4. Cardinality(U[c]) <= i - 1 /\ i - 1 \in 0 .. N
      BY <1>1, <1>3, <3>1, <3>3
    <3>. QED BY <3>1, <3>4
  <2>4. i # 0
    <3>1. Cardinality(U[n]) # 0
      BY <1>3, <2>2, FS_EmptySet
    <3>. QED BY <1>3, <3>1
  <2>5. i - 1 \in 0 .. N
    BY <1>1, <2>4
  <2>6. L[i - 1][k] = U[k] /\ L[i - 1][l] = U[l]
    <3>1. L[i - 1][NULL_ID] = U[NULL_ID]
      BY <1>1, <1>5, <2>5
    <3>. QED BY <2>3, <3>1
  <2>7. L[i][n] = {n} \cup L[i - 1][k] \cup L[i - 1][l]
    BY <1>1, <1>4, <2>1, <2>4
  <2>. QED BY <2>2, <2>6, <2>7
<1> HIDE DEF P
<1>7. members \subseteq P
  BY <1>6, TreeInduction
<1>8. ASSUME NEW n \in members \cup {NULL_ID} PROVE Under[n] = U[n]
  <2>1. N \in 0 .. N
    BY <1>1
  <2>2. CASE n = NULL_ID
    BY <1>1, <1>2, <1>5, <2>1, <2>2
  <2>3. CASE n \in members
    BY <1>2, <1>3, <1>7, <2>1, <2>3 DEF P
  <2>. QED BY <2>2, <2>3
<1>. QED BY <1>8

\* Whatever the rotations do, also between two turns of a loop, the tree has exactly the members,
\* each parent pointer is the inverse of a child pointer, and the keys are in order.
THEOREM MembersStayInOrder == Spec => []MembersInOrder
<1>1. ASSUME RbInv PROVE MembersInOrder
  <2>1. PICK U : Tree(tree, members, U) /\ Ordered(tree, members, U)
    BY <1>1 DEF RbInv, InOrder
  <2>2. \A n \in members \cup {NULL_ID} : Under[n] = U[n]
    BY <2>1, UnderIs
  <2>3. Under[tree.root] = members /\ (tree.root # NULL_ID => tree.parent[tree.root] = NULL_ID)
    BY <2>1, <2>2 DEF Tree
  <2>4. ASSUME NEW n \in members
        PROVE  /\ \A child \in Children(tree, n) : tree.parent[child] = n
               /\ Under[tree.left[n]] \cap Under[tree.right[n]] = {}
               /\ \A m \in Under[tree.left[n]] : Key[m] <= Key[n]
               /\ \A m \in Under[tree.right[n]] : Key[n] <= Key[m]
    <3>1. /\ tree.left[n] = Kid(tree, "left", n) /\ tree.right[n] = Kid(tree, "right", n)
          /\ "left" \in Sides /\ "right" \in Sides
      BY DEF Kid, Sides
    <3>2. /\ tree.left[n] \in members \cup {NULL_ID} /\ tree.right[n] \in members \cup {NULL_ID}
          /\ U[tree.left[n]] \cap U[tree.right[n]] = {}
          /\ tree.left[n] # NULL_ID => tree.parent[tree.left[n]] = n
          /\ tree.right[n] # NULL_ID => tree.parent[tree.right[n]] = n
      <4>1. \A r \in Sides : Kid(tree, r, n) # NULL_ID => tree.parent[Kid(tree, r, n)] = n
        BY <2>1 DEF Tree
      <4>2. /\ tree.left[n] # NULL_ID => tree.parent[tree.left[n]] = n
            /\ tree.right[n] # NULL_ID => tree.parent[tree.right[n]] = n
        BY <3>1, <4>1
      <4>3. tree.left[n] \in members \cup {NULL_ID} /\ tree.right[n] \in members \cup {NULL_ID}
        BY <2>1, <3>1, TreeNode
      <4>4. U[tree.left[n]] \cap U[tree.right[n]] = {}
        BY <2>1 DEF Tree
      <4>. QED BY <4>2, <4>3, <4>4
    <3>3. /\ \A m \in U[tree.left[n]] : m \in members
          /\ \A m \in U[tree.right[n]] : m \in members
      <4>1. \A a \in members : \A m \in U[a] : m \in members
        BY <2>1, TreeNested
      <4>2. U[NULL_ID] = {}
        BY <2>1 DEF Tree
      <4>. QED BY <3>2, <4>1, <4>2
    <3>4. Under[tree.left[n]] = U[tree.left[n]] /\ Under[tree.right[n]] = U[tree.right[n]]
      BY <2>2, <3>2
    <3>5. /\ \A m \in U[tree.left[n]] : Key[m] <= Key[n]
          /\ \A m \in U[tree.right[n]] : Key[n] <= Key[m]
      BY <2>1, <3>3 DEF Ordered
    <3>. QED BY <3>2, <3>4, <3>5 DEF Children
  <2>. QED BY <2>3, <2>4 DEF MembersInOrder
<1>. QED BY <1>1, TreeStaysInOrder, PTL

\* The black heights counted over so many levels; BlackHeights is the last of them.
HeightLevels(L) ==
    L = [i \in 0 .. Cardinality(Nodes) |->
            [n \in Optional |->
                IF n = NULL_ID \/ i = 0 THEN {0}
                ELSE {h + (IF tree.color[n] = "black" THEN 1 ELSE 0) :
                         h \in L[i - 1][tree.left[n]] \cup L[i - 1][tree.right[n]]}]]

\* So are the levels of BlackHeights.
LEMMA HeightsExist ==
  ASSUME tree \in TreeType
  PROVE  \E L : HeightLevels(L) /\ BlackHeights = L[Cardinality(Nodes)]
<1> DEFINE N == Cardinality(Nodes)
           D == (0 .. N) \X Optional \X Nat
           One(n) == IF tree.color[n] = "black" THEN 1 ELSE 0
           Ends(n, i) == n = NULL_ID \/ i = 0
           Step(S) == {d \in D :
                          IF Ends(d[2], d[1]) THEN d[3] = 0
                          ELSE \E k \in Nat :
                                  /\ d[3] = k + One(d[2])
                                  /\ \/ <<d[1] - 1, tree.left[d[2]], k>> \in S
                                     \/ <<d[1] - 1, tree.right[d[2]], k>> \in S}
<1>1. N \in Nat
  BY FS_CardinalityType, RbTreeAssumption
<1>2. PICK S \in SUBSET D : S = Step(S)
  <2> DEFINE Phi == [S \in SUBSET D |-> Step(S)]
  <2>1. Phi \in [SUBSET D -> SUBSET D]
    OBVIOUS
  <2>2. \A A, B \in SUBSET D : A \subseteq B => Phi[A] \subseteq Phi[B]
    <3> HIDE DEF D, Ends, One
    <3>. QED OBVIOUS
  <2>3. PICK S \in SUBSET D : Phi[S] = S
    <3> HIDE DEF Phi, D
    <3>. QED BY <2>1, <2>2, FixedPoint
  <2>. QED BY <2>3
<1> DEFINE h == [i \in 0 .. N |-> [n \in Optional |-> {k \in Nat : <<i, n, k>> \in S}]]
           Above(n, K) == {k + One(n) : k \in K}
<1>3. ASSUME NEW i \in 0 .. N, NEW n \in Optional
      PROVE  h[i][n] = IF Ends(n, i) THEN {0}
                       ELSE Above(n, h[i - 1][tree.left[n]] \cup h[i - 1][tree.right[n]])
  <2>1. \A m \in Nat : <<i, n, m>> \in S <=>
            IF Ends(n, i) THEN m = 0
            ELSE \E k \in Nat : /\ m = k + One(n)
                                /\ \/ <<i - 1, tree.left[n], k>> \in S
                                   \/ <<i - 1, tree.right[n], k>> \in S
    <3> SUFFICES ASSUME NEW m \in Nat
                 PROVE  <<i, n, m>> \in S <=> <<i, n, m>> \in Step(S)
      <4> HIDE DEF One, Ends
      <4>. QED OBVIOUS
    <3> HIDE DEF Step, D
    <3>. QED BY <1>2
  <2>2. ~Ends(n, i) => tree.left[n] \in Optional /\ tree.right[n] \in Optional /\ i - 1 \in 0 .. N
    BY <1>1 DEF TreeType, Optional
  <2>3. One(n) \in Nat
    OBVIOUS
  <2> HIDE DEF Step, D, N, One
  <2>4. h[i][n] = {m \in Nat : <<i, n, m>> \in S}
    OBVIOUS
  <2> HIDE DEF Ends
  <2>5. CASE Ends(n, i)
    <3> HIDE DEF h
    <3>. QED BY <2>1, <2>4, <2>5
  <2>6. CASE ~Ends(n, i)
    <3>1. /\ h[i - 1][tree.left[n]] = {k \in Nat : <<i - 1, tree.left[n], k>> \in S}
          /\ h[i - 1][tree.right[n]] = {k \in Nat : <<i - 1, tree.right[n], k>> \in S}
      BY <2>2, <2>6
    <3>2. \A m : m \in h[i][n] <=>
               \E k \in h[i - 1][tree.left[n]] \cup h[i - 1][tree.right[n]] : m = k + One(n)
      <4> DEFINE OfChild(k) == \/ <<i - 1, tree.left[n], k>> \in S
                               \/ <<i - 1, tree.right[n], k>> \in S
      <4>1. \A k : k \in h[i - 1][tree.left[n]] \cup h[i - 1][tree.right[n]] <=>
                   k \in Nat /\ OfChild(k)
        <5> HIDE DEF h
        <5>. QED BY <3>1
      <4>2. \A m : m \in h[i][n] <=>
                   m \in Nat /\ \E k \in Nat : m = k + One(n) /\ OfChild(k)
        <5> HIDE DEF h
        <5>. QED BY <2>1, <2>4, <2>6
      <4>3. \A k \in Nat : k + One(n) \in Nat
        BY <2>3
      <4> HIDE DEF h, OfChild
      <4>. QED BY <4>1, <4>2, <4>3
    <3>3. \A m : m \in h[i][n] <=>
               m \in Above(n, h[i - 1][tree.left[n]] \cup h[i - 1][tree.right[n]])
      <4> HIDE DEF h
      <4>. QED BY <3>2
    <3> HIDE DEF h, Above
    <3>. QED BY <2>6, <3>3
  <2>. QED BY <2>5, <2>6
<1>4. HeightLevels(h)
  <2> DEFINE g == [i \in 0 .. N |->
                      [n \in Optional |->
                          IF Ends(n, i) THEN {0}
                          ELSE Above(n, h[i - 1][tree.left[n]] \cup h[i - 1][tree.right[n]])]]
  <2>1. h \in [0 .. N -> [Optional -> SUBSET Nat]]
    OBVIOUS
  <2>2. \A i \in 0 .. N : h[i] = g[i]
    <3> HIDE DEF h, Above, Ends
    <3>. QED BY <1>3, <2>1
  <2>3. h = g
    <3> HIDE DEF h, Above, Ends
    <3>. QED BY <2>1, <2>2
  <2>. QED BY <2>3 DEF HeightLevels
<1> DEFINE L == CHOOSE L : HeightLevels(L)
<1>5. HeightLevels(L)
  BY <1>4
<1>6. BlackHeights = L[Cardinality(Nodes)]
  BY DEF BlackHeights, HeightLevels
<1>. QED BY <1>5, <1>6

\* Without a deficit the black height of a node is the one number H says.
LEMMA HeightsAre ==
  ASSUME NEW U, Tree(tree, members, U), NEW H, Settled(tree, members, H)
  PROVE  \A n \in members \cup {NULL_ID} : BlackHeights[n] = {H[n]}
<1> DEFINE N == Cardinality(Nodes)
<1>1. /\ tree \in TreeType /\ members \in SUBSET Nodes /\ NULL_ID \notin members /\ U[NULL_ID] = {}
      /\ \A n \in members : n \in Optional /\ n # NULL_ID /\ n \in Nodes
      /\ NULL_ID \in Optional /\ N \in Nat
  BY FS_CardinalityType, RbTreeAssumption DEF Tree, Optional
<1>2. PICK L : HeightLevels(L) /\ BlackHeights = L[N]
  BY <1>1, HeightsExist
<1>3. \A n \in members : U[n] \subseteq Nodes /\ IsFiniteSet(U[n]) /\ Cardinality(U[n]) \in Nat /\ Cardinality(U[n]) <= N
  <2> SUFFICES ASSUME NEW n \in members
               PROVE  U[n] \subseteq Nodes /\ IsFiniteSet(U[n]) /\ Cardinality(U[n]) \in Nat /\ Cardinality(U[n]) <= N
    OBVIOUS
  <2>1. U[n] \in SUBSET Nodes
    BY <1>1 DEF Tree
  <2>. QED BY <2>1, FS_Subset, FS_CardinalityType, RbTreeAssumption
<1>4. /\ H \in [Optional -> Nat] /\ H[NULL_ID] = 0
      /\ \A n \in members, r \in Sides : H[n] = H[Kid(tree, r, n)] + Blacks(tree, n)
  <2>1. tree \in TreeType /\ members \in SUBSET Nodes
    BY <1>1
  <2>. QED BY <2>1, SettledHeights, ZenonT(30)
<1> HIDE DEF N
<1>5. ASSUME NEW i \in 0 .. N, NEW n \in Optional
      PROVE  L[i][n] = IF n = NULL_ID \/ i = 0 THEN {0}
                       ELSE {h + (IF tree.color[n] = "black" THEN 1 ELSE 0) :
                                h \in L[i - 1][tree.left[n]] \cup L[i - 1][tree.right[n]]}
  <2>1. L[i] = [m \in Optional |->
                   IF m = NULL_ID \/ i = 0 THEN {0}
                   ELSE {h + (IF tree.color[m] = "black" THEN 1 ELSE 0) :
                            h \in L[i - 1][tree.left[m]] \cup L[i - 1][tree.right[m]]}]
    BY <1>2 DEF HeightLevels, N
  <2>. QED BY <2>1
<1>6. \A i \in 0 .. N : L[i][NULL_ID] = {H[NULL_ID]}
  BY <1>1, <1>4, <1>5
<1> DEFINE P == {n \in members : \A i \in 0 .. N : Cardinality(U[n]) <= i => L[i][n] = {H[n]}}
<1>7. ASSUME NEW n \in members, \A r \in Sides : Kid(tree, r, n) \in P \cup {NULL_ID}
      PROVE  n \in P
  <2> SUFFICES ASSUME NEW i \in 0 .. N, Cardinality(U[n]) <= i PROVE L[i][n] = {H[n]}
    OBVIOUS
  <2> DEFINE k == Kid(tree, "left", n)
             l == Kid(tree, "right", n)
  <2>1. /\ k \in P \cup {NULL_ID} /\ l \in P \cup {NULL_ID} /\ tree.left[n] = k /\ tree.right[n] = l
        /\ "left" \in Sides /\ "right" \in Sides /\ Other("left") = "right" /\ Other("right") = "left"
    BY <1>7 DEF Sides, Kid, Other
  <2>2. U[n] = {n} \cup U[k] \cup U[l] /\ n \notin U[k] /\ n \notin U[l]
    BY <2>1, TreeNode
  <2>3. H[n] = H[k] + Blacks(tree, n) /\ H[n] = H[l] + Blacks(tree, n)
    BY <1>4, <2>1
  <2> HIDE DEF k, l
  <2>4. ASSUME NEW c \in {k, l}, c # NULL_ID
        PROVE  L[i - 1][c] = {H[c]}
    <3>1. c \in members /\ c \in P
      BY <2>1, <2>4
    <3>2. U[c] \in SUBSET U[n] /\ U[c] # U[n] /\ IsFiniteSet(U[n])
      BY <1>3, <2>2
    <3>3. Cardinality(U[c]) <= Cardinality(U[n]) /\ Cardinality(U[c]) # Cardinality(U[n])
      BY <3>2, FS_Subset
    <3>4. Cardinality(U[c]) <= i - 1 /\ i - 1 \in 0 .. N
      BY <1>1, <1>3, <3>1, <3>3
    <3>. QED BY <3>1, <3>4
  <2>5. i # 0
    <3>1. Cardinality(U[n]) # 0
      BY <1>3, <2>2, FS_EmptySet
    <3>. QED BY <1>3, <3>1
  <2>6. i - 1 \in 0 .. N
    BY <1>1, <2>5
  <2>7. L[i - 1][k] = {H[k]} /\ L[i - 1][l] = {H[l]}
    <3>1. L[i - 1][NULL_ID] = {H[NULL_ID]}
      BY <1>6, <2>6
    <3>. QED BY <2>4, <3>1
  <2>8. L[i][n] = {h + (IF tree.color[n] = "black" THEN 1 ELSE 0) : h \in L[i - 1][k] \cup L[i - 1][l]}
    BY <1>1, <1>5, <2>1, <2>5
  <2>9. (IF tree.color[n] = "black" THEN 1 ELSE 0) = Blacks(tree, n)
    <3>1. get_color(tree, n) = tree.color[n]
      BY <1>1, ColorIs
    <3>. QED BY <3>1 DEF Blacks
  <2>10. H[k] \in Nat /\ H[l] \in Nat /\ Blacks(tree, n) \in {0, 1}
    <3>1. k \in Optional /\ l \in Optional
      BY <1>1, <2>1
    <3>. QED BY <1>4, <3>1 DEF Blacks
  <2>11. H[k] = H[l]
    BY <2>3, <2>10
  <2>. QED BY <2>3, <2>7, <2>8, <2>9, <2>11
<1> HIDE DEF P
<1>8. members \subseteq P
  BY <1>7, TreeInduction
<1>9. ASSUME NEW n \in members \cup {NULL_ID} PROVE BlackHeights[n] = {H[n]}
  <2>1. N \in 0 .. N
    BY <1>1
  <2>2. CASE n = NULL_ID
    BY <1>2, <1>6, <2>1, <2>2
  <2>3. CASE n \in members
    BY <1>2, <1>3, <1>8, <2>1, <2>3 DEF P
  <2>. QED BY <2>2, <2>3
<1>. QED BY <1>9

\* When a call has returned, the tree is red and black: a black root, no red node under a red
\* one, and as many black nodes on each path.
THEOREM TreeIsRedAndBlack == Spec => []RedAndBlack
<1>1. ASSUME RbInv PROVE RedAndBlack
  <2>1. SUFFICES ASSUME pc = "idle"
                 PROVE  /\ get_color(tree, tree.root) = "black"
                        /\ \A n \in members : Red(n) => \A child \in Children(tree, n) : ~Red(child)
                        /\ Cardinality(BlackHeights[tree.root]) = 1
    BY DEF RedAndBlack
  <2>2. PICK U : Tree(tree, members, U)
    BY <1>1 DEF RbInv, InOrder
  <2>3. PICK H : Settled(tree, members, H)
    BY <1>1, <2>1 DEF RbInv
  <2>4. tree.root \in members \cup {NULL_ID}
    BY <2>2 DEF Tree
  <2>5. BlackHeights[tree.root] = {H[tree.root]}
    BY <2>2, <2>3, <2>4, HeightsAre
  <2>6. Cardinality(BlackHeights[tree.root]) = 1
    BY <2>5, FS_Singleton
  <2>7. ASSUME NEW n \in members, Red(n), NEW child \in Children(tree, n), Red(child)
        PROVE  FALSE
    <3>1. PICK r \in Sides : child = Kid(tree, r, n) /\ child # NULL_ID
      BY DEF Children, Kid, Sides
    <3>. QED BY <2>3, <2>7, <3>1 DEF Red, Settled, RedsApart
  <2>. QED BY <2>3, <2>6, <2>7 DEF Settled
<1>. QED BY <1>1, TreeStaysInOrder, PTL

-----------------------------------------------------------------------------
(* No colouring stops the loop of the deletion                              *)

\* The guards of the five turns
ColoringIsMet ==
    LET fam == Family
    IN  Unbalanced =>
           \/ \A m \in {fam.p, fam.s, fam.n, fam.f} : ~Red(m)
           \/ Red(fam.s) /\ \A m \in {fam.p, fam.n, fam.f} : ~Red(m)
           \/ Red(fam.p) /\ \A m \in {fam.s, fam.n, fam.f} : ~Red(m)
           \/ Red(fam.n) /\ ~Red(fam.s)
           \/ Red(fam.f) /\ ~Red(fam.n) /\ ~Red(fam.s)

\* The assert(0) of rbt_internal_delete is out of reach: the family of a doubly black node that is
\* not the root is always in one of the colourings that a turn handles, and it has a sibling.
THEOREM EveryColoringIsHandled == Spec => [](ColoringIsMet /\ (Unbalanced => Family.s \in members))
<1>1. ASSUME RbInv PROVE ColoringIsMet /\ (Unbalanced => Family.s \in members)
  <2>1. SUFFICES ASSUME Unbalanced
                 PROVE  ColoringIsMet /\ Family.s \in members
    BY DEF ColoringIsMet
  <2>2. PICK U, H, P, r, S : FamilyAt(U, H, P, r, S)
    BY <1>1, <2>1, FamilyExists
  <2>3. /\ Family.p = P /\ Family.s = S /\ Family.n = Kid(tree, r, S) /\ Family.f = Kid(tree, Other(r), S)
        /\ S = Kid(tree, Other(r), P) /\ S \in members /\ P \in members /\ r \in Sides
    BY <2>2 DEF FamilyAt
  <2>4. /\ Other(r) \in Sides
        /\ \A m \in members, q \in Sides :
              ~(get_color(tree, m) = "red" /\ get_color(tree, Kid(tree, q, m)) = "red")
    BY <2>2, FamilyFacts
  <2>5. Red(Family.s) => ~Red(Family.p) /\ ~Red(Family.n) /\ ~Red(Family.f)
    BY <2>3, <2>4 DEF Red
  <2>. QED BY <2>3, <2>5 DEF ColoringIsMet
<1>. QED BY <1>1, TreeStaysInOrder, PTL

-----------------------------------------------------------------------------
(* The search for the best fit                                              *)

\* The descent of find_succ
SuccWalk(t, key, D) ==
    D = [n \in Optional |->
            [best \in Optional |->
                IF n = NULL_ID THEN best
                ELSE IF key = Key[n] THEN n
                ELSE IF key < Key[n] THEN D[t.left[n]][Closer(best, n)]
                ELSE D[t.right[n]][best]]]

\* The descent of find_succ is a function, by TailRecursion on pairs of a node and a best one.
LEMMA SuccExists ==
  ASSUME NEW t \in TreeType, NEW key
  PROVE  \E D : SuccWalk(t, key, D) /\ find_succ(t, key) = D[t.root][NULL_ID]
<1> DEFINE Pairs == Optional \X Optional
           ends(n) == n = NULL_ID \/ key = Key[n]
           Base == {e \in Pairs : ends(e[1])}
           on(n, best) == IF key < Key[n] THEN <<t.left[n], Closer(best, n)>> ELSE <<t.right[n], best>>
           next == [e \in Pairs |-> IF e \in Base THEN e ELSE on(e[1], e[2])]
           b == [e \in Pairs |-> IF e[1] = NULL_ID THEN e[2] ELSE e[1]]
           D == CHOOSE D : SuccWalk(t, key, D)
<1>1. ASSUME NEW n \in Optional, NEW best \in Optional, ~ends(n) PROVE on(n, best) \in Pairs
  <2>1. n \in Nodes
    BY <1>1 DEF Optional
  <2>2. t.left[n] \in Optional /\ t.right[n] \in Optional /\ Closer(best, n) \in Optional
    BY <2>1 DEF TreeType, Closer
  <2>. QED BY <2>2
<1> HIDE DEF ends, on
<1>2. next \in [Pairs -> Pairs] /\ Base \in SUBSET Pairs
  <2>1. ASSUME NEW e \in Pairs PROVE (IF e \in Base THEN e ELSE on(e[1], e[2])) \in Pairs
    <3>1. CASE e \in Base
      BY <3>1
    <3>2. CASE e \notin Base
      <4>1. e[1] \in Optional /\ e[2] \in Optional /\ ~ends(e[1])
        BY <3>2
      <4>. QED BY <1>1, <3>2, <4>1
    <3>. QED BY <3>1, <3>2
  <2>. QED BY <2>1
<1>3. PICK F : WalksOn(F, Pairs, Base, next, b)
  <2> HIDE DEF Pairs, Base, next, b
  <2>. QED BY <1>2, TailRecursion
<1> DEFINE E == [n \in Optional |-> [best \in Optional |-> F[<<n, best>>]]]
<1>4. ASSUME NEW n \in Optional, NEW best \in Optional
      PROVE  F[<<n, best>>] = IF ends(n) THEN (IF n = NULL_ID THEN best ELSE n) ELSE F[on(n, best)]
  <2>1. <<n, best>> \in Pairs
    OBVIOUS
  <2>2. F[<<n, best>>] = IF <<n, best>> \in Base THEN b[<<n, best>>] ELSE F[next[<<n, best>>]]
    BY <1>3, <2>1 DEF WalksOn
  <2>3. /\ <<n, best>> \in Base <=> ends(n)
        /\ b[<<n, best>>] = IF n = NULL_ID THEN best ELSE n
        /\ ~ends(n) => next[<<n, best>>] = on(n, best)
    OBVIOUS
  <2>. QED BY <2>2, <2>3
<1>5. ASSUME NEW n \in Optional, NEW best \in Optional
      PROVE  F[<<n, best>>] = IF n = NULL_ID THEN best
                              ELSE IF key = Key[n] THEN n
                              ELSE IF key < Key[n] THEN E[t.left[n]][Closer(best, n)]
                              ELSE E[t.right[n]][best]
  <2>1. CASE ends(n)
    BY <1>4, <2>1 DEF ends
  <2>2. CASE ~ends(n)
    <3>1. n # NULL_ID /\ key # Key[n] /\ n \in Nodes
      BY <2>2 DEF ends, Optional
    <3>2. t.left[n] \in Optional /\ t.right[n] \in Optional /\ Closer(best, n) \in Optional
      BY <3>1 DEF TreeType, Closer
    <3>3. /\ E[t.left[n]][Closer(best, n)] = F[<<t.left[n], Closer(best, n)>>]
          /\ E[t.right[n]][best] = F[<<t.right[n], best>>]
      BY <3>2
    <3> HIDE DEF E
    <3>. QED BY <1>4, <2>2, <3>1, <3>3 DEF on
  <2>. QED BY <2>1, <2>2
<1>6. SuccWalk(t, key, E)
  <2> DEFINE value(n, best) == IF n = NULL_ID THEN best
                               ELSE IF key = Key[n] THEN n
                               ELSE IF key < Key[n] THEN E[t.left[n]][Closer(best, n)]
                               ELSE E[t.right[n]][best]
  <2>1. \A n \in Optional, best \in Optional : F[<<n, best>>] = value(n, best)
    BY <1>5
  <2> HIDE DEF value
  <2>2. E = [n \in Optional |-> [best \in Optional |-> value(n, best)]]
    BY <2>1
  <2>. QED BY <2>2 DEF SuccWalk, value
<1>7. SuccWalk(t, key, D)
  BY <1>6
<1>8. find_succ(t, key) = D[t.root][NULL_ID]
  BY DEF find_succ, SuccWalk, Optional
<1>. QED BY <1>7, <1>8

\* The nodes of S that are large enough
Fitting(S, key) == {m \in S : Key[m] >= key}
\* e is the best fit of S, or best if none fits.
BestOf(S, key, best, e) ==
    IF Fitting(S, key) = {} THEN e = best
    ELSE e \in Fitting(S, key) /\ \A m \in Fitting(S, key) : Key[e] <= Key[m]
\* The search comes down to n with a larger node whose left side n is on, or with none yet.
Candidate(U, M, key, n, best) ==
    best # NULL_ID => /\ best \in M /\ Key[best] > key
                      /\ \A m \in U[n] : Key[m] <= Key[best]

\* find_succ returns a node with the least key of those that are large enough, or none if
\* there is none.
LEMMA SuccIsBest ==
  ASSUME NEW t, NEW M, NEW U, Tree(t, M, U), Ordered(t, M, U), NEW key \in Nat
  PROVE  BestOf(M, key, NULL_ID, find_succ(t, key))
<1>1. /\ t \in TreeType /\ M \subseteq Nodes /\ NULL_ID \notin M /\ U[NULL_ID] = {} /\ NULL_ID \in Optional
      /\ \A m \in M : Key[m] \in Nat /\ m \in Optional /\ m # NULL_ID
      /\ t.root \in M \cup {NULL_ID} /\ U[t.root] = M
  BY RbTreeAssumption DEF Tree, Optional
<1>2. PICK D : SuccWalk(t, key, D) /\ find_succ(t, key) = D[t.root][NULL_ID]
  BY <1>1, SuccExists
<1>3. ASSUME NEW n \in Optional, NEW best \in Optional
      PROVE  D[n][best] = IF n = NULL_ID THEN best
                          ELSE IF key = Key[n] THEN n
                          ELSE IF key < Key[n] THEN D[t.left[n]][Closer(best, n)]
                          ELSE D[t.right[n]][best]
  <2>1. D[n] = [a \in Optional |->
                   IF n = NULL_ID THEN a
                   ELSE IF key = Key[n] THEN n
                   ELSE IF key < Key[n] THEN D[t.left[n]][Closer(a, n)]
                   ELSE D[t.right[n]][a]]
    BY <1>2 DEF SuccWalk
  <2>. QED BY <2>1
<1> DEFINE P == {n \in M : \A best \in Optional :
                    Candidate(U, M, key, n, best) => BestOf(U[n], key, best, D[n][best])}
<1>4. ASSUME NEW best \in Optional PROVE BestOf(U[NULL_ID], key, best, D[NULL_ID][best])
  <2>1. D[NULL_ID][best] = best
    BY <1>1, <1>3
  <2>. QED BY <1>1, <2>1 DEF BestOf, Fitting
<1>5. ASSUME NEW n \in M, \A r \in Sides : Kid(t, r, n) \in P \cup {NULL_ID}
      PROVE  n \in P
  <2> DEFINE k == t.left[n]
             l == t.right[n]
  <2>1. /\ k \in P \cup {NULL_ID} /\ l \in P \cup {NULL_ID}
        /\ k = Kid(t, "left", n) /\ l = Kid(t, "right", n)
        /\ "left" \in Sides /\ "right" \in Sides /\ Other("left") = "right"
    BY <1>5 DEF Sides, Kid, Other
  <2>2. U[n] = {n} \cup U[k] \cup U[l]
    BY <2>1, TreeNode
  <2>3. \A a \in U[n] : a \in M
    BY TreeNested
  <2>4. /\ \A a \in U[k] : Key[a] <= Key[n]
        /\ \A a \in U[l] : Key[n] <= Key[a]
    BY <2>2, <2>3 DEF Ordered
  <2> HIDE DEF k, l
  <2>5. ASSUME NEW best \in Optional, Candidate(U, M, key, n, best)
        PROVE  BestOf(U[n], key, best, D[n][best])
    <3>1. Key[n] \in Nat /\ n \in Optional /\ n # NULL_ID /\ \A a \in U[n] : Key[a] \in Nat
      BY <1>1, <2>3
    <3>2. CASE key = Key[n]
      <4>1. D[n][best] = n
        BY <1>3, <3>1, <3>2
      <4>2. n \in Fitting(U[n], key) /\ \A m \in Fitting(U[n], key) : Key[n] <= Key[m]
        BY <2>2, <3>1, <3>2 DEF Fitting
      <4>. QED BY <4>1, <4>2 DEF BestOf
    <3>3. CASE key < Key[n]
      <4>1. Closer(best, n) = n
        <5>1. best # NULL_ID => Key[n] <= Key[best]
          BY <2>2, <2>5 DEF Candidate
        <5>. QED BY <5>1 DEF Closer
      <4>2. D[n][best] = D[k][n]
        BY <1>3, <3>1, <3>3, <4>1 DEF k
      <4>3. Candidate(U, M, key, k, n)
        BY <2>4, <3>1, <3>3 DEF Candidate
      <4>4. BestOf(U[k], key, n, D[k][n])
        BY <1>4, <2>1, <3>1, <4>3
      <4> DEFINE e == D[k][n]
      <4> HIDE DEF e
      <4>5. BestOf(U[k], key, n, e)
        BY <4>4 DEF e
      <4>6. n \in Fitting(U[n], key) /\ \A m \in U[l] : Key[n] <= Key[m]
        BY <2>2, <2>4, <3>1, <3>3 DEF Fitting
      <4>7. CASE Fitting(U[k], key) = {}
        <5>1. e = n
          BY <4>5, <4>7 DEF BestOf
        <5>2. \A m \in Fitting(U[n], key) : Key[n] <= Key[m]
          <6>1. \A m \in U[k] : ~(Key[m] >= key)
            BY <4>7 DEF Fitting
          <6>. QED BY <2>2, <3>1, <4>6, <6>1 DEF Fitting
        <5>. QED BY <4>2, <4>6, <5>1, <5>2 DEF BestOf, e
      <4>8. CASE Fitting(U[k], key) # {}
        <5>1. e \in U[k] /\ Key[e] >= key /\ \A m \in U[k] : Key[m] >= key => Key[e] <= Key[m]
          BY <4>5, <4>8 DEF BestOf, Fitting
        <5>2. e \in U[n] /\ Key[e] <= Key[n] /\ Key[e] \in Nat
          BY <2>2, <2>4, <3>1, <5>1
        <5>3. ASSUME NEW m \in U[n], Key[m] >= key PROVE Key[e] <= Key[m]
          <6>1. Key[m] \in Nat
            BY <3>1
          <6>. QED BY <2>2, <3>1, <4>6, <5>1, <5>2, <5>3, <6>1
        <5>. QED BY <4>2, <5>1, <5>2, <5>3 DEF BestOf, Fitting, e
      <4>. QED BY <4>7, <4>8
    <3>4. CASE Key[n] < key
      <4>1. D[n][best] = D[l][best]
        BY <1>3, <3>1, <3>4 DEF l
      <4>2. Candidate(U, M, key, l, best)
        BY <2>2, <2>5 DEF Candidate
      <4>3. BestOf(U[l], key, best, D[l][best])
        BY <1>4, <2>1, <4>2
      <4>4. Fitting(U[n], key) = Fitting(U[l], key)
        <5>1. \A m \in {n} \cup U[k] : ~(Key[m] >= key)
          BY <2>2, <2>4, <3>1, <3>4
        <5>. QED BY <2>2, <5>1 DEF Fitting
      <4>. QED BY <4>1, <4>3, <4>4 DEF BestOf
    <3>. QED BY <3>1, <3>2, <3>3, <3>4
  <2>. QED BY <2>5
<1> HIDE DEF P
<1>6. M \subseteq P
  BY <1>5, TreeInduction
<1>7. BestOf(U[t.root], key, NULL_ID, D[t.root][NULL_ID])
  <2>1. CASE t.root = NULL_ID
    BY <1>1, <1>4, <2>1
  <2>2. CASE t.root \in M
    <3>1. Candidate(U, M, key, t.root, NULL_ID)
      BY DEF Candidate
    <3>. QED BY <1>1, <1>6, <2>2, <3>1 DEF P
  <2>. QED BY <1>1, <2>1, <2>2
<1>. QED BY <1>1, <1>2, <1>7

\* The search for a block returns one of the smallest that are large enough, and none only if
\* there is none.
THEOREM SearchFindsBestFit == Spec => []FindSuccIsBestFit
<1>1. ASSUME RbInv PROVE FindSuccIsBestFit
  <2>1. PICK U : Tree(tree, members, U) /\ Ordered(tree, members, U)
    BY <1>1 DEF RbInv, InOrder
  <2>2. ASSUME NEW key \in {Key[n] : n \in Nodes}
        PROVE  BestOf(members, key, NULL_ID, find_succ(tree, key))
    <3>1. key \in Nat
      BY RbTreeAssumption
    <3>. QED BY <2>1, <3>1, SuccIsBest
  <2>. QED BY <2>2 DEF FindSuccIsBestFit, BestOf, Fitting
<1>. QED BY <1>1, TreeStaysInOrder, PTL
=============================================================================
