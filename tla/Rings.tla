-------------------------------- MODULE Rings --------------------------------
(***************************************************************************)
(* The generic circular doubly linked list of                              *)
(* src/src/algorithm/linkedlist.c, as operators on a store "s" that holds  *)
(* the nodes and the list.  The C code reaches the nodes through the       *)
(* functions of a linkedlist_node_interface, and the list's head through   *)
(* its update_head; here they are constants, and an instance supplies      *)
(* them: VmAreas with records, Heap with the words inside free blocks.     *)
(* A definition named after a fault (SuccessorNotLinked, ...) is not part  *)
(* of the model.                                                           *)
(***************************************************************************)
EXTENDS Naturals

CONSTANTS NULL_ID,
          get_node_prev(_, _), get_node_next(_, _),         \* store, node
          set_node_prev(_, _, _), set_node_next(_, _, _),   \* store, node, its new neighbour
          list_in(_),                                       \* its head and its count
          with_count(_, _),
          update_head(_, _)

head(s) == list_in(s).head
count(s) == list_in(s).count
Longer(s) == with_count(s, count(s) + 1)

\* linkedlist_internal_insert: in front of the head, and the new head
Alone(s, node) ==
    set_node_next(set_node_prev(with_count(update_head(s, node), 1), node, node), node, node)
InFront(s, old, last, node) ==
    set_node_next(set_node_prev(set_node_prev(set_node_next(s, node, old), old, node),
                                node, last),
                  last, node)
insert(s, node) ==
    IF count(s) = 0 THEN Alone(s, node)
    ELSE Longer(update_head(InFront(s, head(s), get_node_prev(s, head(s)), node), node))

\* linkedlist_internal_insert_after
LinkAfter(s, prev, node, prev_next) ==
    set_node_next(set_node_prev(set_node_prev(set_node_next(s, node, prev_next),
                                              prev_next, node),
                                node, prev),
                  prev, node)
insert_after(s, prev, node) == Longer(LinkAfter(s, prev, node, get_node_next(s, prev)))

\* linkedlist_internal_insert_before
SuccessorNotLinked(s, next, node, next_prev) ==
    set_node_next(set_node_prev(set_node_next(s, node, next), node, next_prev), next_prev, node)
PredecessorNotLinked(s, next, node, next_prev) ==
    set_node_prev(set_node_prev(set_node_next(s, node, next), node, next_prev), next, node)
LinkBefore(s, next, node, next_prev) ==
    set_node_next(set_node_prev(set_node_prev(set_node_next(s, node, next), node, next_prev),
                                next, node),
                  next_prev, node)
insert_before(s, next, node) ==
    LET linked == Longer(LinkBefore(s, next, node, get_node_prev(s, next)))
    IN  IF next = head(s) THEN update_head(linked, node) ELSE linked

\* linkedlist_internal_delete.  In a ring the neighbours are never null; the only
\* node is its own neighbour.
Unlink(s, node) ==
    set_node_prev(set_node_next(s, get_node_prev(s, node), get_node_next(s, node)),
                  get_node_next(s, node), get_node_prev(s, node))
delete(s, node) ==
    LET unlinked == Unlink(s, node)
        moved    == IF head(s) = node THEN update_head(unlinked, get_node_next(s, node))
                    ELSE unlinked
        shorter  == with_count(moved, count(s) - 1)
    IN  IF count(shorter) = 0 THEN update_head(shorter, NULL_ID) ELSE shorter

\* The i-th node of a walk from the head along get_node_next
Walk(s, i) ==
    LET walk[j \in 0 .. i] == IF j = 0 THEN head(s) ELSE get_node_next(s, walk[j - 1])
    IN  walk[i]
Members(s) == {Walk(s, i) : i \in {j \in 0 .. count(s) : j < count(s)}}

\* A list is one ring of "count" nodes: a walk of that length meets each of
\* them once and comes back, and the other direction is its inverse.
IsRing(s) ==
    count(s) > 0 =>
        /\ \A i, j \in 0 .. count(s) - 1 : Walk(s, i) = Walk(s, j) => i = j
        /\ Walk(s, count(s)) = head(s)
        /\ \A n \in Members(s) : get_node_prev(s, get_node_next(s, n)) = n
=============================================================================
