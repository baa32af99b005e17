------------------------------- MODULE VmAreas -------------------------------
(***************************************************************************)
(* The list of virtual memory areas of a process: src/src/process/vmarea.c *)
(* on the linked list of src/src/algorithm/linkedlist.c, and the copy fork *)
(* makes of it.  Built with VMA_DEBUG, as in the tests of fork and paging. *)
(*                                                                         *)
(* Process 1 is loaded; process 2 stands for the child of its last fork.   *)
(* The loader adds areas that are disjoint, in any order.  An area is      *)
(* measured in pages; "kind" is its file and mode.  A failing assertion    *)
(* ends the simulator and leaves the reason in "panic".  A definition      *)
(* named after a fault (OneShort, ...) is not part of the model.           *)
(***************************************************************************)
EXTENDS Naturals, FiniteSets

CONSTANTS NULL_ID,
          MaxPage,    \* bound: pages of the address space
          MaxAreas,   \* bound: areas a run adds
          AreaKinds,
          NoArea

ASSUME VmAreasAssumption ==
    /\ MaxPage \in Nat /\ MaxAreas \in Nat

VARIABLES areas,   \* the list of each process
          area,    \* the contents of its nodes
          panic

vars == <<areas, area, panic>>

Procs == {1, 2}
Nodes == 1 .. MaxAreas
Starts == 0 .. MaxPage
Area == {a \in [start : Starts, end : Starts, kind : AreaKinds] : a.start < a.end}

-----------------------------------------------------------------------------
(* The list of linkedlist.c with vma_interface, on the record of a process: *)
(* "head" and "count", and the pointers of its nodes                        *)

\* Nodes that construct_vma_node has made, none of them in the list
NoAreas == [head |-> NULL_ID, count |-> 0, prev |-> [n \in Nodes |-> n], next |-> [n \in Nodes |-> n]]

get_prev_vma(list, n) == list.prev[n]
set_prev_vma(list, n, to) == [list EXCEPT !.prev[n] = to]
set_next_vma(list, n, to) == [list EXCEPT !.next[n] = to]
with_count(list, count) == [list EXCEPT !.count = count]
vmalist_update_head(list, node) ==
    [list EXCEPT !.head = node, !.count = IF @ = 0 THEN 1 ELSE @]

\* vma_interface: its get_node_next is get_prev_vma.
Ring == INSTANCE Rings WITH
    get_node_prev <- get_prev_vma, get_node_next <- get_prev_vma,
    set_node_prev <- set_prev_vma, set_node_next <- set_next_vma,
    list_in <- LAMBDA list : list, update_head <- vmalist_update_head

\* The i-th node of a walk from the head along the pointers themselves
Walk(list, i) ==
    LET walk[j \in 0 .. i] == IF j = 0 THEN list.head ELSE list.next[walk[j - 1]]
    IN  walk[i]

\* What "count" steps of a walk visit
Visited(list) == {Walk(list, i) : i \in {j \in 0 .. list.count : j < list.count}}

Init ==
    /\ areas = [p \in Procs |-> NoAreas]
    /\ area = [p \in Procs |-> [n \in Nodes |-> NoArea]]
    /\ panic = "none"

-----------------------------------------------------------------------------
(* vma_add_area, on a list and the contents of its nodes                    *)

\* check_vm_areas compares the head and its successor, again and again.
check_vm_areas(list, content) ==
    LET prev == content[list.head]
        next == content[list.next[list.head]]
    IN  list.count > 1 =>
            IF prev.kind = next.kind THEN prev.end < next.start
            ELSE prev.end <= next.start

\* The assertions of can_vmas_merge.  They leave it nothing to merge: areas
\* that touch each other fail them.
Apart(prev, next) == prev.start < next.start /\ prev.end < next.start

\* The first node of the walk with a higher start
Higher(list, content, a) ==
    {i \in 0 .. list.count - 1 :
        /\ a.start < content[Walk(list, i)].start
        /\ \A j \in 0 .. i - 1 : content[Walk(list, j)].start <= a.start}

Added(list, content, panicked) == [list |-> list, content |-> content, panic |-> panicked]

\* Linked if the assertions of can_vmas_merge hold between the neighbours
LinkedIf(apart, list, content, linked, a, node) ==
    IF apart THEN Added(linked, [content EXCEPT ![node] = a], "none")
    ELSE Added(list, content, "can_vmas_merge")

\* The list after the search.  Its end is the head again, "count" steps on.
Inserted(list, content, a, node) ==
    IF Higher(list, content, a) # {}
    THEN LET p == Walk(list, CHOOSE i \in Higher(list, content, a) : TRUE)
         IN  LinkedIf(Apart(a, content[p]), list, content, Ring!insert_before(list, p, node), a, node)
    ELSE LET p == Walk(list, list.count)
         IN  LinkedIf(Apart(content[p], a), list, content, Ring!insert_after(list, p, node), a, node)

vma_add_area(list, content, a) ==
    LET node == list.count + 1
    IN  IF list.count = 0
        THEN Added(Ring!insert(list, node), [content EXCEPT ![node] = a], "none")
        ELSE IF ~check_vm_areas(list, content)
        THEN Added(list, content, "check_vm_areas")
        ELSE IF a.start = content[list.head].start
        THEN Added(list, content, "vma_add_area")
        ELSE Inserted(list, content, a, node)

\* The areas a walk of "count" steps finds; search_vma_vaddr returns the first
\* that holds the address.
Listed(list, content) == {content[n] : n \in Visited(list)}
search_vma_vaddr(list, content, page) ==
    LET hits == {i \in 0 .. list.count - 1 :
                    LET a == content[Walk(list, i)] IN a.start <= page /\ page < a.end}
    IN  IF hits = {} THEN NoArea
        ELSE content[Walk(list, CHOOSE i \in hits : \A j \in hits : i <= j)]

-----------------------------------------------------------------------------
(* Actions                                                                  *)

Disjoint(a, b) == a.end <= b.start \/ b.end <= a.start

\* The loader adds an area to process 1.
AddArea(a) ==
    LET added == vma_add_area(areas[1], area[1], a)
    IN  /\ panic = "none"
        /\ areas[1].count < MaxAreas
        /\ \A n \in 1 .. areas[1].count : Disjoint(a, area[1][n])
        /\ panic' = added.panic
        /\ areas' = [areas EXCEPT ![1] = added.list]
        /\ area' = [area EXCEPT ![1] = added.content]

OneShort(list) == list.count - 1
AreasToCopy(list) == list.count

\* copy_vmareas: the parent's areas, in the order of its walk, are added to
\* the child one by one.
Copied(list, content) ==
    LET copy[i \in 0 .. MaxAreas] ==
            IF i = 0 THEN Added(NoAreas, [n \in Nodes |-> NoArea], "none")
            ELSE IF copy[i - 1].panic # "none" THEN copy[i - 1]
            ELSE vma_add_area(copy[i - 1].list, copy[i - 1].content,
                              content[Walk(list, i - 1)])
    IN  copy[AreasToCopy(list)]

Fork ==
    LET copied == Copied(areas[1], area[1])
    IN  /\ panic = "none" /\ areas[1].count > 0
        /\ panic' = copied.panic
        /\ areas' = [areas EXCEPT ![2] = copied.list]
        /\ area' = [area EXCEPT ![2] = copied.content]

Next == (\E a \in Area : AddArea(a)) \/ Fork

Spec == Init /\ [][Next]_vars

-----------------------------------------------------------------------------
(* Properties                                                               *)

Running == panic = "none"

\* However areas are added, following "next" and following "prev" visit the
\* same ring, in opposite directions, as long as there are at most five: the
\* one that is lost when the fourth is added at the end leaves the ring whole,
\* and the sixth can be linked between areas that are no neighbours.
LinksAgree(list) == \A n \in Visited(list) : list.prev[list.next[n]] = n
RingsAgree == Running => \A p \in Procs : areas[p].count <= 5 => LinksAgree(areas[p])

\* While they do, an area below another one of the list is inserted so that
\* every lookup that worked still does, and the new area is found: an area is
\* only ever lost when one is added at the end.
LowerAreaIsFound ==
    [][\A a \in Area :
        /\ AddArea(a) /\ panic' = "none"
        /\ LinksAgree(areas[1])
        /\ \E b \in Listed(areas[1], area[1]) : a.start < b.start
        => \A page \in Starts :
            search_vma_vaddr(areas[1], area[1], page)' =
                IF a.start <= page /\ page < a.end THEN a
                ELSE search_vma_vaddr(areas[1], area[1], page)]_vars

\* A fork that does not stop the simulator gives the child no area its parent
\* does not have, and all of them as long as there are no more than three: the
\* copies are added in the order of the parent's walk, which may be sorted or
\* not, and the fourth in a row that is added at the end loses another one.
ChildFindsParentsAreas ==
    [][Fork /\ panic' = "none" =>
        \A page \in Starts :
            LET found == search_vma_vaddr(areas[1], area[1], page)
                copied == search_vma_vaddr(areas[2], area[2], page)'
            IN  copied = found \/ (copied = NoArea /\ areas[1].count > 3)]_vars
=============================================================================
