------------------------------- MODULE Allocator -------------------------------
(***************************************************************************)
(* What src/src/malloc promises to the callers of mem_alloc and mem_free:  *)
(* the bytes handed out for one request lie in the heap, are aligned to    *)
(* eight and are shared with no other request until they are given back.   *)
(***************************************************************************)
EXTENDS Naturals, Functions

CONSTANTS
    Requests,   \* the sizes callers ask for
    HeapMax     \* the bytes there are

VARIABLE held   \* from the payload addresses held to the sizes asked for

Bytes(p, size) == p .. (p + size - 1)

Init == held = [p \in {} |-> 0]

Alloc(size) ==
    \E p \in 8 .. HeapMax :
        /\ p % 8 = 0
        /\ p + size <= HeapMax
        /\ \A q \in DOMAIN held : Bytes(p, size) \cap Bytes(q, held[q]) = {}
        /\ held' = [q \in DOMAIN held \cup {p} |-> IF q = p THEN size ELSE held[q]]

Free(p) == held' = Restrict(held, DOMAIN held \ {p})

Next == \/ \E size \in Requests : Alloc(size)
        \/ \E p \in DOMAIN held : Free(p)

Spec == Init /\ [][Next]_held
=============================================================================
