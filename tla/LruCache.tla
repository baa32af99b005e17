------------------------------- MODULE LruCache -------------------------------
(***************************************************************************)
(* What a write-back, write-allocate cache with LRU replacement promises,  *)
(* and what tests/test_cache.py compares sram.c with: each set is a stack  *)
(* of tags, the last used one on top, and every access reports a hit, a    *)
(* miss or an eviction.                                                    *)
(***************************************************************************)
EXTENDS Naturals, Sequences

CONSTANTS SetIndexes, Tags, Associativity, BlockSize

VARIABLES stack,    \* of each set, records of a tag and a dirty bit
          trace,    \* what the last access reported
          evicted   \* dirty bytes that were written back

vars == <<stack, trace, evicted>>

Holds(s, tag) == \E k \in 1 .. Len(stack[s]) : stack[s][k].tag = tag

\* The stack with a line on top of it: the lines above place k move down by one, and
\* what was at place k, if that is not below the stack, is gone.
OnTop(lines, k, line) ==
    LET depth == IF k > Len(lines) THEN k ELSE Len(lines)
    IN  [p \in 1 .. depth |->
            IF p = 1 THEN line ELSE IF p <= k THEN lines[p - 1] ELSE lines[p]]

Init ==
    /\ stack = [s \in SetIndexes |-> <<>>]
    /\ trace = "none" /\ evicted = 0

Hit(s, tag, write) ==
    \E k \in 1 .. Len(stack[s]) :
        /\ stack[s][k].tag = tag
        /\ stack' = [stack EXCEPT ![s] =
                OnTop(@, k, [tag |-> tag, dirty |-> write \/ @[k].dirty])]
        /\ trace' = "hit" /\ UNCHANGED evicted

Miss(s, tag, write) ==
    /\ ~Holds(s, tag) /\ Len(stack[s]) < Associativity
    /\ stack' = [stack EXCEPT ![s] =
            OnTop(@, Len(@) + 1, [tag |-> tag, dirty |-> write])]
    /\ trace' = "miss" /\ UNCHANGED evicted

Evict(s, tag, write) ==
    /\ ~Holds(s, tag) /\ Len(stack[s]) = Associativity
    /\ stack' = [stack EXCEPT ![s] =
            OnTop(@, Associativity, [tag |-> tag, dirty |-> write])]
    /\ trace' = "miss eviction"
    /\ evicted' = evicted + (IF stack[s][Associativity].dirty THEN BlockSize ELSE 0)

Next ==
    \E s \in SetIndexes, tag \in Tags, write \in BOOLEAN :
        Hit(s, tag, write) \/ Miss(s, tag, write) \/ Evict(s, tag, write)

Spec == Init /\ [][Next]_vars
=============================================================================
