------------------------------ MODULE SramCache ------------------------------
(***************************************************************************)
(* The set associative cache of src/src/hardware/cpu/sram.c, in the build  *)
(* that exists (CACHE_SIMULATION_VERIFICATION, from tests/test_cache.py):  *)
(* tags, states, LRU timers and counters, without the data.  A definition  *)
(* named after a fault (YoungestLine, ...) is not part of the model.       *)
(***************************************************************************)
EXTENDS Naturals, FiniteSets

CONSTANTS NumSets,       \* 1 << SRAM_CACHE_INDEX_LENGTH
          NumLines,      \* NUM_CACHE_LINE_PER_SET
          Tags,
          BlockSize,     \* 1 << SRAM_CACHE_OFFSET_LENGTH
          MaxAccesses    \* bound: accesses of a run

ASSUME SramCacheAssumption ==
    /\ NumSets \in Nat \ {0} /\ NumLines \in Nat \ {0}
    /\ BlockSize \in Nat \ {0} /\ MaxAccesses \in Nat

SetIndexes == 0 .. NumSets - 1
Lines == 0 .. NumLines - 1

VARIABLES cache,      \* sets of lines with state, time and tag
          trace_buf,
          hits, misses, evicts,   \* the counters cache_..._count
          dirty_in_cache,         \* dirty_bytes_in_cache_count
          dirty_evicted           \* dirty_bytes_evicted_count

vars == <<cache, trace_buf, hits, misses, evicts, dirty_in_cache, dirty_evicted>>

Valid(set) == {i \in Lines : set[i].state # "INVALID"}

\* Static storage: all zero, hence INVALID; the tag of an invalid line is never
\* looked at.
Init ==
    /\ cache = [s \in SetIndexes |-> [i \in Lines |->
                    [state |-> "INVALID", time |-> 0, tag |-> CHOOSE t \in Tags : TRUE]]]
    /\ trace_buf = "none"
    /\ hits = 0 /\ misses = 0 /\ evicts = 0
    /\ dirty_in_cache = 0 /\ dirty_evicted = 0

-----------------------------------------------------------------------------
(* The lines an access deals with                                           *)

\* The first loop makes every line older, valid or not.
Aged(set) == [i \in Lines |-> [set[i] EXCEPT !.time = @ + 1]]

YoungestLine(set) ==
    CHOOSE i \in Lines : \A j \in Lines : set[i].time <= set[j].time
\* The first line with the highest timer
VictimLine(set) ==
    CHOOSE i \in Lines : \A j \in Lines :
        set[j].time <= set[i].time /\ (j < i => set[j].time < set[i].time)

\* The last invalid line
InvalidLine(set) ==
    CHOOSE i \in Lines \ Valid(set) : \A j \in Lines \ Valid(set) : j <= i

Matching(set, tag) == {i \in Valid(set) : set[i].tag = tag}
HitLine(set, tag) ==
    CHOOSE i \in Matching(set, tag) : \A j \in Matching(set, tag) : i <= j

\* The line is now the last used one.
Fill(set, i, state, tag) ==
    [set EXCEPT ![i] = [state |-> state, time |-> 0, tag |-> tag]]

StateAfter(write, before) == IF write THEN "DIRTY" ELSE before

-----------------------------------------------------------------------------
(* sram_cache_read (write = FALSE) and sram_cache_write (write = TRUE)      *)

HitAlwaysCounts(write, state) == write
NewlyDirty(write, state) == write /\ state = "CLEAN"

AccessHits(s, tag, write) ==
    LET set == Aged(cache[s])
        i == HitLine(set, tag)
    IN  /\ Matching(set, tag) # {}
        /\ trace_buf' = "hit" /\ hits' = hits + 1
        /\ cache' = [cache EXCEPT ![s] = Fill(set, i, StateAfter(write, set[i].state), tag)]
        /\ dirty_in_cache' = dirty_in_cache + (IF NewlyDirty(write, set[i].state) THEN BlockSize ELSE 0)
        /\ UNCHANGED <<misses, evicts, dirty_evicted>>

AccessMisses(s, tag, write) ==
    LET set == Aged(cache[s])
    IN  /\ Matching(set, tag) = {} /\ Valid(set) # Lines
        /\ trace_buf' = "miss" /\ misses' = misses + 1
        /\ cache' = [cache EXCEPT ![s] =
                Fill(set, InvalidLine(set), StateAfter(write, "CLEAN"), tag)]
        /\ dirty_in_cache' = dirty_in_cache + (IF write THEN BlockSize ELSE 0)
        /\ UNCHANGED <<hits, evicts, dirty_evicted>>

AccessEvicts(s, tag, write) ==
    LET set == Aged(cache[s])
        victim == VictimLine(set)
        written == IF set[victim].state = "DIRTY" THEN BlockSize ELSE 0
    IN  /\ Matching(set, tag) = {} /\ Valid(set) = Lines
        /\ trace_buf' = "miss eviction"
        /\ misses' = misses + 1 /\ evicts' = evicts + 1
        /\ cache' = [cache EXCEPT ![s] = Fill(set, victim, StateAfter(write, "CLEAN"), tag)]
        /\ dirty_evicted' = dirty_evicted + written
        /\ dirty_in_cache' = (dirty_in_cache - written) + (IF write THEN BlockSize ELSE 0)
        /\ UNCHANGED hits

Next ==
    /\ hits + misses < MaxAccesses
    /\ \E s \in SetIndexes, tag \in Tags, write \in BOOLEAN :
        AccessHits(s, tag, write) \/ AccessMisses(s, tag, write) \/ AccessEvicts(s, tag, write)

Spec == Init /\ [][Next]_vars

-----------------------------------------------------------------------------
(* Properties                                                               *)

\* The counter the test compares is the number of dirty bytes that are really
\* in the cache, after any mixture of hits, fills and evictions.
DirtyLines == {p \in SetIndexes \X Lines : cache[p[1]][p[2]].state = "DIRTY"}
DirtyBytesExact == dirty_in_cache = BlockSize * Cardinality(DirtyLines)

\* The lines of a set from the last used one to the one used longest ago
Rank(set, i) == Cardinality({j \in Valid(set) : set[j].time <= set[i].time})
Ranked(set, k) == CHOOSE i \in Valid(set) : Rank(set, i) = k
Recency(set) ==
    [k \in 1 .. Cardinality(Valid(set)) |->
        LET line == set[Ranked(set, k)]
        IN  [tag |-> line.tag, dirty |-> line.state = "DIRTY"]]

\* Timers that only count up and are compared implement LRU replacement:
\* every access reports what the reference reports, and evicts the same block.
Lru == INSTANCE LruCache WITH
    Associativity <- NumLines,
    stack <- [s \in SetIndexes |-> Recency(cache[s])],
    trace <- trace_buf, evicted <- dirty_evicted

ImplementsLru == Lru!Spec
=============================================================================
