-------------------------------- MODULE Mesi --------------------------------
(***************************************************************************)
(* The MESI protocol simulator, src/src/mains/mesi.c: NUM_PROCESSOR        *)
(* private caches holding one line each, above one word of memory.  The    *)
(* main loop applies read, write and evict events of random processors in  *)
(* any order: one action stands for one call of a handler, and "op" keeps  *)
(* which event it served.  A definition named after a fault                *)
(* (WriteBackSkipped, NeverPromoted, ...) is not part of the model: it     *)
(* stands just before the definition it is a faulty form of.               *)
(***************************************************************************)
EXTENDS Integers, FiniteSets

CONSTANTS NumProcessor,   \* NUM_PROCESSOR
          Values,         \* the ints a line may hold; 0 is the reset value
          WriteValues,    \* rand() % 1000, what main writes
          InitValue       \* 15213, the initial mem_value

ASSUME NumProcessorAssumption == NumProcessor \in Nat \ {0}
ASSUME ValuesAssumption ==
    0 \in Values /\ InitValue \in Values /\ WriteValues \subseteq Values

VARIABLES cache,       \* line_t cache[NUM_PROCESSOR]
          mem_value,   \* the word in memory
          read_value,  \* what the last read_cacheline delivered to main
          op           \* the event main drew last, with the value of a write

vars == <<cache, mem_value, read_value, op>>

Processors == 0 .. NumProcessor - 1
State == {"MODIFIED", "EXCLUSIVE", "SHARED", "INVALID"}
Line == [state : State, value : Values]

ResetStateOnly == [state |-> "INVALID", value |-> -1]
Reset == [state |-> "INVALID", value |-> 0]
Copy(s, v) == [state |-> s, value |-> v]

\* The events of main's loop; none is drawn before the first turn.
Read == [event |-> "read"]
Write(v) == [event |-> "write", value |-> v]
Evict == [event |-> "evict"]
NoEvent == [event |-> "none"]

\* read_value is uninitialised in main until the first read.
Init ==
    /\ cache = [i \in Processors |-> Reset]
    /\ mem_value = InitValue
    /\ read_value \in Values
    /\ op = NoEvent

InState(s) == {i \in Processors : cache[i].state = s}

\* The processor whose line answers a miss of i: the scan stops at the first
\* line, in index order, that is not INVALID.
Supplies(j, i) ==
    /\ j \in Processors \ {i}
    /\ cache[j].state # "INVALID"
    /\ \A k \in Processors \ {i} : cache[k].state # "INVALID" => j <= k

NoSupplier(i) == \A j \in Processors \ {i} : cache[j].state = "INVALID"

\* The memory word after the bus event of a miss that j supplies: a MODIFIED
\* supplier writes its value back.
WriteBackSkipped(j) == mem_value
WrittenBack(j) ==
    IF cache[j].state = "MODIFIED" THEN cache[j].value ELSE mem_value

-----------------------------------------------------------------------------
(* read_cacheline                                                          *)

ReadHit(i) ==
    /\ cache[i].state # "INVALID"
    /\ read_value' = cache[i].value
    /\ UNCHANGED <<cache, mem_value>>

\* Another cache supplies the line: a MODIFIED supplier writes back first,
\* and supplier and reader both end up SHARED.
ReadMissSupplied(i) ==
    /\ cache[i].state = "INVALID"
    /\ \E j \in Processors :
        /\ Supplies(j, i)
        /\ cache' = [cache EXCEPT ![i] = Copy("SHARED", cache[j].value),
                                  ![j].state = "SHARED"]
        /\ mem_value' = WrittenBack(j)
        /\ read_value' = cache[j].value

ReadMissMemory(i) ==
    /\ cache[i].state = "INVALID"
    /\ NoSupplier(i)
    /\ cache' = [cache EXCEPT ![i] = Copy("EXCLUSIVE", mem_value)]
    /\ read_value' = mem_value
    /\ UNCHANGED mem_value

read_cacheline(i) == ReadHit(i) \/ ReadMissSupplied(i) \/ ReadMissMemory(i)

-----------------------------------------------------------------------------
(* write_cacheline                                                         *)

InvalidateOthers(i, v) ==
    [k \in Processors |-> IF k = i THEN Copy("MODIFIED", v) ELSE Reset]

WriteHitExclusive(i, v) ==
    /\ cache[i].state \in {"MODIFIED", "EXCLUSIVE"}
    /\ cache' = [cache EXCEPT ![i] = Copy("MODIFIED", v)]
    /\ UNCHANGED <<mem_value, read_value>>

WriteHitShared(i, v) ==
    /\ cache[i].state = "SHARED"
    /\ cache' = InvalidateOthers(i, v)
    /\ UNCHANGED <<mem_value, read_value>>

\* The supplier alone is invalidated when it was MODIFIED (after a write-back)
\* or EXCLUSIVE; a SHARED supplier makes the writer invalidate every line.
WriteMissSupplied(i, v) ==
    /\ cache[i].state = "INVALID"
    /\ \E j \in Processors :
        /\ Supplies(j, i)
        /\ cache' = IF cache[j].state = "SHARED"
                    THEN InvalidateOthers(i, v)
                    ELSE [cache EXCEPT ![j] = Reset,
                                       ![i] = Copy("MODIFIED", v)]
        /\ mem_value' = WrittenBack(j)
    /\ UNCHANGED read_value

\* Write allocate: the fetched value is overwritten at once.
WriteMissMemory(i, v) ==
    /\ cache[i].state = "INVALID"
    /\ NoSupplier(i)
    /\ cache' = [cache EXCEPT ![i] = Copy("MODIFIED", v)]
    /\ UNCHANGED <<mem_value, read_value>>

write_cacheline(i, v) ==
    \/ WriteHitExclusive(i, v)
    \/ WriteHitShared(i, v)
    \/ WriteMissSupplied(i, v)
    \/ WriteMissMemory(i, v)

-----------------------------------------------------------------------------
(* evict_cacheline                                                         *)

EvictModifiedSilently(i) ==
    /\ cache[i].state = "MODIFIED"
    /\ cache' = [cache EXCEPT ![i] = Reset]
    /\ UNCHANGED <<mem_value, read_value>>
EvictModified(i) ==
    /\ cache[i].state = "MODIFIED"
    /\ mem_value' = cache[i].value
    /\ cache' = [cache EXCEPT ![i] = Reset]
    /\ UNCHANGED read_value

EvictExclusive(i) ==
    /\ cache[i].state = "EXCLUSIVE"
    /\ cache' = [cache EXCEPT ![i] = Reset]
    /\ UNCHANGED <<mem_value, read_value>>

\* The last sharer left, if only one is, is promoted to EXCLUSIVE.
NeverPromoted(i, j) == FALSE
Promoted(i, j) == InState("SHARED") \ {i} = {j}

EvictShared(i) ==
    /\ cache[i].state = "SHARED"
    /\ cache' = [j \in Processors |->
                    IF j = i THEN Reset
                    ELSE IF Promoted(i, j) THEN [cache[j] EXCEPT !.state = "EXCLUSIVE"]
                    ELSE cache[j]]
    /\ UNCHANGED <<mem_value, read_value>>

EvictInvalid(i) ==
    /\ cache[i].state = "INVALID"
    /\ UNCHANGED <<cache, mem_value, read_value>>

evict_cacheline(i) ==
    EvictModified(i) \/ EvictExclusive(i) \/ EvictShared(i) \/ EvictInvalid(i)

Next ==
    \E i \in Processors :
        \/ read_cacheline(i) /\ op' = Read
        \/ \E v \in WriteValues : write_cacheline(i, v) /\ op' = Write(v)
        \/ evict_cacheline(i) /\ op' = Evict

Spec == Init /\ [][Next]_vars

-----------------------------------------------------------------------------
(* Properties                                                              *)

\* Every variable stays in the range mesi.c gives it.
TypeOK ==
    /\ cache \in [Processors -> Line]
    /\ mem_value \in Values
    /\ read_value \in Values
    /\ op \in {NoEvent, Read, Evict} \cup {Write(v) : v \in WriteValues}

\* What check_state accepts after every event of the main loop: one MODIFIED
\* copy and no other, one EXCLUSIVE copy and no other, two or more SHARED
\* copies and no other, or no copy at all.
check_state ==
    LET m_count == Cardinality(InState("MODIFIED"))
        e_count == Cardinality(InState("EXCLUSIVE"))
        s_count == Cardinality(InState("SHARED"))
        i_count == Cardinality(InState("INVALID"))
    IN  \/ m_count = 1 /\ i_count = NumProcessor - 1
        \/ e_count = 1 /\ i_count = NumProcessor - 1
        \/ s_count >= 2 /\ i_count = NumProcessor - s_count
        \/ i_count = NumProcessor

\* A copy that is not MODIFIED agrees with memory: the comments of state_t call
\* EXCLUSIVE "exclusive clean" and SHARED "shared clean".
CleanCopiesMatchMemory ==
    \A i \in Processors :
        cache[i].state \in {"EXCLUSIVE", "SHARED"} => cache[i].value = mem_value

\* A MODIFIED copy is the only place where the newest value lives, so a step of
\* any processor that takes the line away leaves that value in memory.
DirtyCopyWrittenBack ==
    [][\A i \in Processors :
          (cache[i].state = "MODIFIED" /\ cache'[i].state # "MODIFIED")
              => mem_value' = cache[i].value]_vars

\* The word the processors see: the MODIFIED copy of lines c if there is one,
\* the word m of memory otherwise.
VisibleWord(c, m) ==
    IF \E i \in Processors : c[i].state = "MODIFIED"
    THEN c[CHOOSE i \in Processors : c[i].state = "MODIFIED"].value
    ELSE m

Memory == INSTANCE CoherentMemory
            WITH word <- VisibleWord(cache, mem_value), answer <- read_value

\* The caches implement one atomic word: a read event returns the value of the
\* last write event of any processor, a write event makes its own value the
\* visible one, and evictions and write-backs change nothing visible.
ImplementsMemory == Memory!Spec
=============================================================================
