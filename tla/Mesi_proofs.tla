----------------------------- MODULE Mesi_proofs -----------------------------
(***************************************************************************)
(* Proofs about Mesi for every number of processors and every value set.   *)
(***************************************************************************)
EXTENDS Mesi, FiniteSetTheorems, TLAPS

\* A MODIFIED or EXCLUSIVE copy is the only copy.
Exclusion ==
    \A i, j \in Processors :
        (i # j /\ cache[i].state \in {"MODIFIED", "EXCLUSIVE"})
            => cache[j].state = "INVALID"

\* A SHARED copy is never alone: eviction promotes the last one.
SharedInCompany ==
    \A i \in Processors : cache[i].state = "SHARED" =>
        \E j \in Processors \ {i} : cache[j].state = "SHARED"

\* The inductive invariant: check_state counts, these two say who holds what.
IInv == TypeOK /\ Exclusion /\ SharedInCompany /\ CleanCopiesMatchMemory

USE DEF Line, State, Reset, Copy, WrittenBack

-----------------------------------------------------------------------------
(* Type correctness                                                        *)

\* Every event of main leaves the variables in their types.
THEOREM TypeCorrect == Spec => []TypeOK
<1>1. Init => TypeOK
  BY ValuesAssumption DEF Init, TypeOK
<1>2. TypeOK /\ [Next]_vars => TypeOK'
  <2> SUFFICES ASSUME TypeOK, [Next]_vars PROVE TypeOK'
    OBVIOUS
  <2> DEFINE Data == /\ cache \in [Processors -> Line]
                     /\ mem_value \in Values /\ read_value \in Values
  <2> USE ValuesAssumption DEF TypeOK
  <2>1. ASSUME NEW i \in Processors, read_cacheline(i) PROVE Data'
    <3>1. CASE ReadHit(i) \/ ReadMissMemory(i)
      BY <3>1 DEF ReadHit, ReadMissMemory
    <3>2. CASE ReadMissSupplied(i)
      <4>1. PICK j \in Processors :
              /\ cache' = [cache EXCEPT ![i] = Copy("SHARED", cache[j].value),
                                        ![j].state = "SHARED"]
              /\ mem_value' \in {cache[j].value, mem_value}
              /\ read_value' = cache[j].value
        BY <3>2 DEF ReadMissSupplied
      <4>2. cache[j].value \in Values
        OBVIOUS
      <4>. QED BY <4>1, <4>2
    <3>. QED BY <2>1, <3>1, <3>2 DEF read_cacheline
  <2>2. ASSUME NEW i \in Processors, NEW v \in WriteValues, write_cacheline(i, v)
        PROVE  Data'
    BY <2>2 DEF write_cacheline, WriteHitExclusive, WriteHitShared,
                WriteMissSupplied, WriteMissMemory, InvalidateOthers
  <2>3. ASSUME NEW i \in Processors, evict_cacheline(i) PROVE Data'
    <3>1. CASE EvictModified(i) \/ EvictExclusive(i) \/ EvictInvalid(i)
      BY <3>1 DEF EvictModified, EvictExclusive, EvictInvalid
    <3>2. CASE EvictShared(i)
      BY <3>2 DEF EvictShared
    <3>. QED BY <2>3, <3>1, <3>2 DEF evict_cacheline
  <2>4. CASE UNCHANGED vars
    BY <2>4 DEF vars
  <2>5. CASE Next
    <3>1. Data'
      BY <2>1, <2>2, <2>3, <2>5 DEF Next
    <3>2. op' \in {Read, Evict} \cup {Write(v) : v \in WriteValues}
      BY <2>5 DEF Next
    <3>. QED BY <3>1, <3>2
  <2>. QED BY <2>4, <2>5
<1>. QED BY <1>1, <1>2, PTL DEF Spec

-----------------------------------------------------------------------------
(* The coherence invariant, one lemma per handler                          *)

\* read_cacheline leaves owners alone, sharers in company and clean copies clean.
LEMMA ReadKeepsInvariant ==
  ASSUME IInv, NEW i \in Processors, read_cacheline(i), TypeOK'
  PROVE  IInv'
<1> USE DEF IInv, TypeOK, Exclusion, SharedInCompany, CleanCopiesMatchMemory
<1>1. CASE ReadHit(i)
  BY <1>1 DEF ReadHit
<1>2. CASE ReadMissSupplied(i)
  <2>1. PICK j \in Processors :
          /\ Supplies(j, i)
          /\ cache' = [cache EXCEPT ![i] = Copy("SHARED", cache[j].value),
                                    ![j].state = "SHARED"]
          /\ mem_value' = WrittenBack(j)
    BY <1>2 DEF ReadMissSupplied
  <2>2. j # i /\ cache[j].state # "INVALID" /\ cache[i].state = "INVALID"
    BY <2>1, <1>2 DEF Supplies, ReadMissSupplied
  <2>3. /\ cache'[i] = Copy("SHARED", cache[j].value)
        /\ cache'[j].state = "SHARED"
        /\ cache'[j].value = cache[j].value
        /\ \A k \in Processors \ {i, j} : cache'[k] = cache[k]
    BY <2>1, <2>2
  <2>4. mem_value' = cache[j].value
    BY <2>1, <2>2
  <2>5. \A k \in Processors \ {i, j} : cache[k].state \in {"SHARED", "INVALID"}
    BY <2>2
  <2>6. Exclusion'
    BY <2>3, <2>5
  <2>7. SharedInCompany'
    BY <2>2, <2>3
  <2>8. CleanCopiesMatchMemory'
    <3> SUFFICES ASSUME NEW k \in Processors,
                        cache'[k].state \in {"EXCLUSIVE", "SHARED"}
                 PROVE  cache'[k].value = mem_value'
      OBVIOUS
    <3>1. CASE k \in {i, j}
      BY <3>1, <2>3, <2>4
    <3>2. CASE k \notin {i, j}
      <4>1. cache[k].state = "SHARED" /\ cache'[k] = cache[k]
        BY <3>2, <2>3, <2>5
      <4>2. cache[j].state = "SHARED"
        BY <4>1, <2>2, <3>2
      <4>. QED BY <4>1, <4>2, <2>4
    <3>. QED BY <3>1, <3>2
  <2>. QED BY <2>6, <2>7, <2>8
<1>3. CASE ReadMissMemory(i)
  BY <1>3 DEF ReadMissMemory, NoSupplier
<1>. QED BY <1>1, <1>2, <1>3 DEF read_cacheline

\* write_cacheline invalidates the other copies, and so keeps the invariant.
LEMMA WriteKeepsInvariant ==
  ASSUME IInv, NEW i \in Processors, NEW v \in WriteValues,
         write_cacheline(i, v), TypeOK'
  PROVE  IInv'
<1> USE DEF IInv, TypeOK, Exclusion, SharedInCompany, CleanCopiesMatchMemory
\* After any write the writer alone has a copy, and it is MODIFIED.
<1>1. /\ cache'[i].state = "MODIFIED"
      /\ \A k \in Processors \ {i} : cache'[k].state = "INVALID"
  <2>1. CASE WriteHitExclusive(i, v)
    BY <2>1 DEF WriteHitExclusive
  <2>2. CASE WriteHitShared(i, v)
    BY <2>2 DEF WriteHitShared, InvalidateOthers
  <2>3. CASE WriteMissSupplied(i, v)
    <3>1. PICK j \in Processors :
            /\ Supplies(j, i)
            /\ cache' = IF cache[j].state = "SHARED"
                        THEN InvalidateOthers(i, v)
                        ELSE [cache EXCEPT ![j] = Reset,
                                           ![i] = Copy("MODIFIED", v)]
      BY <2>3 DEF WriteMissSupplied
    <3>2. j # i /\ cache[j].state # "INVALID"
      BY <3>1 DEF Supplies
    <3>3. CASE cache[j].state = "SHARED"
      BY <3>1, <3>3 DEF InvalidateOthers
    <3>4. CASE cache[j].state # "SHARED"
      <4>1. \A k \in Processors \ {j} : cache[k].state = "INVALID"
        BY <3>2, <3>4
      <4>. QED BY <3>1, <3>2, <3>4, <4>1
    <3>. QED BY <3>3, <3>4
  <2>4. CASE WriteMissMemory(i, v)
    BY <2>4 DEF WriteMissMemory, NoSupplier
  <2>. QED BY <2>1, <2>2, <2>3, <2>4 DEF write_cacheline
<1>. QED BY <1>1

\* evict_cacheline promotes the last sharer, and so keeps the invariant.
LEMMA EvictKeepsInvariant ==
  ASSUME IInv, NEW i \in Processors, evict_cacheline(i), TypeOK'
  PROVE  IInv'
<1> USE DEF IInv, TypeOK, Exclusion, SharedInCompany, CleanCopiesMatchMemory
<1>1. CASE EvictModified(i)
  BY <1>1 DEF EvictModified
<1>2. CASE EvictExclusive(i)
  BY <1>2 DEF EvictExclusive
<1>3. CASE EvictShared(i)
  <2>1. /\ cache'[i] = Reset
        /\ \A j \in Processors \ {i} :
              cache'[j] = IF Promoted(i, j) THEN [cache[j] EXCEPT !.state = "EXCLUSIVE"]
                                            ELSE cache[j]
        /\ mem_value' = mem_value
        /\ cache[i].state = "SHARED"
    BY <1>3 DEF EvictShared
  <2>2. \A j \in Processors : cache[j].state \in {"SHARED", "INVALID"}
    BY <2>1
  <2>3. \A j \in Processors : Promoted(i, j) =>
            /\ j # i
            /\ cache[j].state = "SHARED"
            /\ \A k \in Processors \ {i, j} : cache[k].state = "INVALID"
    BY <2>2 DEF Promoted, InState
  <2>4. Exclusion'
    <3> SUFFICES ASSUME NEW j \in Processors, NEW k \in Processors, j # k,
                        cache'[j].state \in {"MODIFIED", "EXCLUSIVE"}
                 PROVE  cache'[k].state = "INVALID"
      OBVIOUS
    <3>1. j # i /\ Promoted(i, j)
      BY <2>1, <2>2
    <3>2. CASE k = i
      BY <3>2, <2>1
    <3>3. CASE k # i
      <4>1. cache[k].state = "INVALID"
        BY <3>1, <3>3, <2>3
      <4>2. ~ Promoted(i, k)
        BY <4>1, <2>3
      <4>. QED BY <4>1, <4>2, <3>3, <2>1
    <3>. QED BY <3>2, <3>3
  <2>5. SharedInCompany'
    <3> SUFFICES ASSUME NEW j \in Processors, cache'[j].state = "SHARED"
                 PROVE  \E k \in Processors \ {j} : cache'[k].state = "SHARED"
      OBVIOUS
    <3>1. j # i /\ ~ Promoted(i, j) /\ cache[j].state = "SHARED"
      BY <2>1
    <3>2. j \in InState("SHARED") \ {i}
      BY <3>1 DEF InState
    <3>3. PICK k \in InState("SHARED") \ {i} : k # j
      BY <3>1, <3>2 DEF Promoted
    <3>4. k \in Processors /\ cache[k].state = "SHARED" /\ k # i
      BY <3>3 DEF InState
    <3>5. ~ Promoted(i, k)
      BY <3>1, <3>3, <3>4, <2>3
    <3>. QED BY <3>3, <3>4, <3>5, <2>1
  <2>6. CleanCopiesMatchMemory'
    <3> SUFFICES ASSUME NEW j \in Processors,
                        cache'[j].state \in {"EXCLUSIVE", "SHARED"}
                 PROVE  cache'[j].value = mem_value'
      OBVIOUS
    <3>1. j # i /\ cache[j].state = "SHARED"
      <4>1. j # i
        BY <2>1
      <4>2. CASE Promoted(i, j)
        BY <4>1, <4>2, <2>3
      <4>3. CASE ~ Promoted(i, j)
        <5>1. cache'[j] = cache[j]
          BY <4>1, <4>3, <2>1
        <5>. QED BY <4>1, <5>1, <2>2
      <4>. QED BY <4>2, <4>3
    <3>2. cache'[j].value = cache[j].value
      BY <2>1, <3>1
    <3>. QED BY <2>1, <3>1, <3>2
  <2>. QED BY <2>4, <2>5, <2>6
<1>4. CASE EvictInvalid(i)
  BY <1>4 DEF EvictInvalid
<1>. QED BY <1>1, <1>2, <1>3, <1>4 DEF evict_cacheline

\* The invariant of the three handlers holds in every reachable state.
LEMMA InvariantHolds == Spec => []IInv
<1>1. Init => IInv
  BY ValuesAssumption DEF Init, IInv, TypeOK, Exclusion, SharedInCompany,
     CleanCopiesMatchMemory
<1>2. IInv /\ TypeOK' /\ [Next]_vars => IInv'
  <2> SUFFICES ASSUME IInv, TypeOK', [Next]_vars PROVE IInv'
    OBVIOUS
  <2>1. CASE UNCHANGED vars
    BY <2>1 DEF vars, IInv, TypeOK, Exclusion, SharedInCompany, CleanCopiesMatchMemory
  <2>2. CASE Next
    <3>1. PICK i \in Processors :
            \/ read_cacheline(i)
            \/ \E v \in WriteValues : write_cacheline(i, v)
            \/ evict_cacheline(i)
      BY <2>2 DEF Next
    <3>2. ASSUME read_cacheline(i) PROVE IInv'
      BY <3>2, ReadKeepsInvariant
    <3>3. ASSUME NEW v \in WriteValues, write_cacheline(i, v) PROVE IInv'
      BY <3>3, WriteKeepsInvariant
    <3>4. ASSUME evict_cacheline(i) PROVE IInv'
      BY <3>4, EvictKeepsInvariant
    <3>. QED BY <3>1, <3>2, <3>3, <3>4
  <2>. QED BY <2>1, <2>2
<1>. QED BY <1>1, <1>2, TypeCorrect, PTL DEF Spec

-----------------------------------------------------------------------------
(* What the invariant gives                                                *)

\* check_state accepts every state the events of main can produce.
THEOREM CheckStateHolds == Spec => []check_state
<1>1. IInv => check_state
  <2> SUFFICES ASSUME IInv PROVE check_state
    OBVIOUS
  <2> USE DEF IInv, TypeOK, Exclusion, SharedInCompany
  <2> DEFINE M == InState("MODIFIED")
             E == InState("EXCLUSIVE")
             S == InState("SHARED")
             I == InState("INVALID")
  <2>1. IsFiniteSet(Processors) /\ Cardinality(Processors) = NumProcessor
    BY FS_Interval, NumProcessorAssumption DEF Processors
  <2>2. \A i \in Processors : cache[i].state \in State
    OBVIOUS
  <2>3. CASE \E i \in Processors : cache[i].state \in {"MODIFIED", "EXCLUSIVE"}
    <3>1. PICK i \in Processors : cache[i].state \in {"MODIFIED", "EXCLUSIVE"}
      BY <2>3
    <3>2. I = Processors \ {i}
      BY <3>1 DEF InState
    <3>3. Cardinality(I) = NumProcessor - 1
      BY <3>2, <2>1, FS_RemoveElement
    <3>4. M = {i} \/ E = {i}
      BY <3>1 DEF InState
    <3>5. Cardinality({i}) = 1
      BY FS_Singleton
    <3>. QED BY <3>3, <3>4, <3>5 DEF check_state
  <2>4. CASE \A i \in Processors : cache[i].state \in {"SHARED", "INVALID"}
    <3>1. I = Processors \ S /\ S \subseteq Processors
      BY <2>4 DEF InState
    <3>2. IsFiniteSet(S) /\ Cardinality(S) \in Nat
      BY <3>1, <2>1, FS_Subset, FS_CardinalityType
    <3>3. Processors \cap S = S
      BY <3>1
    <3>4. Cardinality(I) = NumProcessor - Cardinality(S)
      <4>1. Cardinality(Processors \ S)
              = Cardinality(Processors) - Cardinality(Processors \cap S)
        BY <2>1, FS_Difference
      <4>. QED BY <4>1, <3>1, <3>3, <2>1
    <3>5. CASE S = {}
      <4>1. I = Processors
        BY <3>1, <3>5
      <4>. QED BY <4>1, <2>1 DEF check_state
    <3>6. CASE S # {}
      <4>1. PICK i \in S : TRUE
        BY <3>6
      <4>2. PICK j \in S : j # i
        BY <4>1 DEF InState
      <4>3. Cardinality({i} \cup {j}) = 2
        <5>1. IsFiniteSet({i}) /\ Cardinality({i}) = 1
          BY FS_Singleton
        <5>2. j \notin {i}
          BY <4>2
        <5>3. Cardinality({i} \cup {j}) = Cardinality({i}) + 1
          BY <5>1, <5>2, FS_AddElement
        <5>. QED BY <5>1, <5>3
      <4>4. {i} \cup {j} \in SUBSET S
        BY <4>1, <4>2
      <4>5. Cardinality(S) >= 2
        BY <4>3, <4>4, <3>2, FS_Subset
      <4>. QED BY <4>5, <3>2, <3>4 DEF check_state
    <3>. QED BY <3>5, <3>6
  <2>. QED BY <2>2, <2>3, <2>4
<1>. QED BY <1>1, InvariantHolds, PTL

\* EXCLUSIVE and SHARED copies always agree with memory.
THEOREM CleanCopies == Spec => []CleanCopiesMatchMemory
<1>1. IInv => CleanCopiesMatchMemory
  BY DEF IInv
<1>. QED BY <1>1, InvariantHolds, PTL

\* A MODIFIED line that leaves its cache leaves its value in memory, whoever
\* takes it: a reader, a writer or an eviction.
THEOREM DirtyCopySurvives == Spec => DirtyCopyWrittenBack
<1>1. IInv /\ [Next]_vars =>
        [\A i \in Processors :
           (cache[i].state = "MODIFIED" /\ cache'[i].state # "MODIFIED")
               => mem_value' = cache[i].value]_vars
  <2> SUFFICES ASSUME IInv, Next, NEW d \in Processors,
                      cache[d].state = "MODIFIED", cache'[d].state # "MODIFIED"
               PROVE  mem_value' = cache[d].value
    OBVIOUS
  <2> USE DEF IInv, TypeOK, Exclusion
  <2>1. \A j \in Processors \ {d} : cache[j].state = "INVALID"
    OBVIOUS
  <2>2. ASSUME NEW i \in Processors, read_cacheline(i)
        PROVE  mem_value' = cache[d].value
    <3>1. CASE ReadHit(i)
      BY <3>1 DEF ReadHit
    <3>2. CASE ReadMissSupplied(i)
      <4>1. PICK j \in Processors :
              /\ Supplies(j, i)
              /\ mem_value' = WrittenBack(j)
        BY <3>2 DEF ReadMissSupplied
      <4>2. j = d
        BY <4>1, <2>1 DEF Supplies
      <4>. QED BY <4>1, <4>2
    <3>3. CASE ReadMissMemory(i)
      BY <3>3 DEF ReadMissMemory, NoSupplier
    <3>. QED BY <2>2, <3>1, <3>2, <3>3 DEF read_cacheline
  <2>3. ASSUME NEW i \in Processors, NEW v \in WriteValues, write_cacheline(i, v)
        PROVE  mem_value' = cache[d].value
    <3>1. CASE WriteHitExclusive(i, v)
      BY <3>1, <2>1 DEF WriteHitExclusive
    <3>2. CASE WriteHitShared(i, v)
      BY <3>2, <2>1 DEF WriteHitShared
    <3>3. CASE WriteMissSupplied(i, v)
      <4>1. PICK j \in Processors :
              /\ Supplies(j, i)
              /\ mem_value' = WrittenBack(j)
        BY <3>3 DEF WriteMissSupplied
      <4>2. j = d
        BY <4>1, <2>1 DEF Supplies
      <4>. QED BY <4>1, <4>2
    <3>4. CASE WriteMissMemory(i, v)
      BY <3>4, <2>1 DEF WriteMissMemory, NoSupplier
    <3>. QED BY <2>3, <3>1, <3>2, <3>3, <3>4 DEF write_cacheline
  <2>4. ASSUME NEW i \in Processors, evict_cacheline(i)
        PROVE  mem_value' = cache[d].value
    BY <2>1, <2>4 DEF evict_cacheline, EvictModified, EvictExclusive, EvictShared, EvictInvalid
  <2>. QED BY <2>2, <2>3, <2>4 DEF Next
<1>. QED BY <1>1, InvariantHolds, PTL DEF Spec, DirtyCopyWrittenBack

-----------------------------------------------------------------------------
(* Refinement: the caches implement CoherentMemory                         *)

\* The visible word is the one of the MODIFIED line, if there is one.
LEMMA VisibleWordModified ==
  ASSUME NEW c, NEW m, NEW i \in Processors, c[i].state = "MODIFIED",
         \A j \in Processors : c[j].state = "MODIFIED" => j = i
  PROVE  VisibleWord(c, m) = c[i].value
BY DEF VisibleWord

\* Without a MODIFIED line the visible word is the one in memory.
LEMMA VisibleWordMemory ==
  ASSUME NEW c, NEW m, \A i \in Processors : c[i].state # "MODIFIED"
  PROVE  VisibleWord(c, m) = m
BY DEF VisibleWord

\* The visible word is held by every copy there is, MODIFIED or clean.
LEMMA CopiesHoldVisibleWord ==
  ASSUME IInv, NEW i \in Processors, cache[i].state # "INVALID"
  PROVE  VisibleWord(cache, mem_value) = cache[i].value
<1> USE DEF IInv, TypeOK, Exclusion, CleanCopiesMatchMemory
<1>1. CASE cache[i].state = "MODIFIED"
  <2>1. \A j \in Processors : cache[j].state = "MODIFIED" => j = i
    BY <1>1
  <2>. QED BY <1>1, <2>1, VisibleWordModified
<1>2. CASE cache[i].state # "MODIFIED"
  <2>1. \A j \in Processors : cache[j].state # "MODIFIED"
    BY <1>2
  <2>2. cache[i].value = mem_value
    BY <1>2
  <2>. QED BY <2>1, <2>2, VisibleWordMemory
<1>. QED BY <1>1, <1>2

\* read_cacheline leaves the visible word in the reader's line, and does not change it.
LEMMA ReadReturnsVisibleWord ==
  ASSUME IInv, TypeOK', NEW i \in Processors, read_cacheline(i)
  PROVE  /\ read_value' = VisibleWord(cache, mem_value)
         /\ VisibleWord(cache, mem_value)' = VisibleWord(cache, mem_value)
<1> USE DEF IInv, TypeOK, Exclusion
<1>1. CASE ReadHit(i)
  BY <1>1, CopiesHoldVisibleWord DEF ReadHit
<1>2. CASE ReadMissSupplied(i)
  <2>1. PICK j \in Processors :
          /\ Supplies(j, i)
          /\ cache' = [cache EXCEPT ![i] = Copy("SHARED", cache[j].value),
                                    ![j].state = "SHARED"]
          /\ mem_value' = WrittenBack(j)
          /\ read_value' = cache[j].value
    BY <1>2 DEF ReadMissSupplied
  <2>2. j # i /\ cache[j].state # "INVALID"
    BY <2>1 DEF Supplies
  <2>3. VisibleWord(cache, mem_value) = cache[j].value
    BY <2>2, CopiesHoldVisibleWord
  <2>4. \A k \in Processors : cache'[k].state # "MODIFIED"
    BY <2>1, <2>2
  <2>5. mem_value' = cache[j].value
    BY <2>1, <2>2 DEF CleanCopiesMatchMemory
  <2>6. VisibleWord(cache', mem_value') = mem_value'
    BY <2>4, VisibleWordMemory
  <2>. QED BY <2>1, <2>3, <2>5, <2>6
<1>3. CASE ReadMissMemory(i)
  <2>1. \A k \in Processors : cache[k].state # "MODIFIED"
    BY <1>3 DEF ReadMissMemory, NoSupplier
  <2>2. \A k \in Processors : cache'[k].state # "MODIFIED"
    BY <1>3, <2>1 DEF ReadMissMemory
  <2>3. VisibleWord(cache, mem_value) = mem_value
    BY <2>1, VisibleWordMemory
  <2>4. VisibleWord(cache', mem_value') = mem_value'
    BY <2>2, VisibleWordMemory
  <2>. QED BY <1>3, <2>3, <2>4 DEF ReadMissMemory
<1>. QED BY <1>1, <1>2, <1>3 DEF read_cacheline

\* The writer's copy is MODIFIED, holds the written value and, by the
\* invariant, is alone: the visible word is the written one.
LEMMA WriteSetsVisibleWord ==
  ASSUME IInv, IInv', NEW i \in Processors, NEW v \in WriteValues,
         write_cacheline(i, v)
  PROVE  VisibleWord(cache, mem_value)' = v /\ UNCHANGED read_value
<1> USE DEF IInv, TypeOK, Exclusion
<1>1. cache'[i] = Copy("MODIFIED", v) /\ UNCHANGED read_value
  <2>1. CASE WriteHitExclusive(i, v)
    BY <2>1 DEF WriteHitExclusive
  <2>2. CASE WriteHitShared(i, v)
    BY <2>2 DEF WriteHitShared, InvalidateOthers
  <2>3. CASE WriteMissSupplied(i, v)
    BY <2>3 DEF WriteMissSupplied, Supplies, InvalidateOthers
  <2>4. CASE WriteMissMemory(i, v)
    BY <2>4 DEF WriteMissMemory
  <2>. QED BY <2>1, <2>2, <2>3, <2>4 DEF write_cacheline
<1>2. \A j \in Processors : cache'[j].state = "MODIFIED" => j = i
  BY <1>1
<1>3. VisibleWord(cache', mem_value') = cache'[i].value
  BY <1>1, <1>2, VisibleWordModified
<1>. QED BY <1>1, <1>3

\* evict_cacheline does not change the visible word: a MODIFIED line is written back.
LEMMA EvictKeepsVisibleWord ==
  ASSUME IInv, NEW i \in Processors, evict_cacheline(i)
  PROVE  /\ VisibleWord(cache, mem_value)' = VisibleWord(cache, mem_value)
         /\ UNCHANGED read_value
<1> USE DEF IInv, TypeOK, Exclusion, CleanCopiesMatchMemory
<1>1. CASE EvictInvalid(i)
  BY <1>1 DEF EvictInvalid
<1>2. CASE EvictModified(i) \/ EvictExclusive(i) \/ EvictShared(i)
  <2>1. cache[i].state # "INVALID" /\ UNCHANGED read_value
    BY <1>2 DEF EvictModified, EvictExclusive, EvictShared
  <2>2. VisibleWord(cache, mem_value) = cache[i].value
    BY <2>1, CopiesHoldVisibleWord
  <2>3. mem_value' = cache[i].value
    BY <1>2 DEF EvictModified, EvictExclusive, EvictShared
  <2>4. \A k \in Processors : cache'[k].state # "MODIFIED"
    <3>1. CASE EvictModified(i)
      BY <3>1 DEF EvictModified
    <3>2. CASE EvictExclusive(i)
      BY <3>2 DEF EvictExclusive
    <3>3. CASE EvictShared(i)
      <4>1. \A k \in Processors : cache[k].state # "MODIFIED"
        BY <3>3 DEF EvictShared
      <4>. QED BY <3>3, <4>1 DEF EvictShared
    <3>. QED BY <1>2, <3>1, <3>2, <3>3
  <2>5. VisibleWord(cache', mem_value') = mem_value'
    BY <2>4, VisibleWordMemory
  <2>. QED BY <2>1, <2>2, <2>3, <2>5
<1>. QED BY <1>1, <1>2 DEF evict_cacheline

\* Every behaviour of the caches is one of an atomic shared word, in which the
\* reads and writes are those main asked for.
THEOREM CachesImplementMemory == Spec => ImplementsMemory
<1>1. Init => Memory!Init
  <2> SUFFICES ASSUME Init PROVE Memory!Init
    OBVIOUS
  <2>1. \A i \in Processors : cache[i].state # "MODIFIED"
    BY DEF Init
  <2>. QED BY <2>1, VisibleWordMemory DEF Init, Memory!Init
<1>2. IInv /\ IInv' /\ [Next]_vars => [Memory!Next]_(Memory!vars)
  <2> SUFFICES ASSUME IInv, IInv', [Next]_vars
               PROVE  [Memory!Next]_(Memory!vars)
    OBVIOUS
  <2>0. TypeOK'
    BY DEF IInv
  <2>1. ASSUME NEW i \in Processors, read_cacheline(i), op' = Read
        PROVE  Memory!ServeRead
    BY <2>0, <2>1, ReadReturnsVisibleWord DEF Memory!ServeRead
  <2>2. ASSUME NEW i \in Processors, NEW v \in WriteValues, write_cacheline(i, v),
               op' = Write(v)
        PROVE  v \in Values /\ Memory!ServeWrite(v)
    BY <2>2, WriteSetsVisibleWord, ValuesAssumption DEF Memory!ServeWrite
  <2>3. ASSUME NEW i \in Processors, evict_cacheline(i), op' = Evict
        PROVE  Memory!ServeEvict
    BY <2>3, EvictKeepsVisibleWord DEF Memory!ServeEvict
  <2>4. CASE UNCHANGED vars
    BY <2>4 DEF vars, Memory!vars
  <2>. QED BY <2>1, <2>2, <2>3, <2>4 DEF Next, Memory!Next
<1>. QED BY <1>1, <1>2, InvariantHolds, PTL DEF Spec, ImplementsMemory, Memory!Spec
=============================================================================
