--------------------------- MODULE SramCache_proofs ---------------------------
(***************************************************************************)
(* Proofs about SramCache for every number of sets and lines, every block  *)
(* size and every set of tags.                                             *)
(***************************************************************************)
EXTENDS SramCache, Integers, Sequences, FiniteSetTheorems, TLAPS

\* The tag that lines hold before they are filled need not be one of Tags.
AnyTag == Tags \cup {CHOOSE t \in Tags : TRUE}
Line == [state : {"INVALID", "CLEAN", "DIRTY"}, time : Nat, tag : AnyTag]

\* The types that matter to the counter; a timer is no larger than the number of
\* accesses so far.
Typed ==
    /\ cache \in [SetIndexes -> [Lines -> Line]]
    /\ hits \in Nat /\ misses \in Nat
    /\ dirty_in_cache \in Int
    /\ \A s \in SetIndexes, i \in Lines : cache[s][i].time <= hits + misses

\* The inductive invariant
IInv == Typed /\ DirtyBytesExact

-----------------------------------------------------------------------------
(* The lines that the searches of sram_cache_read choose                    *)

\* A set has lines, and both index sets are finite intervals.
LEMMA SetsOfLines ==
  /\ Lines \subseteq Nat /\ SetIndexes \subseteq Nat
  /\ \A i \in Lines : i <= NumLines
  /\ Lines # {}
  /\ IsFiniteSet(Lines) /\ IsFiniteSet(SetIndexes)
<1>1. NumSets \in Nat /\ NumLines \in Nat /\ NumLines > 0
  BY SramCacheAssumption
<1>2. 0 \in Lines
  BY <1>1 DEF Lines
<1>3. IsFiniteSet(Lines)
  BY <1>1, FS_Interval DEF Lines
<1>4. IsFiniteSet(SetIndexes)
  BY <1>1, FS_Interval DEF SetIndexes
<1>. QED BY <1>1, <1>2, <1>3, <1>4 DEF Lines, SetIndexes

\* Among some lines of a set there is one with the least rank, for the sets of
\* lines that rank no higher than one of them are well-founded.
LEMMA LeastRank ==
  ASSUME NEW W \in SUBSET Lines, W # {}, NEW rank \in [Lines -> Int]
  PROVE  \E i \in W : \A j \in W : rank[i] <= rank[j]
<1> DEFINE UpTo(i) == {k \in W : rank[k] <= rank[i]}
           Cuts == {UpTo(i) : i \in W}
<1>1. Cuts \subseteq FiniteSubsetsOf(Lines)
  <2> SUFFICES ASSUME NEW i \in W PROVE UpTo(i) \in FiniteSubsetsOf(Lines)
    OBVIOUS
  <2>1. UpTo(i) \subseteq Lines
    OBVIOUS
  <2> HIDE DEF UpTo
  <2>2. IsFiniteSet(UpTo(i))
    BY <2>1, SetsOfLines, FS_Subset
  <2>. QED BY <2>1, <2>2 DEF FiniteSubsetsOf
<1>2. PICK b \in Cuts : \A c \in Cuts : <<c, b>> \notin StrictSubsetOrdering(Lines)
  <2>1. Cuts # {}
    OBVIOUS
  <2> HIDE DEF Cuts
  <2>. QED BY <1>1, <2>1, FS_StrictSubsetOrderingWellFounded, WFMin
<1>3. PICK i \in W : b = UpTo(i)
  OBVIOUS
<1>4. ASSUME NEW j \in W, rank[j] < rank[i] PROVE FALSE
  <2>1. UpTo(j) \subseteq UpTo(i) /\ UpTo(j) # UpTo(i)
    <3>1. i \in UpTo(i) /\ i \notin UpTo(j)
      BY <1>4
    <3>2. \A k \in UpTo(j) : k \in UpTo(i)
      BY <1>4
    <3>. QED BY <3>1, <3>2
  <2>2. UpTo(i) \subseteq Lines /\ UpTo(j) \subseteq Lines /\ UpTo(j) \in Cuts
    OBVIOUS
  <2> HIDE DEF UpTo, Cuts
  <2>. QED BY <1>2, <1>3, <2>1, <2>2 DEF StrictSubsetOrdering
<1>. QED
  <2> SUFFICES ASSUME NEW j \in W PROVE rank[i] <= rank[j]
    OBVIOUS
  <2>. QED BY <1>4

\* A hit goes to a valid line that holds the tag.
LEMMA HitLineMatches ==
  ASSUME NEW set, NEW tag, Matching(set, tag) # {}
  PROVE  HitLine(set, tag) \in Matching(set, tag)
<1> DEFINE rank == [i \in Lines |-> i]
<1>1. Matching(set, tag) \subseteq Lines
  BY DEF Matching, Valid
<1>2. rank \in [Lines -> Int]
  BY SetsOfLines
<1>3. PICK i \in Matching(set, tag) : \A j \in Matching(set, tag) : rank[i] <= rank[j]
  <2> HIDE DEF rank
  <2>. QED BY <1>1, <1>2, LeastRank
<1>4. \A j \in Matching(set, tag) : i <= j
  BY <1>1, <1>3
<1>. QED BY <1>4 DEF HitLine

\* A miss fills an invalid line.
LEMMA InvalidLineIsInvalid ==
  ASSUME NEW set, Valid(set) # Lines
  PROVE  InvalidLine(set) \in Lines \ Valid(set)
<1> DEFINE Free == Lines \ Valid(set)
           rank == [i \in Lines |-> 0 - i]
<1>1. Free \subseteq Lines /\ Free # {}
  BY DEF Valid
<1>2. rank \in [Lines -> Int]
  BY SetsOfLines
<1>3. PICK i \in Free : \A j \in Free : rank[i] <= rank[j]
  <2> HIDE DEF rank, Free
  <2>. QED BY <1>1, <1>2, LeastRank
<1>4. \A j \in Free : j <= i
  BY <1>3, SetsOfLines
<1>. QED BY <1>4 DEF InvalidLine

\* An eviction finds a line to evict: the first of those with the highest timer.
LEMMA VictimLineExists ==
  ASSUME NEW set, \A i \in Lines : set[i].time \in Nat
  PROVE  /\ VictimLine(set) \in Lines
         /\ \A j \in Lines : set[j].time <= set[VictimLine(set)].time
<1> DEFINE youth == [i \in Lines |-> 0 - set[i].time]
           first == [i \in Lines |-> i]
<1>1. PICK k \in Lines : \A j \in Lines : set[j].time <= set[k].time
  <2>1. youth \in [Lines -> Int]
    OBVIOUS
  <2>2. PICK k \in Lines : \A j \in Lines : youth[k] <= youth[j]
    <3> HIDE DEF youth
    <3>. QED BY <2>1, SetsOfLines, LeastRank
  <2>3. ASSUME NEW j \in Lines PROVE set[j].time <= set[k].time
    BY <2>2
  <2>. QED BY <2>3
<1> DEFINE t == set[k].time
           oldest == {i \in Lines : set[i].time = t}
<1>2. PICK i \in oldest : \A j \in oldest : i <= j
  <2>1. first \in [Lines -> Int]
    BY SetsOfLines
  <2>2. oldest \subseteq Lines /\ oldest # {}
    OBVIOUS
  <2>3. PICK i \in oldest : \A j \in oldest : first[i] <= first[j]
    <3> HIDE DEF first, oldest
    <3>. QED BY <2>1, <2>2, LeastRank
  <2>. QED BY <2>3
<1>3. \A j \in Lines : set[j].time <= set[i].time /\ (j < i => set[j].time < set[i].time)
  <2> SUFFICES ASSUME NEW j \in Lines
               PROVE  set[j].time <= set[i].time /\ (j < i => set[j].time < set[i].time)
    OBVIOUS
  <2>1. set[j].time <= t /\ set[i].time = t
    BY <1>1
  <2>2. j < i => j \notin oldest
    BY <1>2, SetsOfLines
  <2>. QED BY <2>1, <2>2
<1>4. i \in Lines
  OBVIOUS
<1>. QED BY <1>3, <1>4 DEF VictimLine

-----------------------------------------------------------------------------
(* The dirty lines after one line of one set was filled                     *)

\* What each of the three actions does to the sets
Filled(s, i, state, tag) == cache' = [cache EXCEPT ![s] = Fill(Aged(cache[s]), i, state, tag)]

\* The timers of the set count up, that of the filled line starts again.
LEMMA FillKeepsTypes ==
  ASSUME Typed, NEW s \in SetIndexes, NEW i \in Lines, NEW tag \in Tags,
         NEW state \in {"CLEAN", "DIRTY"}, Filled(s, i, state, tag)
  PROVE  /\ cache' \in [SetIndexes -> [Lines -> Line]]
         /\ \A r \in SetIndexes, j \in Lines : cache'[r][j].time <= hits + misses + 1
<1> DEFINE new == Fill(Aged(cache[s]), i, state, tag)
<1>1. \A j \in Lines : new[j] = IF j = i THEN [state |-> state, time |-> 0, tag |-> tag]
                                ELSE [cache[s][j] EXCEPT !.time = @ + 1]
  BY DEF Fill, Aged
<1>2. cache[s] \in [Lines -> Line] /\ \A j \in Lines : cache[s][j].time <= hits + misses
  BY DEF Typed
<1>3. new \in [Lines -> Line] /\ \A j \in Lines : new[j].time <= hits + misses + 1
  <2>1. \A j \in Lines : new[j] \in Line /\ new[j].time <= hits + misses + 1
    <3> SUFFICES ASSUME NEW j \in Lines
                 PROVE  new[j] \in Line /\ new[j].time <= hits + misses + 1
      OBVIOUS
    <3> HIDE DEF new
    <3>1. cache[s][j] \in Line /\ cache[s][j].time <= hits + misses
      BY <1>2
    <3>2. hits + misses \in Nat
      BY DEF Typed
    <3>3. CASE j = i
      <4>1. new[j] = [state |-> state, time |-> 0, tag |-> tag]
        BY <1>1, <3>3
      <4>2. tag \in AnyTag
        BY DEF AnyTag
      <4>3. new[j] \in Line /\ new[j].time = 0
        BY <4>1, <4>2 DEF Line
      <4>. QED BY <3>2, <4>3
    <3>4. CASE j # i
      <4>1. new[j] = [cache[s][j] EXCEPT !.time = @ + 1]
        BY <1>1, <3>4
      <4>2. new[j] \in Line /\ new[j].time = cache[s][j].time + 1 /\ cache[s][j].time \in Nat
        BY <3>1, <4>1 DEF Line
      <4>. QED BY <3>1, <3>2, <4>2
    <3>. QED BY <3>3, <3>4
  <2>2. new \in [Lines -> Line]
    BY <2>1 DEF Fill, Aged
  <2>. QED BY <2>1, <2>2
<1>4. cache' = [cache EXCEPT ![s] = new]
  BY DEF Filled
<1> HIDE DEF new
<1>5. cache' \in [SetIndexes -> [Lines -> Line]]
  BY <1>3, <1>4 DEF Typed
<1>6. ASSUME NEW r \in SetIndexes, NEW j \in Lines
      PROVE  cache'[r][j].time <= hits + misses + 1
  <2>1. CASE r = s
    BY <1>3, <1>4, <2>1 DEF Typed
  <2>2. CASE r # s
    <3>1. cache'[r] = cache[r]
      BY <1>4, <2>2 DEF Typed
    <3>2. cache[r][j] \in Line /\ cache[r][j].time <= hits + misses /\ hits + misses \in Nat
      BY DEF Typed
    <3>3. cache[r][j].time \in Nat
      BY <3>2 DEF Line
    <3>. QED BY <3>1, <3>2, <3>3
  <2>. QED BY <2>1, <2>2
<1>. QED BY <1>5, <1>6

\* A store makes its line one of the dirty ones, a load takes a line that was
\* evicted dirty from them; no other line of any set changes its state.
LEMMA DirtyLinesAfterFill ==
  ASSUME Typed, NEW s \in SetIndexes, NEW i \in Lines, NEW tag \in Tags,
         NEW state \in {"CLEAN", "DIRTY"}, Filled(s, i, state, tag)
  PROVE  /\ IsFiniteSet(DirtyLines)
         /\ Cardinality(DirtyLines) \in Nat
         /\ state = "DIRTY" => Cardinality(DirtyLines') =
                IF cache[s][i].state = "DIRTY" THEN Cardinality(DirtyLines)
                ELSE Cardinality(DirtyLines) + 1
         /\ state = "CLEAN" => Cardinality(DirtyLines') =
                IF cache[s][i].state = "DIRTY" THEN Cardinality(DirtyLines) - 1
                ELSE Cardinality(DirtyLines)
<1>1. IsFiniteSet(DirtyLines) /\ Cardinality(DirtyLines) \in Nat
  <2>1. IsFiniteSet(SetIndexes \X Lines)
    BY SetsOfLines, FS_Product
  <2>2. DirtyLines \in SUBSET (SetIndexes \X Lines)
    BY DEF DirtyLines
  <2>. QED BY <2>1, <2>2, FS_Subset, FS_CardinalityType
<1>2. \A r \in SetIndexes, j \in Lines :
        cache'[r][j].state = IF r = s /\ j = i THEN state ELSE cache[r][j].state
  <2> SUFFICES ASSUME NEW r \in SetIndexes, NEW j \in Lines
               PROVE  cache'[r][j].state =
                        IF r = s /\ j = i THEN state ELSE cache[r][j].state
    OBVIOUS
  <2>1. CASE r # s
    BY <2>1 DEF Filled, Typed
  <2>2. CASE r = s
    <3>1. cache'[s] = Fill(Aged(cache[s]), i, state, tag)
      BY DEF Filled, Typed
    <3>2. cache[s][j] \in Line
      BY DEF Typed
    <3>. QED BY <2>2, <3>1, <3>2 DEF Fill, Aged, Line
  <2>. QED BY <2>1, <2>2
<1>3. <<s, i>> \in SetIndexes \X Lines
  OBVIOUS
<1>4. <<s, i>> \in DirtyLines <=> cache[s][i].state = "DIRTY"
  BY <1>3 DEF DirtyLines
<1>5. CASE state = "DIRTY"
  <2>1. DirtyLines' = DirtyLines \cup {<<s, i>>}
    BY <1>2, <1>3, <1>5 DEF DirtyLines
  <2>. QED BY <1>1, <1>4, <1>5, <2>1, FS_AddElement
<1>6. CASE state = "CLEAN"
  <2>1. DirtyLines' = DirtyLines \ {<<s, i>>}
    BY <1>2, <1>3, <1>6 DEF DirtyLines
  <2>. QED BY <1>1, <1>4, <1>6, <2>1, FS_RemoveElement
<1>. QED BY <1>1, <1>5, <1>6

-----------------------------------------------------------------------------
(* The invariant                                                            *)

\* Bytes change by whole blocks.
LEMMA OneBlock ==
  \A n \in Int : /\ BlockSize * (n + 1) = BlockSize * n + BlockSize
                 /\ BlockSize * (n - 1) = BlockSize * n - BlockSize
<1>1. BlockSize \in Int
  BY SramCacheAssumption
<1>. QED BY <1>1

\* A store counts its block when the line was clean, and only then.
LEMMA HitKeepsInvariant ==
  ASSUME IInv, NEW s \in SetIndexes, NEW tag \in Tags, NEW write \in BOOLEAN,
         AccessHits(s, tag, write)
  PROVE  IInv'
<1> DEFINE set == Aged(cache[s])
           i == HitLine(set, tag)
           state == StateAfter(write, set[i].state)
<1>1. i \in Lines /\ set[i].state # "INVALID"
  BY HitLineMatches DEF AccessHits, Matching, Valid
<1>2. cache[s][i] \in Line /\ set[i].state = cache[s][i].state
  BY <1>1 DEF IInv, Typed, Aged, Line
<1>3. state \in {"CLEAN", "DIRTY"} /\ (state = "DIRTY" <=> write \/ cache[s][i].state = "DIRTY")
  BY <1>1, <1>2 DEF StateAfter, Line
<1>4. /\ Filled(s, i, state, tag)
      /\ hits' = hits + 1 /\ misses' = misses
      /\ dirty_in_cache' = dirty_in_cache +
             (IF write /\ cache[s][i].state = "CLEAN" THEN BlockSize ELSE 0)
  BY <1>2 DEF AccessHits, Filled, NewlyDirty
<1> HIDE DEF i, state
<1>5. Typed'
  <2>1. /\ cache' \in [SetIndexes -> [Lines -> Line]]
        /\ \A r \in SetIndexes, j \in Lines : cache'[r][j].time <= hits + misses + 1
    BY <1>1, <1>3, <1>4, FillKeepsTypes DEF IInv
  <2>2. hits' + misses' = hits + misses + 1 /\ hits' \in Nat /\ misses' \in Nat
    BY <1>4 DEF IInv, Typed
  <2>3. dirty_in_cache' \in Int
    BY <1>4, SramCacheAssumption DEF IInv, Typed
  <2>. QED BY <2>1, <2>2, <2>3 DEF Typed
<1>6. DirtyBytesExact'
  <2>1. Cardinality(DirtyLines) \in Nat
        /\ Cardinality(DirtyLines') =
              IF write /\ cache[s][i].state # "DIRTY" THEN Cardinality(DirtyLines) + 1
              ELSE Cardinality(DirtyLines)
    BY <1>1, <1>3, <1>4, DirtyLinesAfterFill DEF IInv
  <2>2. cache[s][i].state \in {"CLEAN", "DIRTY"}
    BY <1>1, <1>2 DEF Line
  <2>3. BlockSize \in Int /\ dirty_in_cache = BlockSize * Cardinality(DirtyLines)
    BY SramCacheAssumption DEF IInv, DirtyBytesExact
  <2>4. dirty_in_cache' = BlockSize * Cardinality(DirtyLines')
    <3>1. BlockSize * (Cardinality(DirtyLines) + 1)
            = BlockSize * Cardinality(DirtyLines) + BlockSize
      BY <2>1, OneBlock
    <3>2. BlockSize * Cardinality(DirtyLines) \in Int
      BY <2>1, <2>3
    <3>. QED BY <1>4, <2>1, <2>2, <2>3, <3>1, <3>2
  <2>. QED BY <2>4 DEF DirtyBytesExact
<1>. QED BY <1>5, <1>6 DEF IInv

\* An invalid line was not dirty: a store adds its block, a load nothing.
LEMMA MissKeepsInvariant ==
  ASSUME IInv, NEW s \in SetIndexes, NEW tag \in Tags, NEW write \in BOOLEAN,
         AccessMisses(s, tag, write)
  PROVE  IInv'
<1> DEFINE i == InvalidLine(Aged(cache[s]))
           state == StateAfter(write, "CLEAN")
<1>1. i \in Lines /\ Aged(cache[s])[i].state = "INVALID"
  BY InvalidLineIsInvalid DEF AccessMisses, Valid
<1>2. cache[s][i].state = "INVALID"
  <2>1. cache[s][i] \in Line
    BY <1>1 DEF IInv, Typed
  <2>. QED BY <1>1, <2>1 DEF Aged, Line
<1>3. state \in {"CLEAN", "DIRTY"} /\ (state = "DIRTY" <=> write)
  BY DEF StateAfter
<1>4. /\ Filled(s, i, state, tag)
      /\ hits' = hits /\ misses' = misses + 1
      /\ dirty_in_cache' = dirty_in_cache + (IF write THEN BlockSize ELSE 0)
  BY DEF AccessMisses, Filled
<1> HIDE DEF i, state
<1>5. Typed'
  <2>1. /\ cache' \in [SetIndexes -> [Lines -> Line]]
        /\ \A r \in SetIndexes, j \in Lines : cache'[r][j].time <= hits + misses + 1
    BY <1>1, <1>3, <1>4, FillKeepsTypes DEF IInv
  <2>2. hits' + misses' = hits + misses + 1 /\ hits' \in Nat /\ misses' \in Nat
    BY <1>4 DEF IInv, Typed
  <2>3. dirty_in_cache' \in Int
    BY <1>4, SramCacheAssumption DEF IInv, Typed
  <2>. QED BY <2>1, <2>2, <2>3 DEF Typed
<1>6. DirtyBytesExact'
  <2>1. Cardinality(DirtyLines) \in Nat
        /\ Cardinality(DirtyLines') =
              IF write THEN Cardinality(DirtyLines) + 1 ELSE Cardinality(DirtyLines)
    BY <1>1, <1>2, <1>3, <1>4, DirtyLinesAfterFill DEF IInv
  <2>2. BlockSize \in Int /\ dirty_in_cache = BlockSize * Cardinality(DirtyLines)
    BY SramCacheAssumption DEF IInv, DirtyBytesExact
  <2>3. dirty_in_cache' = BlockSize * Cardinality(DirtyLines')
    <3>1. BlockSize * (Cardinality(DirtyLines) + 1)
            = BlockSize * Cardinality(DirtyLines) + BlockSize
      BY <2>1, OneBlock
    <3>2. BlockSize * Cardinality(DirtyLines) \in Int
      BY <2>1, <2>2
    <3>. QED BY <1>4, <2>1, <2>2, <3>1, <3>2
  <2>. QED BY <2>3 DEF DirtyBytesExact
<1>. QED BY <1>5, <1>6 DEF IInv

\* A dirty victim is subtracted before the block of the store is added.
LEMMA EvictKeepsInvariant ==
  ASSUME IInv, NEW s \in SetIndexes, NEW tag \in Tags, NEW write \in BOOLEAN,
         AccessEvicts(s, tag, write)
  PROVE  IInv'
<1> DEFINE i == VictimLine(Aged(cache[s]))
           state == StateAfter(write, "CLEAN")
<1>1. i \in Lines
  <2>1. hits + misses + 1 \in Nat
    BY DEF IInv, Typed
  <2>2. ASSUME NEW j \in Lines
        PROVE  Aged(cache[s])[j].time \in Nat /\ Aged(cache[s])[j].time <= hits + misses + 1
    <3>1. cache[s][j] \in Line /\ cache[s][j].time <= hits + misses /\ hits + misses \in Nat
      BY DEF IInv, Typed
    <3>2. Aged(cache[s])[j].time = cache[s][j].time + 1 /\ cache[s][j].time \in Nat
      BY <3>1 DEF Aged, Line
    <3>. QED BY <3>1, <3>2
  <2>. QED BY <2>1, <2>2, VictimLineExists
<1>2. cache[s][i] \in Line /\ Aged(cache[s])[i].state = cache[s][i].state
  BY <1>1 DEF IInv, Typed, Aged, Line
<1>3. state \in {"CLEAN", "DIRTY"} /\ (state = "DIRTY" <=> write)
  BY DEF StateAfter
<1>4. /\ Filled(s, i, state, tag)
      /\ hits' = hits /\ misses' = misses + 1
      /\ dirty_in_cache' =
            (dirty_in_cache - (IF cache[s][i].state = "DIRTY" THEN BlockSize ELSE 0))
              + (IF write THEN BlockSize ELSE 0)
  BY <1>2 DEF AccessEvicts, Filled
<1> HIDE DEF i, state
<1>5. Typed'
  <2>1. /\ cache' \in [SetIndexes -> [Lines -> Line]]
        /\ \A r \in SetIndexes, j \in Lines : cache'[r][j].time <= hits + misses + 1
    BY <1>1, <1>3, <1>4, FillKeepsTypes DEF IInv
  <2>2. hits' + misses' = hits + misses + 1 /\ hits' \in Nat /\ misses' \in Nat
    BY <1>4 DEF IInv, Typed
  <2>3. dirty_in_cache' \in Int
    BY <1>4, SramCacheAssumption DEF IInv, Typed
  <2>. QED BY <2>1, <2>2, <2>3 DEF Typed
<1>6. DirtyBytesExact'
  <2>1. Cardinality(DirtyLines) \in Nat
        /\ Cardinality(DirtyLines') =
              Cardinality(DirtyLines) + (IF write THEN 1 ELSE 0)
                - (IF cache[s][i].state = "DIRTY" THEN 1 ELSE 0)
    BY <1>1, <1>3, <1>4, DirtyLinesAfterFill DEF IInv
  <2>2. BlockSize \in Int /\ dirty_in_cache = BlockSize * Cardinality(DirtyLines)
    BY SramCacheAssumption DEF IInv, DirtyBytesExact
  <2>3. dirty_in_cache' = BlockSize * Cardinality(DirtyLines')
    <3>1. /\ BlockSize * (Cardinality(DirtyLines) + 1)
               = BlockSize * Cardinality(DirtyLines) + BlockSize
          /\ BlockSize * (Cardinality(DirtyLines) - 1)
               = BlockSize * Cardinality(DirtyLines) - BlockSize
      BY <2>1, OneBlock
    <3>2. BlockSize * Cardinality(DirtyLines) \in Int
      BY <2>1, <2>2
    <3> HIDE DEF DirtyBytesExact
    <3>3. CASE write /\ cache[s][i].state # "DIRTY"
      BY <1>4, <2>1, <2>2, <3>1, <3>2, <3>3
    <3>4. CASE ~write /\ cache[s][i].state = "DIRTY"
      BY <1>4, <2>1, <2>2, <3>1, <3>2, <3>4
    <3>5. CASE write <=> cache[s][i].state = "DIRTY"
      <4>1. Cardinality(DirtyLines') = Cardinality(DirtyLines)
        BY <2>1, <3>5
      <4>2. dirty_in_cache' = dirty_in_cache
        BY <1>4, <2>2, <3>2, <3>5
      <4>. QED BY <2>2, <4>1, <4>2
    <3>. QED BY <3>3, <3>4, <3>5
  <2>. QED BY <2>3 DEF DirtyBytesExact
<1>. QED BY <1>5, <1>6 DEF IInv

\* Static storage has no dirty line, and the counter is zero.
LEMMA InvariantAtStart == Init => IInv
<1> SUFFICES ASSUME Init PROVE IInv
  OBVIOUS
<1>1. \A r \in SetIndexes, j \in Lines : cache[r][j].state = "INVALID" /\ cache[r][j].time = 0
  BY DEF Init
<1>2. Typed
  <2>1. [state |-> "INVALID", time |-> 0, tag |-> CHOOSE t \in Tags : TRUE] \in Line
    BY DEF Line, AnyTag
  <2>2. cache \in [SetIndexes -> [Lines -> Line]]
    BY <2>1 DEF Init
  <2>. QED BY <1>1, <2>2 DEF Init, Typed
<1>3. DirtyBytesExact
  <2>1. DirtyLines = {}
    BY <1>1 DEF DirtyLines
  <2>. QED BY <2>1, FS_EmptySet, SramCacheAssumption DEF Init, DirtyBytesExact
<1>. QED BY <1>2, <1>3 DEF IInv

\* The invariant holds in every reachable state.
LEMMA InvariantAlways == Spec => []IInv
<1>1. IInv /\ [Next]_vars => IInv'
  <2> SUFFICES ASSUME IInv, [Next]_vars PROVE IInv'
    OBVIOUS
  <2>1. ASSUME NEW s \in SetIndexes, NEW tag \in Tags, NEW write \in BOOLEAN,
               AccessHits(s, tag, write) \/ AccessMisses(s, tag, write)
                 \/ AccessEvicts(s, tag, write)
        PROVE  IInv'
    BY <2>1, HitKeepsInvariant, MissKeepsInvariant, EvictKeepsInvariant
  <2>2. CASE UNCHANGED vars
    BY <2>2 DEF vars, IInv, Typed, DirtyBytesExact, DirtyLines
  <2>. QED BY <2>1, <2>2 DEF Next
<1>. QED BY InvariantAtStart, <1>1, PTL DEF Spec

\* In every reachable state the counter of sram.c:235 that the test compares is
\* the number of dirty bytes in the cache, for caches of every shape: no mixture
\* of hits, fills and evictions of dirty lines counts a block twice or forgets it.
THEOREM DirtyCounterIsExact == Spec => []DirtyBytesExact
<1>1. IInv => DirtyBytesExact
  BY DEF IInv
<1>. QED BY InvariantAlways, <1>1, PTL

-----------------------------------------------------------------------------
(* Timers order the lines of a set                                          *)

\* No two valid lines of a set were used last at the same time.
DistinctTimes(set) == \A i, j \in Valid(set) : set[i].time = set[j].time => i = j
TimersOrderLines == \A s \in SetIndexes : DistinctTimes(cache[s])

\* Ranks of valid lines number them from 1.
LEMMA RanksAreNumbers ==
  ASSUME NEW set \in [Lines -> Line]
  PROVE  /\ IsFiniteSet(Valid(set)) /\ Cardinality(Valid(set)) \in Nat
         /\ \A i \in Valid(set) : Rank(set, i) \in 1 .. Cardinality(Valid(set))
<1>1. Valid(set) \in SUBSET Lines
  BY DEF Valid
<1>2. IsFiniteSet(Valid(set)) /\ Cardinality(Valid(set)) \in Nat
  BY <1>1, SetsOfLines, FS_Subset, FS_CardinalityType
<1>3. ASSUME NEW i \in Valid(set) PROVE Rank(set, i) \in 1 .. Cardinality(Valid(set))
  <2> DEFINE upTo == {j \in Valid(set) : set[j].time <= set[i].time}
  <2>1. set[i].time \in Nat
    BY <1>1 DEF Line
  <2>2. i \in upTo
    BY <2>1
  <2>3. upTo \in SUBSET Valid(set)
    OBVIOUS
  <2>4. Rank(set, i) = Cardinality(upTo)
    BY DEF Rank
  <2> HIDE DEF upTo
  <2>5. IsFiniteSet(upTo) /\ Cardinality(upTo) <= Cardinality(Valid(set))
    BY <1>2, <2>3, FS_Subset
  <2>6. Cardinality(upTo) \in Nat /\ Cardinality(upTo) # 0
    BY <2>2, <2>5, FS_CardinalityType, FS_EmptySet
  <2>. QED BY <1>2, <2>4, <2>5, <2>6
<1>. QED BY <1>2, <1>3

\* A line used earlier has a higher rank.
LEMMA RanksFollowTimes ==
  ASSUME NEW set \in [Lines -> Line], DistinctTimes(set),
         NEW i \in Valid(set), NEW j \in Valid(set)
  PROVE  /\ set[i].time < set[j].time <=> Rank(set, i) < Rank(set, j)
         /\ Rank(set, i) = Rank(set, j) => i = j
<1>1. \A a \in Valid(set) : set[a].time \in Nat
  BY DEF Valid, Line
<1>2. \A a \in Valid(set) : Rank(set, a) \in Nat
  BY RanksAreNumbers
<1>3. ASSUME NEW a \in Valid(set), NEW b \in Valid(set), set[a].time < set[b].time
      PROVE  Rank(set, a) < Rank(set, b)
  <2> DEFINE A == {c \in Valid(set) : set[c].time <= set[a].time}
             B == {c \in Valid(set) : set[c].time <= set[b].time}
  <2>1. A \in SUBSET B
    BY <1>1, <1>3
  <2>2. b \in B /\ b \notin A
    BY <1>1, <1>3
  <2>3. IsFiniteSet(B)
    <3>1. B \in SUBSET Valid(set)
      OBVIOUS
    <3> HIDE DEF B
    <3>. QED BY <3>1, RanksAreNumbers, FS_Subset
  <2>4. Rank(set, a) = Cardinality(A) /\ Rank(set, b) = Cardinality(B)
    BY DEF Rank
  <2> HIDE DEF A, B
  <2>5. Cardinality(A) <= Cardinality(B) /\ Cardinality(A) # Cardinality(B)
    BY <2>1, <2>2, <2>3, FS_Subset
  <2>. QED BY <1>2, <2>4, <2>5
<1>4. set[i].time = set[j].time \/ set[i].time < set[j].time \/ set[j].time < set[i].time
  BY <1>1
<1>5. set[i].time = set[j].time => i = j
  BY DEF DistinctTimes
<1>6. Rank(set, i) \in Nat /\ Rank(set, j) \in Nat /\ set[i].time \in Nat /\ set[j].time \in Nat
  BY <1>1, <1>2
<1>7. /\ set[i].time < set[j].time => Rank(set, i) < Rank(set, j)
      /\ set[j].time < set[i].time => Rank(set, j) < Rank(set, i)
  BY <1>3
<1>. QED BY <1>4, <1>5, <1>6, <1>7

\* Every rank is that of one line.
LEMMA RankedLines ==
  ASSUME NEW set \in [Lines -> Line], DistinctTimes(set)
  PROVE  /\ \A k \in 1 .. Cardinality(Valid(set)) :
               Ranked(set, k) \in Valid(set) /\ Rank(set, Ranked(set, k)) = k
         /\ \A i \in Valid(set) : Ranked(set, Rank(set, i)) = i
<1> DEFINE n == Cardinality(Valid(set))
           rank == [i \in Valid(set) |-> Rank(set, i)]
<1>1. n \in Nat /\ IsFiniteSet(1 .. n) /\ Cardinality(1 .. n) = n /\ IsFiniteSet(Valid(set))
  <2>1. n \in Nat /\ IsFiniteSet(Valid(set))
    BY RanksAreNumbers
  <2> HIDE DEF n
  <2>. QED BY <2>1, FS_Interval
<1>2. rank \in [Valid(set) -> 1 .. n]
  BY RanksAreNumbers
<1>3. \A i, j \in Valid(set) : Rank(set, i) = Rank(set, j) => i = j
  BY RanksFollowTimes
<1>4. rank \in Injection(Valid(set), 1 .. n)
  BY <1>2, <1>3 DEF Injection, IsInjective
<1>5. rank \in Surjection(Valid(set), 1 .. n)
  <2> HIDE DEF rank
  <2>. QED BY <1>1, <1>4, FS_Injection
<1>6. \A k \in 1 .. n : \E i \in Valid(set) : Rank(set, i) = k
  BY <1>5 DEF Surjection
<1>7. \A i \in Valid(set) : Rank(set, i) \in 1 .. n
  BY RanksAreNumbers
<1>8. ASSUME NEW k \in 1 .. n PROVE Ranked(set, k) \in Valid(set) /\ Rank(set, Ranked(set, k)) = k
  BY <1>6 DEF Ranked
<1>. QED BY <1>3, <1>7, <1>8

-----------------------------------------------------------------------------
(* What filling a line does to the order                                    *)

\* Where a line stands in the stack of its set; an invalid one stands below it.
Place(set, i) == IF i \in Valid(set) THEN Rank(set, i) ELSE Cardinality(Valid(set)) + 1

\* The lines of "set" after "i" was filled: every other line is older by one.
FillOf(set, i, state, tag, new) ==
    /\ new \in [Lines -> Line]
    /\ new[i] = [state |-> state, time |-> 0, tag |-> tag]
    /\ \A j \in Lines \ {i} : /\ new[j].time = set[j].time + 1
                              /\ new[j].tag = set[j].tag /\ new[j].state = set[j].state
    /\ Valid(new) = Valid(set) \cup {i}

\* That is what the loops of an access leave.
LEMMA FilledLines ==
  ASSUME NEW set \in [Lines -> Line], NEW i \in Lines, NEW tag \in Tags,
         NEW state \in {"CLEAN", "DIRTY"},
         NEW new, new = Fill(Aged(set), i, state, tag)
  PROVE  FillOf(set, i, state, tag, new)
<1>1. new = [j \in Lines |-> IF j = i THEN [state |-> state, time |-> 0, tag |-> tag]
                             ELSE [set[j] EXCEPT !.time = @ + 1]]
  BY DEF Fill, Aged
<1>2. tag \in AnyTag
  BY DEF AnyTag
<1>3. [state |-> state, time |-> 0, tag |-> tag] \in Line
  BY <1>2 DEF Line
<1>4. \A j \in Lines : [set[j] EXCEPT !.time = @ + 1] \in Line
  BY DEF Line
<1>5. new \in [Lines -> Line]
  BY <1>1, <1>3, <1>4
<1>6. new[i] = [state |-> state, time |-> 0, tag |-> tag]
  BY <1>1
<1>7. \A j \in Lines \ {i} : /\ new[j].time = set[j].time + 1
                             /\ new[j].tag = set[j].tag /\ new[j].state = set[j].state
  BY <1>1 DEF Line
<1>8. \A j \in Lines : j \in Valid(new) <=> j \in Valid(set) \cup {i}
  BY <1>6, <1>7 DEF Valid
<1>9. Valid(new) \subseteq Lines /\ Valid(set) \cup {i} \subseteq Lines
  BY DEF Valid
<1>. QED BY <1>5, <1>6, <1>7, <1>8, <1>9 DEF FillOf

\* The filled line is the first; those that stood above it have gone down by one.
LEMMA FillMovesRanks ==
  ASSUME NEW set \in [Lines -> Line], DistinctTimes(set), NEW i \in Lines, NEW tag \in Tags,
         NEW state \in {"CLEAN", "DIRTY"},
         NEW new, FillOf(set, i, state, tag, new)
  PROVE  /\ DistinctTimes(new) /\ Rank(new, i) = 1
         /\ \A j \in Valid(set) \ {i} :
               Rank(new, j) = IF Rank(set, j) < Place(set, i) THEN Rank(set, j) + 1
                              ELSE Rank(set, j)
<1> DEFINE UpTo(j) == {a \in Valid(set) : set[a].time <= set[j].time}
           NewUpTo(j) == {a \in Valid(new) : new[a].time <= new[j].time}
<1>1. /\ new \in [Lines -> Line]
      /\ new[i] = [state |-> state, time |-> 0, tag |-> tag]
      /\ \A j \in Lines \ {i} : /\ new[j].time = set[j].time + 1
                                /\ new[j].tag = set[j].tag /\ new[j].state = set[j].state
      /\ Valid(new) = Valid(set) \cup {i}
  BY DEF FillOf
<1>2. \A j \in Lines : set[j].time \in Nat /\ new[j].time \in Nat
  BY <1>1 DEF Line
<1>3. Valid(set) \subseteq Lines
  BY DEF Valid
<1>4. DistinctTimes(new)
  BY <1>1, <1>2, <1>3 DEF DistinctTimes
<1>5. Rank(new, i) = 1
  <2>1. \A a \in Valid(new) : new[a].time <= new[i].time <=> a = i
    BY <1>1, <1>2, <1>3
  <2>2. {a \in Valid(new) : new[a].time <= new[i].time} = {i}
    BY <1>1, <2>1
  <2>. QED BY <2>2, FS_Singleton DEF Rank
<1>6. ASSUME NEW j \in Valid(set) \ {i}
      PROVE  Rank(new, j) = IF Rank(set, j) < Place(set, i) THEN Rank(set, j) + 1
                            ELSE Rank(set, j)
  <2>1. NewUpTo(j) = UpTo(j) \cup {i}
    <3>1. \A a \in Lines : a \in NewUpTo(j) <=> a \in UpTo(j) \cup {i}
      <4> SUFFICES ASSUME NEW a \in Lines PROVE a \in NewUpTo(j) <=> a \in UpTo(j) \cup {i}
        OBVIOUS
      <4>1. set[a].time \in Nat /\ set[j].time \in Nat /\ j \in Lines /\ j # i
        BY <1>2, <1>3
      <4>2. new[j].time = set[j].time + 1 /\ (a # i => new[a].time = set[a].time + 1)
        BY <1>1, <4>1
      <4>3. CASE a = i
        BY <1>1, <4>1, <4>2, <4>3
      <4>4. CASE a # i
        BY <1>1, <4>1, <4>2, <4>4
      <4>. QED BY <4>3, <4>4
    <3>2. NewUpTo(j) \subseteq Lines /\ UpTo(j) \cup {i} \subseteq Lines
      BY <1>1, <1>3
    <3>. QED BY <3>1, <3>2
  <2>2. Rank(set, j) = Cardinality(UpTo(j)) /\ Rank(new, j) = Cardinality(NewUpTo(j))
    BY DEF Rank
  <2>3. IsFiniteSet(UpTo(j))
    <3>1. UpTo(j) \in SUBSET Valid(set)
      OBVIOUS
    <3>. QED BY <3>1, RanksAreNumbers, FS_Subset
  <2>4. i \in UpTo(j) <=> i \in Valid(set) /\ set[i].time <= set[j].time
    OBVIOUS
  <2> HIDE DEF UpTo, NewUpTo
  <2>8. Cardinality(UpTo(j) \cup {i}) =
           IF i \in UpTo(j) THEN Cardinality(UpTo(j)) ELSE Cardinality(UpTo(j)) + 1
    BY <2>3, FS_AddElement
  <2>5. Rank(new, j) = IF i \in UpTo(j) THEN Rank(set, j) ELSE Rank(set, j) + 1
    BY <2>1, <2>2, <2>8
  <2>6. Rank(set, j) \in 1 .. Cardinality(Valid(set)) /\ Cardinality(Valid(set)) \in Nat
    BY RanksAreNumbers
  <2>7. Rank(set, j) < Place(set, i) <=> i \notin UpTo(j)
    <3>1. CASE i \in Valid(set)
      <4>1. Rank(set, i) \in Nat /\ set[i].time \in Nat /\ set[j].time \in Nat
        BY <1>2, <1>3, <3>1, RanksAreNumbers
      <4>2. set[j].time < set[i].time <=> Rank(set, j) < Rank(set, i)
        BY <3>1, RanksFollowTimes
      <4>. QED BY <2>4, <3>1, <4>1, <4>2 DEF Place
    <3>2. CASE i \notin Valid(set)
      BY <2>4, <2>6, <3>2 DEF Place
    <3>. QED BY <3>1, <3>2
  <2>. QED BY <2>5, <2>7
<1>. QED BY <1>4, <1>5, <1>6

\* The stack of a set with line "i" on top of it
WithOnTop(set, i, tag, state) ==
    Lru!OnTop(Recency(set), Place(set, i), [tag |-> tag, dirty |-> state = "DIRTY"])

\* Filling a line moves its place to the top of the stack: LRU.
LEMMA FillMovesToTop ==
  ASSUME NEW set \in [Lines -> Line], DistinctTimes(set), NEW i \in Lines, NEW tag \in Tags,
         NEW state \in {"CLEAN", "DIRTY"},
         NEW new, FillOf(set, i, state, tag, new)
  PROVE  /\ DistinctTimes(new)
         /\ Recency(new) = WithOnTop(set, i, tag, state)
<1> DEFINE n == Cardinality(Valid(set))
           p == Place(set, i)
           line == [tag |-> tag, dirty |-> state = "DIRTY"]
<1>1. /\ new \in [Lines -> Line]
      /\ new[i] = [state |-> state, time |-> 0, tag |-> tag]
      /\ \A j \in Lines \ {i} : /\ new[j].time = set[j].time + 1
                                /\ new[j].tag = set[j].tag /\ new[j].state = set[j].state
      /\ Valid(new) = Valid(set) \cup {i}
  BY DEF FillOf
<1>2. /\ DistinctTimes(new) /\ Rank(new, i) = 1
      /\ \A j \in Valid(set) \ {i} :
            Rank(new, j) = IF Rank(set, j) < p THEN Rank(set, j) + 1 ELSE Rank(set, j)
  BY FillMovesRanks
<1>3. n \in Nat /\ IsFiniteSet(Valid(set))
  BY RanksAreNumbers
<1>4. p \in 1 .. n + 1 /\ (i \in Valid(set) => p = Rank(set, i) /\ p <= n)
      /\ (i \notin Valid(set) => p = n + 1)
  BY <1>3, RanksAreNumbers DEF Place
<1> DEFINE depth == IF p > n THEN p ELSE n
<1>5. Cardinality(Valid(new)) = depth
  <2>1. Cardinality(Valid(set) \cup {i}) = IF i \in Valid(set) THEN n ELSE n + 1
    BY <1>3, FS_AddElement
  <2>. QED BY <1>1, <1>3, <1>4, <2>1
<1>6. Len(Recency(set)) = n
  BY <1>3 DEF Recency
<1>7. \A k \in 1 .. n : /\ Ranked(set, k) \in Valid(set) /\ Ranked(set, k) \in Lines
                        /\ Rank(set, Ranked(set, k)) = k
  BY RankedLines DEF Valid
<1>8. \A j \in Valid(new) : Ranked(new, Rank(new, j)) = j
  BY <1>1, <1>2, RankedLines
<1>9. Valid(set) \subseteq Lines
  BY DEF Valid
<1> HIDE DEF n, p
<1>10. ASSUME NEW k \in 1 .. depth
       PROVE  [tag |-> new[Ranked(new, k)].tag, dirty |-> new[Ranked(new, k)].state = "DIRTY"] =
                 IF k = 1 THEN line
                 ELSE IF k <= p THEN Recency(set)[k - 1] ELSE Recency(set)[k]
  <2>1. CASE k = 1
    <3>1. Ranked(new, k) = i
      BY <1>1, <1>2, <1>8, <2>1
    <3>. QED BY <1>1, <2>1, <3>1
  <2>2. CASE k # 1 /\ k <= p
    <3> DEFINE j == Ranked(set, k - 1)
    <3>1. k - 1 \in 1 .. n /\ k - 1 < p
      BY <1>3, <1>4, <2>2
    <3>2. j \in Valid(set) /\ Rank(set, j) = k - 1
      BY <1>7, <3>1
    <3>3. j # i
      BY <1>4, <3>1, <3>2
    <3>4. Recency(set)[k - 1] = [tag |-> set[j].tag, dirty |-> set[j].state = "DIRTY"]
      BY <3>1 DEF Recency, n
    <3> HIDE DEF j
    <3>5. Rank(new, j) = k
      BY <1>2, <3>1, <3>2, <3>3
    <3>6. Ranked(new, k) = j
      BY <1>1, <1>8, <3>2, <3>5
    <3>7. new[j].tag = set[j].tag /\ new[j].state = set[j].state
      BY <1>1, <1>9, <3>2, <3>3
    <3>. QED BY <2>2, <3>4, <3>6, <3>7
  <2>3. CASE k # 1 /\ ~(k <= p)
    <3> DEFINE j == Ranked(set, k)
    <3>1. k \in 1 .. n /\ p < k
      BY <1>3, <1>4, <2>3
    <3>2. j \in Valid(set) /\ Rank(set, j) = k
      BY <1>7, <3>1
    <3>3. j # i
      BY <1>4, <3>1, <3>2
    <3>4. Recency(set)[k] = [tag |-> set[j].tag, dirty |-> set[j].state = "DIRTY"]
      BY <3>1 DEF Recency, n
    <3> HIDE DEF j
    <3>5. Rank(new, j) = k
      BY <1>2, <1>4, <3>1, <3>2, <3>3
    <3>6. Ranked(new, k) = j
      BY <1>1, <1>8, <3>2, <3>5
    <3>7. new[j].tag = set[j].tag /\ new[j].state = set[j].state
      BY <1>1, <1>9, <3>2, <3>3
    <3>. QED BY <2>3, <3>4, <3>6, <3>7
  <2>. QED BY <2>1, <2>2, <2>3
<1>11. Recency(new) = [k \in 1 .. depth |->
                          IF k = 1 THEN line
                          ELSE IF k <= p THEN Recency(set)[k - 1] ELSE Recency(set)[k]]
  BY <1>5, <1>10 DEF Recency
<1>. QED BY <1>2, <1>6, <1>11 DEF WithOnTop, Lru!OnTop, p

-----------------------------------------------------------------------------
(* The accesses are those of an LRU cache                                   *)

\* The stacks of LruCache that the lines and their timers stand for
Stacks == [s \in SetIndexes |-> Recency(cache[s])]

\* Growing older changes neither which lines are valid nor what they hold.
LEMMA AgedLines ==
  ASSUME NEW set \in [Lines -> Line], NEW tag
  PROVE  /\ Valid(Aged(set)) = Valid(set) /\ Matching(Aged(set), tag) = Matching(set, tag)
         /\ \A i \in Lines : /\ Aged(set)[i].time = set[i].time + 1
                             /\ Aged(set)[i].state = set[i].state
<1>1. \A i \in Lines : /\ Aged(set)[i].time = set[i].time + 1
                       /\ Aged(set)[i].state = set[i].state /\ Aged(set)[i].tag = set[i].tag
  BY DEF Aged, Line
<1>2. Valid(Aged(set)) = Valid(set)
  BY <1>1 DEF Valid
<1>3. \A i \in Valid(set) : Aged(set)[i].tag = set[i].tag
  BY <1>1 DEF Valid
<1>. QED BY <1>1, <1>2, <1>3 DEF Matching

\* A stack has its valid lines, each at its rank.
LEMMA LinesInStack ==
  ASSUME NEW set \in [Lines -> Line], DistinctTimes(set)
  PROVE  /\ Len(Recency(set)) = Cardinality(Valid(set))
         /\ \A i \in Valid(set) :
               /\ Rank(set, i) \in 1 .. Len(Recency(set))
               /\ Recency(set)[Rank(set, i)] =
                     [tag |-> set[i].tag, dirty |-> set[i].state = "DIRTY"]
         /\ \A tag : (\E k \in 1 .. Len(Recency(set)) : Recency(set)[k].tag = tag)
                        <=> Matching(set, tag) # {}
<1>1. Cardinality(Valid(set)) \in Nat
  BY RanksAreNumbers
<1>2. Len(Recency(set)) = Cardinality(Valid(set))
  BY <1>1 DEF Recency
<1>3. ASSUME NEW i \in Valid(set)
      PROVE  /\ Rank(set, i) \in 1 .. Len(Recency(set))
             /\ Recency(set)[Rank(set, i)] =
                   [tag |-> set[i].tag, dirty |-> set[i].state = "DIRTY"]
  <2>1. Rank(set, i) \in 1 .. Cardinality(Valid(set))
    BY RanksAreNumbers
  <2>2. Ranked(set, Rank(set, i)) = i
    BY RankedLines
  <2>. QED BY <1>2, <2>1, <2>2 DEF Recency
<1>4. ASSUME NEW tag, Matching(set, tag) # {}
      PROVE  \E k \in 1 .. Len(Recency(set)) : Recency(set)[k].tag = tag
  <2>1. PICK i \in Valid(set) : set[i].tag = tag
    BY <1>4 DEF Matching
  <2>2. /\ Rank(set, i) \in 1 .. Len(Recency(set))
        /\ Recency(set)[Rank(set, i)] = [tag |-> set[i].tag, dirty |-> set[i].state = "DIRTY"]
    BY <1>3
  <2>3. Recency(set)[Rank(set, i)].tag = tag
    BY <2>1, <2>2
  <2>. QED BY <2>2, <2>3
<1>5. ASSUME NEW tag, NEW k \in 1 .. Len(Recency(set)), Recency(set)[k].tag = tag
      PROVE  Matching(set, tag) # {}
  <2>1. Ranked(set, k) \in Valid(set)
    BY <1>2, RankedLines
  <2>2. Recency(set)[k].tag = set[Ranked(set, k)].tag
    BY <1>2 DEF Recency
  <2>. QED BY <1>5, <2>1, <2>2 DEF Matching
<1>. QED BY <1>2, <1>3, <1>4, <1>5

\* What filling a line does to the stacks
LEMMA FillIsOnTop ==
  ASSUME Typed, TimersOrderLines, NEW s \in SetIndexes, NEW i \in Lines, NEW tag \in Tags,
         NEW state \in {"CLEAN", "DIRTY"}, Filled(s, i, state, tag)
  PROVE  /\ TimersOrderLines'
         /\ Stacks' = [Stacks EXCEPT ![s] = WithOnTop(cache[s], i, tag, state)]
<1> DEFINE new == Fill(Aged(cache[s]), i, state, tag)
<1>1. cache' = [cache EXCEPT ![s] = new] /\ cache \in [SetIndexes -> [Lines -> Line]]
  BY DEF Filled, Typed
<1>2. cache[s] \in [Lines -> Line] /\ DistinctTimes(cache[s])
  BY <1>1 DEF TimersOrderLines
<1>3. FillOf(cache[s], i, state, tag, new)
  BY <1>2, FilledLines
<1> HIDE DEF new
<1>4. /\ DistinctTimes(new)
      /\ Recency(new) = WithOnTop(cache[s], i, tag, state)
  BY <1>2, <1>3, FillMovesToTop
<1>5. \A r \in SetIndexes : cache'[r] = IF r = s THEN new ELSE cache[r]
  BY <1>1
<1>. QED BY <1>4, <1>5 DEF TimersOrderLines, Stacks

\* A hit moves its line to the top of its stack.
LEMMA HitIsLru ==
  ASSUME IInv, TimersOrderLines, NEW s \in SetIndexes, NEW tag \in Tags,
         NEW write \in BOOLEAN, AccessHits(s, tag, write)
  PROVE  TimersOrderLines' /\ Lru!Hit(s, tag, write)
<1> DEFINE set == cache[s]
           i == HitLine(Aged(set), tag)
           k == Rank(set, i)
           state == StateAfter(write, Aged(set)[i].state)
<1>1. set \in [Lines -> Line] /\ DistinctTimes(set)
  BY DEF IInv, Typed, TimersOrderLines
<1>2. i \in Valid(set) /\ i \in Lines /\ set[i].tag = tag
  <2>1. i \in Matching(Aged(set), tag)
    BY HitLineMatches DEF AccessHits
  <2>2. i \in Matching(set, tag)
    BY <1>1, <2>1, AgedLines
  <2>. QED BY <2>2 DEF Matching, Valid
<1>3. Aged(set)[i].state = set[i].state /\ set[i].state \in {"CLEAN", "DIRTY"}
  BY <1>1, <1>2, AgedLines DEF Valid, Line
<1>4. state \in {"CLEAN", "DIRTY"} /\ (state = "DIRTY") = (write \/ set[i].state = "DIRTY")
  BY <1>3 DEF StateAfter
<1>5. /\ Filled(s, i, state, tag)
      /\ trace_buf' = "hit" /\ dirty_evicted' = dirty_evicted
  BY DEF AccessHits, Filled
<1>6. /\ k \in 1 .. Len(Recency(set))
      /\ Recency(set)[k] = [tag |-> tag, dirty |-> set[i].state = "DIRTY"]
      /\ Place(set, i) = k
  BY <1>1, <1>2, LinesInStack DEF Place
<1> HIDE DEF i, state
<1>7. /\ TimersOrderLines'
      /\ Stacks' = [Stacks EXCEPT ![s] = WithOnTop(set, i, tag, state)]
  BY <1>2, <1>4, <1>5, FillIsOnTop DEF IInv
<1> HIDE DEF k
<1>8. Stacks[s] = Recency(set)
  BY DEF Stacks
<1>9. /\ k \in 1 .. Len(Stacks[s]) /\ Stacks[s][k].tag = tag
      /\ Stacks' = [Stacks EXCEPT ![s] =
            Lru!OnTop(Stacks[s], k, [tag |-> tag, dirty |-> write \/ Stacks[s][k].dirty])]
  <2>4. Stacks[s][k].dirty = (set[i].state = "DIRTY")
    BY <1>6, <1>8
  <2>1. (write \/ Stacks[s][k].dirty) = (state = "DIRTY")
    BY <1>4, <2>4
  <2>2. Stacks[s][k].tag = tag /\ k \in 1 .. Len(Stacks[s])
    BY <1>6, <1>8
  <2>3. Stacks' = [Stacks EXCEPT ![s] =
            Lru!OnTop(Stacks[s], k, [tag |-> tag, dirty |-> state = "DIRTY"])]
    BY <1>6, <1>7, <1>8 DEF WithOnTop
  <2>. QED BY <2>1, <2>2, <2>3
<1>. QED BY <1>5, <1>7, <1>9 DEF Lru!Hit, Stacks

\* A miss puts a line on top of a stack that is not full.
LEMMA MissIsLru ==
  ASSUME IInv, TimersOrderLines, NEW s \in SetIndexes, NEW tag \in Tags,
         NEW write \in BOOLEAN, AccessMisses(s, tag, write)
  PROVE  TimersOrderLines' /\ Lru!Miss(s, tag, write)
<1> DEFINE set == cache[s]
           i == InvalidLine(Aged(set))
           state == StateAfter(write, "CLEAN")
<1>1. set \in [Lines -> Line] /\ DistinctTimes(set)
  BY DEF IInv, Typed, TimersOrderLines
<1>2. i \in Lines \ Valid(set) /\ Matching(set, tag) = {}
  <2>1. Matching(Aged(set), tag) = {} /\ Valid(Aged(set)) # Lines
    BY DEF AccessMisses
  <2>2. i \in Lines \ Valid(Aged(set))
    BY <2>1, InvalidLineIsInvalid
  <2>. QED BY <1>1, <2>1, <2>2, AgedLines
<1>3. state \in {"CLEAN", "DIRTY"} /\ (state = "DIRTY") = write
  BY DEF StateAfter
<1>4. /\ Filled(s, i, state, tag)
      /\ trace_buf' = "miss" /\ dirty_evicted' = dirty_evicted
  BY DEF AccessMisses, Filled
<1> HIDE DEF i, state
<1>5. /\ TimersOrderLines'
      /\ Stacks' = [Stacks EXCEPT ![s] = WithOnTop(set, i, tag, state)]
  BY <1>2, <1>3, <1>4, FillIsOnTop DEF IInv
<1>6. Stacks[s] = Recency(set)
  BY DEF Stacks
<1>7. Place(set, i) = Len(Stacks[s]) + 1
  BY <1>1, <1>2, <1>6, LinesInStack DEF Place
<1>8. Len(Stacks[s]) < NumLines
  <2>1. Valid(set) \in SUBSET Lines /\ Valid(set) # Lines
    BY <1>2 DEF Valid
  <2>2. IsFiniteSet(Lines) /\ Cardinality(Lines) = NumLines /\ NumLines \in Nat
    BY SetsOfLines, SramCacheAssumption, FS_Interval DEF Lines
  <2>3. Cardinality(Valid(set)) <= NumLines /\ Cardinality(Valid(set)) # NumLines
    BY <2>1, <2>2, FS_Subset
  <2>4. Cardinality(Valid(set)) \in Nat
    BY <1>1, RanksAreNumbers
  <2>. QED BY <1>1, <1>6, <2>2, <2>3, <2>4, LinesInStack
<1>9. ~(\E k \in 1 .. Len(Stacks[s]) : Stacks[s][k].tag = tag)
  BY <1>1, <1>2, <1>6, LinesInStack
<1>10. Stacks' = [Stacks EXCEPT ![s] =
            Lru!OnTop(Stacks[s], Len(Stacks[s]) + 1, [tag |-> tag, dirty |-> write])]
  BY <1>3, <1>5, <1>6, <1>7 DEF WithOnTop
<1>. QED BY <1>4, <1>5, <1>8, <1>9, <1>10 DEF Lru!Miss, Lru!Holds, Stacks

\* An eviction takes the line at the bottom of a full stack.
LEMMA EvictIsLru ==
  ASSUME IInv, TimersOrderLines, NEW s \in SetIndexes, NEW tag \in Tags,
         NEW write \in BOOLEAN, AccessEvicts(s, tag, write)
  PROVE  TimersOrderLines' /\ Lru!Evict(s, tag, write)
<1> DEFINE set == cache[s]
           i == VictimLine(Aged(set))
           state == StateAfter(write, "CLEAN")
<1>1. set \in [Lines -> Line] /\ DistinctTimes(set)
  BY DEF IInv, Typed, TimersOrderLines
<1>2. Valid(set) = Lines /\ Matching(set, tag) = {}
  <2>1. Matching(Aged(set), tag) = {} /\ Valid(Aged(set)) = Lines
    BY DEF AccessEvicts
  <2>. QED BY <1>1, <2>1, AgedLines
<1>3. i \in Lines /\ \A j \in Lines : set[j].time <= set[i].time
  <2>1. hits + misses + 1 \in Nat
    BY DEF IInv, Typed
  <2>2. \A j \in Lines : /\ Aged(set)[j].time = set[j].time + 1 /\ set[j].time \in Nat
                         /\ set[j].time <= hits + misses
    BY <1>1, AgedLines DEF IInv, Typed, Line
  <2>3. \A j \in Lines : Aged(set)[j].time \in Nat /\ Aged(set)[j].time <= hits + misses + 1
    BY <2>2 DEF IInv, Typed
  <2>4. i \in Lines /\ \A j \in Lines : Aged(set)[j].time <= Aged(set)[i].time
    BY <2>1, <2>3, VictimLineExists
  <2> HIDE DEF i
  <2>. QED BY <2>2, <2>4
<1>4. state \in {"CLEAN", "DIRTY"} /\ (state = "DIRTY") = write
  BY DEF StateAfter
<1>5. /\ Filled(s, i, state, tag)
      /\ trace_buf' = "miss eviction"
      /\ dirty_evicted' = dirty_evicted + (IF Aged(set)[i].state = "DIRTY" THEN BlockSize ELSE 0)
  BY DEF AccessEvicts, Filled
<1>6. Aged(set)[i].state = set[i].state
  BY <1>1, <1>3, AgedLines
<1> HIDE DEF i, state
<1>7. /\ TimersOrderLines'
      /\ Stacks' = [Stacks EXCEPT ![s] = WithOnTop(set, i, tag, state)]
  <2>1. i \in Lines /\ Filled(s, i, state, tag)
    BY <1>3, <1>5
  <2>. QED BY <1>4, <2>1, FillIsOnTop DEF IInv
<1>8. Stacks[s] = Recency(set)
  BY DEF Stacks
<1>9. IsFiniteSet(Lines) /\ Cardinality(Lines) = NumLines /\ NumLines \in Nat
  BY SetsOfLines, SramCacheAssumption, FS_Interval DEF Lines
<1>10. Rank(set, i) = NumLines
  <2>1. {j \in Valid(set) : set[j].time <= set[i].time} = Lines
    BY <1>2, <1>3
  <2>. QED BY <1>9, <2>1 DEF Rank
<1>11. /\ Place(set, i) = NumLines /\ Len(Stacks[s]) = NumLines
       /\ Stacks[s][NumLines].dirty = (set[i].state = "DIRTY")
  <2>1. i \in Valid(set) /\ Cardinality(Valid(set)) = NumLines
    BY <1>2, <1>3, <1>9
  <2>2. /\ Len(Recency(set)) = NumLines
        /\ Recency(set)[NumLines] = [tag |-> set[i].tag, dirty |-> set[i].state = "DIRTY"]
    BY <1>1, <1>10, <2>1, LinesInStack
  <2>3. Recency(set)[NumLines].dirty = (set[i].state = "DIRTY")
    BY <2>2
  <2>. QED BY <1>8, <1>10, <2>1, <2>2, <2>3 DEF Place
<1>12. ~(\E k \in 1 .. Len(Stacks[s]) : Stacks[s][k].tag = tag)
  BY <1>1, <1>2, <1>8, LinesInStack
<1>13. Stacks' = [Stacks EXCEPT ![s] =
            Lru!OnTop(Stacks[s], NumLines, [tag |-> tag, dirty |-> write])]
  BY <1>4, <1>7, <1>8, <1>11 DEF WithOnTop
<1>14. dirty_evicted' = dirty_evicted + (IF Stacks[s][NumLines].dirty THEN BlockSize ELSE 0)
  BY <1>5, <1>6, <1>11
<1>. QED BY <1>5, <1>7, <1>11, <1>12, <1>13, <1>14 DEF Lru!Evict, Lru!Holds, Stacks

\* sram.c, which counts timers up and searches for the highest, is an LRU cache: every
\* trace of loads and stores is reported as the reference of test_cache.py reports it,
\* evicts the same blocks and writes back the same number of dirty bytes, for any number of
\* sets and lines, any blocks and any length of the trace.
THEOREM LruImplemented == Spec => ImplementsLru
<1>1. Init => TimersOrderLines /\ Lru!Init
  <2> SUFFICES ASSUME Init PROVE TimersOrderLines /\ Lru!Init
    OBVIOUS
  <2>1. \A s \in SetIndexes : Valid(cache[s]) = {}
    BY DEF Init, Valid
  <2>2. \A s \in SetIndexes : Recency(cache[s]) = <<>>
    <3> SUFFICES ASSUME NEW s \in SetIndexes PROVE Recency(cache[s]) = <<>>
      OBVIOUS
    <3>1. Cardinality(Valid(cache[s])) = 0
      BY <2>1, FS_EmptySet
    <3>2. 1 .. Cardinality(Valid(cache[s])) = {}
      BY <3>1
    <3>. QED BY <3>2 DEF Recency
  <2>. QED BY <2>1, <2>2 DEF Init, TimersOrderLines, DistinctTimes, Lru!Init
<1>2. IInv /\ TimersOrderLines /\ [Next]_vars =>
         TimersOrderLines' /\ [Lru!Next]_(Lru!vars)
  <2> SUFFICES ASSUME IInv, TimersOrderLines, [Next]_vars
               PROVE  TimersOrderLines' /\ [Lru!Next]_(Lru!vars)
    OBVIOUS
  <2>1. ASSUME NEW s \in SetIndexes, NEW tag \in Tags, NEW write \in BOOLEAN,
               AccessHits(s, tag, write) \/ AccessMisses(s, tag, write)
                 \/ AccessEvicts(s, tag, write)
        PROVE  TimersOrderLines' /\ Lru!Next
    <3>1. /\ TimersOrderLines'
          /\ Lru!Hit(s, tag, write) \/ Lru!Miss(s, tag, write) \/ Lru!Evict(s, tag, write)
      BY <2>1, HitIsLru, MissIsLru, EvictIsLru
    <3>. QED BY <3>1 DEF Lru!Next
  <2>2. CASE UNCHANGED vars
    BY <2>2 DEF vars, TimersOrderLines, DistinctTimes, Valid, Lru!vars, Recency, Ranked, Rank
  <2>. QED BY <2>1, <2>2 DEF Next
<1>. QED BY InvariantAlways, <1>1, <1>2, PTL DEF Spec, ImplementsLru, Lru!Spec

-----------------------------------------------------------------------------
(* No block is cached twice                                                 *)

DistinctTags(set) == \A i, j \in Valid(set) : set[i].tag = set[j].tag => i = j
BlocksCachedOnce == \A s \in SetIndexes : DistinctTags(cache[s])

\* A line is filled with a block that no other line of the set holds.
LEMMA FillKeepsTagsDistinct ==
  ASSUME Typed, BlocksCachedOnce, NEW s \in SetIndexes, NEW i \in Lines, NEW tag \in Tags,
         NEW state \in {"CLEAN", "DIRTY"}, Filled(s, i, state, tag),
         Matching(cache[s], tag) \subseteq {i}
  PROVE  BlocksCachedOnce'
<1> DEFINE new == Fill(Aged(cache[s]), i, state, tag)
<1>1. cache' = [cache EXCEPT ![s] = new] /\ cache \in [SetIndexes -> [Lines -> Line]]
  BY DEF Filled, Typed
<1>2. cache[s] \in [Lines -> Line] /\ DistinctTags(cache[s])
  BY <1>1 DEF BlocksCachedOnce
<1>3. FillOf(cache[s], i, state, tag, new)
  BY <1>2, FilledLines
<1> HIDE DEF new
<1>4. DistinctTags(new)
  <2>1. /\ new[i].tag = tag /\ Valid(new) = Valid(cache[s]) \cup {i}
        /\ \A j \in Lines \ {i} : new[j].tag = cache[s][j].tag
    BY <1>3 DEF FillOf
  <2>2. \A j \in Valid(cache[s]) \ {i} : j \in Lines /\ new[j].tag = cache[s][j].tag
    BY <2>1 DEF Valid
  <2>3. \A j \in Valid(cache[s]) \ {i} : new[j].tag # tag
    BY <2>2 DEF Matching
  <2>4. \A j, k \in Valid(cache[s]) : cache[s][j].tag = cache[s][k].tag => j = k
    BY <1>2 DEF DistinctTags
  <2>5. ASSUME NEW j \in Valid(new), NEW k \in Valid(new), new[j].tag = new[k].tag
        PROVE  j = k
    BY <2>1, <2>2, <2>3, <2>4, <2>5
  <2>. QED BY <2>5 DEF DistinctTags
<1>5. \A r \in SetIndexes : cache'[r] = IF r = s THEN new ELSE cache[r]
  BY <1>1
<1>. QED BY <1>4, <1>5 DEF BlocksCachedOnce

\* No set ever holds a block in two lines, of which a store would reach only the first that
\* the search of sram_cache_write finds and an eviction only one: a miss fills a line only
\* when no line matches.
THEOREM NoBlockTwice == Spec => []BlocksCachedOnce
<1>1. Init => BlocksCachedOnce
  <2> SUFFICES ASSUME Init PROVE BlocksCachedOnce
    OBVIOUS
  <2>1. \A s \in SetIndexes : Valid(cache[s]) = {}
    BY DEF Init, Valid
  <2>. QED BY <2>1 DEF BlocksCachedOnce, DistinctTags
<1>2. IInv /\ BlocksCachedOnce /\ [Next]_vars => BlocksCachedOnce'
  <2> SUFFICES ASSUME IInv, BlocksCachedOnce, [Next]_vars PROVE BlocksCachedOnce'
    OBVIOUS
  <2>1. ASSUME NEW s \in SetIndexes, NEW tag \in Tags, NEW write \in BOOLEAN,
               AccessHits(s, tag, write)
        PROVE  BlocksCachedOnce'
    <3> DEFINE set == cache[s]
               i == HitLine(Aged(set), tag)
               state == StateAfter(write, Aged(set)[i].state)
    <3>1. set \in [Lines -> Line] /\ DistinctTags(set)
      BY DEF IInv, Typed, BlocksCachedOnce
    <3>2. Matching(Aged(set), tag) # {}
      BY <2>1 DEF AccessHits
    <3>3. i \in Matching(set, tag)
      BY <3>1, <3>2, HitLineMatches, AgedLines
    <3>4. i \in Lines /\ Aged(set)[i].state = set[i].state /\ set[i].state \in {"CLEAN", "DIRTY"}
      BY <3>1, <3>3, AgedLines DEF Matching, Valid, Line
    <3>5. state \in {"CLEAN", "DIRTY"} /\ Filled(s, i, state, tag)
      BY <2>1, <3>4 DEF AccessHits, StateAfter, Filled
    <3> HIDE DEF i, state
    <3>6. Matching(set, tag) \subseteq {i}
      BY <3>1, <3>3 DEF DistinctTags, Matching
    <3>. QED BY <3>4, <3>5, <3>6, FillKeepsTagsDistinct DEF IInv
  <2>2. ASSUME NEW s \in SetIndexes, NEW tag \in Tags, NEW write \in BOOLEAN,
               AccessMisses(s, tag, write)
        PROVE  BlocksCachedOnce'
    <3> DEFINE i == InvalidLine(Aged(cache[s]))
               state == StateAfter(write, "CLEAN")
    <3>1. Matching(Aged(cache[s]), tag) = {} /\ Valid(Aged(cache[s])) # Lines
      BY <2>2 DEF AccessMisses
    <3>2. i \in Lines
      BY <3>1, InvalidLineIsInvalid
    <3>3. state \in {"CLEAN", "DIRTY"} /\ Filled(s, i, state, tag)
      BY <2>2 DEF AccessMisses, StateAfter, Filled
    <3> HIDE DEF i, state
    <3>4. Matching(cache[s], tag) = {}
      BY <3>1, AgedLines DEF IInv, Typed
    <3>. QED BY <3>2, <3>3, <3>4, FillKeepsTagsDistinct DEF IInv
  <2>3. ASSUME NEW s \in SetIndexes, NEW tag \in Tags, NEW write \in BOOLEAN,
               AccessEvicts(s, tag, write)
        PROVE  BlocksCachedOnce'
    <3> DEFINE i == VictimLine(Aged(cache[s]))
               state == StateAfter(write, "CLEAN")
    <3>1. Matching(Aged(cache[s]), tag) = {}
      BY <2>3 DEF AccessEvicts
    <3>2. i \in Lines
      <4>1. cache[s] \in [Lines -> Line] /\ hits + misses + 1 \in Nat
        BY DEF IInv, Typed
      <4>2. \A j \in Lines : /\ Aged(cache[s])[j].time = cache[s][j].time + 1
                             /\ cache[s][j].time \in Nat /\ cache[s][j].time <= hits + misses
        BY <4>1, AgedLines DEF IInv, Typed, Line
      <4>3. \A j \in Lines : /\ Aged(cache[s])[j].time \in Nat
                             /\ Aged(cache[s])[j].time <= hits + misses + 1
        BY <4>2 DEF IInv, Typed
      <4>. QED BY <4>1, <4>3, VictimLineExists
    <3>3. state \in {"CLEAN", "DIRTY"} /\ Filled(s, i, state, tag)
      BY <2>3 DEF AccessEvicts, StateAfter, Filled
    <3> HIDE DEF i, state
    <3>4. Matching(cache[s], tag) = {}
      BY <3>1, AgedLines DEF IInv, Typed
    <3>. QED BY <3>2, <3>3, <3>4, FillKeepsTagsDistinct DEF IInv
  <2>4. CASE UNCHANGED vars
    BY <2>4 DEF vars, BlocksCachedOnce, DistinctTags, Valid
  <2>. QED BY <2>1, <2>2, <2>3, <2>4 DEF Next
<1>. QED BY InvariantAlways, <1>1, <1>2, PTL DEF Spec
=============================================================================
