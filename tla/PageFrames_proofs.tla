--------------------------- MODULE PageFrames_proofs ---------------------------
(***************************************************************************)
(* Facts about PageFrames, for every number of frames, slots and pages:    *)
(* the effect of each operation when no assertion fails, and that mapping, *)
(* unmapping, dirtying and replacing keep page table and reverse mapping   *)
(* inverse to each other.                                                  *)
(*                                                                         *)
(* First the lemmas that stand in for induction, here and in the proofs    *)
(* about Paging and Fork: a property of all numbers is proved by showing   *)
(* that there is no least counterexample.                                  *)
(***************************************************************************)
EXTENDS PageFrames, FiniteSetTheorems, TLAPS

-----------------------------------------------------------------------------
(* Least numbers and induction                                              *)

\* Every set of natural numbers that is not empty has a least element.  The
\* intervals below the numbers are finite sets, and those are well-founded.
LEMMA LeastOfNaturals ==
  ASSUME NEW S \in SUBSET Nat, S # {}
  PROVE  \E x \in S : \A y \in S : x <= y
<1> DEFINE Below == {0 .. n - 1 : n \in S}
<1>1. Below \subseteq FiniteSubsetsOf(Nat)
  <2> SUFFICES ASSUME NEW n \in S PROVE 0 .. n - 1 \in FiniteSubsetsOf(Nat)
    OBVIOUS
  <2>1. IsFiniteSet(0 .. n - 1) /\ 0 .. n - 1 \subseteq Nat
    BY FS_Interval
  <2>. QED BY <2>1 DEF FiniteSubsetsOf
<1>2. Below # {}
  OBVIOUS
<1>3. PICK b \in Below : \A c \in Below : <<c, b>> \notin StrictSubsetOrdering(Nat)
  <2> HIDE DEF Below
  <2>. QED BY <1>1, <1>2, FS_StrictSubsetOrderingWellFounded, WFMin
<1>4. PICK x \in S : b = 0 .. x - 1
  OBVIOUS
<1>5. ASSUME NEW y \in S, y < x PROVE FALSE
  <2>1. 0 .. y - 1 \in Below
    OBVIOUS
  <2>2. 0 .. y - 1 \subseteq 0 .. x - 1 /\ 0 .. y - 1 # 0 .. x - 1
    <3>1. y \in 0 .. x - 1 /\ y \notin 0 .. y - 1
      BY <1>5
    <3>2. \A k \in 0 .. y - 1 : k \in 0 .. x - 1
      BY <1>5
    <3>. QED BY <3>1, <3>2
  <2>3. <<0 .. y - 1, 0 .. x - 1>> \in StrictSubsetOrdering(Nat)
    <3>1. 0 .. y - 1 \subseteq Nat /\ 0 .. x - 1 \subseteq Nat
      OBVIOUS
    <3>. QED BY <2>2, <3>1 DEF StrictSubsetOrdering
  <2>. QED BY <1>3, <1>4, <2>1, <2>3
<1>. QED
  <2> SUFFICES ASSUME NEW y \in S PROVE x <= y
    OBVIOUS
  <2>. QED BY <1>5

\* A set of natural numbers with a bound has a greatest element.
LEMMA GreatestOfBounded ==
  ASSUME NEW S \in SUBSET Nat, S # {}, NEW bound \in Nat, \A x \in S : x <= bound
  PROVE  \E x \in S : \A y \in S : y <= x
<1> DEFINE Gaps == {bound - x : x \in S}
<1>1. Gaps \in SUBSET Nat /\ Gaps # {}
  <2>1. \A x \in S : bound - x \in Nat
    OBVIOUS
  <2>. QED BY <2>1
<1>2. PICK g \in Gaps : \A h \in Gaps : g <= h
  <2> HIDE DEF Gaps
  <2>. QED BY <1>1, LeastOfNaturals
<1>3. PICK x \in S : g = bound - x
  OBVIOUS
<1>4. \A y \in S : bound - x <= bound - y
  BY <1>2, <1>3
<1>. QED
  <2> SUFFICES ASSUME NEW y \in S PROVE y <= x
    OBVIOUS
  <2>. QED BY <1>4

\* A finite set of natural numbers that is not empty has a greatest element:
\* the parts above its elements are well-founded, too.
LEMMA GreatestOfFinite ==
  ASSUME NEW S \in SUBSET Nat, S # {}, IsFiniteSet(S)
  PROVE  \E x \in S : \A y \in S : y <= x
<1> DEFINE Above == {{z \in S : n <= z} : n \in S}
<1>1. Above \subseteq FiniteSubsetsOf(Nat)
  <2> SUFFICES ASSUME NEW n \in S PROVE {z \in S : n <= z} \in FiniteSubsetsOf(Nat)
    OBVIOUS
  <2>1. IsFiniteSet({z \in S : n <= z})
    BY FS_Subset
  <2>. QED BY <2>1 DEF FiniteSubsetsOf
<1>2. Above # {}
  OBVIOUS
<1>3. PICK b \in Above : \A c \in Above : <<c, b>> \notin StrictSubsetOrdering(Nat)
  <2> HIDE DEF Above
  <2>. QED BY <1>1, <1>2, FS_StrictSubsetOrderingWellFounded, WFMin
<1>4. PICK x \in S : b = {z \in S : x <= z}
  OBVIOUS
<1>5. ASSUME NEW y \in S, x < y PROVE FALSE
  <2> DEFINE c == {z \in S : y <= z}
  <2>1. c \in Above
    OBVIOUS
  <2>2. x \in b /\ x \notin c
    BY <1>4, <1>5
  <2>3. \A z \in S : z \in c => z \in b
    BY <1>4, <1>5
  <2>4. c \subseteq b /\ c # b /\ c \subseteq Nat /\ b \subseteq Nat
    BY <1>4, <2>2, <2>3
  <2> HIDE DEF c
  <2>5. <<c, b>> \in StrictSubsetOrdering(Nat)
    BY <2>4 DEF StrictSubsetOrdering
  <2>. QED BY <1>3, <2>1, <2>5
<1>. QED
  <2> SUFFICES ASSUME NEW y \in S PROVE y <= x
    OBVIOUS
  <2>. QED BY <1>5

\* Induction, with a set in the place of the property: what holds of 0 and of
\* every successor of a number it holds of holds of all numbers up to a bound.
LEMMA InductionUpTo ==
  ASSUME NEW bound \in Nat, NEW P, 0 \in P, \A n \in 1 .. bound : n - 1 \in P => n \in P
  PROVE  0 .. bound \subseteq P
<1> DEFINE bad == {n \in 0 .. bound : n \notin P}
<1>1. SUFFICES ASSUME bad # {} PROVE FALSE
  OBVIOUS
<1>2. \A n \in bad : n \in Nat
  OBVIOUS
<1>3. PICK n \in bad : \A k \in bad : n <= k
  <2> HIDE DEF bad
  <2>. QED BY <1>1, <1>2, LeastOfNaturals
<1>4. n \in 1 .. bound /\ n - 1 \in 0 .. bound /\ n \notin P
  <2>1. n \in 0 .. bound /\ n \notin P
    OBVIOUS
  <2>. QED BY <2>1
<1>5. n - 1 \in bad
  BY <1>4
<1>. QED BY <1>3, <1>4, <1>5

\* The values of a loop "for (i = 1; i <= last; ++i) v = G(i, v)" after each turn
Runs(h, last, V, A, G) ==
    /\ h \in [0 .. last -> V]
    /\ h[0] = A /\ \A i \in 1 .. last : h[i] = G[<<i, h[i - 1]>>]

\* A loop computes a function: the partial functions up to each turn extend each other.
LEMMA LoopExists ==
  ASSUME NEW last \in Nat, NEW V, NEW A \in V, NEW G \in [(1 .. last) \X V -> V]
  PROVE  \E h : Runs(h, last, V, A, G)
<1> DEFINE Prefix(k) == \E h \in [0 .. k -> V] :
                h[0] = A /\ \A i \in 1 .. k : h[i] = G[<<i, h[i - 1]>>]
<1>1. Prefix(0)
  <2> DEFINE h == [i \in 0 .. 0 |-> A]
  <2>1. h \in [0 .. 0 -> V] /\ h[0] = A /\ \A i \in 1 .. 0 : h[i] = G[<<i, h[i - 1]>>]
    OBVIOUS
  <2>. QED BY <2>1
<1>2. ASSUME NEW k \in 1 .. last, Prefix(k - 1)
      PROVE  Prefix(k)
  <2>1. PICK g \in [0 .. k - 1 -> V] :
            g[0] = A /\ \A i \in 1 .. k - 1 : g[i] = G[<<i, g[i - 1]>>]
    BY <1>2
  <2> DEFINE h == [i \in 0 .. k |-> IF i = k THEN G[<<k, g[k - 1]>>] ELSE g[i]]
  <2>2. k - 1 \in 0 .. k - 1 /\ G[<<k, g[k - 1]>>] \in V
    OBVIOUS
  <2>3. \A i \in 0 .. k : i # k => i \in 0 .. k - 1
    OBVIOUS
  <2>4. h \in [0 .. k -> V]
    BY <2>2, <2>3
  <2>5. ASSUME NEW i \in 1 .. k
        PROVE  h[i] = G[<<i, h[i - 1]>>]
    <3>1. h[i - 1] = g[i - 1]
      OBVIOUS
    <3>2. CASE i = k
      <4>1. h[i] = G[<<k, g[k - 1]>>]
        BY <3>2
      <4> HIDE DEF h
      <4>. QED BY <3>1, <3>2, <4>1
    <3>3. CASE i # k
      <4>1. i \in 1 .. k - 1
        BY <3>3
      <4>2. h[i] = g[i]
        BY <3>3
      <4>3. g[i] = G[<<i, g[i - 1]>>]
        BY <2>1, <4>1
      <4> HIDE DEF h
      <4>. QED BY <3>1, <4>2, <4>3
    <3>. QED BY <3>2, <3>3
  <2>6. h[0] = A
    BY <2>1
  <2> HIDE DEF h
  <2>. QED BY <2>4, <2>5, <2>6
<1> HIDE DEF Prefix
<1>3. 0 .. last \subseteq {k \in 0 .. last : Prefix(k)}
  <2> DEFINE P == {k \in 0 .. last : Prefix(k)}
  <2>1. 0 \in P
    BY <1>1
  <2>2. \A k \in 1 .. last : k - 1 \in P => k \in P
    BY <1>2
  <2> HIDE DEF P
  <2>3. 0 .. last \subseteq P
    BY <2>1, <2>2, InductionUpTo
  <2>. QED BY <2>3 DEF P
<1>. QED BY <1>3 DEF Prefix, Runs

-----------------------------------------------------------------------------
(* Entries                                                                  *)

\* The fields of an entry: ppn, dirty bit and read-only bit do not overlap.
LEMMA FieldsOfMapping ==
  ASSUME NEW e \in PTE, NEW ppn \in Nat
  PROVE  LET n == WithDirty(WithPpn([e EXCEPT !.present = 1], ppn), 0)
         IN  /\ n \in PTE /\ n.present = 1
             /\ Ppn(n) = ppn /\ DirtyBit(n) = 0 /\ ReadOnly(n) = ReadOnly(e)
<1> DEFINE r == e.saddr % 2048
           s == 2048 * ppn + r
           bit == (s \div 32) % 2
           t == s + 32 * (0 - bit)
<1>1. r \in 0 .. 2047 /\ r % 2 = e.saddr % 2 /\ e.saddr \in Nat
  BY DEF PTE
<1>2. s \in Nat /\ bit \in {0, 1} /\ t \in Nat /\ t \div 2048 = ppn /\ (t \div 32) % 2 = 0 /\ t % 2 = r % 2
  <2> HIDE DEF r
  <2>. QED BY <1>1, SMTT(30)
<1>3. WithDirty(WithPpn([e EXCEPT !.present = 1], ppn), 0) = [present |-> 1, saddr |-> t]
  <2>1. [e EXCEPT !.present = 1] = [present |-> 1, saddr |-> e.saddr]
    BY DEF PTE
  <2>2. WithPpn([e EXCEPT !.present = 1], ppn) = [present |-> 1, saddr |-> s]
    <3> DEFINE e1 == [e EXCEPT !.present = 1]
    <3>1. e1 = [present |-> 1, saddr |-> e.saddr]
      BY <2>1
    <3> HIDE DEF e1
    <3>2. WithPpn(e1, ppn) = [present |-> 1, saddr |-> s]
      BY <3>1 DEF WithPpn
    <3>. QED BY <3>2 DEF e1
  <2> HIDE DEF s
  <2>. QED BY <2>2 DEF WithDirty, DirtyBit
<1> DEFINE n == WithDirty(WithPpn([e EXCEPT !.present = 1], ppn), 0)
<1>4. n \in PTE /\ n.present = 1 /\ n.saddr = t
  <2> HIDE DEF t
  <2>. QED BY <1>2, <1>3 DEF PTE
<1> HIDE DEF t, n
<1>5. Ppn(n) = ppn /\ DirtyBit(n) = 0 /\ ReadOnly(n) = ReadOnly(e)
  BY <1>1, <1>2, <1>4 DEF Ppn, DirtyBit, ReadOnly
<1>. QED BY <1>4, <1>5 DEF n

\* Setting the dirty bit changes no other field of an entry (pagemap_dirty).
LEMMA FieldsOfDirtying ==
  ASSUME NEW e \in PTE
  PROVE  LET n == WithDirty(e, 1)
         IN  /\ n \in PTE /\ n.present = e.present
             /\ Ppn(n) = Ppn(e) /\ DirtyBit(n) = 1 /\ ReadOnly(n) = ReadOnly(e)
<1> DEFINE s == e.saddr
           bit == (s \div 32) % 2
           t == s + 32 * (1 - bit)
<1>1. s \in Nat
  BY DEF PTE
<1>2. bit \in {0, 1} /\ t \in Nat /\ t \div 2048 = s \div 2048 /\ (t \div 32) % 2 = 1 /\ t % 2 = s % 2
  <2> HIDE DEF s
  <2>. QED BY <1>1, SMTT(30)
<1>3. WithDirty(e, 1) = [present |-> e.present, saddr |-> t] /\ e.present \in {0, 1}
  BY DEF WithDirty, DirtyBit, PTE
<1> HIDE DEF t
<1>. QED BY <1>1, <1>2, <1>3 DEF PTE, Ppn, DirtyBit, ReadOnly

-----------------------------------------------------------------------------
AnyMachine ==
    [page_map : [Frames -> PD], pt : [PTEs -> PTE], pm : [Frames -> Words],
     swap : [FileAddresses -> Words \cup {NoFile, EmptyFile}],
     internal_swap_addr : Nat, panic : Panics]

SameButTime(c, d) ==
    /\ c.allocated = d.allocated /\ c.dirty = d.dirty /\ c.mapping = d.mapping
    /\ c.reversed_counter = d.reversed_counter /\ c.saddr = d.saddr

\* Frames and slots of mapping[] are finite sets of numbers.
LEMMA FramesAreNaturals ==
  /\ Frames \subseteq Nat /\ Frames # {} /\ IsFiniteSet(Frames)
  /\ \A f \in Frames : f <= NumFrames
  /\ Slots \subseteq Nat /\ IsFiniteSet(Slots)
<1>1. NumFrames \in Nat \ {0} /\ MaxMapping \in Nat \ {0}
  BY FramesAssumption
<1>2. IsFiniteSet(Frames) /\ IsFiniteSet(Slots)
  BY <1>1, FS_Interval DEF Frames, Slots
<1>3. Frames \subseteq Nat /\ 0 \in Frames /\ \A f \in Frames : f <= NumFrames
  BY <1>1 DEF Frames
<1>4. Slots \subseteq Nat
  BY <1>1 DEF Slots
<1>. QED BY <1>2, <1>3, <1>4

\* Ranking the times, after pagemap_update_time, changes nothing else of a frame.
LEMMA TimesOnly ==
  ASSUME NEW page_map \in [Frames -> PD], NEW time \in [Frames -> Nat]
  PROVE  /\ WithTimes(page_map, time) \in [Frames -> PD]
         /\ \A f \in Frames : SameButTime(WithTimes(page_map, time)[f], page_map[f])
<1> DEFINE n == WithTimes(page_map, time)
<1>1. ASSUME NEW f \in Frames
      PROVE  Ranked(time)[f] \in Nat
  <2>1. IsFiniteSet(0 .. time[f] - 1)
    BY FS_Interval
  <2>2. IsFiniteSet({time[g] : g \in Frames} \cap 0 .. time[f] - 1)
    BY <2>1, FS_Subset
  <2>. QED BY <2>2, FS_CardinalityType DEF Ranked
<1>2. ASSUME NEW f \in Frames
      PROVE  n[f] \in PD /\ SameButTime(n[f], page_map[f])
  <2>1. n[f] = [page_map[f] EXCEPT !.time = Ranked(time)[f]]
    BY DEF WithTimes
  <2>2. page_map[f] \in PD
    OBVIOUS
  <2> HIDE DEF n
  <2>. QED BY <1>1, <2>1, <2>2 DEF PD, SameButTime
<1>3. n \in [Frames -> PD]
  <2>1. n = [f \in Frames |-> n[f]]
    BY DEF WithTimes
  <2> HIDE DEF n
  <2>. QED BY <1>2, <2>1
<1>. QED BY <1>2, <1>3

\* The loop of map_pte4 finds an unused slot of mapping[] if there is one.
LEMMA FirstUnusedExists ==
  ASSUME NEW d \in PD, Used(d) # Slots
  PROVE  FirstUnused(d.mapping) \in Slots /\ d.mapping[FirstUnused(d.mapping)] = NULL
<1> DEFINE unused == {i \in Slots : d.mapping[i] = NULL}
<1>1. unused \in SUBSET Nat /\ unused # {}
  BY FramesAreNaturals DEF Used
<1>2. PICK i \in unused : \A j \in unused : i <= j
  <2> HIDE DEF unused
  <2>. QED BY <1>1, LeastOfNaturals
<1>3. \A j \in 1 .. i - 1 : d.mapping[j] # NULL
  <2> SUFFICES ASSUME NEW j \in 1 .. i - 1 PROVE d.mapping[j] # NULL
    OBVIOUS
  <2>1. i \in Slots /\ j \in Slots /\ j < i
    BY FramesAssumption DEF Slots
  <2>2. j \notin unused
    BY <1>2, <2>1 DEF Slots
  <2>. QED BY <2>1, <2>2
<1>4. i \in Slots /\ d.mapping[i] = NULL
  OBVIOUS
<1>. QED BY <1>3, <1>4 DEF FirstUnused

\* What map_pte4 makes of the frame: one more entry in mapping[], one more counted.
LEMMA MappedFrame ==
  ASSUME NEW d \in PD, NEW pte \in PTEs, NEW saddr \in Nat, Used(d) # Slots
  PROVE  LET c == Mapped(d, pte, saddr)
         IN  /\ c \in PD
             /\ c.saddr = saddr /\ c.allocated = 1 /\ c.dirty = d.dirty
             /\ c.reversed_counter = d.reversed_counter + 1
             /\ Mappers(c) = Mappers(d) \cup {pte}
             /\ Cardinality(Used(c)) = Cardinality(Used(d)) + 1
<1> DEFINE c == Mapped(d, pte, saddr)
           i == FirstUnused(d.mapping)
<1>1. i \in Slots /\ d.mapping[i] = NULL
  BY FirstUnusedExists
<1> HIDE DEF i
<1>2. /\ c \in PD /\ c.saddr = saddr /\ c.allocated = 1 /\ c.dirty = d.dirty
      /\ c.reversed_counter = d.reversed_counter + 1
      /\ c.mapping = [d.mapping EXCEPT ![i] = pte]
  <2>1. c = [allocated |-> 1, dirty |-> d.dirty, time |-> 0,
             mapping |-> [d.mapping EXCEPT ![i] = pte],
             reversed_counter |-> d.reversed_counter + 1, saddr |-> saddr]
    <3>1. d = [allocated |-> d.allocated, dirty |-> d.dirty, time |-> d.time,
               mapping |-> d.mapping, reversed_counter |-> d.reversed_counter,
               saddr |-> d.saddr]
      BY DEF PD
    <3>2. c = [d EXCEPT !.saddr = saddr, !.allocated = 1, !.time = 0,
                        !.mapping[i] = pte, !.reversed_counter = d.reversed_counter + 1]
      BY DEF Mapped, i
    <3> HIDE DEF c
    <3>. QED BY <3>1, <3>2, Zenon
  <2>2. [d.mapping EXCEPT ![i] = pte] \in [Slots -> PTEs \cup {NULL}]
    BY DEF PD
  <2>3. d.dirty \in {0, 1} /\ d.reversed_counter \in Nat
    BY DEF PD
  <2> HIDE DEF c
  <2>. QED BY <2>1, <2>2, <2>3 DEF PD
<1>3. Mappers(c) = Mappers(d) \cup {pte}
  <2>1. d.mapping \in [Slots -> PTEs \cup {NULL}]
    BY DEF PD
  <2>2. pte # NULL
    BY PTEsAssumption
  <2> HIDE DEF c
  <2>. QED BY <1>1, <1>2, <2>1, <2>2 DEF Mappers
<1>4. Cardinality(Used(c)) = Cardinality(Used(d)) + 1
  <2>1. Used(c) = Used(d) \cup {i} /\ i \notin Used(d)
    <3>1. d.mapping \in [Slots -> PTEs \cup {NULL}] /\ pte # NULL
      BY PTEsAssumption DEF PD
    <3> HIDE DEF c
    <3>. QED BY <1>1, <1>2, <3>1 DEF Used
  <2>2. IsFiniteSet(Used(d))
    BY FramesAreNaturals, FS_Subset DEF Used
  <2> HIDE DEF c
  <2>. QED BY <2>1, <2>2, FS_AddElement
<1>. QED BY <1>2, <1>3, <1>4

\* What is left of a machine besides frames and entries
SameMemory(m, n) ==
    n.pm = m.pm /\ n.swap = m.swap /\ n.internal_swap_addr = m.internal_swap_addr

Maps(m, n, pte, ppn) ==
    /\ m.panic = "none"
    /\ m.page_map[ppn].dirty = 0
    /\ \A f \in Frames \ {ppn} : SameButTime(n.page_map[f], m.page_map[f])
    /\ n.page_map[ppn].allocated = 1 /\ n.page_map[ppn].dirty = 0
    /\ n.page_map[ppn].saddr = m.pt[pte].saddr
    /\ n.page_map[ppn].reversed_counter = m.page_map[ppn].reversed_counter + 1
    /\ Mappers(n.page_map[ppn]) = Mappers(m.page_map[ppn]) \cup {pte}
    /\ Cardinality(Used(n.page_map[ppn])) = Cardinality(Used(m.page_map[ppn])) + 1
    /\ \A other \in PTEs \ {pte} : n.pt[other] = m.pt[other]
    /\ n.pt[pte].present = 1 /\ Ppn(n.pt[pte]) = ppn
    /\ DirtyBit(n.pt[pte]) = 0 /\ ReadOnly(n.pt[pte]) = ReadOnly(m.pt[pte])

\* What map_pte4 does when no assertion fails, and that it keeps types when one does.
LEMMA MapEffect ==
  ASSUME NEW m \in AnyMachine, NEW pte \in PTEs, NEW ppn \in Frames,
         NEW n, n = map_pte4(m, pte, ppn)
  PROVE  /\ n \in AnyMachine /\ SameMemory(m, n)
         /\ \A other \in PTEs \ {pte} : n.pt[other] = m.pt[other]
         /\ n.panic = "none" => Maps(m, n, pte, ppn)
<1> DEFINE d == m.page_map[ppn]
           e == m.pt[pte]
           page_map == [m.page_map EXCEPT ![ppn] = Mapped(d, pte, e.saddr)]
           entry == WithDirty(WithPpn([e EXCEPT !.present = 1], ppn), 0)
           timed == WithTimes(page_map, [f \in Frames |-> page_map[f].time])
           done == [m EXCEPT !.page_map = timed, !.pt[pte] = entry]
<1>1. \/ m.panic # "none" /\ n = m
      \/ m.panic = "none" /\ n = [m EXCEPT !.panic = "map_pte4: dirty"]
      \/ m.panic = "none" /\ n = [m EXCEPT !.panic = "map_pte4: full"]
      \/ m.panic = "none" /\ d.dirty = 0 /\ Used(d) # Slots /\ n = done
  BY Zenon DEF map_pte4, Guarded
<1>2. d \in PD /\ e \in PTE /\ e.saddr \in Nat /\ m.page_map \in [Frames -> PD]
      /\ m.pt \in [PTEs -> PTE] /\ ppn \in Nat
  BY FramesAreNaturals DEF AnyMachine, PTE
<1>3. CASE m.panic # "none" /\ n = m
  <2>. QED BY <1>3 DEF SameMemory
<1>4. ASSUME NEW reason \in Panics \ {"none"}, n = [m EXCEPT !.panic = reason]
      PROVE  n \in AnyMachine /\ n.panic # "none" /\ SameMemory(m, n) /\ n.pt = m.pt
  BY <1>4 DEF AnyMachine, SameMemory
<1>5. CASE m.panic = "none" /\ d.dirty = 0 /\ Used(d) # Slots /\ n = done
  <2> DEFINE c == Mapped(d, pte, e.saddr)
  <2>1. /\ c \in PD
        /\ c.saddr = e.saddr /\ c.allocated = 1 /\ c.dirty = d.dirty
        /\ c.reversed_counter = d.reversed_counter + 1
        /\ Mappers(c) = Mappers(d) \cup {pte}
        /\ Cardinality(Used(c)) = Cardinality(Used(d)) + 1
    BY <1>2, <1>5, MappedFrame
  <2>2. /\ entry \in PTE /\ entry.present = 1 /\ Ppn(entry) = ppn
        /\ DirtyBit(entry) = 0 /\ ReadOnly(entry) = ReadOnly(e)
    BY <1>2, FieldsOfMapping
  <2> HIDE DEF c, entry
  <2>3. /\ page_map \in [Frames -> PD]
        /\ page_map[ppn] = c
        /\ \A f \in Frames \ {ppn} : page_map[f] = m.page_map[f]
    BY <1>2, <2>1 DEF c
  <2> HIDE DEF page_map
  <2>4. [f \in Frames |-> page_map[f].time] \in [Frames -> Nat]
    BY <2>3 DEF PD
  <2>5. timed \in [Frames -> PD] /\ \A f \in Frames : SameButTime(timed[f], page_map[f])
    BY <2>3, <2>4, TimesOnly
  <2> HIDE DEF timed
  <2>6. [m.pt EXCEPT ![pte] = entry] \in [PTEs -> PTE]
    BY <1>2, <2>2
  <2>7. n = [m EXCEPT !.page_map = timed, !.pt = [m.pt EXCEPT ![pte] = entry]]
    BY <1>5
  <2>8. /\ n \in AnyMachine /\ SameMemory(m, n) /\ n.panic = m.panic
        /\ n.page_map = timed /\ n.pt = [m.pt EXCEPT ![pte] = entry]
    BY <2>5, <2>6, <2>7 DEF AnyMachine, SameMemory
  <2>9. \A f \in Frames \ {ppn} : SameButTime(n.page_map[f], m.page_map[f])
    BY <2>3, <2>5, <2>8
  <2>10. /\ n.page_map[ppn].allocated = 1 /\ n.page_map[ppn].dirty = 0
         /\ n.page_map[ppn].saddr = e.saddr
         /\ n.page_map[ppn].reversed_counter = d.reversed_counter + 1
         /\ Mappers(n.page_map[ppn]) = Mappers(d) \cup {pte}
         /\ Cardinality(Used(n.page_map[ppn])) = Cardinality(Used(d)) + 1
    <3>1. SameButTime(timed[ppn], c)
      BY <2>3, <2>5
    <3>2. /\ timed[ppn].allocated = c.allocated /\ timed[ppn].dirty = c.dirty
          /\ timed[ppn].mapping = c.mapping /\ timed[ppn].saddr = c.saddr
          /\ timed[ppn].reversed_counter = c.reversed_counter
      BY <3>1 DEF SameButTime
    <3>3. Mappers(timed[ppn]) = Mappers(c) /\ Used(timed[ppn]) = Used(c)
      BY <3>2 DEF Mappers, Used
    <3>. QED BY <1>5, <2>1, <2>8, <3>2, <3>3
  <2>11. /\ \A other \in PTEs \ {pte} : n.pt[other] = m.pt[other]
         /\ n.pt[pte] = entry
    BY <1>2, <2>8
  <2> HIDE DEF done
  <2>12. Maps(m, n, pte, ppn)
    BY <1>5, <2>2, <2>9, <2>10, <2>11 DEF Maps
  <2>. QED BY <2>8, <2>11, <2>12
<1>6. {"map_pte4: dirty", "map_pte4: full"} \subseteq Panics \ {"none"}
  BY DEF Panics
<1>7. CASE n = [m EXCEPT !.panic = "map_pte4: dirty"]
  BY <1>4, <1>6, <1>7
<1>8. CASE n = [m EXCEPT !.panic = "map_pte4: full"]
  BY <1>4, <1>6, <1>8
<1>. QED BY <1>1, <1>3, <1>5, <1>7, <1>8

\* pagemap_update_time changes times only, or fails its accounting assertion.
LEMMA UpdateTimeEffect ==
  ASSUME NEW m \in AnyMachine, NEW ppn \in Frames,
         NEW n, n = pagemap_update_time(m, ppn)
  PROVE  /\ n \in AnyMachine /\ SameMemory(m, n) /\ n.pt = m.pt
         /\ n.panic = "none" => m.panic = "none"
         /\ \A f \in Frames : SameButTime(n.page_map[f], m.page_map[f])
<1> DEFINE time == [f \in Frames |-> IF f = ppn THEN 0 ELSE m.page_map[f].time + 1]
           touched == WithTimes(m.page_map, time)
<1>1. \/ n = m
      \/ m.panic = "none" /\ n = [m EXCEPT !.panic = "accounting"]
      \/ m.panic = "none" /\ n = [m EXCEPT !.page_map = touched]
  BY Zenon DEF pagemap_update_time, Guarded, Touched
<1>2. m.page_map \in [Frames -> PD]
  BY DEF AnyMachine
<1>3. time \in [Frames -> Nat]
  BY <1>2 DEF PD
<1> HIDE DEF time
<1>4. touched \in [Frames -> PD] /\ \A f \in Frames : SameButTime(touched[f], m.page_map[f])
  BY <1>2, <1>3, TimesOnly
<1> HIDE DEF touched
<1>5. \A f \in Frames : SameButTime(m.page_map[f], m.page_map[f])
  BY DEF SameButTime
<1>6. CASE n = m
  BY <1>5, <1>6 DEF SameMemory
<1>7. CASE m.panic = "none" /\ n = [m EXCEPT !.panic = "accounting"]
  BY <1>5, <1>7 DEF SameMemory, AnyMachine, Panics
<1>8. CASE m.panic = "none" /\ n = [m EXCEPT !.page_map = touched]
  BY <1>4, <1>8 DEF SameMemory, AnyMachine
<1>. QED BY <1>1, <1>6, <1>7, <1>8

Dirties(m, n, ppn) ==
    /\ m.panic = "none"
    /\ \A f \in Frames \ {ppn} : n.page_map[f] = m.page_map[f]
    /\ n.page_map[ppn] = [m.page_map[ppn] EXCEPT !.dirty = 1]
    /\ \A pte \in PTEs : n.pt[pte] = IF pte \in Mappers(m.page_map[ppn])
                                    THEN WithDirty(m.pt[pte], 1) ELSE m.pt[pte]

\* pagemap_dirty sets the bit of the frame and of the entries in its mapping[].
LEMMA DirtyEffect ==
  ASSUME NEW m \in AnyMachine, NEW ppn \in Frames,
         NEW n, n = pagemap_dirty(m, ppn)
  PROVE  /\ n \in AnyMachine /\ SameMemory(m, n)
         /\ n.panic = "none" => Dirties(m, n, ppn)
<1>1. \/ m.panic # "none" /\ n = m
      \/ m.panic = "none" /\ n = [m EXCEPT !.panic = "accounting"]
      \/ m.panic = "none" /\ n = [m EXCEPT !.page_map[ppn].dirty = 1, !.pt = DirtyEntries(m, ppn)]
  BY Zenon DEF pagemap_dirty, Guarded
<1>2. CASE m.panic # "none" /\ n = m
  BY <1>2 DEF SameMemory
<1>3. CASE m.panic = "none" /\ n = [m EXCEPT !.panic = "accounting"]
  BY <1>3 DEF SameMemory, AnyMachine, Panics
<1>4. CASE m.panic = "none" /\ n = [m EXCEPT !.page_map[ppn].dirty = 1, !.pt = DirtyEntries(m, ppn)]
  <2>1. m.page_map \in [Frames -> PD] /\ m.pt \in [PTEs -> PTE]
    BY DEF AnyMachine
  <2>2. DirtyEntries(m, ppn) \in [PTEs -> PTE]
    <3>1. \A pte \in PTEs : WithDirty(m.pt[pte], 1) \in PTE
      BY <2>1, FieldsOfDirtying
    <3>. QED BY <2>1, <3>1 DEF DirtyEntries
  <2> DEFINE d == [m.page_map[ppn] EXCEPT !.dirty = 1]
             page_map == [m.page_map EXCEPT ![ppn] = d]
  <2>3. d \in PD
    BY <2>1 DEF PD
  <2>4. n = [m EXCEPT !.page_map = page_map, !.pt = DirtyEntries(m, ppn)]
    BY <1>4
  <2>5. /\ page_map \in [Frames -> PD] /\ page_map[ppn] = d
        /\ \A f \in Frames \ {ppn} : page_map[f] = m.page_map[f]
    BY <2>1, <2>3
  <2> HIDE DEF d, page_map
  <2>6. /\ n \in AnyMachine /\ SameMemory(m, n)
        /\ n.page_map = page_map /\ n.pt = DirtyEntries(m, ppn)
    BY <2>2, <2>4, <2>5 DEF SameMemory, AnyMachine
  <2>7. Dirties(m, n, ppn)
    BY <1>4, <2>5, <2>6 DEF Dirties, DirtyEntries, d
  <2>. QED BY <2>6, <2>7
<1>. QED BY <1>1, <1>2, <1>3, <1>4

Unmaps(m, n, ppn) ==
    /\ m.panic = "none" /\ Accountable(m, ppn)
    /\ \A f \in Frames \ {ppn} : SameButTime(n.page_map[f], m.page_map[f])
    /\ n.page_map[ppn].allocated = 0 /\ n.page_map[ppn].dirty = 0
    /\ n.page_map[ppn].saddr = m.page_map[ppn].saddr
    /\ n.page_map[ppn].reversed_counter = 0
    /\ Mappers(n.page_map[ppn]) = {} /\ Used(n.page_map[ppn]) = {}
    /\ \A pte \in PTEs : n.pt[pte] = IF pte \in Mappers(m.page_map[ppn])
            THEN [present |-> 0, saddr |-> m.page_map[ppn].saddr] ELSE m.pt[pte]

\* unmapall_pte4 frees the frame and sends its entries to its swap address.
LEMMA UnmapEffect ==
  ASSUME NEW m \in AnyMachine, NEW ppn \in Frames,
         NEW n, n = unmapall_pte4(m, ppn)
  PROVE  /\ n \in AnyMachine /\ SameMemory(m, n)
         /\ n.panic = "none" => Unmaps(m, n, ppn)
<1> DEFINE d == m.page_map[ppn]
           c == [FreshPD EXCEPT !.saddr = d.saddr]
           page_map == [m.page_map EXCEPT ![ppn] = c]
           timed == WithTimes(page_map, [f \in Frames |-> page_map[f].time])
<1>1. \/ m.panic # "none" /\ n = m
      \/ m.panic = "none" /\ n = [m EXCEPT !.panic = "unmapall_pte4"]
      \/ /\ m.panic = "none" /\ Accountable(m, ppn)
         /\ n = [m EXCEPT !.page_map = timed, !.pt = Unmapped(m, d)]
  BY Zenon DEF unmapall_pte4, Guarded
<1>2. CASE m.panic # "none" /\ n = m
  BY <1>2 DEF SameMemory
<1>3. CASE m.panic = "none" /\ n = [m EXCEPT !.panic = "unmapall_pte4"]
  BY <1>3 DEF SameMemory, AnyMachine, Panics
<1>4. CASE /\ m.panic = "none" /\ Accountable(m, ppn)
           /\ n = [m EXCEPT !.page_map = timed, !.pt = Unmapped(m, d)]
  <2>1. m.page_map \in [Frames -> PD] /\ m.pt \in [PTEs -> PTE] /\ d \in PD /\ d.saddr \in Nat
    BY DEF AnyMachine, PD
  <2>2. /\ c = [allocated |-> 0, dirty |-> 0, time |-> 0, mapping |-> [i \in Slots |-> NULL],
                reversed_counter |-> 0, saddr |-> d.saddr]
        /\ c \in PD
    BY <2>1 DEF FreshPD, PD
  <2>3. Mappers(c) = {} /\ Used(c) = {}
    BY <2>2 DEF Mappers, Used
  <2> HIDE DEF c
  <2>4. /\ page_map \in [Frames -> PD] /\ page_map[ppn] = c
        /\ \A f \in Frames \ {ppn} : page_map[f] = m.page_map[f]
    BY <2>1, <2>2
  <2> HIDE DEF page_map
  <2>5. [f \in Frames |-> page_map[f].time] \in [Frames -> Nat]
    BY <2>4 DEF PD
  <2>6. timed \in [Frames -> PD] /\ \A f \in Frames : SameButTime(timed[f], page_map[f])
    BY <2>4, <2>5, TimesOnly
  <2> HIDE DEF timed
  <2>7. Unmapped(m, d) \in [PTEs -> PTE]
    BY <2>1 DEF Unmapped, PTE
  <2>8. /\ n \in AnyMachine /\ SameMemory(m, n)
        /\ n.page_map = timed /\ n.pt = Unmapped(m, d)
    BY <1>4, <2>6, <2>7 DEF AnyMachine, SameMemory
  <2>9. SameButTime(timed[ppn], c)
    BY <2>4, <2>6
  <2>10. /\ n.page_map[ppn].allocated = 0 /\ n.page_map[ppn].dirty = 0
         /\ n.page_map[ppn].saddr = d.saddr /\ n.page_map[ppn].reversed_counter = 0
    BY <2>2, <2>8, <2>9 DEF SameButTime
  <2>11. Mappers(n.page_map[ppn]) = {} /\ Used(n.page_map[ppn]) = {}
    BY <2>3, <2>8, <2>9 DEF SameButTime, Mappers, Used
  <2>12. \A f \in Frames \ {ppn} : SameButTime(n.page_map[f], m.page_map[f])
    BY <2>4, <2>6, <2>8
  <2>13. Unmaps(m, n, ppn)
    BY <1>4, <2>8, <2>10, <2>11, <2>12 DEF Unmaps, Unmapped
  <2>. QED BY <2>8, <2>13
<1>. QED BY <1>1, <1>2, <1>3, <1>4

SwapsIn(m, n, saddr, ppn) ==
    /\ m.panic = "none"
    /\ \A f \in Frames \ {ppn} : n.page_map[f] = m.page_map[f]
    /\ n.page_map[ppn].allocated = m.page_map[ppn].allocated
    /\ n.page_map[ppn].dirty = m.page_map[ppn].dirty
    /\ n.page_map[ppn].mapping = m.page_map[ppn].mapping
    /\ n.page_map[ppn].reversed_counter = m.page_map[ppn].reversed_counter
    /\ \A f \in Frames \ {ppn} : n.pm[f] = m.pm[f]
    /\ saddr = 0 =>
        /\ n.pm[ppn] = Blank
        /\ n.page_map[ppn].saddr = m.internal_swap_addr
        /\ n.swap = [m.swap EXCEPT ![m.internal_swap_addr] = EmptyFile]
    /\ saddr # 0 =>
        /\ saddr \in FileAddresses
        /\ n.pm[ppn] = m.swap[saddr]
        /\ n.swap = m.swap

\* allocate_swappage gives the frame a fresh address with an empty file.
LEMMA AllocateEffect ==
  ASSUME NEW m \in AnyMachine, NEW ppn \in Frames,
         NEW n, n = allocate_swappage(m, ppn)
  PROVE  /\ n \in AnyMachine /\ n.pt = m.pt /\ n.panic = m.panic
         /\ n.internal_swap_addr = m.internal_swap_addr + 1
         /\ m.panic = "none" => SwapsIn(m, n, 0, ppn)
<1> DEFINE d == [m.page_map[ppn] EXCEPT !.saddr = m.internal_swap_addr]
           page_map == [m.page_map EXCEPT ![ppn] = d]
           swap == [m.swap EXCEPT ![m.internal_swap_addr] = EmptyFile]
           pm == [m.pm EXCEPT ![ppn] = Blank]
<1>1. n = [m EXCEPT !.internal_swap_addr = m.internal_swap_addr + 1,
                    !.swap = swap, !.pm = pm, !.page_map = page_map]
  BY DEF allocate_swappage, set_pagemap_swapaddr, AnyMachine
<1>2. /\ m.page_map \in [Frames -> PD] /\ m.internal_swap_addr \in Nat
      /\ m.pm \in [Frames -> Words]
      /\ m.swap \in [FileAddresses -> Words \cup {NoFile, EmptyFile}]
  BY DEF AnyMachine
<1>3. d \in PD
  BY <1>2 DEF PD
<1>4. /\ d.allocated = m.page_map[ppn].allocated /\ d.dirty = m.page_map[ppn].dirty
      /\ d.mapping = m.page_map[ppn].mapping
      /\ d.reversed_counter = m.page_map[ppn].reversed_counter
      /\ d.saddr = m.internal_swap_addr
  BY <1>2 DEF PD
<1> HIDE DEF d
<1>5. /\ page_map \in [Frames -> PD] /\ page_map[ppn] = d
      /\ \A f \in Frames \ {ppn} : page_map[f] = m.page_map[f]
  BY <1>2, <1>3
<1>6. swap \in [FileAddresses -> Words \cup {NoFile, EmptyFile}]
  BY <1>2
<1>7. /\ pm \in [Frames -> Words] /\ pm[ppn] = Blank
      /\ \A f \in Frames \ {ppn} : pm[f] = m.pm[f]
  BY <1>2, WordsAssumption
<1> HIDE DEF page_map, swap, pm
<1>8. /\ n \in AnyMachine /\ n.pt = m.pt /\ n.panic = m.panic
      /\ n.internal_swap_addr = m.internal_swap_addr + 1
      /\ n.page_map = page_map /\ n.pm = pm /\ n.swap = swap
  <2>1. n = [page_map |-> page_map, pt |-> m.pt, pm |-> pm, swap |-> swap,
             internal_swap_addr |-> m.internal_swap_addr + 1, panic |-> m.panic]
    BY <1>1 DEF AnyMachine
  <2>2. m.pt \in [PTEs -> PTE] /\ m.panic \in Panics
    BY DEF AnyMachine
  <2>. QED BY <2>1, <2>2, <1>2, <1>5, <1>6, <1>7 DEF AnyMachine
<1>9. m.panic = "none" => SwapsIn(m, n, 0, ppn)
  BY <1>4, <1>5, <1>7, <1>8 DEF SwapsIn, swap
<1>. QED BY <1>8, <1>9

\* swap_in fills the frame from the file, or blanks it and allocates one for address 0.
LEMMA SwapInEffect ==
  ASSUME NEW m \in AnyMachine, NEW saddr \in Nat, NEW ppn \in Frames,
         NEW n, n = swap_in(m, saddr, ppn)
  PROVE  /\ n \in AnyMachine /\ n.pt = m.pt
         /\ n.internal_swap_addr \in {m.internal_swap_addr, m.internal_swap_addr + 1}
         /\ n.panic = "none" => SwapsIn(m, n, saddr, ppn)
<1>1. \/ m.panic # "none" /\ n = m
      \/ m.panic = "none" /\ saddr = 0 /\ n = allocate_swappage(m, ppn)
      \/ m.panic = "none" /\ n = [m EXCEPT !.panic = "swap_in: address"]
      \/ m.panic = "none" /\ n = [m EXCEPT !.panic = "swap_in: no file"]
      \/ m.panic = "none" /\ n = [m EXCEPT !.panic = "swap_in: parse"]
      \/ /\ m.panic = "none" /\ saddr # 0
         /\ SwapFile(m, saddr) # NoFile /\ Parses(SwapFile(m, saddr))
         /\ n = [m EXCEPT !.pm[ppn] = m.swap[saddr]]
  BY Zenon DEF swap_in, Guarded
<1>2. CASE m.panic # "none" /\ n = m
  BY <1>2
<1>3. CASE m.panic = "none" /\ saddr = 0 /\ n = allocate_swappage(m, ppn)
  BY <1>3, AllocateEffect
<1>4. ASSUME NEW reason \in Panics \ {"none"}, n = [m EXCEPT !.panic = reason]
      PROVE  /\ n \in AnyMachine /\ n.pt = m.pt /\ n.panic # "none"
             /\ n.internal_swap_addr = m.internal_swap_addr
  BY <1>4 DEF AnyMachine
<1>5. {"swap_in: address", "swap_in: no file", "swap_in: parse"} \subseteq Panics \ {"none"}
  BY DEF Panics
<1>6. CASE n = [m EXCEPT !.panic = "swap_in: address"]
  BY <1>4, <1>5, <1>6
<1>7. CASE n = [m EXCEPT !.panic = "swap_in: no file"]
  BY <1>4, <1>5, <1>7
<1>8. CASE n = [m EXCEPT !.panic = "swap_in: parse"]
  BY <1>4, <1>5, <1>8
<1>9. CASE /\ m.panic = "none" /\ saddr # 0
           /\ SwapFile(m, saddr) # NoFile /\ Parses(SwapFile(m, saddr))
           /\ n = [m EXCEPT !.pm[ppn] = m.swap[saddr]]
  <2>1. saddr \in FileAddresses /\ m.swap[saddr] \in Words
    BY <1>9 DEF SwapFile, Parses
  <2>2. m.pm \in [Frames -> Words]
    BY DEF AnyMachine
  <2>3. [m.pm EXCEPT ![ppn] = m.swap[saddr]] \in [Frames -> Words]
    BY <2>1, <2>2
  <2>4. /\ n \in AnyMachine /\ n.pt = m.pt /\ n.page_map = m.page_map
        /\ n.internal_swap_addr = m.internal_swap_addr
        /\ n.swap = m.swap /\ n.pm = [m.pm EXCEPT ![ppn] = m.swap[saddr]]
    BY <1>9, <2>3 DEF AnyMachine
  <2>5. n.pm[ppn] = m.swap[saddr] /\ \A f \in Frames \ {ppn} : n.pm[f] = m.pm[f]
    BY <2>2, <2>4
  <2>. QED BY <1>9, <2>1, <2>4, <2>5 DEF SwapsIn
<1>. QED BY <1>1, <1>2, <1>3, <1>6, <1>7, <1>8, <1>9

\* swap_out writes the file of a swap address, and nothing else.
LEMMA SwapOutEffect ==
  ASSUME NEW m \in AnyMachine, NEW saddr, NEW ppn \in Frames,
         NEW n, n = swap_out(m, saddr, ppn)
  PROVE  /\ n \in AnyMachine /\ n.pt = m.pt /\ n.page_map = m.page_map
         /\ n.internal_swap_addr = m.internal_swap_addr
         /\ n.pm = m.pm /\ (n.panic = "none" => m.panic = "none")
<1>1. \/ m.panic # "none" /\ n = m
      \/ m.panic = "none" /\ n = [m EXCEPT !.panic = "swap_out: address"]
      \/ m.panic = "none" /\ n = [m EXCEPT !.swap = WriteBack(m, saddr, ppn)]
  BY Zenon DEF swap_out, Guarded
<1>2. WriteBack(m, saddr, ppn) \in [FileAddresses -> Words \cup {NoFile, EmptyFile}]
  BY DEF WriteBack, AnyMachine
<1>. QED BY <1>1, <1>2 DEF AnyMachine, Panics

-----------------------------------------------------------------------------
EntriesPointToFrames(m) ==
    \A pte \in PTEs : m.pt[pte].present = 1 => Ppn(m.pt[pte]) \in Frames

Consistent(m) == InverseMaps(m) /\ SameDirtyBits(m) /\ EntriesPointToFrames(m)

\* The entries that point to a frame can be counted, the slots of its mapping[] being
\* finitely many.
LEMMA MappersAreFinite ==
  ASSUME NEW d \in PD
  PROVE  IsFiniteSet(Mappers(d))
<1> DEFINE image == {d.mapping[i] : i \in Slots}
<1>1. IsFiniteSet(image)
  <2>1. d.mapping \in Surjection(Slots, image)
    BY DEF PD, Surjection
  <2> HIDE DEF image
  <2>. QED BY <2>1, FramesAreNaturals, FS_Surjection
<1>. QED BY <1>1, FS_Subset DEF Mappers

\* What map_pte4 does to the accounts of frames and entries
Attaches(m, n, pte, ppn) ==
    /\ \A f \in Frames \ {ppn} : SameButTime(n.page_map[f], m.page_map[f])
    /\ n.page_map[ppn].allocated = 1 /\ n.page_map[ppn].dirty = 0
    /\ m.page_map[ppn].dirty = 0
    /\ n.page_map[ppn].reversed_counter = m.page_map[ppn].reversed_counter + 1
    /\ Mappers(n.page_map[ppn]) = Mappers(m.page_map[ppn]) \cup {pte}
    /\ Cardinality(Used(n.page_map[ppn])) = Cardinality(Used(m.page_map[ppn])) + 1
    /\ \A other \in PTEs \ {pte} : n.pt[other] = m.pt[other]
    /\ n.pt[pte].present = 1 /\ Ppn(n.pt[pte]) = ppn /\ DirtyBit(n.pt[pte]) = 0

\* One more page for a frame keeps page table and reverse mapping inverse.
LEMMA AttachKeepsConsistent ==
  ASSUME NEW m \in AnyMachine, NEW n \in AnyMachine, NEW pte \in PTEs, NEW ppn \in Frames,
         Attaches(m, n, pte, ppn), Consistent(m), m.pt[pte].present = 0
  PROVE  /\ Consistent(n)
         /\ Pointing(n, ppn) = Pointing(m, ppn) \cup {pte}
         /\ \A f \in Frames \ {ppn} : Pointing(n, f) = Pointing(m, f)
<1>1. Pointing(n, ppn) = Pointing(m, ppn) \cup {pte} /\ pte \notin Pointing(m, ppn)
  BY DEF Attaches, Pointing
<1>2. ASSUME NEW f \in Frames \ {ppn}
      PROVE  Pointing(n, f) = Pointing(m, f)
  BY DEF Attaches, Pointing
<1>3. m.page_map \in [Frames -> PD] /\ n.page_map \in [Frames -> PD]
  BY DEF AnyMachine
<1>4. InverseMaps(n)
  <2>1. ASSUME NEW f \in Frames \ {ppn}
        PROVE  /\ Mappers(n.page_map[f]) = Pointing(n, f)
               /\ n.page_map[f].reversed_counter = Cardinality(Pointing(n, f))
               /\ n.page_map[f].allocated = 1 <=> Pointing(n, f) # {}
    <3>1. SameButTime(n.page_map[f], m.page_map[f])
      BY DEF Attaches
    <3>2. /\ Mappers(m.page_map[f]) = Pointing(m, f)
          /\ m.page_map[f].reversed_counter = Cardinality(Pointing(m, f))
          /\ m.page_map[f].allocated = 1 <=> Pointing(m, f) # {}
      BY DEF Consistent, InverseMaps
    <3>. QED BY <1>2, <3>1, <3>2 DEF SameButTime, Mappers
  <2>2. /\ Mappers(n.page_map[ppn]) = Pointing(n, ppn)
        /\ n.page_map[ppn].reversed_counter = Cardinality(Pointing(n, ppn))
        /\ n.page_map[ppn].allocated = 1 <=> Pointing(n, ppn) # {}
    <3>1. /\ Mappers(m.page_map[ppn]) = Pointing(m, ppn)
          /\ m.page_map[ppn].reversed_counter = Cardinality(Pointing(m, ppn))
      BY DEF Consistent, InverseMaps
    <3>2. IsFiniteSet(Pointing(m, ppn))
      BY <1>3, <3>1, MappersAreFinite
    <3>3. Cardinality(Pointing(n, ppn)) = Cardinality(Pointing(m, ppn)) + 1
      BY <1>1, <3>2, FS_AddElement
    <3>. QED BY <1>1, <3>1, <3>3 DEF Attaches
  <2>. QED BY <2>1, <2>2 DEF InverseMaps
<1>5. SameDirtyBits(n)
  <2> SUFFICES ASSUME NEW q \in PTEs, n.pt[q].present = 1
               PROVE  DirtyBit(n.pt[q]) = n.page_map[Ppn(n.pt[q])].dirty
    BY DEF SameDirtyBits
  <2>1. CASE q = pte
    BY <2>1 DEF Attaches
  <2>2. CASE q # pte
    <3>1. n.pt[q] = m.pt[q] /\ DirtyBit(m.pt[q]) = m.page_map[Ppn(m.pt[q])].dirty
      BY <2>2 DEF Attaches, Consistent, SameDirtyBits
    <3>2. CASE Ppn(m.pt[q]) = ppn
      BY <3>1, <3>2 DEF Attaches
    <3>3. CASE Ppn(m.pt[q]) # ppn
      BY <3>1, <3>3 DEF Attaches, SameButTime, Consistent, EntriesPointToFrames
    <3>. QED BY <3>2, <3>3
  <2>. QED BY <2>1, <2>2
<1>6. EntriesPointToFrames(n)
  BY DEF EntriesPointToFrames, Consistent, Attaches
<1>. QED BY <1>1, <1>2, <1>4, <1>5, <1>6 DEF Consistent

\* map_pte4 of an absent page keeps page table and reverse mapping inverse.
LEMMA MapKeepsConsistent ==
  ASSUME NEW m \in AnyMachine, NEW n \in AnyMachine, NEW pte \in PTEs, NEW ppn \in Frames,
         Maps(m, n, pte, ppn), Consistent(m), m.pt[pte].present = 0
  PROVE  /\ Consistent(n)
         /\ Pointing(n, ppn) = Pointing(m, ppn) \cup {pte}
         /\ \A f \in Frames \ {ppn} : Pointing(n, f) = Pointing(m, f)
<1>1. Attaches(m, n, pte, ppn)
  BY DEF Maps, Attaches
<1>. QED BY <1>1, AttachKeepsConsistent

\* unmapall_pte4 keeps page table and reverse mapping inverse.
LEMMA UnmapKeepsConsistent ==
  ASSUME NEW m \in AnyMachine, NEW n \in AnyMachine, NEW ppn \in Frames,
         Unmaps(m, n, ppn), Consistent(m)
  PROVE  /\ Consistent(n)
         /\ Pointing(n, ppn) = {}
         /\ \A f \in Frames \ {ppn} : Pointing(n, f) = Pointing(m, f)
         /\ \A pte \in PTEs : n.pt[pte] = IF pte \in Pointing(m, ppn)
                THEN [present |-> 0, saddr |-> m.page_map[ppn].saddr] ELSE m.pt[pte]
<1>1. Mappers(m.page_map[ppn]) = Pointing(m, ppn)
  BY DEF Consistent, InverseMaps
<1>2. \A pte \in PTEs : n.pt[pte] = IF pte \in Pointing(m, ppn)
        THEN [present |-> 0, saddr |-> m.page_map[ppn].saddr] ELSE m.pt[pte]
  BY <1>1 DEF Unmaps
<1>3. Pointing(n, ppn) = {}
  <2> SUFFICES ASSUME NEW q \in PTEs, n.pt[q].present = 1 PROVE Ppn(n.pt[q]) # ppn
    BY DEF Pointing
  <2>. QED BY <1>2 DEF Pointing
<1>4. ASSUME NEW f \in Frames \ {ppn}
      PROVE  Pointing(n, f) = Pointing(m, f)
  <2>1. ASSUME NEW q \in PTEs
        PROVE  q \in Pointing(n, f) <=> q \in Pointing(m, f)
    <3>1. CASE q \in Pointing(m, ppn)
      BY <1>2, <3>1 DEF Pointing
    <3>2. CASE q \notin Pointing(m, ppn)
      BY <1>2, <3>2 DEF Pointing
    <3>. QED BY <3>1, <3>2
  <2>. QED BY <2>1 DEF Pointing
<1>5. InverseMaps(n)
  <2>1. ASSUME NEW f \in Frames \ {ppn}
        PROVE  /\ Mappers(n.page_map[f]) = Pointing(n, f)
               /\ n.page_map[f].reversed_counter = Cardinality(Pointing(n, f))
               /\ n.page_map[f].allocated = 1 <=> Pointing(n, f) # {}
    <3>1. SameButTime(n.page_map[f], m.page_map[f])
      BY DEF Unmaps
    <3>2. /\ Mappers(m.page_map[f]) = Pointing(m, f)
          /\ m.page_map[f].reversed_counter = Cardinality(Pointing(m, f))
          /\ m.page_map[f].allocated = 1 <=> Pointing(m, f) # {}
      BY DEF Consistent, InverseMaps
    <3>. QED BY <1>4, <3>1, <3>2 DEF SameButTime, Mappers
  <2>2. /\ Mappers(n.page_map[ppn]) = Pointing(n, ppn)
        /\ n.page_map[ppn].reversed_counter = Cardinality(Pointing(n, ppn))
        /\ n.page_map[ppn].allocated = 1 <=> Pointing(n, ppn) # {}
    BY <1>3, FS_EmptySet DEF Unmaps
  <2>. QED BY <2>1, <2>2 DEF InverseMaps
<1>6. SameDirtyBits(n) /\ EntriesPointToFrames(n)
  <2> SUFFICES ASSUME NEW q \in PTEs, n.pt[q].present = 1
               PROVE  /\ DirtyBit(n.pt[q]) = n.page_map[Ppn(n.pt[q])].dirty
                      /\ Ppn(n.pt[q]) \in Frames
    BY DEF SameDirtyBits, EntriesPointToFrames
  <2>1. n.pt[q] = m.pt[q] /\ q \notin Pointing(m, ppn)
    BY <1>2
  <2>2. Ppn(m.pt[q]) \in Frames \ {ppn} /\ DirtyBit(m.pt[q]) = m.page_map[Ppn(m.pt[q])].dirty
    BY <2>1 DEF Consistent, SameDirtyBits, EntriesPointToFrames, Pointing
  <2>. QED BY <2>1, <2>2 DEF Unmaps, SameButTime
<1>. QED BY <1>2, <1>3, <1>4, <1>5, <1>6 DEF Consistent

\* Neither entries nor what frames know of them change.
SameAccounts(m, n) ==
    /\ n.pt = m.pt
    /\ \A f \in Frames :
        /\ n.page_map[f].allocated = m.page_map[f].allocated
        /\ n.page_map[f].dirty = m.page_map[f].dirty
        /\ n.page_map[f].mapping = m.page_map[f].mapping
        /\ n.page_map[f].reversed_counter = m.page_map[f].reversed_counter

\* Operations on times, contents and swap addresses keep the two inverse.
LEMMA SameAccountsKeepConsistent ==
  ASSUME NEW m \in AnyMachine, NEW n \in AnyMachine, SameAccounts(m, n), Consistent(m)
  PROVE  /\ Consistent(n)
         /\ \A f \in Frames : Pointing(n, f) = Pointing(m, f)
<1>1. \A f \in Frames : Pointing(n, f) = Pointing(m, f)
  BY DEF SameAccounts, Pointing
<1>2. InverseMaps(n)
  BY <1>1 DEF SameAccounts, Consistent, InverseMaps, Mappers
<1>3. EntriesPointToFrames(n)
  BY DEF SameAccounts, Consistent, EntriesPointToFrames
<1>4. SameDirtyBits(n)
  BY DEF SameAccounts, Consistent, SameDirtyBits, EntriesPointToFrames
<1>. QED BY <1>1, <1>2, <1>3, <1>4 DEF Consistent

\* pagemap_dirty keeps the two inverse, and their dirty bits equal.
LEMMA DirtyKeepsConsistent ==
  ASSUME NEW m \in AnyMachine, NEW n \in AnyMachine, NEW ppn \in Frames,
         Dirties(m, n, ppn), Consistent(m)
  PROVE  /\ Consistent(n)
         /\ \A f \in Frames : Pointing(n, f) = Pointing(m, f)
         /\ \A pte \in PTEs : /\ n.pt[pte].present = m.pt[pte].present
                              /\ ReadOnly(n.pt[pte]) = ReadOnly(m.pt[pte])
                              /\ Ppn(n.pt[pte]) = Ppn(m.pt[pte])
                              /\ m.pt[pte].present # 1 => n.pt[pte] = m.pt[pte]
<1>1. Mappers(m.page_map[ppn]) = Pointing(m, ppn)
  BY DEF Consistent, InverseMaps
<1>2. ASSUME NEW q \in PTEs
      PROVE  /\ n.pt[q].present = m.pt[q].present /\ Ppn(n.pt[q]) = Ppn(m.pt[q])
             /\ ReadOnly(n.pt[q]) = ReadOnly(m.pt[q])
             /\ DirtyBit(n.pt[q]) = IF q \in Pointing(m, ppn) THEN 1 ELSE DirtyBit(m.pt[q])
             /\ m.pt[q].present # 1 => n.pt[q] = m.pt[q]
  <2>1. m.pt[q] \in PTE
    BY DEF AnyMachine
  <2>2. n.pt[q] = IF q \in Pointing(m, ppn) THEN WithDirty(m.pt[q], 1) ELSE m.pt[q]
    BY <1>1 DEF Dirties
  <2>3. CASE q \in Pointing(m, ppn)
    BY <2>1, <2>2, <2>3, FieldsOfDirtying DEF Pointing
  <2>4. CASE q \notin Pointing(m, ppn)
    BY <2>2, <2>4
  <2>. QED BY <2>3, <2>4
<1>3. \A f \in Frames : Pointing(n, f) = Pointing(m, f)
  BY <1>2 DEF Pointing
<1>4. n.page_map[ppn].dirty = 1 /\ n.page_map[ppn].mapping = m.page_map[ppn].mapping
      /\ n.page_map[ppn].allocated = m.page_map[ppn].allocated
      /\ n.page_map[ppn].reversed_counter = m.page_map[ppn].reversed_counter
  <2>1. m.page_map[ppn] \in PD
    BY DEF AnyMachine
  <2>. QED BY <2>1 DEF Dirties, PD
<1>5. InverseMaps(n)
  <2> SUFFICES ASSUME NEW f \in Frames
               PROVE  /\ Mappers(n.page_map[f]) = Pointing(n, f)
                      /\ n.page_map[f].reversed_counter = Cardinality(Pointing(n, f))
                      /\ n.page_map[f].allocated = 1 <=> Pointing(n, f) # {}
    BY DEF InverseMaps
  <2>1. /\ Mappers(m.page_map[f]) = Pointing(m, f)
        /\ m.page_map[f].reversed_counter = Cardinality(Pointing(m, f))
        /\ m.page_map[f].allocated = 1 <=> Pointing(m, f) # {}
    BY DEF Consistent, InverseMaps
  <2>2. CASE f = ppn
    BY <1>3, <1>4, <2>1, <2>2 DEF Mappers
  <2>3. CASE f # ppn
    BY <1>3, <2>1, <2>3 DEF Dirties
  <2>. QED BY <2>2, <2>3
<1>6. EntriesPointToFrames(n)
  BY <1>2 DEF Consistent, EntriesPointToFrames
<1>7. SameDirtyBits(n)
  <2> SUFFICES ASSUME NEW q \in PTEs, n.pt[q].present = 1
               PROVE  DirtyBit(n.pt[q]) = n.page_map[Ppn(n.pt[q])].dirty
    BY DEF SameDirtyBits
  <2>1. m.pt[q].present = 1 /\ Ppn(n.pt[q]) = Ppn(m.pt[q]) /\ Ppn(m.pt[q]) \in Frames
        /\ DirtyBit(m.pt[q]) = m.page_map[Ppn(m.pt[q])].dirty
    BY <1>2 DEF Consistent, EntriesPointToFrames, SameDirtyBits
  <2>2. CASE Ppn(m.pt[q]) = ppn
    BY <1>2, <1>4, <2>1, <2>2 DEF Pointing
  <2>3. CASE Ppn(m.pt[q]) # ppn
    BY <1>2, <2>1, <2>3 DEF Pointing, Dirties
  <2>. QED BY <2>2, <2>3
<1>. QED BY <1>2, <1>3, <1>5, <1>6, <1>7 DEF Consistent

-----------------------------------------------------------------------------
\* The loops of fix_pagefault that look for the first frame of a kind find one.
LEMMA FirstExists ==
  ASSUME NEW F \in SUBSET Frames, F # {}
  PROVE  First(F) \in F
<1>1. F \in SUBSET Nat
  BY FramesAreNaturals
<1>2. \E f \in F : \A g \in F : f <= g
  BY <1>1, LeastOfNaturals
<1>. QED BY <1>2 DEF First

\* The loops of fix_pagefault that look for the oldest frame find one of the kind.
LEMMA VictimExists ==
  ASSUME NEW m \in AnyMachine, NEW F \in SUBSET Frames, F # {}
  PROVE  LRU(m, F) \in F
<1> DEFINE times == {m.page_map[f].time : f \in F}
           oldest == {f \in F : \A g \in F : m.page_map[g].time <= m.page_map[f].time}
<1>1. times \in SUBSET Nat /\ times # {}
  BY DEF AnyMachine, PD
<1>2. IsFiniteSet(times)
  <2>1. [f \in F |-> m.page_map[f].time] \in Surjection(F, times)
    BY DEF Surjection
  <2>2. IsFiniteSet(F)
    BY FramesAreNaturals, FS_Subset
  <2> HIDE DEF times
  <2>. QED BY <2>1, <2>2, FS_Surjection
<1>3. PICK t \in times : \A u \in times : u <= t
  <2> HIDE DEF times
  <2>. QED BY <1>1, <1>2, GreatestOfFinite
<1>4. oldest # {} /\ oldest \in SUBSET Frames /\ oldest \subseteq F
  BY <1>3
<1>5. First(oldest) \in oldest
  <2> HIDE DEF oldest
  <2>. QED BY <1>4, FirstExists
<1>. QED BY <1>4, <1>5 DEF LRU

\* The faulting page is not present, or it is write-protected in the frame that
\* is replaced, or what its entry holds is no swap address.
Replaceable(m, pte, victim) ==
    m.pt[pte].present = 1 /\ Ppn(m.pt[pte]) # victim =>
        m.pt[pte].saddr \notin FileAddresses \cup {0}

\* Where the page of an entry is kept that is absent or in the victim
AddressAfter(m, pte, victim) ==
    IF pte \in Pointing(m, victim) THEN m.page_map[victim].saddr ELSE m.pt[pte].saddr

Replaces(m, n, pte, victim) ==
    LET saddr == AddressAfter(m, pte, victim) IN
    /\ n.page_map[victim].allocated = 1 /\ n.page_map[victim].dirty = 0
    /\ n.page_map[victim].saddr = saddr
    /\ Pointing(n, victim) = {pte}
    /\ \A f \in Frames \ {victim} :
        /\ Pointing(n, f) = Pointing(m, f)
        /\ n.page_map[f].allocated = m.page_map[f].allocated
        /\ n.page_map[f].dirty = m.page_map[f].dirty
        /\ n.page_map[f].saddr = m.page_map[f].saddr
        /\ n.pm[f] = m.pm[f]
    /\ m.pt[pte].present = 1 => pte \in Pointing(m, victim)
    /\ n.pt[pte].present = 1 /\ Ppn(n.pt[pte]) = victim
    /\ \A q \in PTEs \ {pte} : n.pt[q] = IF q \in Pointing(m, victim)
            THEN [present |-> 0, saddr |-> m.page_map[victim].saddr] ELSE m.pt[q]
    /\ saddr = 0 =>
        /\ n.pm[victim] = Blank
        /\ n.swap = [m.swap EXCEPT ![m.internal_swap_addr] = EmptyFile]
    /\ saddr # 0 =>
        /\ saddr \in FileAddresses
        /\ n.pm[victim] = m.swap[saddr]
        /\ n.swap = m.swap

\* The replacement at the end of fix_pagefault: unmapall_pte4, swap_in and map_pte4
\* leave the two inverse, with the faulting page alone in the frame of the victim.
LEMMA ReplaceEffect ==
  ASSUME NEW m \in AnyMachine, NEW pte \in PTEs, NEW victim \in Frames,
         NEW n, n = Reload(unmapall_pte4(m, victim), pte, victim)
  PROVE  /\ n \in AnyMachine
         /\ n.internal_swap_addr \in {m.internal_swap_addr, m.internal_swap_addr + 1}
         /\ n.panic = "none" /\ Consistent(m) /\ Replaceable(m, pte, victim) =>
                Consistent(n) /\ Replaces(m, n, pte, victim)
<1> DEFINE u == unmapall_pte4(m, victim)
           saddr == u.pt[pte].saddr
           s == swap_in(u, saddr, victim)
<1>1. /\ u \in AnyMachine /\ SameMemory(m, u)
      /\ u.panic = "none" => Unmaps(m, u, victim)
  BY UnmapEffect
<1>2. n = map_pte4(s, pte, victim)
  BY DEF Reload
<1> HIDE DEF u
<1>3. saddr \in Nat /\ u.pt[pte] \in PTE
  BY <1>1 DEF AnyMachine, PTE
<1> HIDE DEF saddr
<1>4. /\ s \in AnyMachine /\ s.pt = u.pt
      /\ s.internal_swap_addr \in {u.internal_swap_addr, u.internal_swap_addr + 1}
      /\ s.panic = "none" => SwapsIn(u, s, saddr, victim)
  BY <1>1, <1>3, SwapInEffect
<1> HIDE DEF s
<1>5. /\ n \in AnyMachine /\ SameMemory(s, n)
      /\ n.panic = "none" => Maps(s, n, pte, victim)
  BY <1>2, <1>4, MapEffect
<1>6. n.internal_swap_addr \in {m.internal_swap_addr, m.internal_swap_addr + 1}
  BY <1>1, <1>4, <1>5 DEF SameMemory
<1>7. ASSUME n.panic = "none", Consistent(m), Replaceable(m, pte, victim)
      PROVE  Consistent(n) /\ Replaces(m, n, pte, victim)
  <2>1. Maps(s, n, pte, victim) /\ SwapsIn(u, s, saddr, victim) /\ Unmaps(m, u, victim)
    BY <1>1, <1>4, <1>5, <1>7 DEF Maps, SwapsIn
  <2>2. /\ Consistent(u) /\ Pointing(u, victim) = {}
        /\ \A f \in Frames \ {victim} : Pointing(u, f) = Pointing(m, f)
        /\ \A q \in PTEs : u.pt[q] = IF q \in Pointing(m, victim)
              THEN [present |-> 0, saddr |-> m.page_map[victim].saddr] ELSE m.pt[q]
    BY <1>1, <1>7, <2>1, UnmapKeepsConsistent
  <2>3. u.pt[pte].present = 0 /\ (m.pt[pte].present = 1 => pte \in Pointing(m, victim))
    <3>1. SUFFICES ASSUME u.pt[pte].present = 1 PROVE FALSE
      BY <1>3, <2>2 DEF PTE
    <3>2. u.pt[pte] = m.pt[pte] /\ pte \notin Pointing(m, victim)
      BY <2>2, <3>1
    <3>3. saddr \in FileAddresses \cup {0}
      BY <2>1 DEF SwapsIn
    <3>. QED BY <1>7, <3>1, <3>2, <3>3 DEF Replaceable, Pointing, saddr
  <2>4. SameAccounts(u, s)
    <3>1. \A f \in Frames : /\ s.page_map[f].allocated = u.page_map[f].allocated
                            /\ s.page_map[f].dirty = u.page_map[f].dirty
                            /\ s.page_map[f].mapping = u.page_map[f].mapping
                            /\ s.page_map[f].reversed_counter = u.page_map[f].reversed_counter
      <4> SUFFICES ASSUME NEW f \in Frames
                   PROVE  /\ s.page_map[f].allocated = u.page_map[f].allocated
                          /\ s.page_map[f].dirty = u.page_map[f].dirty
                          /\ s.page_map[f].mapping = u.page_map[f].mapping
                          /\ s.page_map[f].reversed_counter = u.page_map[f].reversed_counter
        OBVIOUS
      <4>1. CASE f = victim
        BY <2>1, <4>1 DEF SwapsIn
      <4>2. CASE f # victim
        BY <2>1, <4>2 DEF SwapsIn
      <4>. QED BY <4>1, <4>2
    <3>. QED BY <1>4, <3>1 DEF SameAccounts
  <2>5. Consistent(s) /\ \A f \in Frames : Pointing(s, f) = Pointing(u, f)
    BY <1>1, <1>4, <2>2, <2>4, SameAccountsKeepConsistent
  <2>6. /\ Consistent(n) /\ Pointing(n, victim) = Pointing(s, victim) \cup {pte}
        /\ \A f \in Frames \ {victim} : Pointing(n, f) = Pointing(s, f)
    BY <1>4, <1>5, <2>1, <2>3, <2>5, MapKeepsConsistent
  <2>7. Pointing(n, victim) = {pte}
    BY <2>2, <2>5, <2>6
  <2>8. \A f \in Frames \ {victim} :
            /\ Pointing(n, f) = Pointing(m, f)
            /\ n.page_map[f].allocated = m.page_map[f].allocated
            /\ n.page_map[f].dirty = m.page_map[f].dirty
            /\ n.page_map[f].saddr = m.page_map[f].saddr
    BY <2>1, <2>2, <2>5, <2>6 DEF Maps, SwapsIn, Unmaps, SameButTime
  <2>9. \A q \in PTEs \ {pte} : n.pt[q] = IF q \in Pointing(m, victim)
            THEN [present |-> 0, saddr |-> m.page_map[victim].saddr] ELSE m.pt[q]
    BY <1>4, <2>1, <2>2 DEF Maps
  <2>10. saddr = AddressAfter(m, pte, victim)
    BY <2>2 DEF saddr, AddressAfter
  <2>11. /\ u.pm = m.pm /\ u.swap = m.swap /\ u.internal_swap_addr = m.internal_swap_addr
         /\ n.pm = s.pm /\ n.swap = s.swap
    BY <1>1, <1>5 DEF SameMemory
  <2>12. /\ \A f \in Frames \ {victim} : n.pm[f] = m.pm[f]
         /\ saddr = 0 =>
             /\ n.pm[victim] = Blank
             /\ n.swap = [m.swap EXCEPT ![m.internal_swap_addr] = EmptyFile]
         /\ saddr # 0 =>
             /\ saddr \in FileAddresses
             /\ n.pm[victim] = m.swap[saddr]
             /\ n.swap = m.swap
    BY <2>1, <2>11 DEF SwapsIn
  <2>13. /\ n.page_map[victim].allocated = 1 /\ n.page_map[victim].dirty = 0
         /\ n.page_map[victim].saddr = saddr
         /\ n.pt[pte].present = 1 /\ Ppn(n.pt[pte]) = victim
    BY <1>4, <2>1 DEF Maps, saddr
  <2>. QED BY <2>3, <2>6, <2>7, <2>8, <2>9, <2>10, <2>12, <2>13 DEF Replaces
<1>. QED BY <1>5, <1>6, <1>7
-----------------------------------------------------------------------------
(* Swap files                                                               *)

\* Where a page is kept that is in memory or was: 0 is nowhere.
AddressOf(m, pte) ==
    IF m.pt[pte].present = 1 THEN m.page_map[Ppn(m.pt[pte])].saddr ELSE m.pt[pte].saddr

\* No address is in use that allocate_swappage has not given out yet.
GivenOut(m) ==
    \A pte \in PTEs : AddressOf(m, pte) # 0 => AddressOf(m, pte) < m.internal_swap_addr

NotShared(m) ==
    \A p, q \in PTEs : p # q /\ AddressOf(m, p) # 0 => AddressOf(m, p) # AddressOf(m, q)

CleanOnSwap(m) ==
    \A f \in Frames :
        m.page_map[f].allocated = 1 /\ m.page_map[f].dirty = 0 /\ m.page_map[f].saddr # 0 =>
            SwapFile(m, m.page_map[f].saddr) = m.pm[f]

NothingOut(m) == \A pte \in PTEs : m.pt[pte].present = 0 => m.pt[pte].saddr = 0

\* Nothing is swapped out before all frames are in use.
NothingOutWhileFree(m) == FreeFrames(m) # {} => NothingOut(m)

SwapSound(m) == GivenOut(m) /\ NotShared(m) /\ CleanOnSwap(m) /\ NothingOutWhileFree(m)

\* Addresses are numbers, and the address of a frame is that of its entries.
LEMMA AddressesOfFrames ==
  ASSUME NEW m \in AnyMachine, Consistent(m)
  PROVE  /\ \A pte \in PTEs : AddressOf(m, pte) \in Nat
         /\ \A f \in Frames : \A pte \in Pointing(m, f) : AddressOf(m, pte) = m.page_map[f].saddr
<1>1. ASSUME NEW pte \in PTEs
      PROVE  AddressOf(m, pte) \in Nat
  <2>1. m.pt[pte] \in PTE
    BY DEF AnyMachine
  <2>2. CASE m.pt[pte].present = 1
    <3>1. m.page_map[Ppn(m.pt[pte])] \in PD
      BY <2>2 DEF Consistent, EntriesPointToFrames, AnyMachine
    <3>. QED BY <2>2, <3>1 DEF AddressOf, PD
  <2>3. CASE m.pt[pte].present # 1
    BY <2>1, <2>3 DEF AddressOf, PTE
  <2>. QED BY <2>2, <2>3
<1>2. \A f \in Frames : \A pte \in Pointing(m, f) : AddressOf(m, pte) = m.page_map[f].saddr
  BY DEF Pointing, AddressOf
<1>. QED BY <1>1, <1>2

\* The address of a frame in use is not the one that allocate_swappage gives out next.
LEMMA AddressIsNotFresh ==
  ASSUME NEW m \in AnyMachine, Consistent(m), GivenOut(m),
         NEW f \in Frames, m.page_map[f].allocated = 1, m.page_map[f].saddr # 0
  PROVE  m.page_map[f].saddr # m.internal_swap_addr
<1>1. PICK pte \in PTEs : pte \in Pointing(m, f)
  BY DEF Consistent, InverseMaps, Pointing
<1>2. AddressOf(m, pte) = m.page_map[f].saddr /\ AddressOf(m, pte) \in Nat
  BY <1>1, AddressesOfFrames
<1>3. m.internal_swap_addr \in Nat
  BY DEF AnyMachine
<1>. QED BY <1>2, <1>3 DEF GivenOut

\* What keeps the address of every page keeps addresses apart.
LEMMA SameAddresses ==
  ASSUME NEW m \in AnyMachine, NEW n \in AnyMachine, Consistent(m), GivenOut(m), NotShared(m),
         \A pte \in PTEs : AddressOf(n, pte) = AddressOf(m, pte),
         n.internal_swap_addr \in {m.internal_swap_addr, m.internal_swap_addr + 1}
  PROVE  GivenOut(n) /\ NotShared(n)
<1>1. GivenOut(n)
  <2> SUFFICES ASSUME NEW pte \in PTEs, AddressOf(n, pte) # 0
               PROVE  AddressOf(n, pte) < n.internal_swap_addr
    BY DEF GivenOut
  <2>1. AddressOf(m, pte) \in Nat /\ m.internal_swap_addr \in Nat
    BY AddressesOfFrames DEF AnyMachine
  <2>2. AddressOf(m, pte) < m.internal_swap_addr
    BY DEF GivenOut
  <2>. QED BY <2>1, <2>2
<1>2. NotShared(n)
  BY DEF NotShared
<1>. QED BY <1>1, <1>2

\* swap_out writes when no frame is clean, so that nothing is relied on that it changes.
LEMMA WriteBackKeepsSwap ==
  ASSUME NEW m \in AnyMachine, NEW n \in AnyMachine, n.pt = m.pt, n.page_map = m.page_map,
         n.internal_swap_addr = m.internal_swap_addr, CleanFrames(m) = {},
         Consistent(m), SwapSound(m)
  PROVE  SwapSound(n)
<1>1. GivenOut(n) /\ NotShared(n)
  BY SameAddresses DEF AddressOf, SwapSound
<1>2. CleanOnSwap(n)
  BY DEF CleanOnSwap, CleanFrames
<1>3. NothingOutWhileFree(n)
  BY DEF SwapSound, NothingOutWhileFree, NothingOut, FreeFrames
<1>. QED BY <1>1, <1>2, <1>3 DEF SwapSound

\* The replacement of a frame keeps addresses apart: the victim's pages get its
\* address, the new page brings its own, and an address that swap_in allocates is lost.
LEMMA ReplaceKeepsSwap ==
  ASSUME NEW m \in AnyMachine, NEW n \in AnyMachine, NEW pte \in PTEs, NEW victim \in Frames,
         Replaces(m, n, pte, victim), Consistent(m), SwapSound(m), FreeFrames(n) = {},
         n.internal_swap_addr \in {m.internal_swap_addr, m.internal_swap_addr + 1}
  PROVE  SwapSound(n)
<1>1. ASSUME NEW q \in PTEs
      PROVE  AddressOf(n, q) = AddressOf(m, q)
  <2>1. CASE q = pte
    <3>1. AddressOf(n, pte) = AddressAfter(m, pte, victim)
      BY DEF Replaces, AddressOf
    <3>2. AddressOf(m, pte) = AddressAfter(m, pte, victim)
      BY DEF Replaces, AddressOf, AddressAfter, Pointing
    <3>. QED BY <2>1, <3>1, <3>2
  <2>2. CASE q # pte /\ q \in Pointing(m, victim)
    BY <2>2 DEF Replaces, AddressOf, Pointing
  <2>3. CASE q # pte /\ q \notin Pointing(m, victim)
    <3>1. n.pt[q] = m.pt[q]
      BY <2>3 DEF Replaces
    <3>2. m.pt[q].present = 1 => Ppn(m.pt[q]) \in Frames \ {victim}
      BY <2>3 DEF Consistent, EntriesPointToFrames, Pointing
    <3>. QED BY <3>1, <3>2 DEF Replaces, AddressOf
  <2>. QED BY <2>1, <2>2, <2>3
<1>2. GivenOut(n) /\ NotShared(n)
  BY <1>1, SameAddresses DEF SwapSound
<1>3. CleanOnSwap(n)
  <2> SUFFICES ASSUME NEW f \in Frames, n.page_map[f].allocated = 1,
                      n.page_map[f].dirty = 0, n.page_map[f].saddr # 0
               PROVE  SwapFile(n, n.page_map[f].saddr) = n.pm[f]
    BY DEF CleanOnSwap
  <2>1. CASE f = victim
    BY <2>1 DEF Replaces, SwapFile
  <2>2. CASE f # victim
    <3>1. /\ m.page_map[f].allocated = 1 /\ m.page_map[f].dirty = 0
          /\ m.page_map[f].saddr = n.page_map[f].saddr /\ n.pm[f] = m.pm[f]
      BY <2>2 DEF Replaces
    <3>2. SwapFile(m, m.page_map[f].saddr) = m.pm[f]
      BY <3>1 DEF SwapSound, CleanOnSwap
    <3>3. m.page_map[f].saddr # m.internal_swap_addr
      BY <3>1, AddressIsNotFresh DEF SwapSound
    <3>4. \/ n.swap = m.swap
          \/ n.swap = [m.swap EXCEPT ![m.internal_swap_addr] = EmptyFile]
      BY DEF Replaces
    <3>5. m.swap \in [FileAddresses -> Words \cup {NoFile, EmptyFile}]
      BY DEF AnyMachine
    <3>. QED BY <3>1, <3>2, <3>3, <3>4, <3>5 DEF SwapFile
  <2>. QED BY <2>1, <2>2
<1>. QED BY <1>2, <1>3 DEF SwapSound, NothingOutWhileFree

\* A free frame is taken for a page that has no swap page.
LEMMA MapKeepsSwap ==
  ASSUME NEW m \in AnyMachine, NEW n \in AnyMachine, NEW pte \in PTEs, NEW ppn \in Frames,
         Maps(m, n, pte, ppn), SameMemory(m, n), Consistent(m), SwapSound(m),
         m.pt[pte].present = 0, m.pt[pte].saddr = 0, m.page_map[ppn].allocated = 0
  PROVE  SwapSound(n)
<1>1. Pointing(m, ppn) = {}
  BY DEF Consistent, InverseMaps
<1>2. ASSUME NEW q \in PTEs
      PROVE  AddressOf(n, q) = AddressOf(m, q)
  <2>1. CASE q = pte
    BY <2>1 DEF Maps, AddressOf
  <2>2. CASE q # pte
    <3>1. n.pt[q] = m.pt[q]
      BY <2>2 DEF Maps
    <3>2. m.pt[q].present = 1 => Ppn(m.pt[q]) \in Frames \ {ppn}
      BY <1>1 DEF Consistent, EntriesPointToFrames, Pointing
    <3>. QED BY <3>1, <3>2 DEF Maps, AddressOf, SameButTime
  <2>. QED BY <2>1, <2>2
<1>3. GivenOut(n) /\ NotShared(n)
  BY <1>2, SameAddresses DEF SwapSound, SameMemory
<1>4. CleanOnSwap(n)
  <2> SUFFICES ASSUME NEW f \in Frames, n.page_map[f].allocated = 1,
                      n.page_map[f].dirty = 0, n.page_map[f].saddr # 0
               PROVE  SwapFile(n, n.page_map[f].saddr) = n.pm[f]
    BY DEF CleanOnSwap
  <2>1. f # ppn
    BY DEF Maps
  <2>2. SameButTime(n.page_map[f], m.page_map[f])
    BY <2>1 DEF Maps
  <2>. QED BY <2>2 DEF SwapSound, CleanOnSwap, SameButTime, SameMemory, SwapFile
<1>5. NothingOutWhileFree(n)
  <2>1. ASSUME FreeFrames(n) # {} PROVE NothingOut(n)
    <3>1. FreeFrames(m) # {}
      BY DEF FreeFrames
    <3>2. NothingOut(m)
      BY <3>1 DEF SwapSound, NothingOutWhileFree
    <3>. QED BY <3>2 DEF NothingOut, Maps
  <2>. QED BY <2>1 DEF NothingOutWhileFree
<1>. QED BY <1>3, <1>4, <1>5 DEF SwapSound

\* A load or a store: what gets another content gets dirty.
Accesses(m, n) ==
    /\ \A f \in Frames :
        /\ n.page_map[f].allocated = m.page_map[f].allocated
        /\ n.page_map[f].saddr = m.page_map[f].saddr
        /\ n.page_map[f].dirty = 0 => m.page_map[f].dirty = 0 /\ n.pm[f] = m.pm[f]
    /\ \A pte \in PTEs :
        /\ n.pt[pte].present = m.pt[pte].present
        /\ m.pt[pte].present = 1 => Ppn(n.pt[pte]) = Ppn(m.pt[pte])
        /\ m.pt[pte].present # 1 => n.pt[pte].saddr = m.pt[pte].saddr
    /\ n.swap = m.swap /\ n.internal_swap_addr = m.internal_swap_addr

\* Accesses leave swap files, and what may be found there, alone.
LEMMA AccessKeepsSwap ==
  ASSUME NEW m \in AnyMachine, NEW n \in AnyMachine, Accesses(m, n),
         Consistent(m), SwapSound(m)
  PROVE  SwapSound(n)
<1>1. \A q \in PTEs : AddressOf(n, q) = AddressOf(m, q)
  BY DEF Accesses, AddressOf, Consistent, EntriesPointToFrames
<1>2. GivenOut(n) /\ NotShared(n)
  BY <1>1, SameAddresses DEF SwapSound, Accesses
<1>3. CleanOnSwap(n)
  BY DEF SwapSound, CleanOnSwap, Accesses, SwapFile
<1>4. NothingOutWhileFree(n)
  BY DEF SwapSound, NothingOutWhileFree, NothingOut, FreeFrames, Accesses
<1>. QED BY <1>2, <1>3, <1>4 DEF SwapSound

\* allocate_swappage gives a dirty frame that has one page an address of its own.
LEMMA AllocateKeepsSwap ==
  ASSUME NEW m \in AnyMachine, NEW n \in AnyMachine, NEW ppn \in Frames, NEW pte \in PTEs,
         SwapsIn(m, n, 0, ppn), n.pt = m.pt, n.internal_swap_addr = m.internal_swap_addr + 1,
         Pointing(m, ppn) = {pte}, m.page_map[ppn].dirty = 1,
         Consistent(m), SwapSound(m), NothingOut(n)
  PROVE  SwapSound(n)
<1>1. AddressOf(n, pte) = m.internal_swap_addr /\ m.internal_swap_addr \in Nat
  BY DEF AddressOf, Pointing, SwapsIn, AnyMachine
<1>2. ASSUME NEW q \in PTEs \ {pte}
      PROVE  /\ AddressOf(n, q) = AddressOf(m, q) /\ AddressOf(m, q) \in Nat
             /\ AddressOf(m, q) # 0 => AddressOf(m, q) < m.internal_swap_addr
  <2>1. m.pt[q].present = 1 => Ppn(m.pt[q]) \in Frames \ {ppn}
    BY DEF Consistent, EntriesPointToFrames, Pointing
  <2>2. AddressOf(n, q) = AddressOf(m, q)
    BY <2>1 DEF SwapsIn, AddressOf
  <2>. QED BY <2>2, AddressesOfFrames DEF SwapSound, GivenOut
<1>3. GivenOut(n)
  <2> SUFFICES ASSUME NEW q \in PTEs, AddressOf(n, q) # 0
               PROVE  AddressOf(n, q) < n.internal_swap_addr
    BY DEF GivenOut
  <2>. QED BY <1>1, <1>2
<1>4. NotShared(n)
  <2> SUFFICES ASSUME NEW p \in PTEs, NEW q \in PTEs, p # q, AddressOf(n, p) # 0
               PROVE  AddressOf(n, p) # AddressOf(n, q)
    BY DEF NotShared
  <2>1. CASE p = pte
    <3>1. AddressOf(n, q) = 0 \/ AddressOf(n, q) < m.internal_swap_addr
      BY <1>2, <2>1
    <3>. QED BY <1>1, <1>2, <2>1, <3>1
  <2>2. CASE q = pte
    <3>1. AddressOf(n, p) < m.internal_swap_addr /\ AddressOf(n, p) \in Nat
      BY <1>2, <2>2
    <3>. QED BY <1>1, <2>2, <3>1
  <2>3. CASE p # pte /\ q # pte
    BY <1>2, <2>3 DEF SwapSound, NotShared
  <2>. QED BY <2>1, <2>2, <2>3
<1>5. CleanOnSwap(n)
  <2> SUFFICES ASSUME NEW f \in Frames, n.page_map[f].allocated = 1,
                      n.page_map[f].dirty = 0, n.page_map[f].saddr # 0
               PROVE  SwapFile(n, n.page_map[f].saddr) = n.pm[f]
    BY DEF CleanOnSwap
  <2>1. f # ppn
    BY DEF SwapsIn
  <2>2. n.page_map[f] = m.page_map[f] /\ n.pm[f] = m.pm[f]
        /\ n.swap = [m.swap EXCEPT ![m.internal_swap_addr] = EmptyFile]
    BY <2>1 DEF SwapsIn
  <2>3. m.page_map[f].saddr # m.internal_swap_addr
    BY <2>2, AddressIsNotFresh DEF SwapSound
  <2>4. SwapFile(m, m.page_map[f].saddr) = m.pm[f]
    BY <2>2 DEF SwapSound, CleanOnSwap
  <2>5. m.swap \in [FileAddresses -> Words \cup {NoFile, EmptyFile}]
    BY DEF AnyMachine
  <2>. QED BY <2>2, <2>3, <2>4, <2>5 DEF SwapFile
<1>. QED BY <1>3, <1>4, <1>5 DEF SwapSound, NothingOutWhileFree
-----------------------------------------------------------------------------
(* Accounts, and write protection                                           *)

\* The used slots of mapping[] are as many as reversed_counter says.
SlotsCounted(m) ==
    \A f \in Frames : Cardinality(Used(m.page_map[f])) = m.page_map[f].reversed_counter

\* In a consistent machine the assertions of pagemap_update_time and pagemap_dirty hold
\* of every frame in use.
LEMMA FramesInUseAreAccountable ==
  ASSUME NEW m, Consistent(m), SlotsCounted(m), NEW f \in Frames, Pointing(m, f) # {}
  PROVE  Accountable(m, f)
<1>1. Mappers(m.page_map[f]) = Pointing(m, f) /\ m.page_map[f].allocated = 1
  BY DEF Consistent, InverseMaps
<1>2. \A pte \in Pointing(m, f) : m.pt[pte].present = 1
  BY DEF Pointing
<1>. QED BY <1>1, <1>2 DEF Accountable, SlotsCounted

\* No entry is in two slots of the mapping[] of an accountable frame.
LEMMA SlotsAreDistinct ==
  ASSUME NEW m \in AnyMachine, Consistent(m), NEW f \in Frames, Accountable(m, f)
  PROVE  LET mapping == m.page_map[f].mapping
         IN  /\ \A i \in Used(m.page_map[f]) : mapping[i] \in Pointing(m, f)
             /\ \A pte \in Pointing(m, f) : \E i \in Used(m.page_map[f]) : mapping[i] = pte
             /\ \A i, j \in Used(m.page_map[f]) : mapping[i] = mapping[j] => i = j
<1> DEFINE d == m.page_map[f]
           used == Used(d)
           slots == [i \in used |-> d.mapping[i]]
<1>1. d \in PD
  BY DEF AnyMachine
<1>2. Mappers(d) = Pointing(m, f) /\ d.reversed_counter = Cardinality(Pointing(m, f))
  BY DEF Consistent, InverseMaps
<1>3. Cardinality(used) = Cardinality(Mappers(d)) /\ IsFiniteSet(used)
  BY <1>2, FramesAreNaturals, FS_Subset DEF Accountable, Used
<1>4. slots \in Surjection(used, Mappers(d))
  BY <1>1 DEF Surjection, Mappers, Used, PD
<1>5. slots \in Injection(used, Mappers(d))
  <2> HIDE DEF slots, used
  <2>. QED BY <1>3, <1>4, FS_SurjSameCardinalityImpliesInj
<1>6. \A i, j \in used : d.mapping[i] = d.mapping[j] => i = j
  BY <1>5 DEF Injection, IsInjective
<1>7. \A i \in used : d.mapping[i] \in Mappers(d)
  BY DEF Used, Mappers
<1>8. \A pte \in Mappers(d) : \E i \in used : d.mapping[i] = pte
  BY DEF Used, Mappers
<1> HIDE DEF used, d
<1>. QED BY <1>2, <1>6, <1>7, <1>8 DEF used, d

\* Writing the read-only bit changes no other field of an entry.
LEMMA FieldsOfReadOnly ==
  ASSUME NEW e \in PTE, NEW b \in {0, 1}
  PROVE  LET n == WithReadOnly(e, b)
         IN  /\ n \in PTE /\ n.present = e.present
             /\ Ppn(n) = Ppn(e) /\ DirtyBit(n) = DirtyBit(e) /\ ReadOnly(n) = b
<1> DEFINE s == e.saddr
           t == 2 * (s \div 2) + b
<1>1. s \in Nat
  BY DEF PTE
<1>2. t \in Nat /\ t \div 2048 = s \div 2048 /\ (t \div 32) % 2 = (s \div 32) % 2 /\ t % 2 = b
  <2> HIDE DEF s
  <2>. QED BY <1>1, SMTT(30)
<1>3. WithReadOnly(e, b) = [present |-> e.present, saddr |-> t] /\ e.present \in {0, 1}
  BY DEF WithReadOnly, PTE
<1> HIDE DEF t
<1>. QED BY <1>1, <1>2, <1>3 DEF PTE, Ppn, DirtyBit, ReadOnly

\* Entries change in their read-only bits at most.
Reprotects(m, n) ==
    /\ n.page_map = m.page_map
    /\ \A pte \in PTEs : /\ n.pt[pte].present = m.pt[pte].present
                         /\ Ppn(n.pt[pte]) = Ppn(m.pt[pte])
                         /\ DirtyBit(n.pt[pte]) = DirtyBit(m.pt[pte])

\* Protecting pages, or no longer, keeps page table and reverse mapping inverse.
LEMMA ReprotectKeepsConsistent ==
  ASSUME NEW m, NEW n, Reprotects(m, n), Consistent(m)
  PROVE  Consistent(n) /\ \A f \in Frames : Pointing(n, f) = Pointing(m, f)
<1>1. \A f \in Frames : Pointing(n, f) = Pointing(m, f)
  BY DEF Reprotects, Pointing
<1>2. InverseMaps(n)
  BY <1>1 DEF Reprotects, Consistent, InverseMaps
<1>3. SameDirtyBits(n) /\ EntriesPointToFrames(n)
  BY DEF Reprotects, Consistent, SameDirtyBits, EntriesPointToFrames
<1>. QED BY <1>1, <1>2, <1>3 DEF Consistent

\* One page is write-protected (b = 1) or no longer (b = 0).
Protects(m, n, pte, b) ==
    /\ Reprotects(m, n)
    /\ \A other \in PTEs \ {pte} : n.pt[other] = m.pt[other]
    /\ ReadOnly(n.pt[pte]) = b

\* The effect of writing one read-only bit
LEMMA SetReadOnlyEffect ==
  ASSUME NEW m \in AnyMachine, NEW pte \in PTEs, NEW b \in {0, 1},
         NEW n, n = SetReadOnly(m, pte, b)
  PROVE  /\ n \in AnyMachine /\ SameMemory(m, n) /\ n.panic = m.panic
         /\ Protects(m, n, pte, b)
<1> DEFINE e == WithReadOnly(m.pt[pte], b)
           pt == [m.pt EXCEPT ![pte] = e]
<1>1. m.pt \in [PTEs -> PTE] /\ m.pt[pte] \in PTE
  BY DEF AnyMachine
<1>2. /\ e \in PTE /\ e.present = m.pt[pte].present /\ ReadOnly(e) = b
      /\ Ppn(e) = Ppn(m.pt[pte]) /\ DirtyBit(e) = DirtyBit(m.pt[pte])
  BY <1>1, FieldsOfReadOnly
<1>3. n = [m EXCEPT !.pt = pt]
  BY DEF SetReadOnly
<1> HIDE DEF e
<1>4. pt \in [PTEs -> PTE] /\ pt[pte] = e /\ \A other \in PTEs \ {pte} : pt[other] = m.pt[other]
  BY <1>1, <1>2
<1> HIDE DEF pt
<1>5. /\ n \in AnyMachine /\ n.pt = pt /\ n.page_map = m.page_map
      /\ n.panic = m.panic /\ SameMemory(m, n)
  BY <1>3, <1>4 DEF AnyMachine, SameMemory
<1>6. Reprotects(m, n)
  BY <1>2, <1>4, <1>5 DEF Reprotects
<1>. QED BY <1>2, <1>4, <1>5, <1>6 DEF Protects

\* Attaching a page to a frame keeps the used slots counted.
LEMMA AttachKeepsCounted ==
  ASSUME NEW m, NEW n, NEW pte, NEW ppn \in Frames, Attaches(m, n, pte, ppn), SlotsCounted(m)
  PROVE  SlotsCounted(n)
<1> SUFFICES ASSUME NEW f \in Frames
             PROVE  Cardinality(Used(n.page_map[f])) = n.page_map[f].reversed_counter
  BY DEF SlotsCounted
<1>1. CASE f = ppn
  BY <1>1 DEF Attaches, SlotsCounted
<1>2. CASE f # ppn
  <2>1. SameButTime(n.page_map[f], m.page_map[f])
    BY <1>2 DEF Attaches
  <2>2. Used(n.page_map[f]) = Used(m.page_map[f])
    BY <2>1 DEF SameButTime, Used
  <2>. QED BY <2>1, <2>2 DEF SameButTime, SlotsCounted
<1>. QED BY <1>1, <1>2

\* unmapall_pte4 leaves no slot used, and none counted.
LEMMA UnmapKeepsCounted ==
  ASSUME NEW m, NEW n, NEW ppn \in Frames, Unmaps(m, n, ppn), SlotsCounted(m)
  PROVE  SlotsCounted(n)
<1> SUFFICES ASSUME NEW f \in Frames
             PROVE  Cardinality(Used(n.page_map[f])) = n.page_map[f].reversed_counter
  BY DEF SlotsCounted
<1>1. CASE f = ppn
  BY <1>1, FS_EmptySet DEF Unmaps
<1>2. CASE f # ppn
  <2>1. SameButTime(n.page_map[f], m.page_map[f])
    BY <1>2 DEF Unmaps
  <2>2. Used(n.page_map[f]) = Used(m.page_map[f])
    BY <2>1 DEF SameButTime, Used
  <2>. QED BY <2>1, <2>2 DEF SameButTime, SlotsCounted
<1>. QED BY <1>1, <1>2

-----------------------------------------------------------------------------
(* Copying on write                                                         *)

KeepStep(k, mapping, remaining, ppn, i) ==
    IF i \notin remaining THEN k
    ELSE Guarded(k, ReadOnly(k.pt[mapping[i]]) = 1, "copy_on_write",
             WritableIfAlone(map_pte4(k, mapping[i], ppn), mapping[i], Cardinality(remaining)))

\* The bit of an entry that keeps its frame
KeptBit(remaining) == IF Cardinality(remaining) = 1 THEN 0 ELSE 1

\* A page that is mapped may be protected at once.
LEMMA AttachAndProtect ==
  ASSUME NEW m, NEW w, NEW n, NEW pte \in PTEs, NEW ppn \in Frames, NEW b,
         Attaches(m, w, pte, ppn), Protects(w, n, pte, b)
  PROVE  Attaches(m, n, pte, ppn)
BY DEF Attaches, Protects, Reprotects

\* What a turn of the loop does to an entry that keeps the frame, and to no other slot
Keeps(k, n, mapping, remaining, ppn, i) ==
    /\ k.panic = "none"
    /\ i \notin remaining => n = k
    /\ i \in remaining =>
        /\ Attaches(k, n, mapping[i], ppn)
        /\ ReadOnly(n.pt[mapping[i]]) = KeptBit(remaining)

\* A turn of the loop of copy_on_write that maps the remaining entries again.
LEMMA KeepStepEffect ==
  ASSUME NEW k \in AnyMachine, NEW i \in Slots, NEW mapping, NEW remaining,
         i \in remaining => mapping[i] \in PTEs, NEW ppn \in Frames,
         NEW n, n = KeepStep(k, mapping, remaining, ppn, i)
  PROVE  /\ n \in AnyMachine /\ SameMemory(k, n)
         /\ n.panic = "none" => Keeps(k, n, mapping, remaining, ppn, i)
<1> DEFINE pte == mapping[i]
           w == map_pte4(k, pte, ppn)
<1>1. \/ i \notin remaining /\ n = k
      \/ i \in remaining /\ k.panic # "none" /\ n = k
      \/ i \in remaining /\ n = [k EXCEPT !.panic = "copy_on_write"]
      \/ /\ i \in remaining /\ k.panic = "none" /\ ReadOnly(k.pt[pte]) = 1
         /\ n = WritableIfAlone(w, pte, Cardinality(remaining))
  BY Zenon DEF KeepStep, Guarded
<1>2. CASE i \notin remaining /\ n = k
  <2>1. SameMemory(k, n)
    BY <1>2 DEF SameMemory
  <2>. QED BY <1>2, <2>1 DEF Keeps
<1>3. CASE i \in remaining /\ k.panic # "none" /\ n = k
  BY <1>3 DEF SameMemory
<1>4. CASE i \in remaining /\ n = [k EXCEPT !.panic = "copy_on_write"]
  BY <1>4 DEF SameMemory, AnyMachine, Panics
<1>5. CASE /\ i \in remaining /\ k.panic = "none" /\ ReadOnly(k.pt[pte]) = 1
           /\ n = WritableIfAlone(w, pte, Cardinality(remaining))
  <2>1. /\ w \in AnyMachine /\ SameMemory(k, w)
        /\ w.panic = "none" => Maps(k, w, pte, ppn)
    BY <1>5, MapEffect
  <2>4. pte \in PTEs
    BY <1>5
  <2> HIDE DEF w, pte
  <2>2. CASE Cardinality(remaining) = 1
    <3> DEFINE bit == KeptBit(remaining)
    <3>1. n = SetReadOnly(w, pte, bit) /\ bit \in {0, 1}
      BY <1>5, <2>2 DEF WritableIfAlone, KeptBit
    <3> HIDE DEF bit
    <3>2. n \in AnyMachine /\ SameMemory(w, n) /\ n.panic = w.panic /\ Protects(w, n, pte, bit)
      BY <2>1, <2>4, <3>1, SetReadOnlyEffect
    <3>3. ASSUME n.panic = "none"
          PROVE  Attaches(k, n, pte, ppn) /\ ReadOnly(n.pt[pte]) = bit
      <4>1. Maps(k, w, pte, ppn)
        BY <2>1, <3>2, <3>3
      <4>2. Attaches(k, w, pte, ppn)
        BY <4>1 DEF Maps, Attaches
      <4>3. Attaches(k, n, pte, ppn)
        BY <2>4, <3>2, <4>2, AttachAndProtect
      <4>. QED BY <3>2, <4>3 DEF Protects
    <3>. QED BY <1>5, <2>1, <3>2, <3>3 DEF SameMemory, pte, bit, Keeps
  <2>3. CASE Cardinality(remaining) # 1
    <3>1. n = w
      BY <1>5, <2>3 DEF WritableIfAlone
    <3>2. ASSUME n.panic = "none"
          PROVE  Attaches(k, n, pte, ppn) /\ ReadOnly(n.pt[pte]) = KeptBit(remaining)
      <4>1. Maps(k, n, pte, ppn)
        BY <2>1, <3>1, <3>2
      <4>. QED BY <1>5, <2>3, <4>1 DEF Maps, Attaches, KeptBit
    <3>. QED BY <1>5, <2>1, <3>1, <3>2 DEF pte, Keeps
  <2>. QED BY <2>2, <2>3
<1>. QED BY <1>1, <1>2, <1>3, <1>4, <1>5

\* The loop of copy_on_write computes the function KeepEach is defined by.
LEMMA KeepLoop ==
  ASSUME NEW m \in AnyMachine, NEW mapping, NEW remaining, NEW ppn \in Frames,
         \A i \in remaining \cap Slots : mapping[i] \in PTEs
  PROVE  \E h :
            /\ h[0] = unmapall_pte4(m, ppn)
            /\ \A i \in Slots : h[i] = KeepStep(h[i - 1], mapping, remaining, ppn, i)
            /\ KeepEach(m, mapping, remaining, ppn) = h[MaxMapping]
<1> DEFINE keep[i \in 0 .. MaxMapping] ==
            IF i = 0 THEN unmapall_pte4(m, ppn)
            ELSE IF i \notin remaining THEN keep[i - 1]
            ELSE Guarded(keep[i - 1], ReadOnly(keep[i - 1].pt[mapping[i]]) = 1, "copy_on_write",
                     WritableIfAlone(map_pte4(keep[i - 1], mapping[i], ppn),
                                     mapping[i], Cardinality(remaining)))
           start == unmapall_pte4(m, ppn)
           G == [p \in (1 .. MaxMapping) \X AnyMachine |->
                    KeepStep(p[2], mapping, remaining, ppn, p[1])]
<1>1. KeepEach(m, mapping, remaining, ppn) = keep[MaxMapping]
  BY DEF KeepEach
<1>2. start \in AnyMachine /\ MaxMapping \in Nat /\ Slots = 1 .. MaxMapping
  BY UnmapEffect, FramesAssumption DEF Slots
<1>3. G \in [(1 .. MaxMapping) \X AnyMachine -> AnyMachine]
  <2>1. ASSUME NEW i \in 1 .. MaxMapping, NEW k \in AnyMachine
        PROVE  KeepStep(k, mapping, remaining, ppn, i) \in AnyMachine
    <3> HIDE DEF keep, start
    <3>1. i \in Slots /\ (i \in remaining => mapping[i] \in PTEs)
      BY <1>2
    <3>. QED BY <3>1, KeepStepEffect
  <2>. QED BY <2>1
<1>4. \A i \in 1 .. MaxMapping, k \in AnyMachine :
            G[<<i, k>>] = KeepStep(k, mapping, remaining, ppn, i)
  OBVIOUS
<1> HIDE DEF G
<1>5. PICK h : Runs(h, MaxMapping, AnyMachine, start, G)
  <2> HIDE DEF start, keep
  <2>. QED BY <1>2, <1>3, LoopExists
<1>6. h \in [0 .. MaxMapping -> AnyMachine] /\ h[0] = start
      /\ \A i \in 1 .. MaxMapping : i - 1 \in 0 .. MaxMapping /\ h[i - 1] \in AnyMachine
            /\ h[i] = KeepStep(h[i - 1], mapping, remaining, ppn, i)
  <2> HIDE DEF start, keep
  <2>1. h \in [0 .. MaxMapping -> AnyMachine] /\ h[0] = start
    BY <1>5 DEF Runs
  <2>2. ASSUME NEW i \in 1 .. MaxMapping
        PROVE  i - 1 \in 0 .. MaxMapping /\ h[i - 1] \in AnyMachine
            /\ h[i] = KeepStep(h[i - 1], mapping, remaining, ppn, i)
    <3>1. i - 1 \in 0 .. MaxMapping
      BY <1>2
    <3>. QED BY <1>4, <1>5, <2>1, <3>1 DEF Runs
  <2>. QED BY <2>1, <2>2
<1>7. h = [i \in 0 .. MaxMapping |->
            IF i = 0 THEN unmapall_pte4(m, ppn)
            ELSE IF i \notin remaining THEN h[i - 1]
            ELSE Guarded(h[i - 1], ReadOnly(h[i - 1].pt[mapping[i]]) = 1, "copy_on_write",
                     WritableIfAlone(map_pte4(h[i - 1], mapping[i], ppn),
                                     mapping[i], Cardinality(remaining)))]
  <2>1. ASSUME NEW i \in 0 .. MaxMapping
        PROVE  h[i] = IF i = 0 THEN start ELSE KeepStep(h[i - 1], mapping, remaining, ppn, i)
    <3>1. i # 0 => i \in 1 .. MaxMapping
      BY <1>2
    <3> HIDE DEF keep, start
    <3>. QED BY <1>6, <3>1
  <2>2. h = [i \in 0 .. MaxMapping |->
                IF i = 0 THEN start ELSE KeepStep(h[i - 1], mapping, remaining, ppn, i)]
    <3> HIDE DEF keep, start
    <3>. QED BY <1>6, <2>1
  <2>. QED BY <2>2, Zenon DEF KeepStep
<1>8. keep = [i \in 0 .. MaxMapping |->
            IF i = 0 THEN unmapall_pte4(m, ppn)
            ELSE IF i \notin remaining THEN keep[i - 1]
            ELSE Guarded(keep[i - 1], ReadOnly(keep[i - 1].pt[mapping[i]]) = 1, "copy_on_write",
                     WritableIfAlone(map_pte4(keep[i - 1], mapping[i], ppn),
                                     mapping[i], Cardinality(remaining)))]
  BY <1>7 DEF keep
<1> HIDE DEF keep
<1>9. ASSUME NEW i \in 0 .. MaxMapping
      PROVE  keep[i] = IF i = 0 THEN start ELSE KeepStep(keep[i - 1], mapping, remaining, ppn, i)
  BY <1>8, Zenon DEF KeepStep
<1> HIDE DEF start
<1>10. keep[0] = start /\ \A i \in Slots : keep[i] = KeepStep(keep[i - 1], mapping, remaining, ppn, i)
  BY <1>2, <1>9
<1>. QED BY <1>1, <1>10 DEF start

\* In the middle of the loop the entries in "done" are mapped again.
Kept(m, k, ppn, done, bit) ==
    /\ m.panic = "none" /\ Accountable(m, ppn)
    /\ Consistent(k) /\ (SlotsCounted(m) => SlotsCounted(k))
    /\ Pointing(k, ppn) = done
    /\ \A f \in Frames \ {ppn} : Pointing(k, f) = Pointing(m, f)
    /\ \A x \in PTEs \ Pointing(m, ppn) : k.pt[x] = m.pt[x]
    /\ \A x \in done : ReadOnly(k.pt[x]) = bit

\* unmapall_pte4 before the loop
LEMMA KeptFromUnmap ==
  ASSUME NEW m \in AnyMachine, NEW u \in AnyMachine, NEW ppn \in Frames, NEW bit,
         Unmaps(m, u, ppn), Consistent(m)
  PROVE  Kept(m, u, ppn, {}, bit)
<1>1. /\ Consistent(u) /\ Pointing(u, ppn) = {}
      /\ \A f \in Frames \ {ppn} : Pointing(u, f) = Pointing(m, f)
      /\ \A pte \in PTEs : u.pt[pte] = IF pte \in Pointing(m, ppn)
            THEN [present |-> 0, saddr |-> m.page_map[ppn].saddr] ELSE m.pt[pte]
  BY UnmapKeepsConsistent
<1>2. \A x \in PTEs \ Pointing(m, ppn) : u.pt[x] = m.pt[x]
  BY <1>1
<1>3. SlotsCounted(m) => SlotsCounted(u)
  BY UnmapKeepsCounted
<1>4. m.panic = "none" /\ Accountable(m, ppn)
  BY DEF Unmaps
<1>. QED BY <1>1, <1>2, <1>3, <1>4 DEF Kept

\* The other entries of the frame are absent meanwhile.
LEMMA KeptAreAbsent ==
  ASSUME NEW m \in AnyMachine, NEW k \in AnyMachine, NEW ppn \in Frames,
         NEW done, NEW bit, Kept(m, k, ppn, done, bit), NEW pte \in Pointing(m, ppn) \ done
  PROVE  k.pt[pte].present = 0
<1>1. pte \in PTEs /\ m.pt[pte].present = 1 /\ Ppn(m.pt[pte]) = ppn
  BY DEF Pointing
<1>2. SUFFICES ASSUME k.pt[pte].present = 1 PROVE FALSE
  BY <1>1 DEF AnyMachine, PTE
<1>3. Ppn(k.pt[pte]) \in Frames
  BY <1>1, <1>2 DEF Kept, Consistent, EntriesPointToFrames
<1>4. pte \in Pointing(k, Ppn(k.pt[pte]))
  BY <1>1, <1>2 DEF Pointing
<1>5. CASE Ppn(k.pt[pte]) = ppn
  BY <1>4, <1>5 DEF Kept
<1>6. CASE Ppn(k.pt[pte]) # ppn
  <2>1. pte \in Pointing(m, Ppn(k.pt[pte]))
    BY <1>3, <1>4, <1>6 DEF Kept
  <2>. QED BY <1>1, <1>6, <2>1 DEF Pointing
<1>. QED BY <1>5, <1>6

\* One more entry
LEMMA KeptByAttach ==
  ASSUME NEW m \in AnyMachine, NEW k \in AnyMachine, NEW n \in AnyMachine, NEW ppn \in Frames,
         NEW done, NEW bit, Kept(m, k, ppn, done, bit),
         NEW pte \in Pointing(m, ppn) \ done,
         Attaches(k, n, pte, ppn), ReadOnly(n.pt[pte]) = bit
  PROVE  Kept(m, n, ppn, done \cup {pte}, bit)
<1>1. pte \in PTEs
  BY DEF Pointing
<1>2. k.pt[pte].present = 0
  BY KeptAreAbsent
<1>3. /\ Consistent(n) /\ Pointing(n, ppn) = Pointing(k, ppn) \cup {pte}
      /\ \A f \in Frames \ {ppn} : Pointing(n, f) = Pointing(k, f)
  BY <1>1, <1>2, AttachKeepsConsistent DEF Kept
<1>4. SlotsCounted(m) => SlotsCounted(n)
  BY AttachKeepsCounted DEF Kept
<1>5. \A x \in PTEs \ {pte} : n.pt[x] = k.pt[x]
  BY DEF Attaches
<1>6. \A x \in PTEs \ Pointing(m, ppn) : n.pt[x] = m.pt[x]
  BY <1>5 DEF Kept
<1>7. done \subseteq PTEs
  BY DEF Kept, Pointing
<1>8. \A x \in done \cup {pte} : ReadOnly(n.pt[x]) = bit
  BY <1>5, <1>7 DEF Kept
<1>. QED BY <1>3, <1>4, <1>6, <1>8 DEF Kept

\* What the loop of copy_on_write leaves: all the pages of the frame but one, which it
\* is alone with or shares read-only.
Retains(m, n, pte, ppn) ==
    LET rest == Pointing(m, ppn) \ {pte}
    IN  \E bit : /\ Kept(m, n, ppn, rest, bit)
                 /\ \A x \in rest : bit = IF rest = {x} THEN 0 ELSE 1

\* KeepRemaining maps every other page of the frame again, once.
LEMMA RetainEffect ==
  ASSUME NEW m \in AnyMachine, Consistent(m), NEW pte, NEW ppn \in Frames,
         NEW n, n = KeepRemaining(m, m.page_map[ppn].mapping, pte, ppn)
  PROVE  /\ n \in AnyMachine /\ SameMemory(m, n)
         /\ n.panic = "none" => Retains(m, n, pte, ppn)
<1> DEFINE mapping == m.page_map[ppn].mapping
           remaining == {i \in Slots : mapping[i] \notin {pte, NULL}}
           bit == KeptBit(remaining)
           Done(i) == {mapping[j] : j \in {j \in remaining : j <= i}}
<1>1. mapping \in [Slots -> PTEs \cup {NULL}] /\ remaining \subseteq Slots
      /\ \A i \in remaining : mapping[i] \in PTEs
  BY DEF AnyMachine, PD
<1>2. n = KeepEach(m, mapping, remaining, ppn)
  BY DEF KeepRemaining
<1>3. Slots = 1 .. MaxMapping /\ MaxMapping \in Nat
  BY FramesAssumption DEF Slots
<1>4. remaining \subseteq Used(m.page_map[ppn])
  BY DEF Used
<1>5. \A i \in Used(m.page_map[ppn]) : mapping[i] # pte => i \in remaining
  BY DEF Used
<1> HIDE DEF remaining, mapping, bit
<1>6. PICK h : /\ h[0] = unmapall_pte4(m, ppn)
               /\ \A i \in Slots : h[i] = KeepStep(h[i - 1], mapping, remaining, ppn, i)
               /\ n = h[MaxMapping]
  BY <1>1, <1>2, KeepLoop
<1> DEFINE Turn(i) == /\ h[i] \in AnyMachine /\ SameMemory(m, h[i])
                      /\ h[i].panic = "none" => Kept(m, h[i], ppn, Done(i), bit)
<1>7. Turn(0)
  <2>1. /\ h[0] \in AnyMachine /\ SameMemory(m, h[0])
        /\ h[0].panic = "none" => Unmaps(m, h[0], ppn)
    BY <1>6, UnmapEffect
  <2>2. Done(0) = {}
    BY <1>1, <1>3
  <2>. QED BY <2>1, <2>2, KeptFromUnmap
<1>8. ASSUME NEW i \in 1 .. MaxMapping, Turn(i - 1)
      PROVE  Turn(i)
  <2> DEFINE k == h[i - 1]
             l == h[i]
  <2>1. i \in Slots /\ l = KeepStep(k, mapping, remaining, ppn, i)
    BY <1>3, <1>6
  <2>2. /\ k \in AnyMachine /\ SameMemory(m, k)
        /\ k.panic = "none" => Kept(m, k, ppn, Done(i - 1), bit)
    BY <1>8
  <2> HIDE DEF k, l
  <2>3. /\ l \in AnyMachine /\ SameMemory(k, l)
        /\ l.panic = "none" => Keeps(k, l, mapping, remaining, ppn, i)
    BY <1>1, <2>1, <2>2, KeepStepEffect
  <2>4. SameMemory(m, l)
    BY <2>2, <2>3 DEF SameMemory
  <2>5. ASSUME l.panic = "none" PROVE Kept(m, l, ppn, Done(i), bit)
    <3>1. Keeps(k, l, mapping, remaining, ppn, i) /\ Kept(m, k, ppn, Done(i - 1), bit)
      BY <2>2, <2>3, <2>5 DEF Keeps
    <3>2. CASE i \notin remaining
      <4>1. Done(i) = Done(i - 1)
        <5>1. \A j \in remaining : j <= i <=> j <= i - 1
          BY <1>1, <1>3, <3>2
        <5>. QED BY <5>1
      <4>. QED BY <3>1, <3>2, <4>1 DEF Keeps
    <3>3. CASE i \in remaining
      <4>1. Done(i) = Done(i - 1) \cup {mapping[i]}
        <5>1. \A j \in remaining : j <= i <=> (j <= i - 1 \/ j = i)
          BY <1>1, <1>3
        <5>. QED BY <3>3, <5>1
      <4>2. mapping[i] \in Pointing(m, ppn) /\ mapping[i] \notin Done(i - 1)
        <5>1. Accountable(m, ppn)
          BY <3>1 DEF Kept
        <5>2. mapping[i] \in Pointing(m, ppn)
          BY <1>4, <3>3, <5>1, SlotsAreDistinct DEF mapping
        <5>3. \A j \in remaining : mapping[j] = mapping[i] => j = i
          BY <1>4, <3>3, <5>1, SlotsAreDistinct DEF mapping
        <5>4. \A j \in remaining : j <= i - 1 => j # i
          BY <1>1, <1>3
        <5>. QED BY <5>2, <5>3, <5>4
      <4>3. Attaches(k, l, mapping[i], ppn) /\ ReadOnly(l.pt[mapping[i]]) = bit
        BY <3>1, <3>3 DEF Keeps, bit
      <4> DEFINE before == Done(i - 1)
                 q == mapping[i]
      <4>4. Kept(m, l, ppn, before \cup {q}, bit)
        <5>1. q \in Pointing(m, ppn) \ before /\ Attaches(k, l, q, ppn) /\ ReadOnly(l.pt[q]) = bit
              /\ Kept(m, k, ppn, before, bit)
          BY <3>1, <4>2, <4>3
        <5> HIDE DEF before, q
        <5>. QED BY <2>2, <2>3, <5>1, KeptByAttach
      <4>. QED BY <4>1, <4>4
    <3>. QED BY <3>2, <3>3
  <2>. QED BY <2>3, <2>4, <2>5 DEF l
<1>9. Turn(MaxMapping)
  <2> DEFINE P == {i \in 0 .. MaxMapping : Turn(i)}
  <2> HIDE DEF Turn
  <2>1. 0 \in P /\ \A i \in 1 .. MaxMapping : i - 1 \in P => i \in P
    BY <1>3, <1>7, <1>8
  <2> HIDE DEF P
  <2>2. 0 .. MaxMapping \subseteq P
    BY <1>3, <2>1, InductionUpTo
  <2>3. MaxMapping \in P
    BY <1>3, <2>2
  <2>. QED BY <2>3 DEF P
<1>10. ASSUME n.panic = "none" PROVE Retains(m, n, pte, ppn)
  <2> DEFINE rest == Pointing(m, ppn) \ {pte}
  <2>1. Kept(m, n, ppn, Done(MaxMapping), bit)
    BY <1>6, <1>9, <1>10
  <2>2. Accountable(m, ppn)
    BY <2>1 DEF Kept
  <2>3. /\ \A i \in Used(m.page_map[ppn]) : mapping[i] \in Pointing(m, ppn)
        /\ \A x \in Pointing(m, ppn) : \E i \in Used(m.page_map[ppn]) : mapping[i] = x
        /\ \A i, j \in Used(m.page_map[ppn]) : mapping[i] = mapping[j] => i = j
    BY <2>2, SlotsAreDistinct DEF mapping
  <2>4. \A i \in remaining : mapping[i] # pte
    BY DEF remaining
  <2>5. Done(MaxMapping) = rest
    <3>1. \A i \in remaining : i <= MaxMapping
      BY <1>1, <1>3
    <3>. QED BY <1>4, <1>5, <2>3, <2>4, <3>1
  <2>6. ASSUME NEW x \in rest PROVE bit = IF rest = {x} THEN 0 ELSE 1
    <3>1. PICK i \in remaining : mapping[i] = x
      BY <1>5, <2>3, <2>6
    <3>2. IsFiniteSet(remaining)
      BY <1>1, FramesAreNaturals, FS_Subset
    <3>3. rest = {x} <=> remaining = {i}
      <4>1. \A j \in remaining : mapping[j] \in rest /\ (mapping[j] = x => j = i)
        BY <1>4, <2>3, <2>4, <3>1
      <4>2. \A y \in rest : \E j \in remaining : mapping[j] = y
        BY <1>5, <2>3
      <4>. QED BY <2>6, <3>1, <4>1, <4>2
    <3>4. Cardinality(remaining) = 1 <=> remaining = {i}
      BY <3>1, <3>2, FS_Singleton
    <3>. QED BY <3>3, <3>4 DEF bit, KeptBit
  <2>. QED BY <2>1, <2>5, <2>6 DEF Retains
<1>. QED BY <1>6, <1>9, <1>10

\* copy_physicalframe with a free frame g: it is mapped, and gets the parent's words.
CopiesFrame(k, n, pte, parent) ==
    \E g \in FreeFrames(k) : Attaches(k, n, pte, g) /\ n.pm = [k.pm EXCEPT ![g] = k.pm[parent]]

\* What copy_physicalframe does when a frame is free.
LEMMA CopyFrameEffect ==
  ASSUME NEW k \in AnyMachine, NEW pte \in PTEs, NEW parent \in Frames, FreeFrames(k) # {},
         NEW n, n = copy_physicalframe(k, pte, parent)
  PROVE  /\ n \in AnyMachine /\ n.internal_swap_addr = k.internal_swap_addr
         /\ \A other \in PTEs \ {pte} : n.pt[other] = k.pt[other]
         /\ n.panic = "none" =>
              /\ k.panic = "none"
              /\ CopiesFrame(k, n, pte, parent)
              /\ ReadOnly(n.pt[pte]) = ReadOnly(k.pt[pte])
<1> DEFINE g == First(FreeFrames(k))
           w == map_pte4(k, pte, g)
           pm == [w.pm EXCEPT ![Ppn(w.pt[pte])] = k.pm[parent]]
<1>1. g \in Frames /\ g \in FreeFrames(k)
  BY FirstExists DEF FreeFrames
<1>2. n = [w EXCEPT !.pm = pm]
  BY DEF copy_physicalframe, allocate_physicalframe
<1> HIDE DEF g
<1>3. /\ w \in AnyMachine /\ SameMemory(k, w)
      /\ \A other \in PTEs \ {pte} : w.pt[other] = k.pt[other]
      /\ w.panic = "none" => Maps(k, w, pte, g)
  BY <1>1, MapEffect
<1> HIDE DEF w
<1>4. pm \in [Frames -> Words]
  <2>1. w.pm \in [Frames -> Words] /\ k.pm[parent] \in Words
    BY <1>3 DEF AnyMachine
  <2>. QED BY <2>1
<1>5. pm = [k.pm EXCEPT ![Ppn(w.pt[pte])] = k.pm[parent]]
  BY <1>3 DEF SameMemory
<1> HIDE DEF pm
<1>6. /\ n \in AnyMachine /\ n.pt = w.pt /\ n.page_map = w.page_map /\ n.pm = pm
      /\ n.panic = w.panic /\ n.internal_swap_addr = w.internal_swap_addr
  BY <1>2, <1>3, <1>4 DEF AnyMachine
<1>7. ASSUME n.panic = "none"
      PROVE  /\ k.panic = "none" /\ CopiesFrame(k, n, pte, parent)
             /\ ReadOnly(n.pt[pte]) = ReadOnly(k.pt[pte])
  <2>1. Maps(k, w, pte, g)
    BY <1>3, <1>6, <1>7
  <2>2. Attaches(k, n, pte, g)
    BY <1>6, <2>1 DEF Maps, Attaches
  <2>3. n.pm = [k.pm EXCEPT ![g] = k.pm[parent]]
    BY <1>5, <1>6, <2>1 DEF Maps
  <2>. QED BY <1>1, <1>6, <2>1, <2>2, <2>3 DEF CopiesFrame, Maps
<1>. QED BY <1>3, <1>6, <1>7 DEF SameMemory

\* What copy_on_write does: the page moves to a frame of its own, with the words of the
\* old one, and may be written there; and who is left alone with the old one may write it.
CopiesOnWrite(m, n, pte) ==
    LET old == Ppn(m.pt[pte])
        rest == Pointing(m, old) \ {pte}
    IN  /\ m.panic = "none" /\ pte \in Pointing(m, old)
        /\ \E g \in Frames \ {old} :
            /\ Pointing(m, g) = {} /\ Pointing(n, g) = {pte}
            /\ Pointing(n, old) = rest
            /\ \A f \in Frames \ {old, g} : Pointing(n, f) = Pointing(m, f)
            /\ n.pm = [m.pm EXCEPT ![g] = m.pm[old]]
        /\ ReadOnly(n.pt[pte]) = 0
        /\ \A x \in rest : ReadOnly(n.pt[x]) = IF rest = {x} THEN 0 ELSE 1
        /\ \A x \in PTEs \ Pointing(m, old) : n.pt[x] = m.pt[x]

\* copy_on_write keeps page table and reverse mapping inverse, and copies one page.
LEMMA CopyOnWriteEffect ==
  ASSUME NEW m \in AnyMachine, Consistent(m), SlotsCounted(m), NEW pte \in PTEs,
         m.pt[pte].present = 1, NEW n, n = copy_on_write(m, pte)
  PROVE  /\ n \in AnyMachine /\ n.internal_swap_addr = m.internal_swap_addr
         /\ n.panic = "none" => Consistent(n) /\ SlotsCounted(n) /\ CopiesOnWrite(m, n, pte)
<1> DEFINE old == Ppn(m.pt[pte])
           rest == Pointing(m, old) \ {pte}
           kept == KeepRemaining(m, m.page_map[old].mapping, pte, old)
           c == copy_physicalframe(kept, pte, old)
           copied == SetReadOnly(c, pte, 0)
<1>1. \/ n = m /\ m.panic # "none"
      \/ n = [m EXCEPT !.panic = "copy_on_write"]
      \/ /\ m.panic = "none" /\ m.page_map[old].reversed_counter > 1
         /\ \/ n = [copied EXCEPT !.panic = "copy_on_write"]
            \/ n = copied /\ (n.panic = "none" => copied.pt[pte].present = 1)
  <2> HIDE DEF copied
  <2>1. n = Guarded(m, /\ m.pt[pte].present = 1
                   /\ ReadOnly(m.pt[pte]) = 1
                   /\ m.page_map[old].reversed_counter > 1, "copy_on_write",
            Guarded(copied, copied.pt[pte].present = 1 /\ Ppn(copied.pt[pte]) # old,
                    "copy_on_write", copied))
    BY DEF copy_on_write, copied
  <2>. QED BY <2>1, Zenon DEF Guarded
<1> DEFINE writable == 0
<1>2. writable \in {0, 1} /\ copied = SetReadOnly(c, pte, writable)
  OBVIOUS
<1> HIDE DEF writable, copied
<1>3. old \in Frames /\ pte \in Pointing(m, old)
  BY DEF Consistent, EntriesPointToFrames, Pointing
<1>4. /\ kept \in AnyMachine /\ SameMemory(m, kept)
      /\ kept.panic = "none" => Retains(m, kept, pte, old)
  BY <1>3, RetainEffect
<1> HIDE DEF kept
<1>5. FreeFrames(kept) # {} =>
          /\ c \in AnyMachine /\ c.internal_swap_addr = kept.internal_swap_addr
          /\ \A other \in PTEs \ {pte} : c.pt[other] = kept.pt[other]
          /\ c.panic = "none" =>
              /\ kept.panic = "none"
              /\ CopiesFrame(kept, c, pte, old)
              /\ ReadOnly(c.pt[pte]) = ReadOnly(kept.pt[pte])
  <2> HIDE DEF old
  <2>. QED BY <1>3, <1>4, CopyFrameEffect
<1>6. FreeFrames(kept) = {} => c = kept
  BY DEF copy_physicalframe
<1> HIDE DEF c
<1>7. c \in AnyMachine /\ c.internal_swap_addr = kept.internal_swap_addr
  BY <1>4, <1>5, <1>6
<1>8. /\ copied \in AnyMachine /\ SameMemory(c, copied) /\ copied.panic = c.panic
      /\ Protects(c, copied, pte, writable)
  BY <1>2, <1>7, SetReadOnlyEffect
<1>9. n \in AnyMachine /\ n.internal_swap_addr = m.internal_swap_addr
  <2>1. copied.internal_swap_addr = m.internal_swap_addr
    BY <1>4, <1>7, <1>8 DEF SameMemory
  <2>2. ASSUME NEW x \in AnyMachine
        PROVE  LET w == [x EXCEPT !.panic = "copy_on_write"]
               IN  w \in AnyMachine /\ w.internal_swap_addr = x.internal_swap_addr
    BY DEF AnyMachine, Panics
  <2>. QED BY <1>1, <1>8, <2>1, <2>2
<1>10. ASSUME n.panic = "none"
       PROVE  Consistent(n) /\ SlotsCounted(n) /\ CopiesOnWrite(m, n, pte)
  <2>1. /\ m.panic = "none" /\ m.page_map[old].reversed_counter > 1
        /\ n = copied /\ copied.pt[pte].present = 1
    <3>1. ASSUME NEW x \in AnyMachine PROVE [x EXCEPT !.panic = "copy_on_write"].panic # "none"
      BY DEF AnyMachine
    <3>. QED BY <1>1, <1>8, <1>10, <3>1
  <2>2. c.panic = "none" /\ c.pt[pte].present = 1
    BY <1>8, <1>10, <2>1 DEF Protects, Reprotects
  <2>3. FreeFrames(kept) # {}
    <3> SUFFICES ASSUME FreeFrames(kept) = {} PROVE FALSE
      OBVIOUS
    <3>1. c = kept /\ Retains(m, kept, pte, old)
      BY <1>4, <1>6, <2>2
    <3>2. PICK bit : Kept(m, kept, old, rest, bit)
      BY <3>1 DEF Retains
    <3>3. pte \in Pointing(m, old) \ rest
      BY <1>3
    <3> HIDE DEF rest, old
    <3>4. kept.pt[pte].present = 0
      BY <1>3, <1>4, <3>2, <3>3, KeptAreAbsent
    <3>. QED BY <2>2, <3>1, <3>4
  <2>4. kept.panic = "none" /\ CopiesFrame(kept, c, pte, old)
    BY <1>5, <2>2, <2>3
  <2>5. PICK bit : /\ Kept(m, kept, old, rest, bit)
                   /\ \A x \in rest : bit = IF rest = {x} THEN 0 ELSE 1
    BY <1>4, <2>4 DEF Retains
  <2>6. PICK g \in FreeFrames(kept) : Attaches(kept, c, pte, g) /\ c.pm = [kept.pm EXCEPT ![g] = kept.pm[old]]
    BY <2>4 DEF CopiesFrame
  <2>7. rest # {}
    <3> SUFFICES ASSUME Pointing(m, old) = {pte} PROVE FALSE
      BY <1>3
    <3>1. m.page_map[old].reversed_counter = Cardinality({pte})
      BY <1>3 DEF Consistent, InverseMaps
    <3>2. Cardinality({pte}) = 1
      BY FS_Singleton
    <3>. QED BY <2>1, <3>1, <3>2
  <2>8. g \in Frames /\ Pointing(kept, g) = {} /\ g # old /\ Pointing(m, g) = {}
    <3>1. g \in Frames /\ kept.page_map[g].allocated = 0 /\ Consistent(kept)
      BY <2>5 DEF FreeFrames, Kept
    <3>2. Pointing(kept, g) = {}
      BY <3>1 DEF Consistent, InverseMaps
    <3>3. Pointing(kept, old) = rest /\ \A f \in Frames \ {old} : Pointing(kept, f) = Pointing(m, f)
      BY <2>5 DEF Kept
    <3>. QED BY <2>7, <3>1, <3>2, <3>3
  <2>9. kept.pt[pte].present = 0
    <3>1. pte \in Pointing(m, old) \ rest
      BY <1>3
    <3> HIDE DEF rest, old
    <3>. QED BY <1>3, <1>4, <2>5, <3>1, KeptAreAbsent
  <2>10. /\ Consistent(c) /\ Pointing(c, g) = Pointing(kept, g) \cup {pte}
         /\ \A f \in Frames \ {g} : Pointing(c, f) = Pointing(kept, f)
    <3>1. Consistent(kept)
      BY <2>5 DEF Kept
    <3>. QED BY <1>4, <1>7, <2>6, <2>8, <2>9, <3>1, AttachKeepsConsistent
  <2>11. SlotsCounted(c)
    <3>1. SlotsCounted(kept)
      BY <2>5 DEF Kept
    <3>. QED BY <2>6, <2>8, <3>1, AttachKeepsCounted
  <2>12. Reprotects(c, n) /\ ReadOnly(n.pt[pte]) = 0
         /\ \A other \in PTEs \ {pte} : n.pt[other] = c.pt[other]
    BY <1>8, <2>1 DEF Protects, writable
  <2>13. Consistent(n) /\ \A f \in Frames : Pointing(n, f) = Pointing(c, f)
    BY <2>10, <2>12, ReprotectKeepsConsistent
  <2>14. SlotsCounted(n)
    BY <2>11, <2>12 DEF SlotsCounted, Reprotects
  <2>15. n.pm = [m.pm EXCEPT ![g] = m.pm[old]]
    BY <1>4, <1>8, <2>1, <2>6 DEF SameMemory
  <2>16. \A x \in PTEs \ {pte} : n.pt[x] = kept.pt[x]
    BY <2>6, <2>12 DEF Attaches
  <2>17. \A x \in rest : ReadOnly(n.pt[x]) = IF rest = {x} THEN 0 ELSE 1
    <3> SUFFICES ASSUME NEW x \in rest PROVE ReadOnly(n.pt[x]) = IF rest = {x} THEN 0 ELSE 1
      OBVIOUS
    <3>1. x \in PTEs \ {pte}
      BY DEF Pointing
    <3>2. ReadOnly(kept.pt[x]) = bit
      BY <2>5 DEF Kept
    <3>. QED BY <2>5, <2>16, <3>1, <3>2
  <2>18. \A x \in PTEs \ Pointing(m, old) : n.pt[x] = m.pt[x]
    BY <1>3, <2>5, <2>16 DEF Kept
  <2>19. /\ Pointing(n, g) = {pte} /\ Pointing(n, old) = rest
         /\ \A f \in Frames \ {old, g} : Pointing(n, f) = Pointing(m, f)
    <3>1. /\ Pointing(kept, old) = rest
          /\ \A f \in Frames \ {old} : Pointing(kept, f) = Pointing(m, f)
      BY <2>5 DEF Kept
    <3>. QED BY <1>3, <2>8, <2>10, <2>13, <3>1
  <2> HIDE DEF rest, old
  <2>20. \E f \in Frames \ {old} :
            /\ Pointing(m, f) = {} /\ Pointing(n, f) = {pte}
            /\ Pointing(n, old) = rest
            /\ \A h \in Frames \ {old, f} : Pointing(n, h) = Pointing(m, h)
            /\ n.pm = [m.pm EXCEPT ![f] = m.pm[old]]
    BY <2>8, <2>15, <2>19
  <2>21. CopiesOnWrite(m, n, pte)
    BY <1>3, <2>1, <2>12, <2>17, <2>18, <2>20 DEF CopiesOnWrite, rest, old
  <2>. QED BY <2>13, <2>14, <2>21
<1>. QED BY <1>9, <1>10

-----------------------------------------------------------------------------
(* Where the simulator stops, and what it has changed by then               *)

\* Nothing that is read of a page changes.
Unmoved(m, n) == n.pt = m.pt /\ n.pm = m.pm /\ n.swap = m.swap

\* The assertions about swap files
SwapStops == {"swap_in: address", "swap_in: no file", "swap_in: parse", "swap_out: address"}

\* map_pte4 writes nothing before its assertions, and they hold of a clean frame that no
\* page is mapped to.
LEMMA MapStops ==
  ASSUME NEW m \in AnyMachine, NEW pte \in PTEs, NEW ppn \in Frames,
         NEW n, n = map_pte4(m, pte, ppn)
  PROVE  /\ n.panic # "none" => Unmoved(m, n)
         /\ /\ SlotsCounted(m) /\ m.page_map[ppn].reversed_counter = 0
            /\ m.page_map[ppn].dirty = 0
            => n.panic = m.panic
<1> DEFINE d == m.page_map[ppn]
           page_map == WithTimes([m.page_map EXCEPT ![ppn] = Mapped(d, pte, m.pt[pte].saddr)],
                [f \in Frames |->
                    [m.page_map EXCEPT ![ppn] = Mapped(d, pte, m.pt[pte].saddr)][f].time])
           entry == WithDirty(WithPpn([m.pt[pte] EXCEPT !.present = 1], ppn), 0)
           done == [m EXCEPT !.page_map = page_map, !.pt[pte] = entry]
<1>1. \/ m.panic # "none" /\ n = m
      \/ m.panic = "none" /\ d.dirty # 0 /\ n = [m EXCEPT !.panic = "map_pte4: dirty"]
      \/ /\ m.panic = "none" /\ ~(d.reversed_counter < MaxMapping /\ Used(d) # Slots)
         /\ n = [m EXCEPT !.panic = "map_pte4: full"]
      \/ m.panic = "none" /\ n = done
  BY Zenon DEF map_pte4, Guarded
<1> HIDE DEF page_map, entry
<1>2. n = done => n.panic = m.panic
  BY DEF AnyMachine
<1>3. SlotsCounted(m) /\ d.reversed_counter = 0 => d.reversed_counter < MaxMapping /\ Used(d) # Slots
  <2>1. MaxMapping \in Nat \ {0} /\ Cardinality(Slots) = MaxMapping
    BY FramesAssumption, FS_Interval DEF Slots
  <2>2. SlotsCounted(m) => Cardinality(Used(d)) = d.reversed_counter
    BY DEF SlotsCounted
  <2> HIDE DEF d
  <2>. QED BY <2>1, <2>2
<1> HIDE DEF done, d
<1>4. CASE m.panic # "none" /\ n = m
  BY <1>4 DEF Unmoved
<1>5. CASE m.panic = "none" /\ d.dirty # 0 /\ n = [m EXCEPT !.panic = "map_pte4: dirty"]
  BY <1>5 DEF Unmoved, d, AnyMachine
<1>6. CASE /\ m.panic = "none" /\ ~(d.reversed_counter < MaxMapping /\ Used(d) # Slots)
           /\ n = [m EXCEPT !.panic = "map_pte4: full"]
  BY <1>3, <1>6 DEF Unmoved, d, AnyMachine
<1>7. CASE m.panic = "none" /\ n = done
  BY <1>2, <1>7
<1>. QED BY <1>1, <1>4, <1>5, <1>6, <1>7

\* unmapall_pte4 writes nothing before its assertions, and they hold of an accountable
\* frame that pages are mapped to.
LEMMA UnmapStops ==
  ASSUME NEW m \in AnyMachine, NEW ppn \in Frames, NEW n, n = unmapall_pte4(m, ppn)
  PROVE  /\ n.panic # "none" => Unmoved(m, n)
         /\ Accountable(m, ppn) /\ m.page_map[ppn].reversed_counter > 0 => n.panic = m.panic
<1> DEFINE d == m.page_map[ppn]
           page_map == WithTimes([m.page_map EXCEPT ![ppn] = [FreshPD EXCEPT !.saddr = d.saddr]],
                [f \in Frames |->
                    [m.page_map EXCEPT ![ppn] = [FreshPD EXCEPT !.saddr = d.saddr]][f].time])
           done == [m EXCEPT !.page_map = page_map, !.pt = Unmapped(m, d)]
<1>1. \/ m.panic # "none" /\ n = m
      \/ /\ m.panic = "none" /\ ~(d.reversed_counter > 0 /\ Accountable(m, ppn))
         /\ n = [m EXCEPT !.panic = "unmapall_pte4"]
      \/ m.panic = "none" /\ n = done
  BY Zenon DEF unmapall_pte4, Guarded
<1> HIDE DEF page_map
<1>2. n = done => n.panic = m.panic
  BY DEF AnyMachine
<1> HIDE DEF done
<1>3. CASE m.panic # "none" /\ n = m
  BY <1>3 DEF Unmoved
<1>4. CASE /\ m.panic = "none" /\ ~(d.reversed_counter > 0 /\ Accountable(m, ppn))
           /\ n = [m EXCEPT !.panic = "unmapall_pte4"]
  <2>1. Unmoved(m, n)
    BY <1>4 DEF Unmoved, AnyMachine
  <2>. QED BY <1>4, <2>1
<1>5. CASE m.panic = "none" /\ n = done
  BY <1>2, <1>5
<1>. QED BY <1>1, <1>3, <1>4, <1>5

\* The assertions of pagemap_update_time and pagemap_dirty hold of an accountable frame.
LEMMA AccountingRuns ==
  ASSUME NEW m \in AnyMachine, NEW ppn \in Frames, Accountable(m, ppn)
  PROVE  /\ pagemap_update_time(m, ppn).panic = m.panic
         /\ pagemap_dirty(m, ppn).panic = m.panic
<1>1. pagemap_update_time(m, ppn) =
        IF m.panic # "none" THEN m ELSE [m EXCEPT !.page_map = Touched(m.page_map, ppn)]
  BY Zenon DEF pagemap_update_time, Guarded
<1>2. pagemap_dirty(m, ppn) =
        IF m.panic # "none" THEN m
        ELSE [m EXCEPT !.page_map[ppn].dirty = 1, !.pt = DirtyEntries(m, ppn)]
  BY Zenon DEF pagemap_dirty, Guarded
<1>. QED BY <1>1, <1>2 DEF AnyMachine

\* swap_in writes nothing before its assertions and a parser that gives up.
LEMMA SwapInStops ==
  ASSUME NEW m \in AnyMachine, NEW saddr \in Nat, NEW ppn \in Frames,
         NEW n, n = swap_in(m, saddr, ppn)
  PROVE  /\ n.panic # "none" => Unmoved(m, n) /\ n.page_map = m.page_map
         /\ n.panic \in {m.panic} \cup SwapStops
<1>1. \/ m.panic # "none" /\ n = m
      \/ m.panic = "none" /\ n = allocate_swappage(m, ppn)
      \/ m.panic = "none" /\ \E reason \in SwapStops : n = [m EXCEPT !.panic = reason]
      \/ m.panic = "none" /\ n = [m EXCEPT !.pm[ppn] = m.swap[saddr]]
  <2>1. \/ m.panic # "none" /\ n = m
        \/ m.panic = "none" /\ n = allocate_swappage(m, ppn)
        \/ m.panic = "none" /\ n = [m EXCEPT !.panic = "swap_in: address"]
        \/ m.panic = "none" /\ n = [m EXCEPT !.panic = "swap_in: no file"]
        \/ m.panic = "none" /\ n = [m EXCEPT !.panic = "swap_in: parse"]
        \/ m.panic = "none" /\ n = [m EXCEPT !.pm[ppn] = m.swap[saddr]]
    BY Zenon DEF swap_in, Guarded
  <2>. QED BY <2>1 DEF SwapStops
<1>2. allocate_swappage(m, ppn).panic = m.panic
  BY AllocateEffect
<1>3. \A reason \in SwapStops : Unmoved(m, [m EXCEPT !.panic = reason])
        /\ [m EXCEPT !.panic = reason].panic = reason
        /\ [m EXCEPT !.panic = reason].page_map = m.page_map
  BY DEF AnyMachine, Unmoved
<1>4. [m EXCEPT !.pm[ppn] = m.swap[saddr]].panic = m.panic
  BY DEF AnyMachine
<1>5. m.panic # "none" /\ n = m => Unmoved(m, n) /\ n.page_map = m.page_map
  BY DEF Unmoved
<1>. QED BY <1>1, <1>2, <1>3, <1>4, <1>5

\* swap_out writes its file, or fails an assertion and writes nothing.
LEMMA SwapOutStops ==
  ASSUME NEW m \in AnyMachine, NEW saddr, NEW ppn \in Frames,
         NEW n, n = swap_out(m, saddr, ppn)
  PROVE  /\ n.panic # "none" => Unmoved(m, n)
         /\ n.panic = "none" =>
              saddr >= SWAP_ADDRESS_MIN /\ n.swap = [m.swap EXCEPT ![saddr] = m.pm[ppn]]
         /\ n.panic \in {m.panic} \cup SwapStops
<1>1. \/ m.panic # "none" /\ n = m
      \/ m.panic = "none" /\ n = [m EXCEPT !.panic = "swap_out: address"]
      \/ /\ m.panic = "none" /\ saddr >= SWAP_ADDRESS_MIN
         /\ n = [m EXCEPT !.swap = [m.swap EXCEPT ![saddr] = m.pm[ppn]]]
  BY Zenon DEF swap_out, Guarded, WriteBack
<1>. QED BY <1>1 DEF AnyMachine, Unmoved, SwapStops

\* Replacing a frame keeps the used slots counted.
LEMMA ReplaceKeepsCounted ==
  ASSUME NEW m \in AnyMachine, NEW pte \in PTEs, NEW victim \in Frames, SlotsCounted(m),
         NEW n, n = Reload(unmapall_pte4(m, victim), pte, victim), n.panic = "none"
  PROVE  SlotsCounted(n)
<1> DEFINE u == unmapall_pte4(m, victim)
           saddr == u.pt[pte].saddr
           s == swap_in(u, saddr, victim)
<1>1. u \in AnyMachine /\ (u.panic = "none" => Unmaps(m, u, victim))
  BY UnmapEffect
<1>2. n = map_pte4(s, pte, victim)
  BY DEF Reload
<1> HIDE DEF u
<1>3. saddr \in Nat
  BY <1>1 DEF AnyMachine, PTE
<1> HIDE DEF saddr
<1>4. s \in AnyMachine /\ (s.panic = "none" => SwapsIn(u, s, saddr, victim))
  BY <1>1, <1>3, SwapInEffect
<1> HIDE DEF s
<1>5. Maps(s, n, pte, victim)
  BY <1>2, <1>4, MapEffect
<1>6. SwapsIn(u, s, saddr, victim) /\ Unmaps(m, u, victim)
  BY <1>1, <1>4, <1>5 DEF Maps, SwapsIn
<1>7. SlotsCounted(u)
  BY <1>6, UnmapKeepsCounted
<1>8. SlotsCounted(s)
  <2> SUFFICES ASSUME NEW f \in Frames
               PROVE  Cardinality(Used(s.page_map[f])) = s.page_map[f].reversed_counter
    BY DEF SlotsCounted
  <2>1. /\ s.page_map[f].mapping = u.page_map[f].mapping
        /\ s.page_map[f].reversed_counter = u.page_map[f].reversed_counter
    <3>1. CASE f = victim
      BY <1>6, <3>1 DEF SwapsIn
    <3>2. CASE f # victim
      BY <1>6, <3>2 DEF SwapsIn
    <3>. QED BY <3>1, <3>2
  <2>2. Used(s.page_map[f]) = Used(u.page_map[f])
    BY <2>1 DEF Used
  <2>. QED BY <1>7, <2>1, <2>2 DEF SlotsCounted
<1>9. Attaches(s, n, pte, victim)
  BY <1>5 DEF Maps, Attaches
<1>. QED BY <1>8, <1>9, AttachKeepsCounted

\* A replacement fails none but the assertions about swap files: the victim is accountable
\* when it is unmapped, and empty and clean when the page is mapped to it.
LEMMA ReplaceStops ==
  ASSUME NEW m \in AnyMachine, NEW pte \in PTEs, NEW victim \in Frames,
         Consistent(m), SlotsCounted(m), Pointing(m, victim) # {},
         NEW n, n = Reload(unmapall_pte4(m, victim), pte, victim)
  PROVE  n.panic \in {m.panic} \cup SwapStops
<1> DEFINE u == unmapall_pte4(m, victim)
           saddr == u.pt[pte].saddr
           s == swap_in(u, saddr, victim)
<1>1. u \in AnyMachine /\ (u.panic = "none" => Unmaps(m, u, victim))
  BY UnmapEffect
<1>2. u.panic = m.panic
  <2>1. Accountable(m, victim)
    BY FramesInUseAreAccountable
  <2>2. m.page_map[victim].reversed_counter > 0
    <3>1. /\ Mappers(m.page_map[victim]) = Pointing(m, victim)
          /\ m.page_map[victim].reversed_counter = Cardinality(Pointing(m, victim))
      BY DEF Consistent, InverseMaps
    <3>2. m.page_map[victim] \in PD
      BY DEF AnyMachine
    <3>3. IsFiniteSet(Pointing(m, victim))
      BY <3>1, <3>2, MappersAreFinite
    <3>. QED BY <3>1, <3>3, FS_EmptySet, FS_CardinalityType
  <2>. QED BY <2>1, <2>2, UnmapStops
<1>3. n = map_pte4(s, pte, victim)
  BY DEF Reload
<1> HIDE DEF u
<1>4. saddr \in Nat
  BY <1>1 DEF AnyMachine, PTE
<1> HIDE DEF saddr
<1>5. /\ s \in AnyMachine /\ (s.panic = "none" => SwapsIn(u, s, saddr, victim))
      /\ s.panic \in {u.panic} \cup SwapStops
  BY <1>1, <1>4, SwapInEffect, SwapInStops
<1> HIDE DEF s
<1>6. CASE s.panic # "none"
  <2>1. n = s
    BY <1>3, <1>6, Zenon DEF map_pte4, Guarded
  <2>. QED BY <1>2, <1>5, <2>1
<1>7. CASE s.panic = "none"
  <2>1. SwapsIn(u, s, saddr, victim) /\ Unmaps(m, u, victim)
    BY <1>1, <1>5, <1>7 DEF SwapsIn
  <2>2. s.page_map[victim].reversed_counter = 0 /\ s.page_map[victim].dirty = 0
    BY <2>1 DEF SwapsIn, Unmaps
  <2>3. SlotsCounted(s)
    <3>1. SlotsCounted(u)
      BY <2>1, UnmapKeepsCounted
    <3> SUFFICES ASSUME NEW f \in Frames
                 PROVE  Cardinality(Used(s.page_map[f])) = s.page_map[f].reversed_counter
      BY DEF SlotsCounted
    <3>2. /\ s.page_map[f].mapping = u.page_map[f].mapping
          /\ s.page_map[f].reversed_counter = u.page_map[f].reversed_counter
      <4>1. CASE f = victim
        BY <2>1, <4>1 DEF SwapsIn
      <4>2. CASE f # victim
        BY <2>1, <4>2 DEF SwapsIn
      <4>. QED BY <4>1, <4>2
    <3>3. Used(s.page_map[f]) = Used(u.page_map[f])
      BY <3>2 DEF Used
    <3>. QED BY <3>1, <3>2, <3>3 DEF SlotsCounted
  <2>4. n.panic = s.panic
    BY <1>3, <1>5, <2>2, <2>3, MapStops
  <2>. QED BY <1>2, <1>5, <2>4
<1>. QED BY <1>6, <1>7
=============================================================================
