---------------------------- MODULE Paging_proofs ----------------------------
(***************************************************************************)
(* Proofs about Paging, for every number of frames and pages.              *)
(***************************************************************************)
EXTENDS Paging, PageFrames_proofs

\* The text page is in the frame the loader put it into, alone, and has no swap
\* page ...
Home(n) == Pointing(n, 0) = {TEXT} /\ n.page_map[0].saddr = 0

\* ... or it was discarded, and what is found in its place is blank.
Lost(n) ==
    /\ FreeFrames(n) = {}
    /\ n.pt[TEXT].present = 0 => n.pt[TEXT].saddr = 0
    /\ n.pt[TEXT].present = 1 => n.pm[Ppn(n.pt[TEXT])] = Blank

\* As long as there are free frames no entry has an odd swap address, of which
\* map_pte4 makes a read-only entry.
WritableWhileFree(n) == FreeFrames(n) # {} => \A pte \in PTEs : ReadOnly(n.pt[pte]) = 0

Sound(n) == Consistent(n) /\ WritableWhileFree(n) /\ SwapSound(n)

Registers ==
    /\ cpu \in [stage : {"fetch", "execute"}, inst : Operations, rsp : 1 .. NumData + 1]
    /\ rsp \in 1 .. NumData + 1
    /\ reg \in Words

TextKept == Home(m) \/ (cpu.stage = "fetch" /\ Lost(m))

\* The inductive invariant
IInv ==
    /\ m \in Machine /\ Registers
    /\ Running => Sound(m) /\ TextKept

\* What the assumptions say of the constants, together.
LEMMA Constants ==
  /\ NumData \in Nat \ {0} /\ NumFrames \in Nat \ {0} /\ NumFrames <= NumData + 1
  /\ MaxSwapAddress \in Nat /\ MaxSwapAddress < 2048 /\ MaxSwapAddress >= 100
  /\ TEXT \in PTEs /\ DataPages \subseteq PTEs /\ TEXT \notin DataPages
  /\ 0 \in Frames /\ Frames \subseteq Nat
<1>1. NumData \in Nat \ {0} /\ NumFrames \in Nat \ {0} /\ NumFrames <= NumData + 1
  BY NumDataAssumption, FramesAssumption
<1>2. MaxSwapAddress \in Nat /\ MaxSwapAddress < 2048 /\ MaxSwapAddress >= 100
  BY SwapAssumption, SwapBoundAssumption DEF SWAP_ADDRESS_MIN
<1>3. TEXT \in PTEs /\ DataPages \subseteq PTEs /\ TEXT \notin DataPages
  BY <1>1, PTEAssumption DEF TEXT, DataPages
<1>4. 0 \in Frames
  BY <1>1 DEF Frames
<1>. QED BY <1>1, <1>2, <1>3, <1>4, FramesAreNaturals

\* The types of the lemmas on frames are those of TypeOK but for the last address.
LEMMA MachineIsAnyMachine ==
  /\ Machine \subseteq AnyMachine
  /\ \A n \in AnyMachine :
        n.internal_swap_addr \in SWAP_ADDRESS_MIN .. MaxSwapAddress + 1 => n \in Machine
<1>1. SWAP_ADDRESS_MIN .. MaxSwapAddress + 1 \subseteq Nat
  BY Constants DEF SWAP_ADDRESS_MIN
<1>. QED BY <1>1 DEF Machine, AnyMachine

\* A write-protected entry of a frame other than 0 holds no swap address: its
\* bits are odd and beyond all of those given out.
LEMMA ProtectedEntryIsNoAddress ==
  ASSUME NEW e \in PTE, ReadOnly(e) = 1, Ppn(e) # 0
  PROVE  e.saddr \notin FileAddresses \cup {0}
<1>1. e.saddr \in Nat /\ e.saddr % 2 = 1 /\ e.saddr >= 2048
  BY DEF PTE, ReadOnly, Ppn
<1>2. ASSUME NEW f \in Nat, NEW flags \in {0, 32}
      PROVE  (2048 * f + flags) % 2 = 0
  OBVIOUS
<1>3. e.saddr \notin SWAP_ADDRESS_MIN .. MaxSwapAddress
  BY <1>1, Constants DEF SWAP_ADDRESS_MIN
<1>4. e.saddr \notin {2048 * f + flags : f \in 1 .. NumFrames - 1, flags \in {0, 32}}
  <2>1. ASSUME NEW f \in 1 .. NumFrames - 1, NEW flags \in {0, 32}
        PROVE  e.saddr # 2048 * f + flags
    <3>1. f \in Nat
      BY Constants
    <3>. QED BY <1>1, <1>2, <3>1
  <2>. QED BY <2>1
<1>. QED BY <1>1, <1>3, <1>4 DEF FileAddresses

\* The fields of an entry are numbers (pte4_t).
LEMMA PresentOrNot ==
  ASSUME NEW n \in AnyMachine, NEW pte \in PTEs
  PROVE  /\ n.pt[pte] \in PTE /\ n.pt[pte].present \in {0, 1}
         /\ n.pt[pte].saddr \in Nat /\ ReadOnly(n.pt[pte]) \in {0, 1}
<1>1. n.pt[pte] \in PTE
  BY DEF AnyMachine
<1>. QED BY <1>1 DEF PTE, ReadOnly

-----------------------------------------------------------------------------
(* The page fault handler                                                   *)

\* A free frame is taken for a page that was never in memory before.
LEMMA FreeFrameKeepsSound ==
  ASSUME NEW n \in AnyMachine, NEW page \in PTEs, FreeFrames(n) # {}, Sound(n),
         n.pt[page].present = 0,
         NEW k, k = UseFreeFrame(n, page)
  PROVE  /\ k \in AnyMachine /\ k.internal_swap_addr = n.internal_swap_addr
         /\ k.panic = "none" => Sound(k)
         /\ k.panic = "none" /\ Home(n) => Home(k)
<1> DEFINE f == First(FreeFrames(n))
<1>1. f \in Frames /\ n.page_map[f].allocated = 0
  BY FirstExists DEF FreeFrames
<1>2. k = map_pte4(n, page, f)
  BY DEF UseFreeFrame
<1> HIDE DEF f
<1>3. /\ k \in AnyMachine /\ k.internal_swap_addr = n.internal_swap_addr
      /\ k.panic = "none" => Maps(n, k, page, f)
  BY <1>1, <1>2, MapEffect DEF SameMemory
<1>4. ASSUME k.panic = "none"
      PROVE  Sound(k) /\ (Home(n) => Home(k))
  <2>1. Maps(n, k, page, f)
    BY <1>3, <1>4
  <2>2. /\ Consistent(k) /\ \A g \in Frames \ {f} : Pointing(k, g) = Pointing(n, g)
    BY <1>1, <1>3, <2>1, MapKeepsConsistent DEF Sound
  <2>3. WritableWhileFree(k)
    BY <2>1 DEF Sound, WritableWhileFree, Maps
  <2>4. ASSUME Home(n) PROVE Home(k)
    <3>1. f # 0
      BY <1>1, <2>4 DEF Home, Sound, Consistent, InverseMaps
    <3>. QED BY <2>1, <2>2, <2>4, <3>1, Constants DEF Home, Maps, SameButTime
  <2>5. SwapSound(k)
    <3>1. n.pt[page].saddr = 0
      BY DEF Sound, SwapSound, NothingOutWhileFree, NothingOut
    <3>. QED BY <1>1, <1>3, <2>1, <3>1, MapEffect, <1>2, MapKeepsSwap DEF Sound
  <2>. QED BY <2>2, <2>3, <2>4, <2>5 DEF Sound
<1>. QED BY <1>3, <1>4

\* Writing a frame back changes its swap file, and neither entries nor frames.
SameFrames(n, w) ==
    /\ w.pt = n.pt /\ w.page_map = n.page_map /\ w.pm = n.pm
    /\ w.internal_swap_addr = n.internal_swap_addr

\* The last two cases of fix_pagefault replace a frame, after writing it back if
\* there is no clean one.  "w" is the machine in between.
LEMMA FaultReplaces ==
  ASSUME NEW n \in AnyMachine, NEW page \in PTEs, FreeFrames(n) = {}, Sound(n),
         NEW k, k = fix_pagefault(n, page),
         \A victim \in Frames : Replaceable(n, page, victim)
  PROVE  /\ k \in AnyMachine
         /\ k.internal_swap_addr \in {n.internal_swap_addr, n.internal_swap_addr + 1}
         /\ k.panic = "none" =>
              \E victim \in Frames : \E w \in AnyMachine :
                 /\ SameFrames(n, w) /\ Sound(w)
                 /\ Consistent(k) /\ Replaces(w, k, page, victim)
         /\ k.panic = "none" /\ SlotsCounted(n) => SlotsCounted(k)
<1>1. CASE CleanFrames(n) # {}
  <2> DEFINE victim == LRU(n, CleanFrames(n))
  <2>1. victim \in Frames
    <3>1. CleanFrames(n) \in SUBSET Frames
      BY DEF CleanFrames
    <3>. QED BY <1>1, <3>1, VictimExists
  <2>2. k = Reload(unmapall_pte4(n, victim), page, victim)
    BY <1>1 DEF fix_pagefault, DiscardClean
  <2> HIDE DEF victim
  <2>3. SameFrames(n, n)
    BY DEF SameFrames
  <2>4. /\ k \in AnyMachine
        /\ k.internal_swap_addr \in {n.internal_swap_addr, n.internal_swap_addr + 1}
        /\ k.panic = "none" => Consistent(k) /\ Replaces(n, k, page, victim)
    BY <2>1, <2>2, ReplaceEffect DEF Sound
  <2>5. k.panic = "none" /\ SlotsCounted(n) => SlotsCounted(k)
    BY <2>1, <2>2, ReplaceKeepsCounted
  <2>. QED BY <2>1, <2>3, <2>4, <2>5
<1>2. CASE CleanFrames(n) = {}
  <2> DEFINE victim == LRU(n, Frames)
             w == swap_out(n, n.page_map[victim].saddr, victim)
  <2>1. victim \in Frames
    BY FramesAreNaturals, VictimExists
  <2>2. k = Reload(unmapall_pte4(w, victim), page, victim)
    BY <1>2 DEF fix_pagefault, WriteBackDirty
  <2>3. w \in AnyMachine /\ SameFrames(n, w)
    BY <2>1, SwapOutEffect DEF SameFrames
  <2> HIDE DEF victim, w
  <2>4. Sound(w)
    <3>1. Consistent(w)
      BY <2>3, SameAccountsKeepConsistent DEF SameAccounts, SameFrames, Sound
    <3>2. WritableWhileFree(w)
      BY <2>3 DEF SameFrames, Sound, WritableWhileFree, FreeFrames
    <3>3. SwapSound(w)
      BY <1>2, <2>3, WriteBackKeepsSwap DEF SameFrames, Sound
    <3>. QED BY <3>1, <3>2, <3>3 DEF Sound
  <2>5. Replaceable(w, page, victim)
    BY <2>1, <2>3 DEF Replaceable, SameFrames
  <2>6. /\ k \in AnyMachine
        /\ k.internal_swap_addr \in {w.internal_swap_addr, w.internal_swap_addr + 1}
        /\ k.panic = "none" => Consistent(k) /\ Replaces(w, k, page, victim)
    BY <2>1, <2>2, <2>3, <2>4, <2>5, ReplaceEffect DEF Sound
  <2>7. k.internal_swap_addr \in {n.internal_swap_addr, n.internal_swap_addr + 1}
    BY <2>3, <2>6 DEF SameFrames
  <2>8. k.panic = "none" /\ SlotsCounted(n) => SlotsCounted(k)
    <3>1. SlotsCounted(n) => SlotsCounted(w)
      BY <2>3 DEF SlotsCounted, SameFrames
    <3>. QED BY <2>1, <2>2, <2>3, <3>1, ReplaceKeepsCounted
  <2>. QED BY <2>1, <2>3, <2>4, <2>6, <2>7, <2>8
<1>. QED BY <1>1, <1>2

\* Replacing a frame leaves none free, and the rest of the invariant true.
LEMMA ReplacingIsSound ==
  ASSUME NEW n \in AnyMachine, NEW w \in AnyMachine, NEW k \in AnyMachine, NEW page \in PTEs,
         NEW victim \in Frames, FreeFrames(n) = {}, SameFrames(n, w), Sound(w),
         Consistent(k), Replaces(w, k, page, victim),
         k.internal_swap_addr \in {n.internal_swap_addr, n.internal_swap_addr + 1}
  PROVE  FreeFrames(k) = {} /\ Sound(k)
<1>1. ASSUME NEW f \in Frames PROVE k.page_map[f].allocated # 0
  <2>1. CASE f = victim
    BY <2>1 DEF Replaces
  <2>2. CASE f # victim
    BY <2>2 DEF Replaces, FreeFrames, SameFrames
  <2>. QED BY <2>1, <2>2
<1>2. FreeFrames(k) = {} /\ WritableWhileFree(k)
  BY <1>1 DEF FreeFrames, WritableWhileFree
<1>3. SwapSound(k)
  BY <1>2, ReplaceKeepsSwap DEF Sound, SameFrames
<1>. QED BY <1>2, <1>3 DEF Sound

\* A fault of the text page leaves a blank page in its place.
LEMMA TextFaultIsSound ==
  ASSUME NEW n \in AnyMachine, Sound(n), Lost(n), n.pt[TEXT].present = 0,
         NEW k, k = fix_pagefault(n, TEXT)
  PROVE  /\ k \in AnyMachine
         /\ k.internal_swap_addr \in {n.internal_swap_addr, n.internal_swap_addr + 1}
         /\ k.panic = "none" => Sound(k) /\ Lost(k)
<1>1. \A victim \in Frames : Replaceable(n, TEXT, victim)
  BY DEF Replaceable
<1>2. /\ k \in AnyMachine
      /\ k.internal_swap_addr \in {n.internal_swap_addr, n.internal_swap_addr + 1}
      /\ k.panic = "none" =>
              \E victim \in Frames : \E w \in AnyMachine :
                 /\ SameFrames(n, w) /\ Sound(w)
                 /\ Consistent(k) /\ Replaces(w, k, TEXT, victim)
  BY <1>1, FaultReplaces, Constants DEF Lost
<1>3. ASSUME k.panic = "none" PROVE Sound(k) /\ Lost(k)
  <2>1. PICK victim \in Frames : \E w \in AnyMachine :
                 /\ SameFrames(n, w) /\ Sound(w)
                 /\ Consistent(k) /\ Replaces(w, k, TEXT, victim)
    BY <1>2, <1>3
  <2>2. PICK w \in AnyMachine :
                 /\ SameFrames(n, w) /\ Sound(w)
                 /\ Consistent(k) /\ Replaces(w, k, TEXT, victim)
    BY <2>1
  <2>3. FreeFrames(k) = {} /\ Sound(k)
    BY <1>2, <2>2, ReplacingIsSound, Constants DEF Lost
  <2>4. AddressAfter(w, TEXT, victim) = 0
    BY <2>2 DEF AddressAfter, Pointing, Lost, SameFrames
  <2>5. k.pt[TEXT].present = 1 /\ Ppn(k.pt[TEXT]) = victim /\ k.pm[victim] = Blank
    BY <2>2, <2>4 DEF Replaces
  <2>. QED BY <2>3, <2>5 DEF Lost
<1>. QED BY <1>2, <1>3

\* A fault of a data page, while the text is at home: the page is absent, or it
\* is write-protected and no free frame is left.
LEMMA DataFaultIsSound ==
  ASSUME NEW n \in AnyMachine, Sound(n), Home(n),
         NEW page \in DataPages, NEW write \in BOOLEAN, ~Translates(n, page, write),
         NEW k, k = fix_pagefault(n, page)
  PROVE  /\ k \in AnyMachine
         /\ k.internal_swap_addr \in {n.internal_swap_addr, n.internal_swap_addr + 1}
         /\ k.panic = "none" => Sound(k) /\ (Home(k) \/ Lost(k))
<1>1. page \in PTEs /\ page # TEXT /\ n.pt[page] \in PTE /\ n.pt[page].present \in {0, 1}
  BY Constants, PresentOrNot
<1>2. n.pt[page].present = 1 => ReadOnly(n.pt[page]) = 1
  BY DEF Translates
<1>3. CASE FreeFrames(n) # {}
  <2>1. n.pt[page].present = 0
    BY <1>1, <1>2, <1>3 DEF Sound, WritableWhileFree
  <2>2. k = UseFreeFrame(n, page)
    BY <1>3 DEF fix_pagefault
  <2>. QED BY <1>1, <1>3, <2>1, <2>2, FreeFrameKeepsSound
<1>4. CASE FreeFrames(n) = {}
  <2>1. \A victim \in Frames : Replaceable(n, page, victim)
    <3>1. ASSUME n.pt[page].present = 1
          PROVE  n.pt[page].saddr \notin FileAddresses \cup {0}
      <4>1. Ppn(n.pt[page]) # 0
        BY <1>1, <3>1 DEF Home, Pointing
      <4>. QED BY <1>1, <1>2, <3>1, <4>1, ProtectedEntryIsNoAddress
    <3>. QED BY <3>1 DEF Replaceable
  <2>2. /\ k \in AnyMachine
        /\ k.internal_swap_addr \in {n.internal_swap_addr, n.internal_swap_addr + 1}
        /\ k.panic = "none" =>
              \E victim \in Frames : \E w \in AnyMachine :
                 /\ SameFrames(n, w) /\ Sound(w)
                 /\ Consistent(k) /\ Replaces(w, k, page, victim)
    BY <1>1, <1>4, <2>1, FaultReplaces
  <2>3. ASSUME k.panic = "none" PROVE Sound(k) /\ (Home(k) \/ Lost(k))
    <3>1. PICK victim \in Frames : \E w \in AnyMachine :
                 /\ SameFrames(n, w) /\ Sound(w)
                 /\ Consistent(k) /\ Replaces(w, k, page, victim)
      BY <2>2, <2>3
    <3>2. PICK w \in AnyMachine :
                 /\ SameFrames(n, w) /\ Sound(w)
                 /\ Consistent(k) /\ Replaces(w, k, page, victim)
      BY <3>1
    <3>3. FreeFrames(k) = {} /\ Sound(k)
      BY <1>1, <1>4, <2>2, <3>2, ReplacingIsSound
    <3>4. Pointing(w, 0) = {TEXT} /\ w.page_map[0].saddr = 0
      BY <3>2 DEF SameFrames, Home, Pointing
    <3>5. CASE victim = 0
      <4>1. k.pt[TEXT] = [present |-> 0, saddr |-> 0]
        BY <1>1, <3>2, <3>4, <3>5, Constants DEF Replaces
      <4>. QED BY <3>3, <4>1 DEF Lost
    <3>6. CASE victim # 0
      <4>1. Home(k)
        BY <3>2, <3>4, <3>6, Constants DEF Replaces, Home
      <4>. QED BY <3>3, <4>1
    <3>. QED BY <3>5, <3>6
  <2>. QED BY <2>2, <2>3
<1>. QED BY <1>3, <1>4

-----------------------------------------------------------------------------
(* Accesses                                                                 *)

\* A load (cpu_read64bits_dram) changes times only.
LEMMA ReadIsSound ==
  ASSUME NEW n \in AnyMachine, NEW page \in PTEs,
         n.panic = "none" => Sound(n), n.panic = "none" => Ppn(n.pt[page]) \in Frames,
         n.panic = "none",
         NEW k, k = ReadAccess(n, page)
  PROVE  /\ k \in AnyMachine /\ k.internal_swap_addr = n.internal_swap_addr
         /\ k.panic = "none" => Sound(k) /\ (Home(n) => Home(k))
<1>1. /\ k \in AnyMachine /\ SameMemory(n, k) /\ k.pt = n.pt
      /\ \A f \in Frames : SameButTime(k.page_map[f], n.page_map[f])
  BY UpdateTimeEffect DEF ReadAccess
<1>2. Consistent(k) /\ \A f \in Frames : Pointing(k, f) = Pointing(n, f)
  BY <1>1, SameAccountsKeepConsistent DEF SameAccounts, SameButTime, Sound
<1>3. WritableWhileFree(k)
  BY <1>1 DEF Sound, WritableWhileFree, FreeFrames, SameButTime
<1>4. Home(n) => Home(k)
  BY <1>1, <1>2, Constants DEF Home, SameButTime
<1>5. SwapSound(k)
  <2>1. Accesses(n, k)
    BY <1>1 DEF Accesses, SameMemory, SameButTime
  <2>. QED BY <1>1, <2>1, AccessKeepsSwap DEF Sound
<1>. QED BY <1>1, <1>2, <1>3, <1>4, <1>5 DEF Sound, SameMemory

\* A store (cpu_write64bits_dram) keeps entries and frames consistent.
LEMMA WriteIsSound ==
  ASSUME NEW n \in AnyMachine, NEW page \in PTEs, NEW word \in Words,
         Sound(n), Ppn(n.pt[page]) \in Frames,
         NEW k, k = WriteAccess(n, page, word)
  PROVE  /\ k \in AnyMachine /\ k.internal_swap_addr = n.internal_swap_addr
         /\ k.panic = "none" => Sound(k) /\ (Home(n) => Home(k))
<1> DEFINE ppn == Ppn(n.pt[page])
           w == [n EXCEPT !.pm[ppn] = word]
           t == pagemap_update_time(w, ppn)
<1>1. k = pagemap_dirty(t, ppn)
  BY DEF WriteAccess
<1> HIDE DEF ppn
<1>2. ppn \in Frames
  BY DEF ppn
<1>3. /\ w \in AnyMachine /\ w.pt = n.pt /\ w.page_map = n.page_map
      /\ w.internal_swap_addr = n.internal_swap_addr
  BY <1>2 DEF AnyMachine
<1> HIDE DEF w
<1>4. /\ t \in AnyMachine /\ SameMemory(w, t) /\ t.pt = n.pt
      /\ \A f \in Frames : SameButTime(t.page_map[f], n.page_map[f])
  BY <1>2, <1>3, UpdateTimeEffect
<1> HIDE DEF t
<1>5. /\ k \in AnyMachine /\ SameMemory(t, k)
      /\ k.panic = "none" => Dirties(t, k, ppn)
  BY <1>1, <1>2, <1>4, DirtyEffect
<1>6. Consistent(t) /\ \A f \in Frames : Pointing(t, f) = Pointing(n, f)
  BY <1>4, SameAccountsKeepConsistent DEF SameAccounts, SameButTime, Sound
<1>7. ASSUME k.panic = "none" PROVE Sound(k) /\ (Home(n) => Home(k))
  <2>1. Dirties(t, k, ppn)
    BY <1>5, <1>7
  <2>2. /\ Consistent(k)
        /\ \A f \in Frames : Pointing(k, f) = Pointing(n, f)
        /\ \A pte \in PTEs : /\ ReadOnly(k.pt[pte]) = ReadOnly(n.pt[pte])
                             /\ k.pt[pte].present = n.pt[pte].present
                             /\ Ppn(k.pt[pte]) = Ppn(n.pt[pte])
                             /\ n.pt[pte].present # 1 => k.pt[pte] = n.pt[pte]
    BY <1>2, <1>4, <1>5, <1>6, <2>1, DirtyKeepsConsistent
  <2>3. ASSUME NEW f \in Frames
        PROVE  /\ k.page_map[f].allocated = n.page_map[f].allocated
               /\ k.page_map[f].saddr = n.page_map[f].saddr
               /\ k.page_map[f].dirty = IF f = ppn THEN 1 ELSE n.page_map[f].dirty
    <3>1. SameButTime(t.page_map[f], n.page_map[f]) /\ t.page_map[f] \in PD
      BY <1>4 DEF AnyMachine
    <3>2. CASE f = ppn
      BY <2>1, <3>1, <3>2 DEF Dirties, SameButTime, PD
    <3>3. CASE f # ppn
      BY <2>1, <3>1, <3>3 DEF Dirties, SameButTime
    <3>. QED BY <3>2, <3>3
  <2>4. WritableWhileFree(k)
    BY <2>2, <2>3 DEF Sound, WritableWhileFree, FreeFrames
  <2>5. SwapSound(k)
    <3>1. /\ \A f \in Frames \ {ppn} : k.pm[f] = n.pm[f]
          /\ k.swap = n.swap /\ k.internal_swap_addr = n.internal_swap_addr
      BY <1>2, <1>3, <1>4, <1>5 DEF SameMemory, w
    <3>2. Accesses(n, k)
      BY <2>2, <2>3, <3>1 DEF Accesses
    <3>. QED BY <1>5, <3>2, AccessKeepsSwap DEF Sound
  <2>. QED BY <2>2, <2>3, <2>4, <2>5, Constants DEF Sound, Home
<1>. QED BY <1>3, <1>4, <1>5, <1>7 DEF SameMemory

-----------------------------------------------------------------------------
(* What the pages of the program hold                                       *)

\* A frame that is free was never written to, ...
Untouched(n) == \A f \in FreeFrames(n) : n.page_map[f].dirty = 0 /\ n.pm[f] = Blank

\* ... a frame in use holds one page, ...
Unshared(n) == \A f \in Frames : \A p, q \in Pointing(n, f) : p = q

\* ... a clean page that has no swap page is as it was before it was first used, ...
FromBlank(n) ==
    \A x \in DataPages : n.pt[x].present = 1 =>
        LET d == n.page_map[Ppn(n.pt[x])]
        IN  d.dirty = 0 /\ d.saddr = 0 => WordAt(n, x) = Blank

\* ... and no data page is lost: what its next access is to find exists.
HoldsWords(n) == \A x \in DataPages : Content(n, x) \in Words

Faithful(n) ==
    SlotsCounted(n) /\ Untouched(n) /\ Unshared(n) /\ FromBlank(n) /\ HoldsWords(n)

SameContents(n, k) == \A x \in DataPages : Content(k, x) = Content(n, x)

\* What is unmapped from frame f now can be found in its swap file, or is blank.
Saved(n, f) ==
    \A x \in Pointing(n, f) \cap DataPages :
        n.pm[f] = IF n.page_map[f].saddr = 0 THEN Blank ELSE SwapFile(n, n.page_map[f].saddr)

\* Contents are read from entries, frames and swap files alone.
LEMMA UnmovedContents ==
  ASSUME NEW n, NEW k, Unmoved(n, k)
  PROVE  SameContents(n, k)
BY DEF Unmoved, SameContents, Content, WordAt, SwapFile

\* No content is lost in two steps if none is lost in each.
LEMMA SameContentsTwice ==
  ASSUME NEW n, NEW w, NEW k, SameContents(n, w), SameContents(w, k)
  PROVE  SameContents(n, k)
BY DEF SameContents

\* unmapall_pte4 sends the pages of a frame to where they were saved.
LEMMA UnmapKeepsContents ==
  ASSUME NEW n \in AnyMachine, NEW k \in AnyMachine, NEW f \in Frames,
         Unmaps(n, k, f), SameMemory(n, k), Consistent(n), Saved(n, f)
  PROVE  SameContents(n, k)
<1> SUFFICES ASSUME NEW x \in DataPages PROVE Content(k, x) = Content(n, x)
  BY DEF SameContents
<1>1. x \in PTEs
  BY Constants
<1>2. k.pt[x] = IF x \in Pointing(n, f)
                THEN [present |-> 0, saddr |-> n.page_map[f].saddr] ELSE n.pt[x]
  BY <1>1, UnmapKeepsConsistent
<1>3. CASE x \in Pointing(n, f)
  <2>1. n.pt[x].present = 1 /\ Ppn(n.pt[x]) = f
    BY <1>3 DEF Pointing
  <2>2. Content(n, x) = n.pm[f]
    BY <2>1 DEF Content, WordAt
  <2>3. k.pt[x].present = 0 /\ k.pt[x].saddr = n.page_map[f].saddr
    BY <1>2, <1>3
  <2>4. Content(k, x) = IF n.page_map[f].saddr = 0 THEN Blank ELSE SwapFile(k, n.page_map[f].saddr)
    BY <2>3 DEF Content
  <2>. QED BY <1>3, <2>2, <2>4 DEF Saved, SwapFile, SameMemory
<1>4. CASE x \notin Pointing(n, f)
  BY <1>2, <1>4 DEF Content, WordAt, SwapFile, SameMemory
<1>. QED BY <1>3, <1>4

\* swap_in writes to a frame without pages, and to no file but a new one.
LEMMA SwapInKeepsContents ==
  ASSUME NEW n \in AnyMachine, NEW k \in AnyMachine, NEW f \in Frames, NEW saddr \in Nat,
         SwapsIn(n, k, saddr, f), k.pt = n.pt, Consistent(n), Pointing(n, f) = {}, GivenOut(n)
  PROVE  SameContents(n, k)
<1> SUFFICES ASSUME NEW x \in DataPages PROVE Content(k, x) = Content(n, x)
  BY DEF SameContents
<1>1. x \in PTEs
  BY Constants
<1>2. CASE n.pt[x].present = 1
  <2>1. Ppn(n.pt[x]) \in Frames \ {f}
    BY <1>1, <1>2 DEF Pointing, Consistent, EntriesPointToFrames
  <2>2. k.pm[Ppn(n.pt[x])] = n.pm[Ppn(n.pt[x])]
    BY <2>1 DEF SwapsIn
  <2>. QED BY <1>2, <2>2 DEF Content, WordAt
<1>3. CASE n.pt[x].present # 1
  <2> DEFINE a == n.pt[x].saddr
  <2>1. a # 0 => a # n.internal_swap_addr
    <3>1. AddressOf(n, x) = a
      BY <1>3 DEF AddressOf
    <3>2. a \in Nat /\ n.internal_swap_addr \in Nat
      BY <1>1, PresentOrNot DEF AnyMachine
    <3> HIDE DEF a
    <3>. QED BY <1>1, <3>1, <3>2 DEF GivenOut
  <2>2. k.swap = n.swap \/ k.swap = [n.swap EXCEPT ![n.internal_swap_addr] = EmptyFile]
    BY DEF SwapsIn
  <2>3. n.swap = [s \in FileAddresses |-> n.swap[s]]
    BY DEF AnyMachine
  <2>4. a # 0 => SwapFile(k, a) = SwapFile(n, a)
    <3> HIDE DEF a
    <3>. QED BY <2>1, <2>2, <2>3 DEF SwapFile
  <2>5. Content(n, x) = IF a = 0 THEN Blank ELSE SwapFile(n, a)
    BY <1>3 DEF Content
  <2>6. Content(k, x) = IF a = 0 THEN Blank ELSE SwapFile(k, a)
    BY <1>3 DEF Content
  <2>. QED BY <2>4, <2>5, <2>6
<1>. QED BY <1>2, <1>3

\* map_pte4 of an absent page to a frame that holds what is to be found there
LEMMA MapKeepsContents ==
  ASSUME NEW n, NEW k, NEW page \in PTEs, NEW f \in Frames,
         Maps(n, k, page, f), SameMemory(n, k), n.pt[page].present # 1,
         n.pm[f] = Content(n, page)
  PROVE  SameContents(n, k)
<1> SUFFICES ASSUME NEW x \in DataPages PROVE Content(k, x) = Content(n, x)
  BY DEF SameContents
<1>1. CASE x = page
  <2>1. k.pt[x].present = 1 /\ Ppn(k.pt[x]) = f
    BY <1>1 DEF Maps
  <2>. QED BY <1>1, <2>1 DEF Content, WordAt, SameMemory
<1>2. CASE x # page
  <2>1. k.pt[x] = n.pt[x]
    BY <1>2, Constants DEF Maps
  <2>. QED BY <2>1 DEF Content, WordAt, SwapFile, SameMemory
<1>. QED BY <1>1, <1>2

\* Once an assertion has failed, the rest of the handler changes nothing.
LEMMA StoppedReload ==
  ASSUME NEW n \in AnyMachine, n.panic # "none", NEW page, NEW victim
  PROVE  /\ unmapall_pte4(n, victim) = n /\ Reload(n, page, victim) = n
         /\ Reload(unmapall_pte4(n, victim), page, victim) = n
<1>1. unmapall_pte4(n, victim) = n
  BY Zenon DEF unmapall_pte4, Guarded
<1>2. swap_in(n, n.pt[page].saddr, victim) = n
  BY DEF swap_in
<1>3. map_pte4(n, page, victim) = n
  BY Zenon DEF map_pte4, Guarded
<1>4. Reload(n, page, victim) = n
  BY <1>2, <1>3 DEF Reload
<1>. QED BY <1>1, <1>4

\* Replacing a frame loses no content if what it held was saved, whether or not an
\* assertion fails on the way.
LEMMA ReplaceKeepsContents ==
  ASSUME NEW n \in AnyMachine, NEW page \in PTEs, NEW victim \in Frames,
         Consistent(n), GivenOut(n), n.panic = "none" => Saved(n, victim),
         Replaceable(n, page, victim),
         NEW k, k = Reload(unmapall_pte4(n, victim), page, victim)
  PROVE  SameContents(n, k)
<1> DEFINE u == unmapall_pte4(n, victim)
           saddr == u.pt[page].saddr
           s == swap_in(u, saddr, victim)
<1>1. /\ u \in AnyMachine /\ SameMemory(n, u)
      /\ u.panic = "none" => Unmaps(n, u, victim)
      /\ u.panic # "none" => Unmoved(n, u)
  BY UnmapEffect, UnmapStops
<1>2. k = map_pte4(s, page, victim) /\ k = Reload(u, page, victim)
  BY DEF Reload
<1> HIDE DEF u
<1>3. saddr \in Nat
  BY <1>1 DEF AnyMachine, PTE
<1>4. /\ s \in AnyMachine /\ s.pt = u.pt
      /\ s.panic = "none" => SwapsIn(u, s, saddr, victim)
      /\ s.panic # "none" => Unmoved(u, s)
  BY <1>1, <1>3, SwapInEffect, SwapInStops
<1> HIDE DEF s
<1>5. /\ SameMemory(s, k)
      /\ k.panic = "none" => Maps(s, k, page, victim)
      /\ k.panic # "none" => Unmoved(s, k)
  <2>1. k = map_pte4(s, page, victim) /\ s \in AnyMachine
    BY <1>2, <1>4
  <2>2. SameMemory(s, k) /\ (k.panic = "none" => Maps(s, k, page, victim))
    BY <2>1, MapEffect
  <2>3. k.panic # "none" => Unmoved(s, k)
    BY <2>1, MapStops
  <2>. QED BY <2>2, <2>3
<1>6. CASE u.panic # "none"
  <2>1. k = u
    BY <1>1, <1>2, <1>6, StoppedReload
  <2>. QED BY <1>1, <1>6, <2>1, UnmovedContents
<1>7. CASE u.panic = "none"
  <2>1. Unmaps(n, u, victim) /\ n.panic = "none"
    BY <1>1, <1>7 DEF Unmaps
  <2>2. SameContents(n, u)
    BY <1>1, <2>1, UnmapKeepsContents
  <2>3. /\ Consistent(u) /\ Pointing(u, victim) = {}
        /\ \A pte \in PTEs : u.pt[pte] = IF pte \in Pointing(n, victim)
                THEN [present |-> 0, saddr |-> n.page_map[victim].saddr] ELSE n.pt[pte]
    BY <1>1, <2>1, UnmapKeepsConsistent
  <2>4. GivenOut(u)
    <3>1. ASSUME NEW pte \in PTEs PROVE AddressOf(u, pte) = AddressOf(n, pte)
      <4>1. CASE pte \in Pointing(n, victim)
        <5>1. n.pt[pte].present = 1 /\ Ppn(n.pt[pte]) = victim
          BY <4>1 DEF Pointing
        <5>. QED BY <2>3, <4>1, <5>1 DEF AddressOf
      <4>2. CASE pte \notin Pointing(n, victim)
        <5>1. u.pt[pte] = n.pt[pte]
          BY <2>3, <4>2
        <5>2. n.pt[pte].present = 1 => Ppn(n.pt[pte]) \in Frames \ {victim}
          BY <4>2 DEF Pointing, Consistent, EntriesPointToFrames
        <5>. QED BY <2>1, <5>1, <5>2 DEF AddressOf, Unmaps, SameButTime
      <4>. QED BY <4>1, <4>2
    <3>. QED BY <1>1, <3>1 DEF GivenOut, SameMemory
  <2>5. CASE s.panic # "none"
    <3>1. k = s
      BY <1>2, <2>5, Zenon DEF map_pte4, Guarded
    <3>2. SameContents(u, s)
      BY <1>4, <2>5, UnmovedContents
    <3>. QED BY <2>2, <3>1, <3>2, SameContentsTwice
  <2>6. CASE s.panic = "none"
    <3>1. SwapsIn(u, s, saddr, victim)
      BY <1>4, <2>6
    <3> HIDE DEF saddr
    <3>2. SameContents(u, s)
      BY <1>1, <1>3, <1>4, <2>3, <2>4, <3>1, SwapInKeepsContents
    <3>3. u.pt[page].present # 1
      <4>1. page \in Pointing(n, victim) => u.pt[page].present = 0
        BY <2>3
      <4>2. saddr \in FileAddresses \cup {0}
        BY <3>1 DEF SwapsIn
      <4>3. page \notin Pointing(n, victim) =>
                u.pt[page] = n.pt[page] /\ (n.pt[page].present # 1 \/ Ppn(n.pt[page]) # victim)
        BY <2>3 DEF Pointing
      <4>. QED BY <4>1, <4>2, <4>3 DEF Replaceable, saddr
    <3>4. s.pm[victim] = Content(s, page)
      <4>1. Content(s, page) = IF saddr = 0 THEN Blank ELSE SwapFile(s, saddr)
        BY <1>4, <3>3 DEF Content, saddr
      <4>. QED BY <3>1, <4>1 DEF SwapsIn, SwapFile
    <3>5. SameContents(s, k)
      <4>1. CASE k.panic # "none"
        BY <1>5, <4>1, UnmovedContents
      <4>2. CASE k.panic = "none"
        <5>1. Maps(s, k, page, victim) /\ s.pt[page].present # 1
          BY <1>4, <1>5, <3>3, <4>2
        <5>. QED BY <1>5, <3>4, <5>1, MapKeepsContents
      <4>. QED BY <4>1, <4>2
    <3>. QED BY <2>2, <3>2, <3>5, SameContentsTwice
  <2>. QED BY <2>5, <2>6
<1>. QED BY <1>6, <1>7

\* What a clean frame held can be found again after it was discarded.
LEMMA CleanIsSaved ==
  ASSUME NEW n, Consistent(n), CleanOnSwap(n), FromBlank(n),
         NEW f \in Frames, n.page_map[f].dirty = 0
  PROVE  Saved(n, f)
<1> SUFFICES ASSUME NEW x \in Pointing(n, f) \cap DataPages
             PROVE  n.pm[f] = IF n.page_map[f].saddr = 0 THEN Blank
                              ELSE SwapFile(n, n.page_map[f].saddr)
  BY DEF Saved
<1>1. n.pt[x].present = 1 /\ Ppn(n.pt[x]) = f
  BY DEF Pointing
<1>2. n.page_map[f].allocated = 1
  BY DEF Consistent, InverseMaps
<1>3. n.page_map[f].saddr # 0 => SwapFile(n, n.page_map[f].saddr) = n.pm[f]
  BY <1>2 DEF CleanOnSwap
<1>4. n.page_map[f].saddr = 0 => n.pm[f] = Blank
  BY <1>1 DEF FromBlank, WordAt
<1>. QED BY <1>3, <1>4

\* swap_out writes to the file of no other page, and what it writes can be found there.
LEMMA WriteBackKeepsContents ==
  ASSUME NEW n \in AnyMachine, Consistent(n), NotShared(n), SwapSpaceLeft(n),
         NEW victim \in Frames, n.page_map[victim].allocated = 1,
         n.page_map[victim].dirty = 1,
         NEW w, w = swap_out(n, n.page_map[victim].saddr, victim)
  PROVE  SameContents(n, w) /\ (w.panic = "none" => Saved(w, victim))
<1> DEFINE a == n.page_map[victim].saddr
<1>1. /\ w \in AnyMachine /\ w.pt = n.pt /\ w.page_map = n.page_map /\ w.pm = n.pm
      /\ w.panic # "none" => Unmoved(n, w)
      /\ w.panic = "none" => a >= SWAP_ADDRESS_MIN /\ w.swap = [n.swap EXCEPT ![a] = n.pm[victim]]
  BY SwapOutEffect, SwapOutStops
<1>2. CASE w.panic # "none"
  BY <1>1, <1>2, UnmovedContents
<1>3. CASE w.panic = "none"
  <2>1. a \in FileAddresses /\ a # 0
    <3>1. a \in Nat /\ a >= SWAP_ADDRESS_MIN
      BY <1>1, <1>3 DEF AnyMachine, PD
    <3>2. a \in FileAddresses
      BY <3>1 DEF SwapSpaceLeft
    <3>. QED BY <3>1, <3>2 DEF SWAP_ADDRESS_MIN
  <2>2. n.swap = [s \in FileAddresses |-> n.swap[s]]
    BY DEF AnyMachine
  <2>3. w.swap[a] = n.pm[victim] /\ \A s \in FileAddresses \ {a} : w.swap[s] = n.swap[s]
    <3> HIDE DEF a
    <3>. QED BY <1>1, <1>3, <2>1, <2>2
  <2>4. Saved(w, victim)
    BY <1>1, <2>1, <2>3 DEF Saved, SwapFile
  <2>5. ASSUME NEW x \in DataPages PROVE Content(w, x) = Content(n, x)
    <3>1. CASE n.pt[x].present = 1
      BY <1>1, <3>1 DEF Content, WordAt
    <3>2. CASE n.pt[x].present # 1
      <4> DEFINE b == n.pt[x].saddr
      <4>1. PICK q \in PTEs : q \in Pointing(n, victim)
        BY DEF Consistent, InverseMaps, Pointing
      <4>2. n.pt[q].present = 1 /\ AddressOf(n, q) = a
        BY <4>1, AddressesOfFrames DEF Pointing
      <4>3. x \in PTEs /\ q # x /\ AddressOf(n, x) = b
        BY <3>2, <4>2, Constants DEF AddressOf
      <4>4. b # a
        BY <2>1, <4>2, <4>3 DEF NotShared
      <4>5. SwapFile(w, b) = SwapFile(n, b)
        <5> HIDE DEF a, b
        <5>. QED BY <2>3, <4>4 DEF SwapFile
      <4>. QED BY <1>1, <3>2, <4>5 DEF Content
    <3>. QED BY <3>1, <3>2
  <2>. QED BY <2>4, <2>5 DEF SameContents
<1>. QED BY <1>2, <1>3

\* What the faulting page must be like: absent while there are free frames, and if there
\* are none, nowhere a replacement would lose it from.
Fixable(n, page) ==
    /\ FreeFrames(n) # {} => n.pt[page].present = 0
    /\ FreeFrames(n) = {} => \A victim \in Frames : Replaceable(n, page, victim)

\* fix_pagefault loses no content, whichever frame it takes and wherever it stops.
LEMMA FaultKeepsContents ==
  ASSUME NEW n \in AnyMachine, n.panic = "none", Sound(n), Faithful(n), SwapSpaceLeft(n),
         NEW page \in PTEs, Fixable(n, page),
         NEW k, k = fix_pagefault(n, page)
  PROVE  SameContents(n, k)
<1>1. Consistent(n) /\ GivenOut(n) /\ NotShared(n) /\ CleanOnSwap(n)
      /\ Untouched(n) /\ FromBlank(n) /\ NothingOutWhileFree(n)
  BY DEF Sound, SwapSound, Faithful
<1>2. CASE FreeFrames(n) # {}
  <2> DEFINE f == First(FreeFrames(n))
  <2>1. f \in FreeFrames(n) /\ f \in Frames
    BY <1>2, FirstExists DEF FreeFrames
  <2>2. k = map_pte4(n, page, f)
    BY <1>2 DEF fix_pagefault, UseFreeFrame
  <2> HIDE DEF f
  <2>3. SameMemory(n, k) /\ (k.panic = "none" => Maps(n, k, page, f))
    BY <2>1, <2>2, MapEffect
  <2>4. k.panic # "none" => Unmoved(n, k)
    BY <2>1, <2>2, MapStops
  <2>5. n.pt[page].present = 0 /\ n.pt[page].saddr = 0
    BY <1>1, <1>2 DEF Fixable, NothingOutWhileFree, NothingOut
  <2>6. n.pm[f] = Content(n, page)
    BY <1>1, <2>1, <2>5 DEF Untouched, Content
  <2>7. CASE k.panic # "none"
    BY <2>4, <2>7, UnmovedContents
  <2>8. CASE k.panic = "none"
    <3>1. Maps(n, k, page, f) /\ n.pt[page].present # 1
      BY <2>3, <2>5, <2>8
    <3>. QED BY <2>1, <2>3, <2>6, <3>1, MapKeepsContents
  <2>. QED BY <2>7, <2>8
<1>3. CASE FreeFrames(n) = {} /\ CleanFrames(n) # {}
  <2> DEFINE victim == LRU(n, CleanFrames(n))
  <2>1. victim \in CleanFrames(n) /\ victim \in Frames
    <3>1. CleanFrames(n) \in SUBSET Frames
      BY DEF CleanFrames
    <3>. QED BY <1>3, <3>1, VictimExists
  <2>2. k = Reload(unmapall_pte4(n, victim), page, victim)
    BY <1>3 DEF fix_pagefault, DiscardClean
  <2> HIDE DEF victim
  <2>3. Saved(n, victim)
    BY <1>1, <2>1, CleanIsSaved DEF CleanFrames
  <2>4. Replaceable(n, page, victim)
    BY <1>3, <2>1 DEF Fixable
  <2>. QED BY <1>1, <2>1, <2>2, <2>3, <2>4, ReplaceKeepsContents
<1>4. CASE FreeFrames(n) = {} /\ CleanFrames(n) = {}
  <2> DEFINE victim == LRU(n, Frames)
             w == swap_out(n, n.page_map[victim].saddr, victim)
  <2>1. victim \in Frames
    BY FramesAreNaturals, VictimExists
  <2>2. k = Reload(unmapall_pte4(w, victim), page, victim)
    BY <1>4 DEF fix_pagefault, WriteBackDirty
  <2>3. /\ w \in AnyMachine /\ SameFrames(n, w)
    BY <2>1, SwapOutEffect DEF SameFrames
  <2>4. n.page_map[victim].allocated = 1 /\ n.page_map[victim].dirty = 1
    <3>1. n.page_map[victim] \in PD
      BY <2>1 DEF AnyMachine
    <3>. QED BY <1>4, <2>1, <3>1 DEF PD, FreeFrames, CleanFrames
  <2>5. SameContents(n, w) /\ (w.panic = "none" => Saved(w, victim))
    <3> HIDE DEF victim
    <3>. QED BY <1>1, <2>1, <2>4, WriteBackKeepsContents
  <2> HIDE DEF victim, w
  <2>6. Consistent(w) /\ GivenOut(w)
    <3>1. Consistent(w)
      BY <1>1, <2>3, SameAccountsKeepConsistent DEF SameAccounts, SameFrames
    <3>2. GivenOut(w)
      BY <1>1, <2>3 DEF GivenOut, AddressOf, SameFrames
    <3>. QED BY <3>1, <3>2
  <2>7. Replaceable(w, page, victim)
    <3>1. Replaceable(n, page, victim)
      BY <1>4, <2>1 DEF Fixable
    <3>. QED BY <2>3, <3>1 DEF Replaceable, SameFrames
  <2>8. SameContents(w, k)
    BY <2>1, <2>2, <2>3, <2>5, <2>6, <2>7, ReplaceKeepsContents
  <2>. QED BY <2>5, <2>8, SameContentsTwice
<1>. QED BY <1>2, <1>3, <1>4

\* A frame whose only page is absent before: the pages of the others are where they were.
LEMMA FreeFrameKeepsFaithful ==
  ASSUME NEW n \in AnyMachine, FreeFrames(n) # {}, Sound(n), Faithful(n),
         NEW page \in PTEs, n.pt[page].present = 0,
         NEW k, k = UseFreeFrame(n, page), k.panic = "none", HoldsWords(k)
  PROVE  Faithful(k)
<1> DEFINE f == First(FreeFrames(n))
<1>1. f \in FreeFrames(n) /\ f \in Frames
  BY FirstExists DEF FreeFrames
<1>2. k = map_pte4(n, page, f)
  BY DEF UseFreeFrame
<1> HIDE DEF f
<1>3. k \in AnyMachine /\ SameMemory(n, k) /\ Maps(n, k, page, f)
  BY <1>1, <1>2, MapEffect
<1>4. /\ Pointing(k, f) = Pointing(n, f) \cup {page}
      /\ \A g \in Frames \ {f} : Pointing(k, g) = Pointing(n, g)
  BY <1>1, <1>3, MapKeepsConsistent DEF Sound
<1>5. Pointing(n, f) = {} /\ n.page_map[f].dirty = 0 /\ n.pm[f] = Blank
  BY <1>1 DEF FreeFrames, Sound, Consistent, InverseMaps, Faithful, Untouched
<1>6. SlotsCounted(k)
  <2>1. Attaches(n, k, page, f)
    BY <1>3 DEF Maps, Attaches
  <2>. QED BY <1>1, <2>1, AttachKeepsCounted DEF Faithful
<1>7. \A g \in Frames \ {f} : SameButTime(k.page_map[g], n.page_map[g]) /\ k.pm[g] = n.pm[g]
  BY <1>3 DEF Maps, SameMemory
<1>8. Untouched(k)
  <2> SUFFICES ASSUME NEW g \in FreeFrames(k) PROVE k.page_map[g].dirty = 0 /\ k.pm[g] = Blank
    BY DEF Untouched
  <2>1. g \in Frames /\ g # f
    BY <1>3 DEF FreeFrames, Maps
  <2>2. SameButTime(k.page_map[g], n.page_map[g]) /\ k.pm[g] = n.pm[g]
    BY <1>7, <2>1
  <2>3. g \in FreeFrames(n)
    BY <2>1, <2>2 DEF FreeFrames, SameButTime
  <2>. QED BY <2>2, <2>3 DEF Faithful, Untouched, SameButTime
<1>9. Unshared(k)
  BY <1>4, <1>5 DEF Faithful, Unshared
<1>10. FromBlank(k)
  <2> SUFFICES ASSUME NEW x \in DataPages, k.pt[x].present = 1,
                      k.page_map[Ppn(k.pt[x])].dirty = 0, k.page_map[Ppn(k.pt[x])].saddr = 0
               PROVE  WordAt(k, x) = Blank
    BY DEF FromBlank
  <2>1. CASE x = page
    BY <1>3, <1>5, <2>1 DEF Maps, WordAt, SameMemory
  <2>2. CASE x # page
    <3>1. k.pt[x] = n.pt[x] /\ x \in PTEs
      BY <1>3, <2>2, Constants DEF Maps
    <3>2. Ppn(n.pt[x]) \in Frames \ {f}
      BY <1>5, <3>1 DEF Sound, Consistent, EntriesPointToFrames, Pointing
    <3>3. /\ n.page_map[Ppn(n.pt[x])].dirty = 0 /\ n.page_map[Ppn(n.pt[x])].saddr = 0
          /\ WordAt(k, x) = WordAt(n, x)
      BY <1>7, <3>1, <3>2 DEF SameButTime, WordAt
    <3>. QED BY <3>1, <3>3 DEF Faithful, FromBlank
  <2>. QED BY <2>1, <2>2
<1>. QED BY <1>6, <1>8, <1>9, <1>10 DEF Faithful

\* A replacement gives the page a frame of its own, which is blank if it was never used.
LEMMA ReplacingKeepsFaithful ==
  ASSUME NEW n \in AnyMachine, NEW w \in AnyMachine, NEW k \in AnyMachine, NEW page \in PTEs,
         NEW victim \in Frames, Faithful(n), SameFrames(n, w), Sound(w),
         Replaces(w, k, page, victim), SlotsCounted(k), FreeFrames(k) = {}, HoldsWords(k)
  PROVE  Faithful(k)
<1>1. \A f \in Frames : Pointing(w, f) = Pointing(n, f)
  BY DEF SameFrames, Pointing
<1>2. Unshared(k)
  <2> SUFFICES ASSUME NEW f \in Frames, NEW p \in Pointing(k, f), NEW q \in Pointing(k, f)
               PROVE  p = q
    BY DEF Unshared
  <2>1. CASE f = victim
    BY <2>1 DEF Replaces
  <2>2. CASE f # victim
    BY <1>1, <2>2 DEF Replaces, Faithful, Unshared
  <2>. QED BY <2>1, <2>2
<1>3. FromBlank(k)
  <2> SUFFICES ASSUME NEW x \in DataPages, k.pt[x].present = 1,
                      k.page_map[Ppn(k.pt[x])].dirty = 0, k.page_map[Ppn(k.pt[x])].saddr = 0
               PROVE  WordAt(k, x) = Blank
    BY DEF FromBlank
  <2>1. CASE x = page
    BY <2>1 DEF Replaces, WordAt
  <2>2. CASE x # page
    <3>1. x \in PTEs \ {page}
      BY <2>2, Constants
    <3>2. x \notin Pointing(w, victim) /\ k.pt[x] = w.pt[x]
      BY <3>1 DEF Replaces
    <3>3. Ppn(w.pt[x]) \in Frames \ {victim} /\ w.pt[x] = n.pt[x]
      BY <3>1, <3>2 DEF Sound, Consistent, EntriesPointToFrames, Pointing, SameFrames
    <3>4. /\ n.page_map[Ppn(n.pt[x])].dirty = 0 /\ n.page_map[Ppn(n.pt[x])].saddr = 0
          /\ WordAt(k, x) = WordAt(n, x)
      BY <3>2, <3>3 DEF Replaces, SameFrames, WordAt
    <3>. QED BY <3>2, <3>3, <3>4 DEF Faithful, FromBlank
  <2>. QED BY <2>1, <2>2
<1>. QED BY <1>2, <1>3 DEF Faithful, Untouched

\* fix_pagefault keeps the data of the program where it will look for it.
LEMMA FaultKeepsFaithful ==
  ASSUME NEW n \in AnyMachine, n.panic = "none", Sound(n), Faithful(n), SwapSpaceLeft(n),
         NEW page \in PTEs, Fixable(n, page),
         NEW k, k = fix_pagefault(n, page), k.panic = "none"
  PROVE  Faithful(k)
<1>1. HoldsWords(k)
  BY FaultKeepsContents DEF SameContents, Faithful, HoldsWords
<1>2. CASE FreeFrames(n) # {}
  BY <1>1, <1>2, FreeFrameKeepsFaithful DEF fix_pagefault, Fixable
<1>3. CASE FreeFrames(n) = {}
  <2>1. /\ k \in AnyMachine
        /\ k.internal_swap_addr \in {n.internal_swap_addr, n.internal_swap_addr + 1}
        /\ \E victim \in Frames : \E w \in AnyMachine :
                 /\ SameFrames(n, w) /\ Sound(w)
                 /\ Consistent(k) /\ Replaces(w, k, page, victim)
        /\ SlotsCounted(k)
    BY <1>3, FaultReplaces DEF Fixable, Faithful
  <2>2. PICK victim \in Frames : \E w \in AnyMachine :
                 /\ SameFrames(n, w) /\ Sound(w)
                 /\ Consistent(k) /\ Replaces(w, k, page, victim)
    BY <2>1
  <2>3. PICK w \in AnyMachine :
                 /\ SameFrames(n, w) /\ Sound(w)
                 /\ Consistent(k) /\ Replaces(w, k, page, victim)
    BY <2>2
  <2>4. FreeFrames(k) = {}
    BY <1>3, <2>1, <2>3, ReplacingIsSound
  <2>. QED BY <1>1, <2>1, <2>3, <2>4, ReplacingKeepsFaithful
<1>. QED BY <1>2, <1>3

\* A text page that is lost can be replaced.
LEMMA LostTextIsFixable ==
  ASSUME NEW n, Lost(n), n.pt[TEXT].present = 0
  PROVE  Fixable(n, TEXT)
BY DEF Lost, Fixable, Replaceable

\* A data page that does not translate is absent, or its entry is odd and no address.
LEMMA DataPagesAreFixable ==
  ASSUME NEW n \in AnyMachine, Sound(n), Home(n),
         NEW page \in DataPages, NEW write \in BOOLEAN, ~Translates(n, page, write)
  PROVE  Fixable(n, page)
<1>1. page \in PTEs /\ page # TEXT /\ n.pt[page] \in PTE /\ n.pt[page].present \in {0, 1}
  BY Constants, PresentOrNot
<1>2. n.pt[page].present = 1 => ReadOnly(n.pt[page]) = 1
  BY DEF Translates
<1>3. FreeFrames(n) # {} => n.pt[page].present = 0
  BY <1>1, <1>2 DEF Sound, WritableWhileFree
<1>4. n.pt[page].present = 1 => n.pt[page].saddr \notin FileAddresses \cup {0}
  <2> SUFFICES ASSUME n.pt[page].present = 1
               PROVE  n.pt[page].saddr \notin FileAddresses \cup {0}
    OBVIOUS
  <2>1. Ppn(n.pt[page]) # 0
    BY <1>1 DEF Home, Pointing
  <2>. QED BY <1>1, <1>2, <2>1, ProtectedEntryIsNoAddress
<1>. QED BY <1>3, <1>4 DEF Fixable, Replaceable

\* Accesses change times and dirty bits, and what they change in a frame makes it dirty.
LEMMA AccessKeepsFaithful ==
  ASSUME NEW n \in AnyMachine, NEW k \in AnyMachine, Faithful(n), Accesses(n, k),
         Consistent(n), SlotsCounted(k), HoldsWords(k),
         \A f \in FreeFrames(n) : k.page_map[f].dirty = n.page_map[f].dirty /\ k.pm[f] = n.pm[f]
  PROVE  Faithful(k)
<1>1. FreeFrames(k) = FreeFrames(n)
  BY DEF Accesses, FreeFrames
<1>2. Untouched(k)
  BY <1>1 DEF Faithful, Untouched
<1>3. \A f \in Frames : Pointing(k, f) \subseteq Pointing(n, f)
  <2> SUFFICES ASSUME NEW f \in Frames, NEW x \in Pointing(k, f) PROVE x \in Pointing(n, f)
    OBVIOUS
  <2>. QED BY DEF Accesses, Pointing
<1>4. Unshared(k)
  BY <1>3 DEF Faithful, Unshared
<1>5. FromBlank(k)
  <2> SUFFICES ASSUME NEW x \in DataPages, k.pt[x].present = 1,
                      k.page_map[Ppn(k.pt[x])].dirty = 0, k.page_map[Ppn(k.pt[x])].saddr = 0
               PROVE  WordAt(k, x) = Blank
    BY DEF FromBlank
  <2>1. x \in PTEs
    BY Constants
  <2>2. n.pt[x].present = 1 /\ Ppn(k.pt[x]) = Ppn(n.pt[x])
    BY <2>1 DEF Accesses
  <2>3. Ppn(n.pt[x]) \in Frames
    BY <2>1, <2>2 DEF Consistent, EntriesPointToFrames
  <2>4. /\ n.page_map[Ppn(n.pt[x])].dirty = 0 /\ n.page_map[Ppn(n.pt[x])].saddr = 0
        /\ WordAt(k, x) = WordAt(n, x)
    BY <2>2, <2>3 DEF Accesses, WordAt
  <2>. QED BY <2>2, <2>4 DEF Faithful, FromBlank
<1>. QED BY <1>2, <1>4, <1>5 DEF Faithful

\* A load runs to its end, and changes no content.
LEMMA ReadIsFaithful ==
  ASSUME NEW n \in AnyMachine, n.panic = "none", Consistent(n), Faithful(n),
         NEW page \in PTEs, n.pt[page].present = 1,
         NEW k, k = ReadAccess(n, page)
  PROVE  k.panic = "none" /\ SameContents(n, k) /\ Faithful(k)
<1> DEFINE ppn == Ppn(n.pt[page])
<1>1. ppn \in Frames /\ page \in Pointing(n, ppn)
  BY DEF Consistent, EntriesPointToFrames, Pointing
<1>2. k = pagemap_update_time(n, ppn)
  BY DEF ReadAccess
<1> HIDE DEF ppn
<1>3. Accountable(n, ppn)
  BY <1>1, FramesInUseAreAccountable DEF Faithful
<1>4. k.panic = "none"
  BY <1>1, <1>2, <1>3, AccountingRuns
<1>5. /\ k \in AnyMachine /\ SameMemory(n, k) /\ k.pt = n.pt
      /\ \A f \in Frames : SameButTime(k.page_map[f], n.page_map[f])
  BY <1>1, <1>2, UpdateTimeEffect
<1>6. SameContents(n, k)
  BY <1>5, UnmovedContents DEF Unmoved, SameMemory
<1>7. Faithful(k)
  <2>1. Accesses(n, k)
    BY <1>5 DEF Accesses, SameMemory, SameButTime
  <2>2. SlotsCounted(k)
    BY <1>5 DEF Faithful, SlotsCounted, SameButTime, Used
  <2>3. HoldsWords(k)
    BY <1>6 DEF SameContents, Faithful, HoldsWords
  <2>4. \A f \in FreeFrames(n) : k.page_map[f].dirty = n.page_map[f].dirty /\ k.pm[f] = n.pm[f]
    BY <1>5 DEF FreeFrames, SameButTime, SameMemory
  <2>. QED BY <1>5, <2>1, <2>2, <2>3, <2>4, AccessKeepsFaithful
<1>. QED BY <1>4, <1>6, <1>7

\* A store runs to its end, and changes the content of its page and of no other.
LEMMA WriteIsFaithful ==
  ASSUME NEW n \in AnyMachine, n.panic = "none", Consistent(n), Faithful(n),
         NEW page \in DataPages, n.pt[page].present = 1, NEW word \in Words,
         NEW k, k = WriteAccess(n, page, word)
  PROVE  /\ k.panic = "none" /\ Faithful(k)
         /\ Content(k, page) = word
         /\ \A x \in DataPages \ {page} : Content(k, x) = Content(n, x)
<1> DEFINE ppn == Ppn(n.pt[page])
           w == [n EXCEPT !.pm[ppn] = word]
           t == pagemap_update_time(w, ppn)
<1>1. page \in PTEs /\ ppn \in Frames /\ page \in Pointing(n, ppn)
  BY Constants DEF Consistent, EntriesPointToFrames, Pointing
<1>2. k = pagemap_dirty(t, ppn)
  BY DEF WriteAccess
<1> HIDE DEF ppn
<1>3. /\ w \in AnyMachine /\ w.pt = n.pt /\ w.page_map = n.page_map /\ w.panic = "none"
      /\ w.swap = n.swap /\ w.internal_swap_addr = n.internal_swap_addr
      /\ w.pm = [n.pm EXCEPT ![ppn] = word]
  BY <1>1 DEF AnyMachine
<1> HIDE DEF w
<1>4. Accountable(w, ppn)
  <2>1. Accountable(n, ppn)
    BY <1>1, FramesInUseAreAccountable DEF Faithful
  <2>. QED BY <1>3, <2>1 DEF Accountable
<1>5. /\ t \in AnyMachine /\ SameMemory(w, t) /\ t.pt = n.pt /\ t.panic = "none"
      /\ \A f \in Frames : SameButTime(t.page_map[f], n.page_map[f])
  BY <1>1, <1>3, <1>4, UpdateTimeEffect, AccountingRuns
<1> HIDE DEF t
<1>6. Consistent(t) /\ \A f \in Frames : Pointing(t, f) = Pointing(n, f)
  BY <1>5, SameAccountsKeepConsistent DEF SameAccounts, SameButTime
<1>7. SlotsCounted(t)
  BY <1>5 DEF Faithful, SlotsCounted, SameButTime, Used
<1>8. k.panic = "none"
  <2>1. Accountable(t, ppn)
    BY <1>1, <1>6, <1>7, FramesInUseAreAccountable
  <2>. QED BY <1>1, <1>2, <1>5, <2>1, AccountingRuns
<1>9. k \in AnyMachine /\ SameMemory(t, k) /\ Dirties(t, k, ppn)
  BY <1>1, <1>2, <1>5, <1>8, DirtyEffect
<1>10. \A pte \in PTEs : /\ k.pt[pte].present = n.pt[pte].present
                         /\ Ppn(k.pt[pte]) = Ppn(n.pt[pte])
                         /\ n.pt[pte].present # 1 => k.pt[pte] = n.pt[pte]
  BY <1>1, <1>5, <1>6, <1>9, DirtyKeepsConsistent
<1>11. k.pm = [n.pm EXCEPT ![ppn] = word] /\ k.swap = n.swap
       /\ k.internal_swap_addr = n.internal_swap_addr
  BY <1>3, <1>5, <1>9 DEF SameMemory
<1>12. ASSUME NEW f \in Frames
       PROVE  /\ k.page_map[f].allocated = n.page_map[f].allocated
              /\ k.page_map[f].saddr = n.page_map[f].saddr
              /\ k.page_map[f].mapping = n.page_map[f].mapping
              /\ k.page_map[f].reversed_counter = n.page_map[f].reversed_counter
              /\ k.page_map[f].dirty = IF f = ppn THEN 1 ELSE n.page_map[f].dirty
  <2>1. SameButTime(t.page_map[f], n.page_map[f]) /\ t.page_map[f] \in PD
    BY <1>5 DEF AnyMachine
  <2>2. CASE f = ppn
    BY <1>9, <2>1, <2>2 DEF Dirties, SameButTime, PD
  <2>3. CASE f # ppn
    BY <1>9, <2>1, <2>3 DEF Dirties, SameButTime
  <2>. QED BY <2>2, <2>3
<1>13. n.pm \in [Frames -> Words]
  BY DEF AnyMachine
<1>14. Content(k, page) = word
  BY <1>1, <1>10, <1>11, <1>13 DEF Content, WordAt, ppn
<1>15. ASSUME NEW x \in DataPages \ {page} PROVE Content(k, x) = Content(n, x)
  <2>1. x \in PTEs
    BY Constants
  <2>2. CASE n.pt[x].present = 1
    <3>1. Ppn(n.pt[x]) \in Frames
      BY <2>1, <2>2 DEF Consistent, EntriesPointToFrames
    <3>2. Ppn(n.pt[x]) # ppn
      <4> SUFFICES ASSUME Ppn(n.pt[x]) = ppn PROVE FALSE
        OBVIOUS
      <4>1. x \in Pointing(n, ppn)
        BY <2>1, <2>2 DEF Pointing
      <4>. QED BY <1>1, <4>1 DEF Faithful, Unshared
    <3>. QED BY <1>10, <1>11, <1>13, <2>1, <2>2, <3>1, <3>2 DEF Content, WordAt
  <2>3. CASE n.pt[x].present # 1
    BY <1>10, <1>11, <2>1, <2>3 DEF Content, SwapFile
  <2>. QED BY <2>2, <2>3
<1>16. Faithful(k)
  <2>1. Accesses(n, k)
    <3>1. \A f \in Frames \ {ppn} : k.pm[f] = n.pm[f]
      BY <1>11, <1>13
    <3>. QED BY <1>10, <1>11, <1>12, <3>1 DEF Accesses
  <2>2. SlotsCounted(k)
    BY <1>12 DEF Faithful, SlotsCounted, Used
  <2>3. HoldsWords(k)
    BY <1>14, <1>15 DEF Faithful, HoldsWords
  <2>4. ASSUME NEW f \in FreeFrames(n)
        PROVE  k.page_map[f].dirty = n.page_map[f].dirty /\ k.pm[f] = n.pm[f]
    <3>1. f \in Frames /\ f # ppn
      BY <1>1 DEF FreeFrames, Consistent, InverseMaps
    <3>. QED BY <1>11, <1>12, <1>13, <3>1
  <2>. QED BY <1>9, <2>1, <2>2, <2>3, <2>4, AccessKeepsFaithful
<1>. QED BY <1>8, <1>14, <1>15, <1>16

-----------------------------------------------------------------------------
(* The steps of the instruction cycle                                       *)

\* A translation that succeeds leads to a frame, and to a word.
LEMMA PresentPagesAreInFrames ==
  ASSUME NEW n \in AnyMachine, Consistent(n), NEW page \in PTEs, n.pt[page].present = 1
  PROVE  Ppn(n.pt[page]) \in Frames /\ WordAt(n, page) \in Words
BY DEF Consistent, EntriesPointToFrames, WordAt, AnyMachine

\* Operands of instructions are data pages and words.
LEMMA Operands ==
  ASSUME NEW o \in Operations
  PROVE  /\ o.op = "load" => o.page \in DataPages
         /\ o.op = "store" => o.page \in DataPages /\ o.word \in Words
BY CodeAssumption DEF Operations

\* The words that occur are words.
LEMMA StoreWordsAreWords == StoreWords \subseteq Words /\ Code \in Words /\ Code # Blank
BY CodeAssumption

\* As long as the model has swap space, the next address is one of its type.
LEMMA NextSwapAddress ==
  ASSUME m \in Machine, SwapSpaceLeft(m), NEW n \in AnyMachine,
         n.internal_swap_addr \in {m.internal_swap_addr, m.internal_swap_addr + 1}
  PROVE  n \in Machine
<1>1. /\ m.internal_swap_addr \in Int /\ m.internal_swap_addr >= SWAP_ADDRESS_MIN
      /\ m.internal_swap_addr <= MaxSwapAddress
  BY Constants DEF SwapSpaceLeft, Machine, SWAP_ADDRESS_MIN
<1>2. n.internal_swap_addr \in SWAP_ADDRESS_MIN .. MaxSwapAddress + 1
  BY <1>1, Constants DEF SWAP_ADDRESS_MIN
<1>. QED BY <1>2, MachineIsAnyMachine

\* The next instruction is any that the program may execute.
LEMMA RetireKeepsRegisters ==
  ASSUME Retire, rsp' \in 1 .. NumData + 1, reg' \in Words
  PROVE  Registers' /\ cpu'.stage = "fetch"
BY DEF Retire, Fetching, Registers

\* virtual_read_inst, its fault and the decoding keep the invariant: text that was lost
\* stops the simulator before anything is executed.
LEMMA FetchKeepsInvariant ==
  ASSUME IInv, Running, SwapSpaceLeft(m), Fetch
  PROVE  IInv'
<1>1. m \in AnyMachine /\ m \in Machine /\ Sound(m) /\ Consistent(m) /\ TextKept
  BY MachineIsAnyMachine DEF IInv, Sound
<1>2. TEXT \in PTEs /\ m.pt[TEXT].present \in {0, 1}
  BY <1>1, Constants, PresentOrNot
<1>3. CASE ~Translates(m, TEXT, FALSE) /\ PageFault(TEXT)
  <2>1. m.pt[TEXT].present = 0
    BY <1>2, <1>3 DEF Translates
  <2>2. Lost(m)
    BY <1>1, <2>1 DEF TextKept, Home, Pointing
  <2>3. /\ m' \in AnyMachine
        /\ m'.internal_swap_addr \in {m.internal_swap_addr, m.internal_swap_addr + 1}
        /\ m'.panic = "none" => Sound(m') /\ Lost(m')
    BY <1>1, <1>3, <2>1, <2>2, TextFaultIsSound DEF PageFault
  <2>4. m' \in Machine
    BY <1>1, <2>3, NextSwapAddress
  <2>5. Registers' /\ cpu'.stage = "fetch"
    BY <1>3 DEF IInv, Registers, PageFault, Fetch
  <2>. QED BY <2>3, <2>4, <2>5 DEF IInv, TextKept, Running, Sound
<1>4. CASE /\ Translates(m, TEXT, FALSE)
           /\ m' = Guarded(ReadAccess(m, TEXT), WordAt(m, TEXT) = Code, "decode",
                          ReadAccess(m, TEXT))
           /\ cpu' = [cpu EXCEPT !.stage = "execute"]
  <2> DEFINE k == ReadAccess(m, TEXT)
  <2>1. m.pt[TEXT].present = 1
    BY <1>4 DEF Translates
  <2>2. Ppn(m.pt[TEXT]) \in Frames
    BY <1>1, <1>2, <2>1, PresentPagesAreInFrames
  <2>3. /\ k \in AnyMachine /\ k.internal_swap_addr = m.internal_swap_addr
        /\ k.panic = "none" => Sound(k) /\ (Home(m) => Home(k))
    BY <1>1, <1>2, <2>2, ReadIsSound DEF Running
  <2>4. \/ m' = k /\ k.panic # "none"
        \/ m' = k /\ WordAt(m, TEXT) = Code
        \/ m' = [k EXCEPT !.panic = "decode"]
    BY <1>4 DEF Guarded
  <2> HIDE DEF k
  <2>5. /\ m' \in AnyMachine /\ m'.internal_swap_addr = m.internal_swap_addr
        /\ m'.panic = "none" => m' = k /\ k.panic = "none" /\ WordAt(m, TEXT) = Code
    BY <2>3, <2>4 DEF AnyMachine, Panics
  <2>6. m' \in Machine
    BY <1>1, <2>5, NextSwapAddress
  <2>7. WordAt(m, TEXT) = Code => Home(m)
    BY <1>1, <2>1, StoreWordsAreWords DEF TextKept, Lost, WordAt
  <2>8. Registers'
    BY <1>4 DEF IInv, Registers, Fetch
  <2>. QED BY <2>3, <2>5, <2>6, <2>7, <2>8 DEF IInv, TextKept, Running
<1>. QED BY <1>3, <1>4 DEF Fetch

\* A fault of the data access and the restart keep the invariant.
LEMMA FaultKeepsInvariant ==
  ASSUME IInv, Running, SwapSpaceLeft(m), cpu.stage = "execute",
         NEW page \in DataPages, NEW write \in BOOLEAN, ~Translates(m, page, write),
         PageFault(page), rsp' \in 1 .. NumData + 1, reg' \in Words
  PROVE  IInv'
<1>1. m \in AnyMachine /\ m \in Machine /\ Sound(m) /\ Home(m)
  BY MachineIsAnyMachine DEF IInv, TextKept
<1>2. /\ m' \in AnyMachine
      /\ m'.internal_swap_addr \in {m.internal_swap_addr, m.internal_swap_addr + 1}
      /\ m'.panic = "none" => Sound(m') /\ (Home(m') \/ Lost(m'))
  BY <1>1, DataFaultIsSound DEF PageFault
<1>3. m' \in Machine
  BY <1>1, <1>2, NextSwapAddress
<1>4. Registers' /\ cpu'.stage = "fetch"
  BY DEF IInv, Registers, PageFault
<1>. QED BY <1>2, <1>3, <1>4 DEF IInv, TextKept, Running

\* virtual_read_data keeps the invariant.
LEMMA ReadKeepsInvariant ==
  ASSUME IInv, Running, SwapSpaceLeft(m), cpu.stage = "execute",
         NEW page \in DataPages, Translates(m, page, FALSE), ReadData(page),
         rsp' \in 1 .. NumData + 1, Retire
  PROVE  IInv'
<1>1. m \in AnyMachine /\ m \in Machine /\ Sound(m) /\ Consistent(m) /\ Home(m)
  BY MachineIsAnyMachine DEF IInv, TextKept, Sound
<1>2. page \in PTEs /\ m.pt[page].present = 1
  BY Constants DEF Translates
<1>3. Ppn(m.pt[page]) \in Frames /\ reg' \in Words
  BY <1>1, <1>2, PresentPagesAreInFrames DEF ReadData
<1>4. /\ m' \in AnyMachine /\ m'.internal_swap_addr = m.internal_swap_addr
      /\ m'.panic = "none" => Sound(m') /\ Home(m')
  BY <1>1, <1>2, <1>3, ReadIsSound DEF ReadData, Running
<1>5. m' \in Machine
  BY <1>1, <1>4, NextSwapAddress
<1>6. Registers' /\ cpu'.stage = "fetch"
  BY <1>3, RetireKeepsRegisters
<1>. QED BY <1>4, <1>5, <1>6 DEF IInv, TextKept, Running

\* virtual_write_data keeps the invariant, whether it faults or stores.
LEMMA WriteKeepsInvariant ==
  ASSUME IInv, Running, SwapSpaceLeft(m), cpu.stage = "execute",
         NEW page \in DataPages, NEW word \in Words, WriteData(page, word),
         rsp' \in 1 .. NumData + 1, reg' \in Words
  PROVE  IInv'
<1>1. CASE ~Translates(m, page, TRUE) /\ PageFault(page)
  BY <1>1, FaultKeepsInvariant
<1>2. CASE /\ Translates(m, page, TRUE)
           /\ m' = WriteAccess(m, page, word)
           /\ Retire
  <2>1. m \in AnyMachine /\ m \in Machine /\ Sound(m) /\ Consistent(m) /\ Home(m)
    BY MachineIsAnyMachine DEF IInv, TextKept, Sound
  <2>2. page \in PTEs /\ m.pt[page].present = 1
    BY <1>2, Constants DEF Translates
  <2>3. Ppn(m.pt[page]) \in Frames
    BY <2>1, <2>2, PresentPagesAreInFrames
  <2>4. /\ m' \in AnyMachine /\ m'.internal_swap_addr = m.internal_swap_addr
        /\ m'.panic = "none" => Sound(m') /\ Home(m')
    BY <1>2, <2>1, <2>2, <2>3, WriteIsSound
  <2>5. m' \in Machine
    BY <2>1, <2>4, NextSwapAddress
  <2>6. Registers' /\ cpu'.stage = "fetch"
    BY <1>2, RetireKeepsRegisters
  <2>. QED BY <2>4, <2>5, <2>6 DEF IInv, TextKept, Running
<1>. QED BY <1>1, <1>2 DEF WriteData

\* Each handler of isa.c keeps the invariant.
LEMMA ExecuteKeepsInvariant ==
  ASSUME IInv, Running, SwapSpaceLeft(m), Execute
  PROVE  IInv'
<1>1. /\ cpu.stage = "execute" /\ cpu.inst \in Operations
      /\ rsp \in 1 .. NumData + 1 /\ reg \in Words
  BY DEF Execute, IInv, Registers
<1>2. CASE ExecuteRegister
  <2>1. Registers' /\ cpu'.stage = "fetch"
    BY <1>1, <1>2, RetireKeepsRegisters DEF ExecuteRegister
  <2>2. Home(m) /\ m' = m
    BY <1>1, <1>2 DEF IInv, TextKept, ExecuteRegister
  <2>. QED BY <2>1, <2>2 DEF IInv, TextKept, Running
<1>3. CASE ExecuteLoad
  <2> DEFINE page == cpu.inst.page
  <2>1. page \in DataPages /\ rsp' = rsp
    BY <1>1, <1>3, Operands DEF ExecuteLoad
  <2>2. CASE ~Translates(m, page, FALSE) /\ PageFault(page) /\ UNCHANGED reg
    BY <1>1, <2>1, <2>2, FaultKeepsInvariant
  <2>3. CASE Translates(m, page, FALSE) /\ ReadData(page) /\ Retire
    BY <1>1, <2>1, <2>3, ReadKeepsInvariant
  <2>. QED BY <1>3, <2>2, <2>3 DEF ExecuteLoad
<1>4. CASE ExecuteStore
  <2>1. cpu.inst.page \in DataPages /\ cpu.inst.word \in Words
    BY <1>1, <1>4, Operands DEF ExecuteStore
  <2>. QED BY <1>1, <1>4, <2>1, WriteKeepsInvariant DEF ExecuteStore
<1>5. CASE ExecutePush
  <2>1. rsp - 1 \in DataPages /\ rsp' \in 1 .. NumData + 1 /\ reg' = reg
        /\ WriteData(rsp - 1, reg)
    BY <1>1, <1>5, Constants DEF ExecutePush, DataPages
  <2>. QED BY <1>1, <2>1, WriteKeepsInvariant
<1>6. CASE ExecutePop
  <2>1. rsp \in DataPages
    BY <1>6 DEF ExecutePop
  <2>2. CASE ~Translates(m, rsp, FALSE) /\ PageFault(rsp) /\ UNCHANGED <<rsp, reg>>
    BY <1>1, <2>1, <2>2, FaultKeepsInvariant
  <2>3. CASE Translates(m, rsp, FALSE) /\ ReadData(rsp) /\ rsp' = rsp + 1 /\ Retire
    <3>1. rsp' \in 1 .. NumData + 1
      BY <2>1, <2>3, Constants DEF DataPages
    <3>. QED BY <1>1, <2>1, <2>3, <3>1, ReadKeepsInvariant
  <2>. QED BY <1>6, <2>2, <2>3 DEF ExecutePop
<1>. QED BY <1>2, <1>3, <1>4, <1>5, <1>6 DEF Execute

\* The instruction cycle keeps the invariant.
LEMMA NextKeepsInvariant == IInv /\ [Next]_vars => IInv'
<1> SUFFICES ASSUME IInv, [Next]_vars PROVE IInv'
  OBVIOUS
<1>1. CASE Next
  BY <1>1, FetchKeepsInvariant, ExecuteKeepsInvariant DEF Next
<1>2. CASE UNCHANGED vars
  BY <1>2 DEF vars, system, IInv, Registers, Running, TextKept
<1>. QED BY <1>1, <1>2

-----------------------------------------------------------------------------
(* The loaders                                                              *)

\* A loop over the frames, in index order
LEMMA FrameInduction ==
  ASSUME NEW P, 0 \in P, \A f \in Frames \ {0} : f - 1 \in P => f \in P
  PROVE  Frames \subseteq P
<1>1. NumFrames - 1 \in Nat /\ Frames = 0 .. NumFrames - 1
  BY Constants DEF Frames
<1>2. \A f \in 1 .. NumFrames - 1 : f - 1 \in P => f \in P
  BY <1>1
<1>. QED BY <1>1, <1>2, InductionUpTo

\* A loop over the frames computes a function.
LEMMA FrameLoopExists ==
  ASSUME NEW A \in AnyMachine, NEW G \in [Frames \X AnyMachine -> AnyMachine]
  PROVE  \E h \in [Frames -> AnyMachine] :
            h[0] = A /\ \A f \in Frames \ {0} : h[f] = G[<<f, h[f - 1]>>]
<1> DEFINE last == NumFrames - 1
<1>1. last \in Nat /\ Frames = 0 .. last /\ Frames \ {0} = 1 .. last
  BY Constants DEF Frames
<1> HIDE DEF last
<1> DEFINE H == [p \in (1 .. last) \X AnyMachine |-> G[p]]
<1>2. H \in [(1 .. last) \X AnyMachine -> AnyMachine]
      /\ \A f \in 1 .. last, n \in AnyMachine : H[<<f, n>>] = G[<<f, n>>]
  BY <1>1
<1> HIDE DEF H
<1>3. PICK h : Runs(h, last, AnyMachine, A, H)
  BY <1>1, <1>2, LoopExists
<1>4. \A f \in 1 .. last : h[f - 1] \in AnyMachine
  BY <1>1, <1>3 DEF Runs
<1>. QED BY <1>1, <1>2, <1>3, <1>4 DEF Runs

LoadStep(n, f) == allocate_swappage(pagemap_dirty(map_pte4(n, f, f), f), f)

\* The loader of case 3 has a page for every frame.
LEMMA FramesArePages == Frames \subseteq PTEs
<1>. QED BY Constants, PTEAssumption DEF Frames

\* A turn of the first loop of test_pagefault.c, case 3, keeps types.
LEMMA LoadStepTyped ==
  ASSUME NEW n \in AnyMachine, NEW f \in Frames
  PROVE  LoadStep(n, f) \in AnyMachine
<1>1. map_pte4(n, f, f) \in AnyMachine
  BY MapEffect, FramesArePages
<1>2. pagemap_dirty(map_pte4(n, f, f), f) \in AnyMachine
  BY <1>1, DirtyEffect
<1>. QED BY <1>2, AllocateEffect DEF LoadStep

\* Each turn allocates one swap page.
LEMMA LoadStepCounts ==
  ASSUME NEW n \in AnyMachine, NEW f \in Frames
  PROVE  LoadStep(n, f).internal_swap_addr = n.internal_swap_addr + 1
<1> DEFINE p == map_pte4(n, f, f)
           d == pagemap_dirty(p, f)
<1>1. p \in AnyMachine /\ SameMemory(n, p)
  BY MapEffect, FramesArePages
<1>2. d \in AnyMachine /\ SameMemory(p, d)
  <2> HIDE DEF p
  <2>. QED BY <1>1, DirtyEffect
<1>3. LoadStep(n, f) = allocate_swappage(d, f)
  BY DEF LoadStep
<1> HIDE DEF p, d
<1>4. LoadStep(n, f).internal_swap_addr = d.internal_swap_addr + 1
  BY <1>2, <1>3, AllocateEffect
<1>. QED BY <1>1, <1>2, <1>4 DEF SameMemory

\* The first loop of case 3 computes the function AllMapped is defined by.
LEMMA LoaderLoop ==
  ASSUME TextLoaded \in AnyMachine
  PROVE  \E h :
            /\ h[0] = TextLoaded
            /\ \A f \in Frames \ {0} : h[f] = LoadStep(h[f - 1], f)
            /\ AllMapped = h[NumFrames - 1]
<1> DEFINE load[f \in Frames] ==
            IF f = 0 THEN TextLoaded
            ELSE allocate_swappage(pagemap_dirty(map_pte4(load[f - 1], f, f), f), f)
           G == [p \in Frames \X AnyMachine |-> LoadStep(p[2], p[1])]
<1>1. AllMapped = load[NumFrames - 1]
  BY DEF AllMapped
<1>2. \E h : h = [f \in Frames |-> IF f = 0 THEN TextLoaded
            ELSE allocate_swappage(pagemap_dirty(map_pte4(h[f - 1], f, f), f), f)]
  <2>1. G \in [Frames \X AnyMachine -> AnyMachine]
    BY LoadStepTyped
  <2>2. \A f \in Frames, n \in AnyMachine : G[<<f, n>>] = LoadStep(n, f)
    OBVIOUS
  <2> HIDE DEF G
  <2>3. PICK h \in [Frames -> AnyMachine] :
            /\ h[0] = TextLoaded
            /\ \A f \in Frames \ {0} : h[f] = G[<<f, h[f - 1]>>]
    BY <2>1, FrameLoopExists
  <2>4. ASSUME NEW f \in Frames
        PROVE  h[f] = IF f = 0 THEN TextLoaded ELSE LoadStep(h[f - 1], f)
    <3>1. f # 0 => f - 1 \in Frames
      BY Constants DEF Frames
    <3>. QED BY <2>2, <2>3, <3>1
  <2>5. h = [f \in Frames |-> IF f = 0 THEN TextLoaded ELSE LoadStep(h[f - 1], f)]
    BY <2>4
  <2>. QED BY <2>5 DEF LoadStep
<1>3. load = [f \in Frames |-> IF f = 0 THEN TextLoaded
            ELSE allocate_swappage(pagemap_dirty(map_pte4(load[f - 1], f, f), f), f)]
  BY <1>2 DEF load
<1> HIDE DEF load
<1>4. \A f \in Frames : load[f] = IF f = 0 THEN TextLoaded
            ELSE allocate_swappage(pagemap_dirty(map_pte4(load[f - 1], f, f), f), f)
  BY <1>3
<1>. QED BY <1>1, <1>4, Constants DEF LoadStep

TouchStep(n, victim, f) == IF f = victim THEN n ELSE pagemap_update_time(n, f)

\* A turn of the second loop of case 3 keeps types.
LEMMA TouchStepTyped ==
  ASSUME NEW n \in AnyMachine, NEW f \in Frames, NEW victim
  PROVE  TouchStep(n, victim, f) \in AnyMachine
BY UpdateTimeEffect DEF TouchStep

\* The second loop of case 3 computes the function AllButTouched is defined by.
LEMMA TouchLoop ==
  ASSUME NEW n \in AnyMachine, NEW victim \in Frames
  PROVE  \E h :
            /\ h[0] = TouchStep(n, victim, 0)
            /\ \A f \in Frames \ {0} : h[f] = TouchStep(h[f - 1], victim, f)
            /\ AllButTouched(n, victim) = h[NumFrames - 1]
<1> DEFINE touch[f \in Frames] ==
            LET before == IF f = 0 THEN n ELSE touch[f - 1]
            IN  IF f = victim THEN before ELSE pagemap_update_time(before, f)
           G == [p \in Frames \X AnyMachine |-> TouchStep(p[2], victim, p[1])]
           start == TouchStep(n, victim, 0)
<1>1. AllButTouched(n, victim) = touch[NumFrames - 1]
  BY DEF AllButTouched
<1>2. \E h : h = [f \in Frames |->
            LET before == IF f = 0 THEN n ELSE h[f - 1]
            IN  IF f = victim THEN before ELSE pagemap_update_time(before, f)]
  <2>1. G \in [Frames \X AnyMachine -> AnyMachine]
    BY TouchStepTyped
  <2>2. \A f \in Frames, k \in AnyMachine : G[<<f, k>>] = TouchStep(k, victim, f)
    OBVIOUS
  <2> HIDE DEF G
  <2> HIDE DEF start, touch
  <2>3. start \in AnyMachine
    BY TouchStepTyped, Constants DEF start
  <2>4. PICK h \in [Frames -> AnyMachine] :
            /\ h[0] = start
            /\ \A f \in Frames \ {0} : h[f] = G[<<f, h[f - 1]>>]
    BY <2>1, <2>3, FrameLoopExists
  <2>5. ASSUME NEW f \in Frames
        PROVE  h[f] = TouchStep(IF f = 0 THEN n ELSE h[f - 1], victim, f)
    <3>1. f # 0 => f - 1 \in Frames
      BY Constants DEF Frames
    <3>. QED BY <2>2, <2>4, <3>1 DEF start
  <2>6. h = [f \in Frames |-> TouchStep(IF f = 0 THEN n ELSE h[f - 1], victim, f)]
    BY <2>5
  <2>. QED BY <2>6 DEF TouchStep
<1>3. touch = [f \in Frames |->
            LET before == IF f = 0 THEN n ELSE touch[f - 1]
            IN  IF f = victim THEN before ELSE pagemap_update_time(before, f)]
  BY <1>2 DEF touch
<1> HIDE DEF touch
<1>4. \A f \in Frames : touch[f] = TouchStep(IF f = 0 THEN n ELSE touch[f - 1], victim, f)
  BY <1>3 DEF TouchStep
<1>. QED BY <1>1, <1>4, Constants

\* What the loader leaves to the program, and keeps while it loads
AllWritable(n) == \A pte \in PTEs : ReadOnly(n.pt[pte]) = 0
LoadedWell(n) ==
    /\ Consistent(n) /\ Home(n) /\ AllWritable(n) /\ SwapSound(n) /\ NothingOut(n)
    /\ Faithful(n)

\* As long as nothing was swapped out, all that is to be found is in frames, or blank.
LEMMA NothingOutHoldsWords ==
  ASSUME NEW n \in AnyMachine, Consistent(n), NothingOut(n)
  PROVE  HoldsWords(n)
<1> SUFFICES ASSUME NEW x \in DataPages PROVE Content(n, x) \in Words
  BY DEF HoldsWords
<1>1. x \in PTEs /\ n.pt[x].present \in {0, 1}
  BY Constants, PresentOrNot
<1>2. CASE n.pt[x].present = 1
  BY <1>1, <1>2, PresentPagesAreInFrames DEF Content
<1>3. CASE n.pt[x].present = 0
  BY <1>1, <1>3, WordsAssumption DEF Content, NothingOut
<1>. QED BY <1>1, <1>2, <1>3

\* The first loader, cases 1 and 2, leaves the text alone in frame 0.
LEMMA TextLoadedWell ==
  /\ TextLoaded \in AnyMachine
  /\ TextLoaded.internal_swap_addr = SWAP_ADDRESS_MIN
  /\ TextLoaded.panic = "none"
  /\ LoadedWell(TextLoaded) /\ \A pte \in PTEs \ {TEXT} : TextLoaded.pt[pte] = NoPage
<1> DEFINE entry == [present |-> 1, saddr |-> 0]
           b == [BlankMachine EXCEPT !.pt = [BlankMachine.pt EXCEPT ![TEXT] = entry]]
           k == map_pte4(b, TEXT, 0)
<1>1. TEXT \in PTEs /\ 0 \in Frames /\ 0 \in Nat
  BY Constants
<1>2. /\ b.page_map = [f \in Frames |-> FreshPD] /\ b.panic = "none"
      /\ b.pt = [[pte \in PTEs |-> NoPage] EXCEPT ![TEXT] = entry]
      /\ b.pm = [f \in Frames |-> Blank] /\ b.internal_swap_addr = SWAP_ADDRESS_MIN
      /\ b.swap = [s \in FileAddresses |-> NoFile]
      /\ b = [page_map |-> b.page_map, pt |-> b.pt, pm |-> b.pm, swap |-> b.swap,
              internal_swap_addr |-> b.internal_swap_addr, panic |-> b.panic]
  BY DEF BlankMachine, page_map_init
<1>3. b \in AnyMachine
  <2>1. FreshPD \in PD
    BY DEF FreshPD, PD
  <2>2. entry \in PTE /\ NoPage \in PTE
    BY DEF PTE, NoPage
  <2> HIDE DEF b, entry
  <2>3. b.pt \in [PTEs -> PTE] /\ b.page_map \in [Frames -> PD]
    BY <1>2, <2>1, <2>2
  <2>4. b.pm \in [Frames -> Words] /\ b.swap \in [FileAddresses -> Words \cup {NoFile, EmptyFile}]
        /\ b.internal_swap_addr \in Nat /\ b.panic \in Panics
    BY <1>2, WordsAssumption DEF SWAP_ADDRESS_MIN, Panics
  <2>. QED BY <1>2, <2>3, <2>4 DEF AnyMachine
<1>4. link_page_table(BlankMachine, TEXT, 0) = k
  <2>1. WithPpn([BlankMachine.pt[TEXT] EXCEPT !.present = 1], 0) = entry
    <3>1. BlankMachine.pt[TEXT] = NoPage
      BY <1>1 DEF BlankMachine
    <3>2. [NoPage EXCEPT !.present = 1] = entry
      BY DEF NoPage
    <3>3. WithPpn(entry, 0) = entry
      BY DEF WithPpn
    <3>. QED BY <3>1, <3>2, <3>3
  <2>. QED BY <2>1 DEF link_page_table
<1> HIDE DEF b, entry
<1>5. /\ k \in AnyMachine /\ SameMemory(b, k)
      /\ k.panic = "none" => Maps(b, k, TEXT, 0)
  BY <1>1, <1>3, MapEffect
<1>6. TextLoaded = [k EXCEPT !.pm[0] = Code]
  BY <1>4 DEF TextLoaded
<1>7. SlotsCounted(b) /\ k.panic = "none"
  <2>1. /\ Used(FreshPD) = {} /\ FreshPD.reversed_counter = 0 /\ FreshPD.dirty = 0
        /\ Cardinality({}) = 0
    BY FS_EmptySet DEF Used, FreshPD
  <2>2. \A f \in Frames : b.page_map[f] = FreshPD
    BY <1>2
  <2>3. SlotsCounted(b)
    BY <2>1, <2>2 DEF SlotsCounted
  <2>4. b.page_map[0].reversed_counter = 0 /\ b.page_map[0].dirty = 0
    BY <1>1, <2>1, <2>2
  <2>. QED BY <1>1, <1>2, <1>3, <2>3, <2>4, MapStops DEF k
<1> HIDE DEF k
<1>8. /\ TextLoaded \in AnyMachine /\ TextLoaded.pt = k.pt /\ TextLoaded.page_map = k.page_map
      /\ TextLoaded.internal_swap_addr = k.internal_swap_addr /\ TextLoaded.panic = k.panic
  BY <1>1, <1>5, <1>6, StoreWordsAreWords DEF AnyMachine
<1>9. ASSUME k.panic = "none"
      PROVE  /\ Consistent(k) /\ Home(k) /\ AllWritable(k)
             /\ \A pte \in PTEs \ {TEXT} : k.pt[pte] = NoPage
  <2>1. Maps(b, k, TEXT, 0)
    BY <1>5, <1>9
  <2>2. \A pte \in PTEs \ {TEXT} : k.pt[pte] = NoPage
    BY <1>2, <2>1 DEF Maps
  <2>3. b.pt[TEXT] = entry
    BY <1>1, <1>2
  <2>4. AllWritable(k)
    <3>1. ReadOnly(k.pt[TEXT]) = 0
      BY <2>1, <2>3 DEF Maps, ReadOnly, entry
    <3>2. ReadOnly(NoPage) = 0
      BY DEF ReadOnly, NoPage
    <3>. QED BY <2>2, <3>1, <3>2 DEF AllWritable
  <2>5. /\ Pointing(k, 0) = {TEXT}
        /\ \A f \in Frames \ {0} : Pointing(k, f) = {}
    BY <1>1, <2>1, <2>2 DEF Maps, Pointing, NoPage
  <2>6. /\ k.page_map[0].saddr = 0 /\ k.page_map[0].reversed_counter = 1
        /\ k.page_map[0].allocated = 1 /\ Mappers(k.page_map[0]) = {TEXT}
        /\ k.page_map[0].dirty = 0
    <3>1. b.page_map[0] = FreshPD /\ Mappers(FreshPD) = {} /\ FreshPD.reversed_counter = 0
      BY <1>1, <1>2 DEF Mappers, FreshPD
    <3>. QED BY <2>1, <2>3, <3>1 DEF Maps, entry
  <2>7. ASSUME NEW f \in Frames \ {0}
        PROVE  /\ k.page_map[f].reversed_counter = 0 /\ k.page_map[f].allocated = 0
               /\ Mappers(k.page_map[f]) = {}
    <3>1. SameButTime(k.page_map[f], FreshPD)
      BY <1>2, <2>1 DEF Maps
    <3>. QED BY <3>1 DEF SameButTime, FreshPD, Mappers
  <2>8. Cardinality({TEXT}) = 1 /\ Cardinality({}) = 0
    BY FS_EmptySet, FS_Singleton
  <2>9. InverseMaps(k)
    <3> SUFFICES ASSUME NEW f \in Frames
                 PROVE  /\ Mappers(k.page_map[f]) = Pointing(k, f)
                        /\ k.page_map[f].reversed_counter = Cardinality(Pointing(k, f))
                        /\ k.page_map[f].allocated = 1 <=> Pointing(k, f) # {}
      BY DEF InverseMaps
    <3>1. CASE f = 0
      BY <2>5, <2>6, <2>8, <3>1
    <3>2. CASE f # 0
      BY <2>5, <2>7, <2>8, <3>2
    <3>. QED BY <3>1, <3>2
  <2>10. SameDirtyBits(k) /\ EntriesPointToFrames(k)
    BY <1>1, <2>1, <2>2, <2>6 DEF SameDirtyBits, EntriesPointToFrames, Maps, NoPage
  <2>11. Home(k)
    BY <2>5, <2>6 DEF Home
  <2>. QED BY <2>2, <2>4, <2>9, <2>10, <2>11 DEF Consistent
<1>10. ASSUME TextLoaded.panic = "none"
      PROVE  LoadedWell(TextLoaded) /\ \A pte \in PTEs \ {TEXT} : TextLoaded.pt[pte] = NoPage
  <2>1. /\ Consistent(k) /\ Home(k) /\ AllWritable(k)
        /\ \A pte \in PTEs \ {TEXT} : k.pt[pte] = NoPage
    BY <1>8, <1>9, <1>10
  <2>2. Consistent(TextLoaded) /\ \A f \in Frames : Pointing(TextLoaded, f) = Pointing(k, f)
    BY <1>5, <1>8, <2>1, SameAccountsKeepConsistent DEF SameAccounts
  <2>3. /\ TextLoaded.pt[TEXT].present = 1 /\ Ppn(TextLoaded.pt[TEXT]) = 0
        /\ TextLoaded.page_map[0].saddr = 0
    BY <1>1, <1>8, <2>1 DEF Home, Pointing
  <2>4. \A pte \in PTEs : AddressOf(TextLoaded, pte) = 0
    BY <1>8, <2>1, <2>3 DEF AddressOf, NoPage
  <2>5. GivenOut(TextLoaded) /\ NotShared(TextLoaded)
    BY <2>4 DEF GivenOut, NotShared
  <2>6. NothingOut(TextLoaded) /\ NothingOutWhileFree(TextLoaded)
    BY <1>8, <2>1, <2>3 DEF NothingOut, NothingOutWhileFree, NoPage
  <2>7. CleanOnSwap(TextLoaded)
    <3>1. ASSUME NEW f \in Frames, TextLoaded.page_map[f].allocated = 1
          PROVE  TextLoaded.page_map[f].saddr = 0
      <4>1. PICK pte \in PTEs : pte \in Pointing(TextLoaded, f)
        BY <2>2, <3>1 DEF Consistent, InverseMaps, Pointing
      <4>. QED BY <1>8, <2>2, <2>4, <4>1, AddressesOfFrames
    <3>. QED BY <3>1 DEF CleanOnSwap
  <2>8. Maps(b, k, TEXT, 0)
    BY <1>5, <1>7
  <2>9. SlotsCounted(TextLoaded)
    <3>1. Attaches(b, k, TEXT, 0)
      BY <2>8 DEF Maps, Attaches
    <3>2. SlotsCounted(k)
      BY <1>1, <1>7, <3>1, AttachKeepsCounted
    <3>. QED BY <1>8, <3>2 DEF SlotsCounted
  <2>10. Untouched(TextLoaded)
    <3> SUFFICES ASSUME NEW f \in FreeFrames(TextLoaded)
                 PROVE  TextLoaded.page_map[f].dirty = 0 /\ TextLoaded.pm[f] = Blank
      BY DEF Untouched
    <3>1. f \in Frames \ {0}
      BY <1>8, <2>8 DEF FreeFrames, Maps
    <3>2. SameButTime(k.page_map[f], b.page_map[f]) /\ b.page_map[f] = FreshPD
      BY <1>2, <2>8, <3>1 DEF Maps
    <3>3. k.pm[f] = Blank
      BY <1>2, <1>5, <3>1 DEF SameMemory
    <3>4. k.pm = [g \in Frames |-> k.pm[g]] /\ TextLoaded.pm = [k.pm EXCEPT ![0] = Code]
      BY <1>5, <1>6 DEF AnyMachine
    <3>. QED BY <1>8, <3>1, <3>2, <3>3, <3>4 DEF SameButTime, FreshPD
  <2>11. \A x \in DataPages : TextLoaded.pt[x] = NoPage
    BY <1>8, <2>1, Constants
  <2>12. Unshared(TextLoaded)
    <3>1. ASSUME NEW f \in Frames, NEW x \in Pointing(TextLoaded, f) PROVE x = TEXT
      BY <1>8, <2>1 DEF Pointing, NoPage
    <3>. QED BY <3>1 DEF Unshared
  <2>13. FromBlank(TextLoaded)
    BY <2>11 DEF FromBlank, NoPage
  <2>14. HoldsWords(TextLoaded)
    BY <1>8, <2>2, <2>6, NothingOutHoldsWords
  <2>. QED BY <1>1, <1>8, <2>1, <2>2, <2>5, <2>6, <2>7, <2>9, <2>10, <2>12, <2>13, <2>14
           DEF LoadedWell, Home, AllWritable, SwapSound, Faithful
<1>. QED BY <1>2, <1>5, <1>8, <1>10, <1>7 DEF SameMemory

\* One turn of the loop of case 3: frame f, which is not in use yet, gets page f.
LEMMA LoadStepKeepsWell ==
  ASSUME NEW n \in AnyMachine, NEW f \in Frames \ {0},
         n.panic = "none" => LoadedWell(n) /\ n.pt[f] = NoPage /\ Pointing(n, f) = {},
         NEW k, k = LoadStep(n, f)
  PROVE  /\ k \in AnyMachine
         /\ k.panic = "none" =>
              /\ n.panic = "none" /\ LoadedWell(k)
              /\ \A pte \in PTEs \ {f} : n.pt[pte] = NoPage => k.pt[pte] = NoPage
              /\ Pointing(k, f) = {f}
              /\ \A g \in Frames \ {f} : Pointing(k, g) = Pointing(n, g)
         /\ n.panic = "none" => k.panic = "none"
<1> DEFINE p == map_pte4(n, f, f)
           d == pagemap_dirty(p, f)
<1>1. f \in PTEs /\ f \in Frames /\ f # 0
  BY FramesArePages
<1>2. /\ p \in AnyMachine /\ SameMemory(n, p)
      /\ p.panic = "none" => Maps(n, p, f, f)
  BY <1>1, MapEffect
<1> HIDE DEF p
<1>3. /\ d \in AnyMachine /\ SameMemory(p, d)
      /\ d.panic = "none" => Dirties(p, d, f)
  BY <1>1, <1>2, DirtyEffect
<1>4. k = allocate_swappage(d, f)
  BY DEF LoadStep, p
<1> HIDE DEF d
<1>5. /\ k \in AnyMachine /\ k.pt = d.pt /\ k.panic = d.panic
      /\ k.internal_swap_addr = d.internal_swap_addr + 1
      /\ d.panic = "none" => SwapsIn(d, k, 0, f)
  BY <1>1, <1>3, <1>4, AllocateEffect
<1>6. ASSUME n.panic = "none" PROVE k.panic = "none"
  <2>1. Consistent(n) /\ SlotsCounted(n) /\ Untouched(n) /\ n.pt[f] = NoPage /\ Pointing(n, f) = {}
    BY <1>6 DEF LoadedWell, Faithful
  <2>2. n.page_map[f].reversed_counter = 0 /\ n.page_map[f].dirty = 0
    <3>1. n.page_map[f].reversed_counter = 0
      BY <1>1, <2>1, FS_EmptySet DEF Consistent, InverseMaps
    <3>2. f \in FreeFrames(n)
      <4>1. n.page_map[f] \in PD
        BY <1>1 DEF AnyMachine
      <4>. QED BY <1>1, <2>1, <4>1 DEF Consistent, InverseMaps, FreeFrames, PD
    <3>. QED BY <2>1, <3>1, <3>2 DEF Untouched
  <2>3. p.panic = "none"
    BY <1>1, <1>6, <2>1, <2>2, MapStops DEF p
  <2>4. Maps(n, p, f, f)
    BY <1>2, <2>3
  <2>5. Consistent(p) /\ Pointing(p, f) = {f}
    BY <1>1, <1>2, <2>1, <2>4, MapKeepsConsistent DEF NoPage
  <2>6. SlotsCounted(p)
    <3>1. Attaches(n, p, f, f)
      BY <2>4 DEF Maps, Attaches
    <3>. QED BY <1>1, <2>1, <3>1, AttachKeepsCounted
  <2>7. Accountable(p, f)
    BY <1>1, <2>5, <2>6, FramesInUseAreAccountable
  <2>8. d.panic = "none"
    BY <1>1, <1>2, <2>3, <2>7, AccountingRuns DEF d
  <2>. QED BY <1>5, <2>8
<1>7. ASSUME k.panic = "none"
      PROVE  /\ n.panic = "none" /\ LoadedWell(k) /\ Pointing(k, f) = {f}
             /\ \A pte \in PTEs \ {f} : n.pt[pte] = NoPage => k.pt[pte] = NoPage
             /\ \A g \in Frames \ {f} : Pointing(k, g) = Pointing(n, g)
  <2>1. SwapsIn(d, k, 0, f) /\ Dirties(p, d, f) /\ Maps(n, p, f, f)
    BY <1>2, <1>3, <1>5, <1>7 DEF Maps, Dirties
  <2>2. LoadedWell(n) /\ n.pt[f] = NoPage /\ Pointing(n, f) = {} /\ n.panic = "none"
    BY <2>1 DEF Maps
  <2>3. /\ Consistent(p) /\ \A g \in Frames \ {f} : Pointing(p, g) = Pointing(n, g)
        /\ Pointing(p, f) = {f}
    BY <1>1, <1>2, <2>1, <2>2, MapKeepsConsistent DEF LoadedWell, NoPage
  <2>4. /\ Consistent(d)
        /\ \A g \in Frames : Pointing(d, g) = Pointing(p, g)
        /\ \A pte \in PTEs : /\ ReadOnly(d.pt[pte]) = ReadOnly(p.pt[pte])
                             /\ d.pt[pte].present = p.pt[pte].present
                             /\ Ppn(d.pt[pte]) = Ppn(p.pt[pte])
                             /\ p.pt[pte].present # 1 => d.pt[pte] = p.pt[pte]
    BY <1>1, <1>2, <1>3, <2>1, <2>3, DirtyKeepsConsistent
  <2>5. SameAccounts(d, k)
    <3>1. ASSUME NEW g \in Frames
          PROVE  /\ k.page_map[g].allocated = d.page_map[g].allocated
                 /\ k.page_map[g].dirty = d.page_map[g].dirty
                 /\ k.page_map[g].mapping = d.page_map[g].mapping
                 /\ k.page_map[g].reversed_counter = d.page_map[g].reversed_counter
      <4>1. CASE g = f
        BY <2>1, <4>1 DEF SwapsIn
      <4>2. CASE g # f
        BY <2>1, <4>2 DEF SwapsIn
      <4>. QED BY <4>1, <4>2
    <3>. QED BY <1>5, <3>1 DEF SameAccounts
  <2>6. Consistent(k) /\ \A g \in Frames : Pointing(k, g) = Pointing(d, g)
    BY <1>3, <1>5, <2>4, <2>5, SameAccountsKeepConsistent
  <2>7. AllWritable(k)
    <3>1. ReadOnly(p.pt[f]) = 0
      BY <2>1, <2>2 DEF Maps, NoPage, ReadOnly
    <3>2. \A pte \in PTEs \ {f} : ReadOnly(p.pt[pte]) = 0
      BY <2>1, <2>2 DEF Maps, LoadedWell, AllWritable
    <3>. QED BY <1>1, <1>5, <2>4, <3>1, <3>2 DEF AllWritable
  <2>8. Home(k)
    <3>1. Pointing(k, 0) = {TEXT}
      BY <1>1, <2>2, <2>3, <2>4, <2>6, Constants DEF LoadedWell, Home
    <3>2. k.page_map[0].saddr = 0
      BY <1>1, <2>1, <2>2, Constants DEF SwapsIn, Dirties, Maps, SameButTime, LoadedWell, Home
    <3>. QED BY <3>1, <3>2 DEF Home
  <2>9. ASSUME NEW pte \in PTEs \ {f}, n.pt[pte] = NoPage
        PROVE  k.pt[pte] = NoPage
    <3>1. p.pt[pte] = NoPage
      BY <2>1, <2>9 DEF Maps
    <3>2. pte \notin Mappers(p.page_map[f])
      <4>1. Mappers(p.page_map[f]) = Pointing(p, f)
        BY <1>1, <2>3 DEF Consistent, InverseMaps
      <4>2. pte \notin Pointing(p, f)
        BY <3>1 DEF Pointing, NoPage
      <4>. QED BY <4>1, <4>2
    <3>. QED BY <1>5, <2>1, <3>1, <3>2 DEF Dirties
  <2>10. SwapSound(p)
    <3>1. n.page_map[f].allocated = 0
      <4>1. n.page_map[f] \in PD
        BY DEF AnyMachine
      <4>. QED BY <2>2, <4>1 DEF LoadedWell, Consistent, InverseMaps, PD
    <3>. QED BY <1>1, <1>2, <2>1, <2>2, <3>1, MapKeepsSwap DEF LoadedWell, NoPage
  <2>11. SwapSound(d)
    <3>1. ASSUME NEW g \in Frames
          PROVE  /\ d.page_map[g].allocated = p.page_map[g].allocated
                 /\ d.page_map[g].saddr = p.page_map[g].saddr
                 /\ d.page_map[g].dirty = IF g = f THEN 1 ELSE p.page_map[g].dirty
      <4>1. p.page_map[g] \in PD
        BY <1>2 DEF AnyMachine
      <4>2. CASE g = f
        BY <2>1, <4>1, <4>2 DEF Dirties, PD
      <4>3. CASE g # f
        BY <2>1, <4>3 DEF Dirties
      <4>. QED BY <4>2, <4>3
    <3>2. Accesses(p, d)
      BY <1>3, <2>4, <3>1 DEF Accesses, SameMemory
    <3>. QED BY <1>2, <1>3, <2>3, <2>10, <3>2, AccessKeepsSwap
  <2>12. Pointing(d, f) = {f} /\ d.page_map[f].dirty = 1
    <3>1. p.page_map[f] \in PD
      BY <1>1, <1>2 DEF AnyMachine
    <3>. QED BY <1>1, <2>1, <2>3, <2>4, <3>1 DEF Dirties, PD
  <2>13. NothingOut(k)
    <3>1. NothingOut(p)
      BY <2>1, <2>2 DEF NothingOut, LoadedWell, Maps
    <3>. QED BY <1>5, <2>4, <3>1, PresentOrNot, <1>2 DEF NothingOut
  <2>14. SwapSound(k)
    BY <1>1, <1>3, <1>5, <2>1, <2>4, <2>11, <2>12, <2>13, AllocateKeepsSwap
  <2>15. \A g \in Frames \ {f} : Pointing(k, g) = Pointing(n, g)
    BY <2>3, <2>4, <2>6
  <2>16. SlotsCounted(k)
    <3>1. Attaches(n, p, f, f)
      BY <2>1 DEF Maps, Attaches
    <3>2. SlotsCounted(p)
      BY <1>1, <2>2, <3>1, AttachKeepsCounted DEF LoadedWell, Faithful
    <3>3. ASSUME NEW g \in Frames
          PROVE  /\ d.page_map[g].mapping = p.page_map[g].mapping
                 /\ d.page_map[g].reversed_counter = p.page_map[g].reversed_counter
      <4>1. p.page_map[g] \in PD
        BY <1>2 DEF AnyMachine
      <4>2. CASE g = f
        BY <2>1, <4>1, <4>2 DEF Dirties, PD
      <4>3. CASE g # f
        BY <2>1, <4>3 DEF Dirties
      <4>. QED BY <4>2, <4>3
    <3>. QED BY <2>5, <3>2, <3>3 DEF SlotsCounted, SameAccounts, Used
  <2>17. ASSUME NEW g \in Frames \ {f}
         PROVE  SameButTime(k.page_map[g], n.page_map[g]) /\ k.pm[g] = n.pm[g]
    BY <1>2, <1>3, <2>1 DEF Maps, Dirties, SwapsIn, SameMemory
  <2>18. k.page_map[f].allocated = 1 /\ k.page_map[f].dirty = 1
    <3>1. p.page_map[f] \in PD
      BY <1>1, <1>2 DEF AnyMachine
    <3>. QED BY <2>1, <2>12, <3>1 DEF SwapsIn, Dirties, Maps, PD
  <2>19. Untouched(k)
    <3> SUFFICES ASSUME NEW g \in FreeFrames(k) PROVE k.page_map[g].dirty = 0 /\ k.pm[g] = Blank
      BY DEF Untouched
    <3>1. g \in Frames \ {f}
      BY <2>18 DEF FreeFrames
    <3>2. SameButTime(k.page_map[g], n.page_map[g]) /\ k.pm[g] = n.pm[g]
      BY <2>17, <3>1
    <3>3. g \in FreeFrames(n)
      BY <3>1, <3>2 DEF FreeFrames, SameButTime
    <3>. QED BY <2>2, <3>2, <3>3 DEF LoadedWell, Faithful, Untouched, SameButTime
  <2>20. Pointing(k, f) = {f} /\ Unshared(k)
    <3>1. Pointing(k, f) = {f}
      BY <1>1, <2>6, <2>12
    <3>. QED BY <2>2, <2>15, <3>1 DEF LoadedWell, Faithful, Unshared
  <2>21. FromBlank(k)
    <3> SUFFICES ASSUME NEW x \in DataPages, k.pt[x].present = 1,
                        k.page_map[Ppn(k.pt[x])].dirty = 0, k.page_map[Ppn(k.pt[x])].saddr = 0
                 PROVE  WordAt(k, x) = Blank
      BY DEF FromBlank
    <3>1. x \in PTEs /\ Ppn(k.pt[x]) \in Frames \ {f}
      BY <2>6, <2>18, Constants DEF Consistent, EntriesPointToFrames
    <3>2. x \in Pointing(n, Ppn(k.pt[x]))
      BY <2>15, <3>1 DEF Pointing
    <3>3. n.pt[x].present = 1 /\ Ppn(n.pt[x]) = Ppn(k.pt[x])
      BY <3>2 DEF Pointing
    <3>4. /\ n.page_map[Ppn(n.pt[x])].dirty = 0 /\ n.page_map[Ppn(n.pt[x])].saddr = 0
          /\ WordAt(k, x) = WordAt(n, x)
      BY <2>17, <3>1, <3>3 DEF SameButTime, WordAt
    <3>. QED BY <2>2, <3>3, <3>4 DEF LoadedWell, Faithful, FromBlank
  <2>22. HoldsWords(k)
    BY <1>5, <2>6, <2>13, NothingOutHoldsWords
  <2>. QED BY <2>2, <2>6, <2>7, <2>8, <2>9, <2>13, <2>14, <2>15, <2>16, <2>19, <2>20, <2>21, <2>22
           DEF LoadedWell, Faithful
<1>. QED BY <1>5, <1>6, <1>7

AllInUse(n) == \A g \in Frames : Pointing(n, g) # {}

\* The first loop of case 3 keeps entries and frames consistent and the text at home,
\* none of its assertions fails, and it puts a page into every frame.
LEMMA AllMappedWell ==
  /\ AllMapped \in AnyMachine
  /\ AllMapped.internal_swap_addr = SWAP_ADDRESS_MIN + NumFrames - 1
  /\ AllMapped.panic = "none" /\ LoadedWell(AllMapped) /\ AllInUse(AllMapped)
<1>1. PICK h : /\ h[0] = TextLoaded
               /\ \A f \in Frames \ {0} : h[f] = LoadStep(h[f - 1], f)
               /\ AllMapped = h[NumFrames - 1]
  BY LoaderLoop, TextLoadedWell
<1> DEFINE Loading(f) ==
        /\ h[f] \in AnyMachine
        /\ h[f].internal_swap_addr = SWAP_ADDRESS_MIN + f
        /\ h[f].panic = "none" /\ LoadedWell(h[f])
        /\ \A pte \in PTEs : pte > f => h[f].pt[pte] = NoPage
        /\ \A g \in Frames : IF g > f THEN Pointing(h[f], g) = {} ELSE Pointing(h[f], g) # {}
<1>2. Loading(0)
  <2>1. \A pte \in PTEs : pte > 0 => pte \in PTEs \ {TEXT}
    BY DEF TEXT
  <2>2. ASSUME NEW g \in Frames
        PROVE  IF g > 0 THEN Pointing(TextLoaded, g) = {} ELSE Pointing(TextLoaded, g) # {}
    <3>1. Pointing(TextLoaded, 0) = {TEXT} /\ \A pte \in PTEs \ {TEXT} : TextLoaded.pt[pte] = NoPage
      BY TextLoadedWell DEF LoadedWell, Home
    <3>2. g \in Nat
      BY Constants
    <3>3. CASE g = 0
      BY <3>1, <3>3
    <3>4. CASE g # 0
      BY <3>1, <3>2, <3>4 DEF Pointing, NoPage
    <3>. QED BY <3>3, <3>4
  <2>. QED BY <1>1, <2>1, <2>2, TextLoadedWell DEF SWAP_ADDRESS_MIN
<1>3. ASSUME NEW f \in Frames \ {0}, Loading(f - 1)
      PROVE  Loading(f)
  <2>1. h[f] = LoadStep(h[f - 1], f) /\ f \in PTEs /\ f \in Nat /\ f > f - 1
    BY <1>1, FramesArePages, Constants
  <2>2. LoadedWell(h[f - 1]) /\ h[f - 1].pt[f] = NoPage /\ Pointing(h[f - 1], f) = {}
    BY <1>3, <2>1
  <2>3. /\ h[f] \in AnyMachine /\ h[f].panic = "none" /\ LoadedWell(h[f])
        /\ \A pte \in PTEs \ {f} : h[f - 1].pt[pte] = NoPage => h[f].pt[pte] = NoPage
        /\ Pointing(h[f], f) = {f}
        /\ \A g \in Frames \ {f} : Pointing(h[f], g) = Pointing(h[f - 1], g)
    BY <1>3, <2>1, <2>2, LoadStepKeepsWell
  <2>4. h[f].internal_swap_addr = SWAP_ADDRESS_MIN + f
    <3>1. h[f].internal_swap_addr = h[f - 1].internal_swap_addr + 1
      BY <1>3, <2>1, LoadStepCounts
    <3>. QED BY <1>3, <2>1, <3>1 DEF SWAP_ADDRESS_MIN
  <2>5. \A pte \in PTEs : pte > f => pte > f - 1 /\ pte \in PTEs \ {f}
    BY <2>1, PTEAssumption, Constants
  <2>6. ASSUME NEW g \in Frames
        PROVE  IF g > f THEN Pointing(h[f], g) = {} ELSE Pointing(h[f], g) # {}
    <3>1. g \in Nat
      BY Constants
    <3>2. CASE g = f
      BY <2>1, <2>3, <3>2
    <3>3. CASE g # f
      <4>1. (g > f) = (g > f - 1) /\ g \in Frames \ {f}
        BY <2>1, <3>1, <3>3
      <4>. QED BY <1>3, <2>3, <4>1
    <3>. QED BY <3>2, <3>3
  <2>. QED BY <1>3, <2>3, <2>4, <2>5, <2>6
<1> HIDE DEF Loading
<1>4. Loading(NumFrames - 1)
  <2>1. 0 \in {f \in Frames : Loading(f)}
    BY <1>2, Constants
  <2>2. \A f \in Frames \ {0} :
            f - 1 \in {g \in Frames : Loading(g)} => f \in {g \in Frames : Loading(g)}
    BY <1>3
  <2>3. Frames \subseteq {f \in Frames : Loading(f)}
    BY <2>1, <2>2, FrameInduction
  <2>. QED BY <2>3, Constants DEF Frames
<1>5. \A g \in Frames : ~(g > NumFrames - 1)
  BY Constants DEF Frames
<1>. QED BY <1>1, <1>4, <1>5, Constants DEF Loading, AllInUse, SWAP_ADDRESS_MIN

\* A turn of the second loop changes times only, and its assertion holds.
LEMMA TouchStepKeepsWell ==
  ASSUME NEW n \in AnyMachine, NEW f \in Frames, NEW victim,
         n.panic = "none", LoadedWell(n), AllInUse(n),
         NEW k, k = TouchStep(n, victim, f)
  PROVE  /\ k \in AnyMachine /\ k.internal_swap_addr = n.internal_swap_addr
         /\ k.panic = "none" /\ LoadedWell(k) /\ AllInUse(k)
<1>1. CASE f = victim
  BY <1>1 DEF TouchStep
<1>2. CASE f # victim
  <2>1. k = pagemap_update_time(n, f)
    BY <1>2 DEF TouchStep
  <2>2. /\ k \in AnyMachine /\ SameMemory(n, k) /\ k.pt = n.pt
        /\ \A g \in Frames : SameButTime(k.page_map[g], n.page_map[g])
    BY <2>1, UpdateTimeEffect
  <2>3. k.panic = "none"
    <3>1. Accountable(n, f)
      BY FramesInUseAreAccountable DEF LoadedWell, Faithful, AllInUse
    <3>. QED BY <2>1, <3>1, AccountingRuns
  <2>4. Consistent(k) /\ \A g \in Frames : Pointing(k, g) = Pointing(n, g)
    BY <2>2, SameAccountsKeepConsistent DEF LoadedWell, SameAccounts, SameButTime
  <2>5. Accesses(n, k)
    BY <2>2 DEF Accesses, SameMemory, SameButTime
  <2>6. SwapSound(k)
    BY <2>2, <2>5, AccessKeepsSwap DEF LoadedWell
  <2>7. Faithful(k)
    <3>1. SlotsCounted(k)
      BY <2>2 DEF LoadedWell, Faithful, SlotsCounted, SameButTime, Used
    <3>2. HoldsWords(k)
      BY <2>2, <2>4, NothingOutHoldsWords DEF LoadedWell, NothingOut
    <3>3. \A g \in FreeFrames(n) : k.page_map[g].dirty = n.page_map[g].dirty /\ k.pm[g] = n.pm[g]
      BY <2>2 DEF FreeFrames, SameButTime, SameMemory
    <3>. QED BY <2>2, <2>5, <3>1, <3>2, <3>3, AccessKeepsFaithful DEF LoadedWell
  <2>. QED BY <2>2, <2>3, <2>4, <2>6, <2>7, Constants
           DEF LoadedWell, Home, AllWritable, NothingOut, AllInUse, SameMemory, SameButTime
<1>. QED BY <1>1, <1>2

\* The second loop of case 3 changes times only, and its assertions hold.
LEMMA TouchedWell ==
  ASSUME NEW n \in AnyMachine, NEW victim \in Frames,
         n.panic = "none", LoadedWell(n), AllInUse(n),
         NEW k, k = AllButTouched(n, victim)
  PROVE  /\ k \in AnyMachine /\ k.internal_swap_addr = n.internal_swap_addr
         /\ k.panic = "none" /\ LoadedWell(k)
<1>1. PICK h : /\ h[0] = TouchStep(n, victim, 0)
               /\ \A f \in Frames \ {0} : h[f] = TouchStep(h[f - 1], victim, f)
               /\ k = h[NumFrames - 1]
  BY TouchLoop
<1> DEFINE Well(f) ==
        /\ h[f] \in AnyMachine /\ h[f].internal_swap_addr = n.internal_swap_addr
        /\ h[f].panic = "none" /\ LoadedWell(h[f]) /\ AllInUse(h[f])
<1>2. Well(0)
  BY <1>1, TouchStepKeepsWell, Constants
<1>3. ASSUME NEW f \in Frames \ {0}, Well(f - 1)
      PROVE  Well(f)
  BY <1>1, <1>3, TouchStepKeepsWell
<1> HIDE DEF Well
<1>4. Well(NumFrames - 1)
  <2>1. 0 \in {f \in Frames : Well(f)}
    BY <1>2, Constants
  <2>2. \A f \in Frames \ {0} :
            f - 1 \in {g \in Frames : Well(g)} => f \in {g \in Frames : Well(g)}
    BY <1>3
  <2>3. Frames \subseteq {f \in Frames : Well(f)}
    BY <2>1, <2>2, FrameInduction
  <2>. QED BY <2>3, Constants DEF Frames
<1>. QED BY <1>1, <1>4 DEF Well

\* The text page may be dirty as well: its frame is in use and has no swap page.
LEMMA DirtyTextWell ==
  LET n == AllMapped
      k == pagemap_dirty(n, 0)
  IN  /\ k \in AnyMachine /\ k.internal_swap_addr = n.internal_swap_addr
      /\ k.panic = "none" /\ LoadedWell(k) /\ AllInUse(k)
<1> DEFINE n == AllMapped
           k == pagemap_dirty(n, 0)
<1> HIDE DEF n
<1>1. n \in AnyMachine /\ n.panic = "none" /\ LoadedWell(n) /\ AllInUse(n)
  BY AllMappedWell DEF n
<1>2. k.panic = "none"
  <2>1. Accountable(n, 0)
    BY <1>1, FramesInUseAreAccountable, Constants DEF LoadedWell, Faithful, AllInUse
  <2>. QED BY <1>1, <2>1, AccountingRuns, Constants
<1>3. k \in AnyMachine /\ SameMemory(n, k) /\ Dirties(n, k, 0)
  BY <1>1, <1>2, Constants, DirtyEffect
<1> HIDE DEF k
<1>4. /\ Consistent(k)
      /\ \A f \in Frames : Pointing(k, f) = Pointing(n, f)
      /\ \A pte \in PTEs : /\ ReadOnly(k.pt[pte]) = ReadOnly(n.pt[pte])
                           /\ k.pt[pte].present = n.pt[pte].present
                           /\ Ppn(k.pt[pte]) = Ppn(n.pt[pte])
                           /\ n.pt[pte].present # 1 => k.pt[pte] = n.pt[pte]
  BY <1>1, <1>3, Constants, DirtyKeepsConsistent DEF LoadedWell
<1>5. ASSUME NEW g \in Frames
      PROVE  /\ k.page_map[g].allocated = n.page_map[g].allocated
             /\ k.page_map[g].saddr = n.page_map[g].saddr
             /\ k.page_map[g].mapping = n.page_map[g].mapping
             /\ k.page_map[g].reversed_counter = n.page_map[g].reversed_counter
             /\ k.page_map[g].dirty = IF g = 0 THEN 1 ELSE n.page_map[g].dirty
  <2>1. n.page_map[g] \in PD
    BY <1>1 DEF AnyMachine
  <2>2. CASE g = 0
    BY <1>3, <2>1, <2>2 DEF Dirties, PD
  <2>3. CASE g # 0
    BY <1>3, <2>3 DEF Dirties
  <2>. QED BY <2>2, <2>3
<1>6. Accesses(n, k)
  BY <1>3, <1>4, <1>5 DEF Accesses, SameMemory
<1>7. SwapSound(k)
  BY <1>1, <1>3, <1>6, AccessKeepsSwap DEF LoadedWell
<1>8. NothingOut(k)
  BY <1>1, <1>4, PresentOrNot DEF LoadedWell, NothingOut
<1>9. Faithful(k)
  <2>1. SlotsCounted(k)
    BY <1>1, <1>5 DEF LoadedWell, Faithful, SlotsCounted, Used
  <2>2. HoldsWords(k)
    BY <1>3, <1>4, <1>8, NothingOutHoldsWords
  <2>3. FreeFrames(n) = {}
    BY <1>1 DEF FreeFrames, AllInUse, LoadedWell, Consistent, InverseMaps
  <2>. QED BY <1>1, <1>3, <1>6, <2>1, <2>2, <2>3, AccessKeepsFaithful DEF LoadedWell
<1>10. Home(k) /\ AllWritable(k) /\ AllInUse(k)
  BY <1>1, <1>4, <1>5, Constants DEF LoadedWell, Home, AllWritable, AllInUse
<1>. QED BY <1>2, <1>3, <1>4, <1>7, <1>8, <1>9, <1>10 DEF LoadedWell, SameMemory, n, k

\* test_pagefault.c loads a running machine in which every page is where it belongs.
LEMMA LoadersLoadWell ==
  ASSUME NEW n \in Loaded
  PROVE  n \in Machine /\ n.panic = "none" /\ LoadedWell(n)
<1> DEFINE last == SWAP_ADDRESS_MIN + NumFrames - 1
<1>1. /\ n \in AnyMachine /\ n.panic = "none" /\ LoadedWell(n)
      /\ n.internal_swap_addr \in {SWAP_ADDRESS_MIN, last}
  <2>1. CASE n = TextLoaded
    BY <2>1, TextLoadedWell
  <2>2. ASSUME NEW victim \in Frames, NEW b \in {AllMapped, pagemap_dirty(AllMapped, 0)},
               n = AllButTouched(b, victim)
        PROVE  /\ n \in AnyMachine /\ n.panic = "none" /\ LoadedWell(n)
               /\ n.internal_swap_addr = last
    <3>1. /\ b \in AnyMachine /\ b.panic = "none" /\ LoadedWell(b) /\ AllInUse(b)
          /\ b.internal_swap_addr = last
      BY AllMappedWell, DirtyTextWell
    <3> HIDE DEF last
    <3>. QED BY <2>2, <3>1, TouchedWell
  <2>. QED BY <2>1, <2>2 DEF Loaded
<1>2. /\ SWAP_ADDRESS_MIN \in SWAP_ADDRESS_MIN .. MaxSwapAddress + 1
      /\ last \in SWAP_ADDRESS_MIN .. MaxSwapAddress + 1
  BY Constants, SwapBoundAssumption DEF SWAP_ADDRESS_MIN
<1> HIDE DEF last
<1>. QED BY <1>1, <1>2, MachineIsAnyMachine

\* Each state that test_pagefault.c loads satisfies the invariant.
LEMMA InvariantAtStart == Init => IInv
<1> SUFFICES ASSUME Init PROVE IInv
  OBVIOUS
<1>1. m \in Machine /\ LoadedWell(m)
  BY LoadersLoadWell DEF Init
<1>2. Registers
  <2>1. NumData + 1 \in 1 .. NumData + 1
    BY Constants
  <2>. QED BY <2>1, StoreWordsAreWords DEF Init, Fetching, Registers
<1>3. Sound(m) /\ TextKept
  BY <1>1 DEF LoadedWell, Sound, WritableWhileFree, AllWritable, TextKept
<1>. QED BY <1>1, <1>2, <1>3 DEF IInv

-----------------------------------------------------------------------------
\* The invariant of the instruction cycle and the fault handler holds.
LEMMA InvariantHolds == Spec => []IInv
BY InvariantAtStart, NextKeepsInvariant, PTL DEF Spec

\* In every reachable state of pagefault.c the reverse mapping and the page table
\* are inverse to each other and their dirty bits agree, as long as none of its
\* assertions has failed: for any number of frames, pages and mappings of a frame,
\* whatever the program does.
THEOREM ReverseMapIsConsistent == Spec => []ReverseMapConsistent
<1>1. IInv => ReverseMapConsistent
  BY DEF IInv, Sound, Consistent, ReverseMapConsistent
<1>. QED BY InvariantHolds, <1>1, PTL

\* No two pages are ever to be found in the same swap file, however often
\* pagefault.c moves a swap address from the entry to the frame and back.
THEOREM PagesHaveTheirOwnFile == Spec => []SwapFilesNotShared
<1>1. IInv => SwapFilesNotShared
  BY DEF IInv, Sound, SwapSound, NotShared, AddressOf, SwapFilesNotShared
<1>. QED BY InvariantHolds, <1>1, PTL

\* A clean frame with a swap address can be discarded (pagefault.c:426): the file
\* at that address holds what the frame holds.
THEOREM DiscardedFramesAreOnSwap == Spec => []CleanFrameIsOnSwap
<1>1. IInv => CleanFrameIsOnSwap
  BY DEF IInv, Sound, SwapSound, CleanOnSwap, CleanFrameIsOnSwap
<1>. QED BY InvariantHolds, <1>1, PTL
-----------------------------------------------------------------------------
(* Paging is transparent                                                    *)

\* The second invariant: the data of the program is where it will be looked for.
DataKept == Running => Faithful(m)

\* What a step is to the program: nothing at all, the load that the instruction in
\* flight asks for, or the store that it asks for.
KeepsData == op' = NoOp /\ SameContents(m, m') /\ reg' = reg
LoadsData ==
    /\ Running'
    /\ \E x \in DataPages :
          op' = LoadOf(Proc, x) /\ SameContents(m, m') /\ reg' = Content(m, x)
StoresData ==
    /\ Running' /\ reg' = reg
    /\ \E x \in DataPages, w \in Words :
          /\ op' = StoreOf(Proc, x, w)
          /\ Content(m', x) = w
          /\ \A y \in DataPages \ {x} : Content(m', y) = Content(m, y)

DataStep == KeepsData \/ LoadsData \/ StoresData

\* A fault of a data page is invisible to the program, and so is the restart.
LEMMA FaultIsInvisible ==
  ASSUME IInv, DataKept, Running, SwapSpaceLeft(m), cpu.stage = "execute",
         NEW page \in DataPages, NEW write \in BOOLEAN, ~Translates(m, page, write),
         PageFault(page), reg' = reg
  PROVE  DataKept' /\ DataStep
<1>1. m \in AnyMachine /\ m.panic = "none" /\ Sound(m) /\ Home(m) /\ Faithful(m)
  BY MachineIsAnyMachine DEF IInv, TextKept, DataKept, Running
<1>2. page \in PTEs /\ Fixable(m, page)
  BY <1>1, Constants, DataPagesAreFixable
<1>3. m' = fix_pagefault(m, page) /\ op' = NoOp
  BY DEF PageFault
<1>4. SameContents(m, m')
  BY <1>1, <1>2, <1>3, FaultKeepsContents
<1>5. m'.panic = "none" => Faithful(m')
  BY <1>1, <1>2, <1>3, FaultKeepsFaithful
<1>. QED BY <1>3, <1>4, <1>5 DEF DataKept, Running, DataStep, KeepsData

\* Fetching is invisible, whether it faults or reads something that is no code.
LEMMA FetchIsInvisible ==
  ASSUME IInv, DataKept, Running, SwapSpaceLeft(m), Fetch
  PROVE  DataKept' /\ DataStep
<1>1. /\ m \in AnyMachine /\ m.panic = "none" /\ Sound(m) /\ Consistent(m) /\ TextKept
      /\ Faithful(m) /\ reg' = reg
  BY MachineIsAnyMachine DEF IInv, DataKept, Running, Sound, Fetch
<1>2. TEXT \in PTEs /\ m.pt[TEXT].present \in {0, 1}
  BY <1>1, Constants, PresentOrNot
<1>3. CASE ~Translates(m, TEXT, FALSE) /\ PageFault(TEXT)
  <2>1. m.pt[TEXT].present = 0
    BY <1>2, <1>3 DEF Translates
  <2>2. Fixable(m, TEXT)
    BY <1>1, <2>1, LostTextIsFixable DEF TextKept, Home, Pointing
  <2>3. m' = fix_pagefault(m, TEXT) /\ op' = NoOp
    BY <1>3 DEF PageFault
  <2>4. SameContents(m, m')
    BY <1>1, <1>2, <2>2, <2>3, FaultKeepsContents
  <2>5. m'.panic = "none" => Faithful(m')
    BY <1>1, <1>2, <2>2, <2>3, FaultKeepsFaithful
  <2>. QED BY <1>1, <2>3, <2>4, <2>5 DEF DataKept, Running, DataStep, KeepsData
<1>4. CASE /\ Translates(m, TEXT, FALSE)
           /\ m' = Guarded(ReadAccess(m, TEXT), WordAt(m, TEXT) = Code, "decode",
                          ReadAccess(m, TEXT))
           /\ op' = NoOp
  <2> DEFINE k == ReadAccess(m, TEXT)
  <2>1. m.pt[TEXT].present = 1
    BY <1>4 DEF Translates
  <2>2. k.panic = "none" /\ SameContents(m, k) /\ Faithful(k)
    BY <1>1, <1>2, <2>1, ReadIsFaithful
  <2>3. k \in AnyMachine
    <3>1. Ppn(m.pt[TEXT]) \in Frames
      BY <1>1, <1>2, <2>1, PresentPagesAreInFrames
    <3>. QED BY <1>1, <1>2, <3>1, ReadIsSound
  <2>4. m' = k \/ m' = [k EXCEPT !.panic = "decode"]
    BY <1>4 DEF Guarded
  <2> HIDE DEF k
  <2>5. Unmoved(k, m') /\ (m'.panic = "none" => m' = k)
    BY <2>3, <2>4 DEF Unmoved, AnyMachine
  <2>6. SameContents(m, m')
    <3>1. SameContents(k, m')
      BY <2>5, UnmovedContents
    <3>. QED BY <2>2, <3>1, SameContentsTwice
  <2>7. m'.panic = "none" => Faithful(m')
    BY <2>2, <2>5
  <2>. QED BY <1>1, <1>4, <2>6, <2>7 DEF DataKept, Running, DataStep, KeepsData
<1>. QED BY <1>3, <1>4 DEF Fetch

\* virtual_read_data returns what the page holds.
LEMMA ReadIsALoad ==
  ASSUME IInv, DataKept, Running,
         NEW page \in DataPages, Translates(m, page, FALSE), ReadData(page),
         op' = LoadOf(Proc, page)
  PROVE  DataKept' /\ DataStep
<1>1. m \in AnyMachine /\ m.panic = "none" /\ Consistent(m) /\ Faithful(m)
  BY MachineIsAnyMachine DEF IInv, DataKept, Running, Sound
<1>2. page \in PTEs /\ m.pt[page].present = 1
  BY Constants DEF Translates
<1>3. m' = ReadAccess(m, page) /\ reg' = WordAt(m, page)
  BY DEF ReadData
<1>4. m'.panic = "none" /\ SameContents(m, m') /\ Faithful(m')
  BY <1>1, <1>2, <1>3, ReadIsFaithful
<1>5. reg' = Content(m, page)
  BY <1>2, <1>3 DEF Content
<1>. QED BY <1>4, <1>5 DEF DataKept, Running, DataStep, LoadsData

\* virtual_write_data faults, or stores to the page and to no other.
LEMMA WriteIsAStore ==
  ASSUME IInv, DataKept, Running, SwapSpaceLeft(m), cpu.stage = "execute",
         NEW page \in DataPages, NEW word \in Words, WriteData(page, word), reg' = reg,
         Asked = StoreOf(Proc, page, word)
  PROVE  DataKept' /\ DataStep
<1>1. CASE ~Translates(m, page, TRUE) /\ PageFault(page)
  BY <1>1, FaultIsInvisible
<1>2. CASE Translates(m, page, TRUE) /\ m' = WriteAccess(m, page, word) /\ Retire
  <2>1. m \in AnyMachine /\ m.panic = "none" /\ Consistent(m) /\ Faithful(m)
    BY MachineIsAnyMachine DEF IInv, DataKept, Running, Sound
  <2>2. m.pt[page].present = 1
    BY <1>2 DEF Translates
  <2>3. /\ m'.panic = "none" /\ Faithful(m') /\ Content(m', page) = word
        /\ \A x \in DataPages \ {page} : Content(m', x) = Content(m, x)
    BY <1>2, <2>1, <2>2, WriteIsFaithful
  <2>4. op' = StoreOf(Proc, page, word)
    BY <1>2 DEF Retire
  <2>. QED BY <2>3, <2>4 DEF DataKept, Running, DataStep, StoresData
<1>. QED BY <1>1, <1>2 DEF WriteData

\* Each handler of isa.c loads, stores, or does nothing the program can see.
LEMMA ExecuteIsADataStep ==
  ASSUME IInv, DataKept, Running, SwapSpaceLeft(m), Execute
  PROVE  DataKept' /\ DataStep
<1>1. cpu.stage = "execute" /\ cpu.inst \in Operations /\ reg \in Words
  BY DEF Execute, IInv, Registers
<1>2. CASE ExecuteRegister
  <2>1. op' = NoOp
    BY <1>2 DEF ExecuteRegister, Retire, Asked
  <2>. QED BY <1>2, <2>1 DEF ExecuteRegister, DataKept, Running, DataStep, KeepsData,
                             SameContents
<1>3. CASE ExecuteLoad
  <2> DEFINE page == cpu.inst.page
  <2>1. page \in DataPages
    BY <1>1, <1>3, Operands DEF ExecuteLoad
  <2>2. CASE ~Translates(m, page, FALSE) /\ PageFault(page) /\ UNCHANGED reg
    BY <1>1, <2>1, <2>2, FaultIsInvisible
  <2>3. CASE Translates(m, page, FALSE) /\ ReadData(page) /\ Retire
    <3>1. op' = LoadOf(Proc, page)
      BY <1>3, <2>3 DEF ExecuteLoad, Retire, Asked
    <3>. QED BY <2>1, <2>3, <3>1, ReadIsALoad
  <2>. QED BY <1>3, <2>2, <2>3 DEF ExecuteLoad
<1>4. CASE ExecuteStore
  <2>1. cpu.inst.page \in DataPages /\ cpu.inst.word \in Words
    BY <1>1, <1>4, Operands DEF ExecuteStore
  <2>2. Asked = StoreOf(Proc, cpu.inst.page, cpu.inst.word)
    BY <1>4 DEF ExecuteStore, Asked
  <2>. QED BY <1>1, <1>4, <2>1, <2>2, WriteIsAStore DEF ExecuteStore
<1>5. CASE ExecutePush
  <2>1. Asked = StoreOf(Proc, rsp - 1, reg)
    BY <1>5 DEF ExecutePush, Asked
  <2>. QED BY <1>1, <1>5, <2>1, WriteIsAStore DEF ExecutePush
<1>6. CASE ExecutePop
  <2>1. rsp \in DataPages
    BY <1>6 DEF ExecutePop
  <2>2. CASE ~Translates(m, rsp, FALSE) /\ PageFault(rsp) /\ UNCHANGED <<rsp, reg>>
    BY <1>1, <2>1, <2>2, FaultIsInvisible
  <2>3. CASE Translates(m, rsp, FALSE) /\ ReadData(rsp) /\ Retire
    <3>1. op' = LoadOf(Proc, rsp)
      BY <1>6, <2>3 DEF ExecutePop, Retire, Asked
    <3>. QED BY <2>1, <2>3, <3>1, ReadIsALoad
  <2>. QED BY <1>6, <2>2, <2>3 DEF ExecutePop
<1>. QED BY <1>2, <1>3, <1>4, <1>5, <1>6 DEF Execute

\* What the mapping makes of the machine and the register
MappedSpace == [p \in {Proc} |-> [page \in DataPages |-> Content(m, page)]]
MappedResult == [p \in {Proc} |-> reg]

\* A word for every page, and never "no process"
LEMMA MappedSpaceIsData ==
  ASSUME Running, DataKept
  PROVE  [page \in DataPages |-> Content(m, page)] \in [DataPages -> Words]
BY DEF DataKept, Faithful, HoldsWords

\* What the loader leaves is a first state of the program's data.
LEMMA MappedInit ==
  ASSUME Init
  PROVE  DataKept /\ DataSpace!Init
<1>1. m.panic = "none" /\ LoadedWell(m)
  BY LoadersLoadWell DEF Init
<1>2. Running /\ Running = TRUE /\ DataKept
  BY <1>1 DEF Running, DataKept, LoadedWell
<1>3. MappedSpace \in [{Proc} -> [DataPages -> Words] \cup {NULL}]
  BY <1>2, MappedSpaceIsData DEF MappedSpace
<1>4. MappedResult \in [{Proc} -> Words \cup -1 .. 1]
  BY StoreWordsAreWords DEF Init, MappedResult
<1>. QED BY <1>2, <1>3, <1>4 DEF DataSpace!Init, DataSpace!Results, MappedSpace, MappedResult

\* In a fault nothing was asked, a failing assertion halts, and an access is what the program asked for.
LEMMA MappedNext ==
  ASSUME DataKept, Running, DataStep
  PROVE  [DataSpace!Next]_(DataSpace!vars)
<1>1. Proc \in DataSpace!Alive
  <2>1. MappedSpace[Proc] # NULL
    BY MappedSpaceIsData, NullAssumption DEF MappedSpace
  <2>. QED BY <2>1 DEF DataSpace!Alive, MappedSpace
<1>2. SameContents(m, m') => MappedSpace' = MappedSpace
  BY DEF SameContents, MappedSpace
<1>3. reg' = reg => MappedResult' = MappedResult
  BY DEF MappedResult
<1>4. Running' => Running' = Running
  BY DEF Running
<1>5. CASE KeepsData
  <2>1. MappedSpace' = MappedSpace /\ MappedResult' = MappedResult
    BY <1>2, <1>3, <1>5 DEF KeepsData
  <2>2. CASE Running'
    <3>1. DataSpace!NothingAsked
      BY <1>4, <1>5, <2>1, <2>2
      DEF KeepsData, DataSpace!NothingAsked, DataSpace!NoOp, NoOp, MappedSpace, MappedResult
    <3>. QED BY <3>1 DEF DataSpace!Next
  <2>3. CASE ~Running'
    <3>1. Running' = FALSE
      BY <2>3 DEF Running
    <3>2. DataSpace!Halt
      BY <1>5, <2>1, <3>1
      DEF KeepsData, DataSpace!Halt, DataSpace!NoOp, NoOp, MappedSpace, MappedResult
    <3>. QED BY <3>2 DEF DataSpace!Next
  <2>. QED BY <2>2, <2>3
<1>6. CASE LoadsData
  <2>1. PICK x \in DataPages :
            op' = LoadOf(Proc, x) /\ SameContents(m, m') /\ reg' = Content(m, x)
    BY <1>6 DEF LoadsData
  <2>2. MappedSpace' = MappedSpace /\ Running' = Running
    BY <1>2, <1>4, <1>6, <2>1 DEF LoadsData
  <2>3. MappedResult' = [MappedResult EXCEPT ![Proc] = MappedSpace[Proc][x]]
    BY <2>1 DEF MappedResult, MappedSpace
  <2>4. DataSpace!Load(Proc, x)
    BY <2>1, <2>2, <2>3
    DEF DataSpace!Load, DataSpace!LoadOf, LoadOf, MappedSpace, MappedResult
  <2>. QED BY <1>1, <2>4 DEF DataSpace!Next
<1>7. CASE StoresData
  <2>1. PICK x \in DataPages, w \in Words :
            /\ op' = StoreOf(Proc, x, w)
            /\ Content(m', x) = w
            /\ \A y \in DataPages \ {x} : Content(m', y) = Content(m, y)
    BY <1>7 DEF StoresData
  <2>2. MappedResult' = MappedResult /\ Running' = Running
    BY <1>3, <1>4, <1>7 DEF StoresData
  <2>3. MappedSpace' = [MappedSpace EXCEPT ![Proc][x] = w]
    BY <2>1 DEF MappedSpace
  <2>4. DataSpace!Store(Proc, x, w)
    BY <2>1, <2>2, <2>3
    DEF DataSpace!Store, DataSpace!StoreOf, StoreOf, MappedSpace, MappedResult
  <2>. QED BY <1>1, <2>4 DEF DataSpace!Next
<1>. QED BY <1>5, <1>6, <1>7 DEF DataStep

\* The second invariant holds, given the first.
LEMMA DataIsKept == Spec => []DataKept
<1>1. Init => DataKept
  BY MappedInit
<1>2. IInv /\ DataKept /\ [Next]_vars => DataKept'
  <2> SUFFICES ASSUME IInv, DataKept, [Next]_vars PROVE DataKept'
    OBVIOUS
  <2>1. CASE Next
    BY <2>1, FetchIsInvisible, ExecuteIsADataStep DEF Next
  <2>2. CASE UNCHANGED vars
    BY <2>2 DEF vars, system, DataKept, Running
  <2>. QED BY <2>1, <2>2
<1>. QED BY <1>1, <1>2, InvariantHolds, PTL DEF Spec

\* Machine, registers and the instruction in flight keep their types, for any
\* number of frames and pages: no fault, discard or swap leaves an entry or a
\* frame in a state that the fields of the code cannot hold; and a step asks for
\* one of the process's pages and words, or for nothing.
THEOREM PagingTypeCorrect == Spec => []TypeOK
<1> DEFINE Typed == op \in {NoOp} \cup {LoadOf(Proc, a) : a \in DataPages}
                          \cup {StoreOf(Proc, a, w) : a \in DataPages, w \in Words}
<1>1. Init => Typed
  BY DEF Init
<1>2. IInv /\ DataKept /\ Typed /\ [Next]_vars => Typed'
  <2> SUFFICES ASSUME IInv, DataKept, Typed, [Next]_vars PROVE Typed'
    OBVIOUS
  <2>1. CASE Next
    <3>1. DataStep
      BY <2>1, FetchIsInvisible, ExecuteIsADataStep DEF Next
    <3>. QED BY <3>1 DEF DataStep, KeepsData, LoadsData, StoresData
  <2>2. CASE UNCHANGED vars
    BY <2>2 DEF vars
  <2>. QED BY <2>1, <2>2
<1>3. IInv /\ Typed => TypeOK
  BY DEF IInv, Registers, TypeOK
<1> HIDE DEF Typed
<1>. QED BY <1>1, <1>2, <1>3, InvariantHolds, DataIsKept, PTL DEF Spec

\* Paging is transparent: whatever pages are discarded, written back and read again, in
\* whichever order the program asks for them, an instruction that retires has stored its
\* word to its page and changed no other page, or has loaded what its page holds since the
\* last store to it; a fetch or a fault changes nothing, or the simulator stops with the
\* data as it was.  For any number of frames, pages and mappings of a frame, and any words.
THEOREM Transparency == Spec => PagingIsTransparent
<1>1. Init => DataSpace!Init
  BY MappedInit
<1>2. IInv /\ DataKept /\ [Next]_vars => [DataSpace!Next]_(DataSpace!vars)
  <2> SUFFICES ASSUME IInv, DataKept, [Next]_vars
               PROVE  [DataSpace!Next]_(DataSpace!vars)
    OBVIOUS
  <2>1. CASE Next
    <3>1. DataStep /\ Running
      BY <2>1, FetchIsInvisible, ExecuteIsADataStep DEF Next
    <3>. QED BY <3>1, MappedNext
  <2>2. CASE UNCHANGED vars
    <3>1. /\ MappedSpace' = MappedSpace /\ MappedResult' = MappedResult
          /\ Running' = Running /\ op' = op
      BY <2>2 DEF vars, system, MappedSpace, MappedResult, Running
    <3>. QED BY <3>1 DEF DataSpace!vars, MappedSpace, MappedResult
  <2>. QED BY <2>1, <2>2
<1>. QED BY <1>1, <1>2, InvariantHolds, DataIsKept, PTL
     DEF Spec, PagingIsTransparent, DataSpace!Spec

-----------------------------------------------------------------------------
(* Where the simulator may stop                                             *)

\* fix_pagefault fails none but the assertions about swap files.
LEMMA FaultStops ==
  ASSUME NEW n \in AnyMachine, n.panic = "none", Sound(n), Faithful(n),
         NEW page \in PTEs, NEW k, k = fix_pagefault(n, page)
  PROVE  k.panic \in {"none"} \cup SwapStops
<1>1. Consistent(n) /\ SlotsCounted(n) /\ Untouched(n)
  BY DEF Sound, Faithful
<1>2. CASE FreeFrames(n) # {}
  <2> DEFINE f == First(FreeFrames(n))
  <2>1. f \in FreeFrames(n) /\ f \in Frames
    BY <1>2, FirstExists DEF FreeFrames
  <2>2. k = map_pte4(n, page, f)
    BY <1>2 DEF fix_pagefault, UseFreeFrame
  <2> HIDE DEF f
  <2>3. n.page_map[f].dirty = 0 /\ Pointing(n, f) = {}
    BY <1>1, <2>1 DEF Untouched, FreeFrames, Consistent, InverseMaps
  <2>4. n.page_map[f].reversed_counter = 0
    BY <1>1, <2>1, <2>3, FS_EmptySet DEF Consistent, InverseMaps
  <2>. QED BY <1>1, <2>1, <2>2, <2>3, <2>4, MapStops
<1>3. \A victim \in Frames : FreeFrames(n) = {} => Pointing(n, victim) # {}
  <2> SUFFICES ASSUME NEW victim \in Frames, FreeFrames(n) = {} PROVE Pointing(n, victim) # {}
    OBVIOUS
  <2>1. n.page_map[victim] \in PD
    BY DEF AnyMachine
  <2>. QED BY <1>1, <2>1 DEF FreeFrames, PD, Consistent, InverseMaps
<1>4. CASE FreeFrames(n) = {} /\ CleanFrames(n) # {}
  <2> DEFINE victim == LRU(n, CleanFrames(n))
  <2>1. victim \in Frames
    <3>1. CleanFrames(n) \in SUBSET Frames
      BY DEF CleanFrames
    <3>. QED BY <1>4, <3>1, VictimExists
  <2>2. k = Reload(unmapall_pte4(n, victim), page, victim)
    BY <1>4 DEF fix_pagefault, DiscardClean
  <2> HIDE DEF victim
  <2>. QED BY <1>1, <1>3, <1>4, <2>1, <2>2, ReplaceStops
<1>5. CASE FreeFrames(n) = {} /\ CleanFrames(n) = {}
  <2> DEFINE victim == LRU(n, Frames)
             w == swap_out(n, n.page_map[victim].saddr, victim)
  <2>1. victim \in Frames
    BY FramesAreNaturals, VictimExists
  <2>2. k = Reload(unmapall_pte4(w, victim), page, victim)
    BY <1>5 DEF fix_pagefault, WriteBackDirty
  <2>3. w \in AnyMachine /\ SameFrames(n, w) /\ w.panic \in {"none"} \cup SwapStops
    <3> HIDE DEF victim
    <3>1. w \in AnyMachine /\ SameFrames(n, w)
      BY <2>1, SwapOutEffect DEF SameFrames
    <3>2. w.panic \in {n.panic} \cup SwapStops
      BY <2>1, SwapOutStops
    <3>. QED BY <3>1, <3>2
  <2> HIDE DEF victim, w
  <2>4. CASE w.panic # "none"
    BY <2>2, <2>3, <2>4, StoppedReload
  <2>5. CASE w.panic = "none"
    <3>1. Consistent(w) /\ \A f \in Frames : Pointing(w, f) = Pointing(n, f)
      BY <1>1, <2>3, SameAccountsKeepConsistent DEF SameAccounts, SameFrames
    <3>2. SlotsCounted(w)
      BY <1>1, <2>3 DEF SlotsCounted, SameFrames
    <3>. QED BY <1>3, <1>5, <2>1, <2>2, <2>3, <2>5, <3>1, <3>2, ReplaceStops
  <2>. QED BY <2>4, <2>5
<1>. QED BY <1>2, <1>4, <1>5

\* A load fails no assertion.
LEMMA ReadRuns ==
  ASSUME NEW n \in AnyMachine, n.panic = "none", Sound(n), Faithful(n),
         NEW page \in PTEs, Translates(n, page, FALSE),
         NEW k, k = ReadAccess(n, page)
  PROVE  k.panic = "none" /\ k \in AnyMachine
<1>1. n.pt[page].present = 1 /\ Consistent(n)
  BY DEF Translates, Sound
<1>2. Ppn(n.pt[page]) \in Frames
  BY <1>1, PresentPagesAreInFrames
<1>3. k.panic = "none"
  BY <1>1, ReadIsFaithful
<1>4. k \in AnyMachine
  BY <1>2, ReadIsSound
<1>. QED BY <1>3, <1>4

\* The simulator stops in swap.c, when it finds a file it cannot read or an address that is
\* none, or in the decoder.
StopsOnSwapOnly == m.panic \in {"none", "decode"} \cup SwapStops

\* The assertions of pagefault.c hold whenever they are reached: no access finds a frame
\* that is not accounted for (pagemap_update_time, pagemap_dirty), no frame is mapped that
\* is dirty or full (map_pte4), and none is unmapped that is empty (unmapall_pte4); for any
\* number of frames, pages and mappings of a frame, whatever the program does.
THEOREM AccountingNeverFails == Spec => []StopsOnSwapOnly
<1>1. Init => StopsOnSwapOnly
  BY LoadersLoadWell DEF Init, StopsOnSwapOnly
<1>2. IInv /\ DataKept /\ StopsOnSwapOnly /\ [Next]_vars => StopsOnSwapOnly'
  <2> SUFFICES ASSUME IInv, DataKept, StopsOnSwapOnly, [Next]_vars PROVE StopsOnSwapOnly'
    OBVIOUS
  <2>1. CASE Next
    <3>1. m \in AnyMachine /\ m.panic = "none" /\ Sound(m) /\ Consistent(m) /\ Faithful(m)
      BY <2>1, MachineIsAnyMachine DEF Next, IInv, DataKept, Running, Sound
    <3>2. ASSUME NEW page \in PTEs, PageFault(page) PROVE StopsOnSwapOnly'
      <4>1. m' = fix_pagefault(m, page)
        BY <3>2 DEF PageFault
      <4>2. m'.panic \in {"none"} \cup SwapStops
        BY <3>1, <4>1, FaultStops
      <4>. QED BY <4>2 DEF StopsOnSwapOnly
    <3>4. CASE Fetch
      <4>1. CASE PageFault(TEXT)
        BY <3>2, <4>1, Constants
      <4>2. CASE /\ Translates(m, TEXT, FALSE)
                 /\ m' = Guarded(ReadAccess(m, TEXT), WordAt(m, TEXT) = Code, "decode",
                                 ReadAccess(m, TEXT))
        <5> DEFINE r == ReadAccess(m, TEXT)
        <5>1. TEXT \in PTEs
          BY Constants
        <5>5. Translates(m, TEXT, FALSE)
          BY <4>2
        <5>4. r.panic = "none" /\ r \in AnyMachine
          BY <3>1, <5>1, <5>5, ReadRuns
        <5>2. m' = r \/ m' = [r EXCEPT !.panic = "decode"]
          BY <4>2 DEF Guarded
        <5> HIDE DEF r
        <5>3. m'.panic \in {"none", "decode"}
          BY <5>4, <5>2 DEF AnyMachine
        <5>. QED BY <5>3 DEF StopsOnSwapOnly
      <4>. QED BY <3>4, <4>1, <4>2 DEF Fetch
    <3>5. ASSUME NEW page \in DataPages, Translates(m, page, FALSE), ReadData(page)
          PROVE  StopsOnSwapOnly'
      <4>1. m' = ReadAccess(m, page)
        BY <3>5 DEF ReadData
      <4>2. page \in PTEs
        BY Constants
      <4>3. m'.panic = "none"
        BY <3>1, <3>5, <4>1, <4>2, ReadRuns
      <4>. QED BY <4>3 DEF StopsOnSwapOnly
    <3>6. ASSUME NEW page \in DataPages, NEW word \in Words, WriteData(page, word)
          PROVE  StopsOnSwapOnly'
      <4>1. CASE PageFault(page)
        BY <3>2, <4>1, Constants
      <4>2. CASE Translates(m, page, TRUE) /\ m' = WriteAccess(m, page, word)
        <5>1. m.pt[page].present = 1
          BY <4>2 DEF Translates
        <5>2. m'.panic = "none"
          BY <3>1, <4>2, <5>1, WriteIsFaithful
        <5>. QED BY <5>2 DEF StopsOnSwapOnly
      <4>. QED BY <3>6, <4>1, <4>2 DEF WriteData
    <3>7. CASE Execute
      <4>1. cpu.inst \in Operations /\ reg \in Words
        BY DEF IInv, Registers
      <4>2. CASE ExecuteRegister
        BY <4>2 DEF ExecuteRegister, StopsOnSwapOnly
      <4>3. CASE ExecuteLoad
        <5>1. cpu.inst.page \in DataPages /\ cpu.inst.page \in PTEs
          BY <4>1, <4>3, Operands, Constants DEF ExecuteLoad
        <5>. QED BY <3>2, <3>5, <4>3, <5>1 DEF ExecuteLoad
      <4>4. CASE ExecuteStore
        <5>1. cpu.inst.page \in DataPages /\ cpu.inst.word \in Words
          BY <4>1, <4>4, Operands DEF ExecuteStore
        <5>. QED BY <3>6, <4>4, <5>1 DEF ExecuteStore
      <4>5. CASE ExecutePush
        BY <3>6, <4>1, <4>5 DEF ExecutePush
      <4>6. CASE ExecutePop
        <5>1. rsp \in DataPages /\ rsp \in PTEs
          BY <4>6, Constants DEF ExecutePop
        <5>. QED BY <3>2, <3>5, <4>6, <5>1 DEF ExecutePop
      <4>. QED BY <3>7, <4>2, <4>3, <4>4, <4>5, <4>6 DEF Execute
    <3>. QED BY <2>1, <3>4, <3>7 DEF Next
  <2>2. CASE UNCHANGED vars
    BY <2>2 DEF vars, system, StopsOnSwapOnly
  <2>. QED BY <2>1, <2>2
<1>. QED BY <1>1, <1>2, InvariantHolds, DataIsKept, PTL DEF Spec
=============================================================================
