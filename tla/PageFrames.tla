------------------------------ MODULE PageFrames ------------------------------
(***************************************************************************)
(* Physical frames, page table entries and swap pages, and the functions   *)
(* of src/src/process/pagefault.c and src/src/hardware/memory/swap.c that  *)
(* move a page between them.  There are no variables here: every function  *)
(* maps a machine                                                          *)
(*                                                                         *)
(*   [page_map, pt, pm, swap, internal_swap_addr, panic]                   *)
(*                                                                         *)
(* to the machine it leaves behind, and Paging and Fork hold one machine   *)
(* as a variable.  A failing assert, or exit(0) in the number parser, ends *)
(* the simulator: it sets "panic" and nothing changes any more.            *)
(*                                                                         *)
(* A page holds one word (512 in the code), and a word is an opaque value. *)
(* The four levels of the page table are flattened: a PTE is the level 4   *)
(* entry get_pagetableentry(..., 4, 1) returns for a page, and allocating  *)
(* the levels above has no other effect.                                   *)
(*                                                                         *)
(* A definition named after a fault (EntriesKept, DiscardAny, ...) is not  *)
(* part of the model: it stands just before the one it is a faulty form of. *)
(***************************************************************************)
EXTENDS Integers, FiniteSets

CONSTANTS NumFrames,       \* MAX_NUM_PHYSICAL_PAGE
          MaxMapping,      \* MAX_REVERSED_MAPPING_NUMBER
          PTEs,            \* addresses of level 4 entries
          NULL,            \* an unused slot of mapping[]
          Words,           \* contents of a page
          Blank,           \* the page of zeros
          Unparsable,      \* words whose swap file the parser rejects
          NoFile,          \* no swap file of this address
          EmptyFile,       \* a swap file without a line
          MaxSwapAddress   \* bound: swap pages a run may allocate

SWAP_ADDRESS_MIN == 100

ASSUME FramesAssumption == NumFrames \in Nat \ {0} /\ MaxMapping \in Nat \ {0}
ASSUME WordsAssumption ==
    /\ Blank \in Words
    /\ Unparsable \subseteq Words
    /\ NoFile \notin Words /\ EmptyFile \notin Words /\ NoFile # EmptyFile
ASSUME PTEsAssumption == NULL \notin PTEs
ASSUME SwapAssumption == MaxSwapAddress \in Nat /\ MaxSwapAddress >= SWAP_ADDRESS_MIN

Frames == 0 .. NumFrames - 1
Slots == 1 .. MaxMapping

\* Addresses a swap file may have: those allocate_swappage gives out, and the
\* leftover bits of an entry the loader linked to a frame f before mapping it.
FileAddresses == SWAP_ADDRESS_MIN .. MaxSwapAddress
                 \cup {2048 * f + flags : f \in 1 .. NumFrames - 1, flags \in {0, 32}}

-----------------------------------------------------------------------------
(* pte4_t.  "saddr" is the 63 bits above "present".  While present = 1 the  *)
(* same bits are readonly (bit 0), dirty (bit 5) and ppn (from bit 11).     *)

PTE == [present : {0, 1}, saddr : Nat]
NoPage == [present |-> 0, saddr |-> 0]

ReadOnly(e) == e.saddr % 2
DirtyBit(e) == (e.saddr \div 32) % 2
Ppn(e) == e.saddr \div 2048

WithReadOnly(e, b) == [e EXCEPT !.saddr = 2 * (@ \div 2) + b]
SubtractedBlindly(e, b) == [e EXCEPT !.saddr = @ + 64 * b - 32]
WithDirty(e, b) == [e EXCEPT !.saddr = @ + 32 * (b - DirtyBit(e))]
WithPpn(e, ppn) == [e EXCEPT !.saddr = 2048 * ppn + (@ % 2048)]

-----------------------------------------------------------------------------
(* page_map                                                                *)

PD == [allocated : {0, 1}, dirty : {0, 1}, time : Nat,
       mapping : [Slots -> PTEs \cup {NULL}], reversed_counter : Nat, saddr : Nat]

FreshPD == [allocated |-> 0, dirty |-> 0, time |-> 0,
            mapping |-> [i \in Slots |-> NULL], reversed_counter |-> 0, saddr |-> 0]

page_map_init == [f \in Frames |-> FreshPD]

Mappers(d) == {d.mapping[i] : i \in Slots} \ {NULL}
Used(d) == {i \in Slots : d.mapping[i] # NULL}

\* Either the rest of the handler, or the simulator is gone.
Guarded(m, holds, reason, rest) ==
    IF m.panic # "none" THEN m
    ELSE IF holds THEN rest
    ELSE [m EXCEPT !.panic = reason]

\* What pagemap_update_time and pagemap_dirty assert of a frame.
Accountable(m, ppn) ==
    LET d == m.page_map[ppn] IN
        /\ d.allocated = 1
        /\ \A pte \in Mappers(d) : m.pt[pte].present = 1
        /\ Cardinality(Used(d)) = d.reversed_counter

\* The code lets "time" grow with every access.  Only the order of the times
\* is ever used and the least time is always 0, so a time is represented by
\* the number of distinct smaller ones.
Ranked(time) ==
    [f \in Frames |-> Cardinality({time[g] : g \in Frames} \cap 0 .. time[f] - 1)]

WithTimes(page_map, time) ==
    [f \in Frames |-> [page_map[f] EXCEPT !.time = Ranked(time)[f]]]

Touched(page_map, ppn) ==
    WithTimes(page_map, [f \in Frames |->
        IF f = ppn THEN 0 ELSE page_map[f].time + 1])

pagemap_update_time(m, ppn) ==
    Guarded(m, Accountable(m, ppn), "accounting",
        [m EXCEPT !.page_map = Touched(@, ppn)])

DirtyEntries(m, ppn) ==
    [pte \in PTEs |-> IF pte \in Mappers(m.page_map[ppn])
                      THEN WithDirty(m.pt[pte], 1) ELSE m.pt[pte]]

pagemap_dirty(m, ppn) ==
    Guarded(m, Accountable(m, ppn), "accounting",
        [m EXCEPT !.page_map[ppn].dirty = 1, !.pt = DirtyEntries(m, ppn)])

set_pagemap_swapaddr(m, ppn, swap_address) ==
    [m EXCEPT !.page_map[ppn].saddr = swap_address]

-----------------------------------------------------------------------------
(* Mapping and unmapping                                                    *)

FirstUnused(mapping) ==
    CHOOSE i \in Slots : mapping[i] = NULL /\ \A j \in 1 .. i - 1 : mapping[j] # NULL

Mapped(d, pte, saddr) ==
    [d EXCEPT !.saddr = saddr, !.allocated = 1, !.time = 0,
              !.mapping[FirstUnused(d.mapping)] = pte, !.reversed_counter = @ + 1]

\* The swap address moves from the entry to the frame before the entry's bits
\* become a ppn.  The flag bits that shared the word with it stay behind.
map_pte4(m, pte, ppn) ==
    LET d == m.page_map[ppn]
        e == m.pt[pte]
        page_map == [m.page_map EXCEPT ![ppn] = Mapped(d, pte, e.saddr)]
    IN  Guarded(m, d.dirty = 0, "map_pte4: dirty",
        Guarded(m, d.reversed_counter < MaxMapping /\ Used(d) # Slots, "map_pte4: full",
            [m EXCEPT
                !.page_map = WithTimes(page_map, [f \in Frames |-> page_map[f].time]),
                !.pt[pte] = WithDirty(WithPpn([e EXCEPT !.present = 1], ppn), 0)]))

EntriesKept(m, d) == m.pt

\* Every entry of the frame gets the swap address back.
Unmapped(m, d) ==
    [pte \in PTEs |-> IF pte \in Mappers(d)
                      THEN [present |-> 0, saddr |-> d.saddr] ELSE m.pt[pte]]

unmapall_pte4(m, ppn) ==
    LET d == m.page_map[ppn]
        page_map == [m.page_map EXCEPT ![ppn] = [FreshPD EXCEPT !.saddr = d.saddr]]
    IN  Guarded(m, d.reversed_counter > 0 /\ Accountable(m, ppn), "unmapall_pte4",
            [m EXCEPT
                !.page_map = WithTimes(page_map, [f \in Frames |-> page_map[f].time]),
                !.pt = Unmapped(m, d)])

-----------------------------------------------------------------------------
(* Swap space.  A page is written as "0x%16lx", padded with blanks, and     *)
(* string2uint accepts no digit after a blank: only a page whose words all  *)
(* have 16 hexadecimal digits can be read back.                             *)

AddressNotAdvanced(m, ppn) ==
    LET saddr == m.internal_swap_addr IN
        set_pagemap_swapaddr(
            [m EXCEPT !.swap[saddr] = EmptyFile, !.pm[ppn] = Blank], ppn, saddr)
allocate_swappage(m, ppn) ==
    LET saddr == m.internal_swap_addr IN
        set_pagemap_swapaddr(
            [m EXCEPT !.internal_swap_addr = @ + 1,
                      !.swap[saddr] = EmptyFile,
                      !.pm[ppn] = Blank],
            ppn, saddr)

SwapFile(m, saddr) == IF saddr \in FileAddresses THEN m.swap[saddr] ELSE NoFile
Parses(content) == content \in Words \ Unparsable

swap_in(m, saddr, ppn) ==
    IF m.panic # "none" THEN m
    ELSE IF saddr = 0 THEN allocate_swappage(m, ppn)
    ELSE Guarded(m, saddr >= SWAP_ADDRESS_MIN, "swap_in: address",
         Guarded(m, SwapFile(m, saddr) # NoFile, "swap_in: no file",
         Guarded(m, Parses(SwapFile(m, saddr)), "swap_in: parse",
            [m EXCEPT !.pm[ppn] = m.swap[saddr]])))

WriteBack(m, saddr, ppn) == [m.swap EXCEPT ![saddr] = m.pm[ppn]]

swap_out(m, saddr, ppn) ==
    Guarded(m, saddr >= SWAP_ADDRESS_MIN, "swap_out: address",
        [m EXCEPT !.swap = WriteBack(m, saddr, ppn)])

-----------------------------------------------------------------------------
(* The page fault handler without USE_FORK_COW                              *)

FreeFrames(m) == {f \in Frames : m.page_map[f].allocated = 0}
CleanFrames(m) == {f \in Frames : m.page_map[f].dirty = 0}

First(F) == CHOOSE f \in F : \A g \in F : f <= g

\* The first frame of F, in index order, of the greatest time.
LRU(m, F) ==
    LET oldest == {f \in F : \A g \in F : m.page_map[g].time <= m.page_map[f].time}
    IN  First(oldest)

\* The faulting entry's address is read after the victim was unmapped.
Reload(m, pte, ppn) == map_pte4(swap_in(m, m.pt[pte].saddr, ppn), pte, ppn)

UseFreeFrame(m, pte) == map_pte4(m, pte, First(FreeFrames(m)))

DiscardAny(m, pte) ==
    LET victim == LRU(m, Frames)
    IN  Reload(unmapall_pte4(m, victim), pte, victim)
DiscardClean(m, pte) ==
    LET victim == LRU(m, CleanFrames(m))
    IN  Reload(unmapall_pte4(m, victim), pte, victim)

WriteBackDirty(m, pte) ==
    LET victim == LRU(m, Frames)
        written == swap_out(m, m.page_map[victim].saddr, victim)
    IN  Reload(unmapall_pte4(written, victim), pte, victim)

fix_pagefault(m, pte) ==
    IF FreeFrames(m) # {} THEN UseFreeFrame(m, pte)
    ELSE IF CleanFrames(m) # {} THEN DiscardClean(m, pte)
    ELSE WriteBackDirty(m, pte)

\* Bound: the swap pages and swap files a run may use.
SwapSpaceLeft(m) ==
    /\ m.internal_swap_addr <= MaxSwapAddress
    /\ \A f \in Frames : LET saddr == m.page_map[f].saddr IN
        m.page_map[f].dirty = 1 /\ saddr >= SWAP_ADDRESS_MIN => saddr \in FileAddresses

-----------------------------------------------------------------------------
(* Copying frames, for fork                                                 *)

\* Whether it worked is to be seen from the entry.
allocate_physicalframe(m, pte) ==
    IF FreeFrames(m) # {} THEN map_pte4(m, pte, First(FreeFrames(m))) ELSE m

copy_physicalframe(m, pte, parent_ppn) ==
    IF FreeFrames(m) # {}
    THEN LET n == allocate_physicalframe(m, pte)
         IN  [n EXCEPT !.pm[Ppn(n.pt[pte])] = m.pm[parent_ppn]]
    ELSE m

enough_frames(m, request_num) == request_num <= Cardinality(FreeFrames(m))

SetReadOnly(m, pte, b) == [m EXCEPT !.pt[pte] = WithReadOnly(@, b)]

StaysReadOnly(m, pte, remaining_count) == m
\* The one entry that keeps the frame may write to it again.
WritableIfAlone(m, pte, remaining_count) ==
    IF remaining_count = 1 THEN SetReadOnly(m, pte, 0) ELSE m

\* Every mapping that remains is mapped again, in the order of the slots.
KeepEach(m, mapping, remaining, ppn) ==
    LET keep[i \in 0 .. MaxMapping] ==
            IF i = 0 THEN unmapall_pte4(m, ppn)
            ELSE IF i \notin remaining THEN keep[i - 1]
            ELSE Guarded(keep[i - 1], ReadOnly(keep[i - 1].pt[mapping[i]]) = 1, "copy_on_write",
                     WritableIfAlone(map_pte4(keep[i - 1], mapping[i], ppn),
                                     mapping[i], Cardinality(remaining)))
    IN  keep[MaxMapping]

KeepsFaultingEntry(m, mapping, pte, ppn) ==
    KeepEach(m, mapping, {i \in Slots : mapping[i] # NULL}, ppn)
\* The frame keeps all its entries but "pte".
KeepRemaining(m, mapping, pte, ppn) ==
    KeepEach(m, mapping, {i \in Slots : mapping[i] \notin {pte, NULL}}, ppn)

copy_on_write(m, pte) ==
    LET old_ppn == Ppn(m.pt[pte])
        kept == KeepRemaining(m, m.page_map[old_ppn].mapping, pte, old_ppn)
        copied == SetReadOnly(copy_physicalframe(kept, pte, old_ppn), pte, 0)
    IN  Guarded(m, /\ m.pt[pte].present = 1
                   /\ ReadOnly(m.pt[pte]) = 1
                   /\ m.page_map[old_ppn].reversed_counter > 1, "copy_on_write",
            Guarded(copied, copied.pt[pte].present = 1 /\ Ppn(copied.pt[pte]) # old_ppn,
                    "copy_on_write", copied))

-----------------------------------------------------------------------------
(* page_walk and the accesses of the CPU                                    *)

Translates(m, pte, write_request) ==
    /\ m.pt[pte].present = 1
    /\ ~(write_request /\ ReadOnly(m.pt[pte]) = 1)

\* cpu_read64bits_dram and cpu_readinst_dram
ReadAccess(m, pte) == pagemap_update_time(m, Ppn(m.pt[pte]))

WriteNotDirtied(m, pte, word) ==
    LET ppn == Ppn(m.pt[pte]) IN pagemap_update_time([m EXCEPT !.pm[ppn] = word], ppn)

\* cpu_write64bits_dram
WriteAccess(m, pte, word) ==
    LET ppn == Ppn(m.pt[pte]) IN
        pagemap_dirty(pagemap_update_time([m EXCEPT !.pm[ppn] = word], ppn), ppn)

WordAt(m, pte) == m.pm[Ppn(m.pt[pte])]

-----------------------------------------------------------------------------
(* Reading a machine, and what holds between its parts                      *)

Panics == {"none", "accounting", "map_pte4: dirty", "map_pte4: full",
           "unmapall_pte4", "swap_in: address", "swap_in: no file",
           "swap_in: parse", "swap_out: address", "decode", "copy_on_write",
           "not in area", "compare_pagetables"}

Machine ==
    [page_map : [Frames -> PD],
     pt : [PTEs -> PTE],
     pm : [Frames -> Words],
     swap : [FileAddresses -> Words \cup {NoFile, EmptyFile}],
     internal_swap_addr : SWAP_ADDRESS_MIN .. MaxSwapAddress + 1,
     panic : Panics]

\* The word the next access of a page is to find, wherever it is kept now.
Content(m, pte) ==
    LET e == m.pt[pte] IN
    IF e.present = 1 THEN WordAt(m, pte)
    ELSE IF e.saddr = 0 THEN Blank
    ELSE SwapFile(m, e.saddr)

\* The reverse mapping and the page table are inverse to each other.
Pointing(m, f) == {pte \in PTEs : m.pt[pte].present = 1 /\ Ppn(m.pt[pte]) = f}
InverseMaps(m) ==
    \A f \in Frames :
        LET d == m.page_map[f]
        IN  /\ Mappers(d) = Pointing(m, f)
            /\ d.reversed_counter = Cardinality(Pointing(m, f))
            /\ d.allocated = 1 <=> Pointing(m, f) # {}

\* The dirty bit is kept twice, in the frame and in its entries.
SameDirtyBits(m) ==
    \A pte \in PTEs : m.pt[pte].present = 1 =>
        DirtyBit(m.pt[pte]) = m.page_map[Ppn(m.pt[pte])].dirty

BlankMachine ==
    [page_map |-> page_map_init,
     pt |-> [pte \in PTEs |-> NoPage],
     pm |-> [f \in Frames |-> Blank],
     swap |-> [s \in FileAddresses |-> NoFile],
     internal_swap_addr |-> SWAP_ADDRESS_MIN,
     panic |-> "none"]

\* link_page_table of the loaders: the ppn is in the entry when map_pte4 takes
\* the swap address from it.
link_page_table(m, pte, ppn) ==
    map_pte4([m EXCEPT !.pt[pte] = WithPpn([@ EXCEPT !.present = 1], ppn)], pte, ppn)
=============================================================================
