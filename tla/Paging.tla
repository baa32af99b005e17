-------------------------------- MODULE Paging --------------------------------
(***************************************************************************)
(* Demand paging of one process: the instruction cycle of isa.c, address   *)
(* translation in mmu.c, the page fault path of interrupt.c and            *)
(* pagefault.c, swap files in swap.c; the build "pgf" of config.json, in   *)
(* which the process is alone in the scheduler's ring.                     *)
(*                                                                         *)
(* An instruction is fetched from the text page and makes at most one      *)
(* access to a data page.  A translation that fails runs the fault handler *)
(* and, by the longjmp of interrupt_stack_switching, starts the cycle      *)
(* over: the instruction is fetched again.  The program is arbitrary.  One *)
(* step is one translation with the access or the fault that follows it;   *)
(* nothing runs in between in the simulator.                               *)
(***************************************************************************)
EXTENDS PageFrames, MemoryOps

CONSTANTS NumData,      \* number of data pages
          Code,         \* the content of a page of instructions
          StoreWords,   \* words the program stores
          Proc          \* the process

\* The loader finds a page for every frame, and the test's code is not blank.
ASSUME NumDataAssumption == NumData \in Nat \ {0} /\ NumFrames <= NumData + 1
ASSUME CodeAssumption == Code \in Words \ {Blank} /\ StoreWords \subseteq Words
ASSUME PTEAssumption == PTEs = 0 .. NumData
\* There is room for the pages the loader swaps out, and no swap address is so
\* large that it could be mistaken for the bits of a mapped entry.
ASSUME SwapBoundAssumption ==
    SWAP_ADDRESS_MIN + NumFrames - 2 <= MaxSwapAddress /\ MaxSwapAddress < 2048

TEXT == 0
DataPages == 1 .. NumData

\* In the properties NULL is also the data of a process that does not exist.
ASSUME NullAssumption == NULL \notin [DataPages -> Words]

VARIABLES m,      \* frames, page table, memory and swap: see PageFrames
          cpu,    \* the instruction in flight and how far it got
          rsp,    \* a stack slot is a data page; NumData + 1 is the empty stack
          reg,    \* the register that loads go to
          op      \* what the last instruction asked of memory, see MemoryOps

system == <<m, cpu, rsp, reg>>
vars == <<system, op>>

\* Instructions by what they do to memory: mov, cmp, lea, jmp, ... without a
\* memory operand; mov and cmp from memory; mov to memory; push and call; pop
\* and ret.
Operations ==
    [op : {"register", "push", "pop"}] \cup
    [op : {"load"}, page : DataPages] \cup
    [op : {"store"}, page : DataPages, word : StoreWords]

\* A push stores the content of the register.
Fetching == {[stage |-> "fetch", inst |-> o, rsp |-> s] :
                o \in Operations, s \in 1 .. NumData + 1}

-----------------------------------------------------------------------------
(* The loaders of tests/test_pagefault.c                                    *)

\* Cases 1 and 2: the text page is linked to frame 0, everything else is free.
TextLoaded == [link_page_table(BlankMachine, TEXT, 0) EXCEPT !.pm[0] = Code]

\* Case 3: every other frame is mapped, dirty, and has a swap page.
AllMapped ==
    LET load[f \in Frames] ==
            IF f = 0 THEN TextLoaded
            ELSE allocate_swappage(pagemap_dirty(map_pte4(load[f - 1], f, f), f), f)
    IN  load[NumFrames - 1]

\* ... and every frame but the intended victim is touched, in order.
AllButTouched(n, victim) ==
    LET touch[f \in Frames] ==
            LET before == IF f = 0 THEN n ELSE touch[f - 1]
            IN  IF f = victim THEN before ELSE pagemap_update_time(before, f)
    IN  touch[NumFrames - 1]

Loaded == {TextLoaded} \cup
          UNION {{AllButTouched(n, victim) : n \in {AllMapped, pagemap_dirty(AllMapped, 0)}} :
                    victim \in Frames}

Init ==
    /\ m \in Loaded
    /\ rsp = NumData + 1
    /\ reg \in StoreWords
    /\ cpu \in {c \in Fetching : c.rsp = rsp}
    /\ op = NoOp

-----------------------------------------------------------------------------
(* instruction_cycle                                                        *)

Running == m.panic = "none"

\* interrupt_stack_switching(0x0e) and back to setjmp: the handler is entered
\* with the registers as the instruction left them, and they are restored.
PageFault(page) ==
    /\ m' = fix_pagefault(m, page)
    /\ cpu' = [cpu EXCEPT !.stage = "fetch"]
    /\ op' = NoOp

\* What the instruction in flight asks for
Asked ==
    CASE cpu.inst.op = "load"  -> LoadOf(Proc, cpu.inst.page)
      [] cpu.inst.op = "store" -> StoreOf(Proc, cpu.inst.page, cpu.inst.word)
      [] cpu.inst.op = "push"  -> StoreOf(Proc, rsp - 1, reg)
      [] cpu.inst.op = "pop"   -> LoadOf(Proc, rsp)
      [] OTHER -> NoOp

Retire ==
    /\ cpu' \in {c \in Fetching : c.rsp = rsp'}
    /\ op' = Asked

\* virtual_read_inst and parse_instruction, which asserts on anything but text
Fetch ==
    /\ cpu.stage = "fetch"
    /\ \/ /\ ~Translates(m, TEXT, FALSE)
          /\ PageFault(TEXT)
       \/ /\ Translates(m, TEXT, FALSE)
          /\ m' = Guarded(ReadAccess(m, TEXT), WordAt(m, TEXT) = Code, "decode",
                          ReadAccess(m, TEXT))
          /\ cpu' = [cpu EXCEPT !.stage = "execute"]
          /\ op' = NoOp
    /\ UNCHANGED <<rsp, reg>>

ExecuteRegister ==
    /\ cpu.inst.op = "register"
    /\ UNCHANGED <<m, rsp, reg>>
    /\ Retire

\* virtual_read_data
ReadData(page) ==
    /\ m' = ReadAccess(m, page)
    /\ reg' = WordAt(m, page)

ExecuteLoad ==
    /\ cpu.inst.op = "load"
    /\ UNCHANGED rsp
    /\ LET page == cpu.inst.page IN
        \/ /\ ~Translates(m, page, FALSE)
           /\ PageFault(page)
           /\ UNCHANGED reg
        \/ /\ Translates(m, page, FALSE)
           /\ ReadData(page)
           /\ Retire

\* virtual_write_data
WriteData(page, word) ==
    \/ /\ ~Translates(m, page, TRUE)
       /\ PageFault(page)
    \/ /\ Translates(m, page, TRUE)
       /\ m' = WriteAccess(m, page, word)
       /\ Retire

ExecuteStore ==
    /\ cpu.inst.op = "store"
    /\ UNCHANGED <<rsp, reg>>
    /\ WriteData(cpu.inst.page, cpu.inst.word)

\* push_handler and call_handler move rsp before they translate it, and the
\* trap frame keeps the moved value.
ExecutePush ==
    /\ cpu.inst.op = "push"
    /\ rsp - 1 \in DataPages
    /\ rsp' = rsp - 1
    /\ UNCHANGED reg
    /\ WriteData(rsp - 1, reg)

\* pop_handler, leave_handler and ret_handler translate first.
ExecutePop ==
    /\ cpu.inst.op = "pop"
    /\ rsp \in DataPages
    /\ \/ /\ ~Translates(m, rsp, FALSE)
          /\ PageFault(rsp)
          /\ UNCHANGED <<rsp, reg>>
       \/ /\ Translates(m, rsp, FALSE)
          /\ ReadData(rsp)
          /\ rsp' = rsp + 1
          /\ Retire

Execute ==
    /\ cpu.stage = "execute"
    /\ \/ ExecuteRegister
       \/ ExecuteLoad
       \/ ExecuteStore
       \/ ExecutePush
       \/ ExecutePop

Next == Running /\ SwapSpaceLeft(m) /\ (Fetch \/ Execute)

Spec == Init /\ [][Next]_vars

\* main calls instruction_cycle again and again.
FairSpec == Spec /\ WF_system(Next)

-----------------------------------------------------------------------------
(* Properties                                                               *)

\* The machine, the instruction in flight and the registers have their types.
TypeOK ==
    /\ m \in Machine
    /\ cpu.stage \in {"fetch", "execute"}
    /\ cpu.inst \in Operations
    /\ cpu.rsp \in 1 .. NumData + 1
    /\ rsp \in 1 .. NumData + 1
    /\ reg \in Words
    /\ op \in {NoOp} \cup {LoadOf(Proc, a) : a \in DataPages}
              \cup {StoreOf(Proc, a, w) : a \in DataPages, w \in Words}

\* The reverse mapping and the page table are inverse to each other: a frame
\* is allocated exactly when entries point to it, its mapping[] holds these
\* entries and no other, and reversed_counter counts them.  The dirty bit,
\* which is kept in the frame and in its entry, is the same in both.
ReverseMapConsistent == Running => InverseMaps(m) /\ SameDirtyBits(m)

\* What fix_pagefault relies on when it discards a clean frame: if the page has
\* a swap address, the file there holds what the frame holds.
CleanFrameIsOnSwap ==
    Running => \A f \in Frames :
        LET d == m.page_map[f] IN
        d.allocated = 1 /\ d.dirty = 0 /\ d.saddr # 0 =>
            SwapFile(m, d.saddr) = m.pm[f]

\* No two pages are to be found in the same swap file.
SwapFilesNotShared ==
    Running => \A p, q \in PTEs :
        LET Home(pte) == IF m.pt[pte].present = 1
                         THEN m.page_map[Ppn(m.pt[pte])].saddr ELSE m.pt[pte].saddr
        IN  p # q /\ Home(p) # 0 => Home(p) # Home(q)

\* Paging is transparent to the data of the program: whatever is discarded,
\* written back and read again, an instruction that retires has stored its word
\* to its page and changed no other page, or has loaded what its page holds
\* since the last store to it; a fetch or a fault changes nothing, or the
\* simulator stops.
DataSpace == INSTANCE AddressSpaces WITH
    Procs <- {Proc}, Pages <- DataPages, Unborn <- NULL, MaxPid <- 1,
    space <- [p \in {Proc} |-> [page \in DataPages |-> Content(m, page)]],
    result <- [p \in {Proc} |-> reg], up <- Running

PagingIsTransparent == DataSpace!Spec

\* The page the access of the instruction in flight translates, if any.
Accessed ==
    CASE cpu.inst.op \in {"load", "store"} -> {cpu.inst.page}
      [] cpu.inst.op = "push" -> {rsp - 1} \cap DataPages
      [] cpu.inst.op = "pop"  -> {rsp} \cap DataPages
      [] OTHER -> {}

AboutToRetire ==
    /\ cpu.stage = "execute"
    /\ \A page \in Accessed : Translates(m, page, cpu.inst.op \in {"store", "push"})

\* "process 1, second `mov`: no page fault" (isa.c:53): a fault is fixed, so that
\* the program goes on executing instructions, unless the simulator stops.  A
\* push or pop that leaves the stack and a full swap space stop the model.
Stopped ==
    \/ ~Running
    \/ ~SwapSpaceLeft(m)
    \/ cpu.stage = "execute" /\ cpu.inst.op = "push" /\ rsp - 1 \notin DataPages
    \/ cpu.stage = "execute" /\ cpu.inst.op = "pop" /\ rsp \notin DataPages
SecondExecutionSucceeds == []<>(AboutToRetire \/ Stopped)
=============================================================================
