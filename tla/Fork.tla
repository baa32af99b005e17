--------------------------------- MODULE Fork ---------------------------------
(***************************************************************************)
(* fork, round-robin scheduling and kernel stacks: src/src/process/fork.c, *)
(* schedule.c, syscall.c, the trap path of interrupt.c and the copy-on-    *)
(* write case of pagefault.c.  config.json builds the component twice,     *)
(* with USE_FORK_NAIVE_COPY and with USE_FORK_COW; "build" says which one  *)
(* runs.                                                                   *)
(*                                                                         *)
(* One processor executes instructions of the current process: one step is *)
(* one instruction with the trap it may take, which ends in os_schedule.   *)
(* The programs are arbitrary.  As in tests/test_fork.c all pages are      *)
(* mapped when the program starts, so that no frame is ever replaced and   *)
(* "time" is not kept.  A step that ends the simulator leaves nothing to   *)
(* be seen but the reason.  A definition named after a fault               *)
(* (ChildPointsBack, ...) is not part of the model.                        *)
(***************************************************************************)
EXTENDS PageFrames, MemoryOps

CONSTANTS MaxProcs,     \* bound: processes a run may create
          NumPages,     \* pages of a process; page 0 is its text
          Code,         \* content of the text page
          StoreWords    \* words the programs store

ASSUME ForkAssumption ==
    /\ MaxProcs \in Nat \ {0} /\ NumPages \in Nat \ {0}
    /\ NumFrames >= NumPages
    /\ Code \in Words /\ StoreWords \subseteq Words
    /\ PTEs = (1 .. MaxProcs) \X (0 .. NumPages - 1)

Procs == 1 .. MaxProcs
Pages == 0 .. NumPages - 1
TEXT == 0

\* pcb_t; "context" is the kernel stack the process was last switched away from.
PCBs == [pid : 1 .. MaxProcs, next : Procs, prev : Procs, ks : Procs, context : 0 .. MaxProcs]

\* A pointer that is not NULL points to something.
ASSUME NullAssumption == NULL \notin PCBs /\ NULL \notin [Pages -> Words]

VARIABLES build,     \* which of the two builds runs
          m,         \* see PageFrames
          pcb,       \* process control blocks; NULL is not allocated
          kstack,    \* kernel stacks: thread info and the saved user frame
          cpu,       \* a register, the kernel stack of TSS and RSP, and CR3
          restart,   \* the store that faulted and that a process will restart
          op         \* what the last instruction asked of memory, see MemoryOps

system == <<build, m, pcb, kstack, cpu, restart>>
vars == <<system, op>>

Alive == {p \in Procs : pcb[p] # NULL}
Running == m.panic = "none"

\* get_current_pcb: RSP gives the kernel stack, its thread info the process.
Current == kstack[cpu.ks].pcb

\* Page faults, loads and stores go through CR3.
Entry(page) == <<cpu.cr3, page>>

\* vma_mode.write of the areas of the test: text is not writable.
AreaWritable(page) == page # TEXT

-----------------------------------------------------------------------------
(* The loaders of tests/test_fork.c                                         *)

\* setup_pagetable_from_vma in the build with areas, link_page_table otherwise
SetUp(n, page) ==
    LET pte == <<1, page>>
        readonly == IF AreaWritable(page) THEN 0 ELSE 1
    IN  IF build = "cow"
        THEN allocate_physicalframe(
                [n EXCEPT !.pt[pte] = WithReadOnly([@ EXCEPT !.present = 1], readonly)], pte)
        ELSE link_page_table(n, pte, page)

Loaded ==
    LET load[page \in Pages] ==
            SetUp(IF page = 0 THEN BlankMachine ELSE load[page - 1], page)
    IN  [load[NumPages - 1] EXCEPT !.pm[0] = Code]

Init ==
    /\ build \in {"naive", "cow"}
    /\ m = Loaded
    /\ pcb = [p \in Procs |-> IF p = 1
                THEN [pid |-> 1, next |-> 1, prev |-> 1, ks |-> 1, context |-> 0]
                ELSE NULL]
    /\ kstack = [p \in Procs |-> [pcb |-> IF p = 1 THEN 1 ELSE 0, rax |-> 0]]
    /\ cpu = [rax |-> 0, ks |-> 1, cr3 |-> 1]
    /\ restart = [p \in Procs |-> NULL]
    /\ op = NoOp

-----------------------------------------------------------------------------
(* Traps and os_schedule                                                    *)

\* software_push_userframe of a trap into the kernel
Saved == [kstack EXCEPT ![cpu.ks].rax = cpu.rax]

\* os_schedule and the way back to user mode, with the kernel's data as the
\* handler leaves them.  The processor still holds the current process' RSP.
Schedule(pcbs, kstacks) ==
    LET old == kstacks[cpu.ks].pcb
        stored == [pcbs EXCEPT ![old].context = cpu.ks]
        new == stored[old].next
        ks == stored[new].context
    IN  /\ pcb' = stored
        /\ kstack' = kstacks
        /\ cpu' = [rax |-> kstacks[ks].rax, ks |-> ks, cr3 |-> new]

\* The handler's machine, unless it stopped the simulator.
Stops(n) == n.panic # "none"
Stop(n) ==
    /\ m' = [m EXCEPT !.panic = n.panic]
    /\ op' = NoOp
    /\ UNCHANGED <<pcb, kstack, cpu, restart>>
Timeless(n) ==
    [n EXCEPT !.page_map = [f \in Frames |-> [@[f] EXCEPT !.time = 0]]]

-----------------------------------------------------------------------------
(* fork                                                                     *)

\* The walk along the ring ends before it looks at the last process.
get_newpid(p) ==
    LET seen == {pcb[q].pid : q \in {q \in Alive : q = p \/ pcb[q].next # p}}
    IN  1 + CHOOSE pid \in seen : \A other \in seen : other <= pid

ParentNotMarked(n, p, q, page) ==
    [n EXCEPT !.pt[<<q, page>>] = WithReadOnly(n.pt[<<p, page>>], 1)]
MarkReadOnly(n, p, q, page) ==
    LET e == WithReadOnly(n.pt[<<p, page>>], 1)
    IN  [n EXCEPT !.pt[<<p, page>>] = e, !.pt[<<q, page>>] = e]

\* copy_pagetable: memcpy of the table, and with copy-on-write every present
\* entry becomes read-only on both sides and a second mapping of its frame.
copy_pagetable(p, q) ==
    LET copied == [m EXCEPT !.pt =
            [pte \in PTEs |-> IF pte[1] = q THEN m.pt[<<p, pte[2]>>] ELSE m.pt[pte]]]
        Share(n, page) ==
            IF n.pt[<<p, page>>].present = 1
            THEN map_pte4(MarkReadOnly(n, p, q, page), <<q, page>>, Ppn(n.pt[<<p, page>>]))
            ELSE n
        share[page \in Pages] == Share(IF page = 0 THEN copied ELSE share[page - 1], page)
    IN  IF build = "cow" THEN share[NumPages - 1] ELSE copied

\* copy_userframes: every present page of the parent gets a frame of its own.
copy_userframes(n, p, q) ==
    LET Copy(k, page) ==
            IF k.pt[<<p, page>>].present = 1
            THEN copy_physicalframe(k, <<q, page>>, Ppn(k.pt[<<p, page>>]))
            ELSE k
        copy[page \in Pages] == Copy(IF page = 0 THEN n ELSE copy[page - 1], page)
    IN  copy[NumPages - 1]

\* compare_pagetables: the low 12 bits of the entries and the frames.
SameTables(n, p, q) ==
    \A page \in Pages :
        LET d == n.pt[<<q, page>>]
            s == n.pt[<<p, page>>]
        IN  /\ d.present = s.present /\ d.saddr % 2048 = s.saddr % 2048
            /\ d.present = 1 => n.pm[Ppn(d)] = n.pm[Ppn(s)]

\* The child's machine after fork_naive_copy or fork_cow.
ForkedMachine(p, q) ==
    LET n == copy_pagetable(p, q)
    IN  IF build = "cow" THEN n
        ELSE LET c == copy_userframes(n, p, q)
             IN  Guarded(c, SameTables(c, p, q), "compare_pagetables", c)

\* The child's kernel stack: a copy whose thread info and return value differ.
ChildStack(p, q) == [pcb |-> q, rax |-> 0]

ChildPointsBack(p, q, pid) ==
    LET child == [pcb[p] EXCEPT !.pid = pid, !.ks = q, !.context = q, !.prev = p, !.next = p]
    IN  [pcb EXCEPT ![q] = child, ![p].next = q]

\* The child goes right after its parent.  "prev" is only kept for two.
LinkChild(p, q, pid) ==
    LET child == [pcb[p] EXCEPT !.pid = pid, !.ks = q, !.context = q, !.prev = p]
    IN  [pcb EXCEPT ![q] = child, ![p].next = q,
                    ![p].prev = IF pcb[p].prev = p THEN q ELSE @]

get_childframe_num(p) == Cardinality({page \in Pages : m.pt[<<p, page>>].present = 1})

ForkRefused(p) ==
    /\ build = "naive" /\ ~enough_frames(m, get_childframe_num(p))
    /\ op' = ForkOf(p)
    /\ Schedule(pcb, [Saved EXCEPT ![pcb[p].ks].rax = -1])
    /\ UNCHANGED <<build, m, restart>>

ForkCreates(p) ==
    /\ build = "naive" => enough_frames(m, get_childframe_num(p))
    /\ Procs # Alive
    /\ LET q == First(Procs \ Alive)
           n == ForkedMachine(p, q)
           pid == get_newpid(p)
       IN  \/ Stops(n) /\ Stop(n)
           \/ /\ ~Stops(n)
              /\ op' = ForkOf(p)
              /\ m' = Timeless(n)
              /\ Schedule(LinkChild(p, q, pid),
                          [Saved EXCEPT ![pcb[p].ks].rax = pid, ![q] = ChildStack(p, q)])
              /\ UNCHANGED restart
    /\ UNCHANGED build

\* int $0x80 with rax = 57
syscall_fork == restart[Current] = NULL /\ (ForkRefused(Current) \/ ForkCreates(Current))

-----------------------------------------------------------------------------
(* Other instructions                                                       *)

Fetched == WordAt(m, Entry(TEXT)) = Code
DecodeFails ==
    /\ ~Fetched
    /\ Stop([m EXCEPT !.panic = "decode"])
    /\ UNCHANGED build

Load(page) ==
    /\ Fetched /\ restart[Current] = NULL
    /\ op' = LoadOf(Current, page)
    /\ cpu' = [cpu EXCEPT !.rax = WordAt(m, Entry(page))]
    /\ UNCHANGED <<build, m, pcb, kstack, restart>>

\* A store that the entry allows; the frame and its entries become dirty.
StoreDone(page, word) ==
    /\ Translates(m, Entry(page), TRUE)
    /\ op' = StoreOf(Current, page, word)
    /\ m' = Timeless(WriteAccess(m, Entry(page), word))
    /\ restart' = [restart EXCEPT ![Current] = NULL]
    /\ UNCHANGED <<pcb, kstack, cpu>>

ProtectionFaultIgnored(page) ==
    LET pte == <<Current, page>>
    IN  IF AreaWritable(page) THEN copy_on_write(m, pte) ELSE m

\* fix_pagefault with USE_FORK_COW: write protection is the only fault it fixes.
fix_protectionfault(page) ==
    LET pte == <<Current, page>>
    IN  Guarded(m, ReadOnly(m.pt[pte]) = 1 /\ AreaWritable(page), "not in area",
                copy_on_write(m, pte))

Fix(page) ==
    IF build = "cow" THEN fix_protectionfault(page)
    ELSE fix_pagefault(m, <<Current, page>>)

StoreFaults(page, word) ==
    LET n == Fix(page) IN
    /\ ~Translates(m, Entry(page), TRUE)
    /\ \/ Stops(n) /\ Stop(n)
       \/ /\ ~Stops(n)
          /\ op' = NoOp
          /\ m' = Timeless(n)
          /\ restart' = [restart EXCEPT ![Current] = [page |-> page, word |-> word]]
          /\ Schedule(pcb, Saved)

Store(page, word) ==
    /\ Fetched
    /\ restart[Current] \in {NULL, [page |-> page, word |-> word]}
    /\ StoreDone(page, word) \/ StoreFaults(page, word)
    /\ UNCHANGED build

\* int $0x80 with rax = 1: write_handler only reads, its process stays as it is.
syscall_write ==
    /\ Fetched /\ restart[Current] = NULL
    /\ op' = NoOp
    /\ Schedule(pcb, Saved)
    /\ UNCHANGED <<build, m, restart>>

\* interrupt_stack_switching(0x81), at the end of any instruction that did not
\* trap; a restarted instruction is not at its end.
Timer ==
    /\ Fetched /\ restart[Current] = NULL
    /\ op' = NoOp
    /\ Schedule(pcb, Saved)
    /\ UNCHANGED <<build, m, restart>>

Next ==
    /\ Running
    /\ \/ Fetched /\ syscall_fork
       \/ DecodeFails
       \/ \E page \in Pages : Load(page)
       \/ \E page \in Pages, word \in StoreWords : Store(page, word)
       \/ syscall_write
       \/ Timer

Spec == Init /\ [][Next]_vars

\* The main loop runs: a restarted instruction is executed, and a process that
\* does not trap meets the timer.
RestartedStore ==
    /\ restart[Current] # NULL
    /\ Store(restart[Current].page, restart[Current].word)
FairSpec ==
    /\ Spec
    /\ WF_system(Running /\ RestartedStore)
    /\ WF_system(Running /\ DecodeFails)
    /\ WF_system(Running /\ Timer)

-----------------------------------------------------------------------------
(* Properties                                                               *)

\* The machine, the kernel's data and the processor have their types.
TypeOK ==
    /\ build \in {"naive", "cow"}
    /\ m \in Machine
    /\ pcb \in [Procs -> {NULL} \cup PCBs]
    /\ kstack \in [Procs -> [pcb : 0 .. MaxProcs, rax : Words \cup -1 .. MaxProcs]]
    /\ cpu \in [rax : Words \cup -1 .. MaxProcs, ks : Procs, cr3 : Procs]
    /\ restart \in [Procs -> {NULL} \cup [page : Pages, word : StoreWords]]
    /\ op \in {NoOp} \cup {ForkOf(p) : p \in Procs} \cup {LoadOf(p, a) : p \in Procs, a \in Pages}
              \cup {StoreOf(p, a, w) : p \in Procs, a \in Pages, w \in StoreWords}

\* Across forks and copies on write, mapping[] and reversed_counter of a frame
\* account for exactly the entries of all processes that point to it, and the
\* dirty bits of frame and entries agree.
SharingAccounted == Running => InverseMaps(m) /\ SameDirtyBits(m)

\* A frame that several entries point to is writable through none of them; and
\* a writable page whose frame nobody shares is not left read-only, where the
\* next store would run into the assertion of copy_on_write.
ProtectedWhileShared ==
    Running => \A f \in Frames : \A pte \in Pointing(m, f) :
        /\ Cardinality(Pointing(m, f)) > 1 => ReadOnly(m.pt[pte]) = 1
        /\ Pointing(m, f) = {pte} /\ AreaWritable(pte[2]) => ReadOnly(m.pt[pte]) = 0

\* Following "next" from any process visits every process before it returns:
\* the round robin of os_schedule forgets nobody, whoever forked whom.
RingHoldsEveryProcess ==
    \A p \in Alive :
        LET walk[i \in 0 .. MaxProcs] == IF i = 0 THEN p ELSE pcb[walk[i - 1]].next
        IN  {walk[i] : i \in 1 .. Cardinality(Alive)} = Alive

\* Processes are isolated: a store of the current process changes this page of
\* this process, to this word, and nothing else that any process sees; a load
\* brings it what it stored there last; registers are saved and restored around
\* every trap, and a fork returns twice.
Processes == INSTANCE AddressSpaces WITH
    Unborn <- NULL, MaxPid <- MaxProcs, up <- Running,
    space <- [p \in Procs |-> IF p \in Alive
                THEN [page \in Pages |-> Content(m, <<p, page>>)] ELSE NULL],
    result <- [p \in Procs |-> IF p = Current THEN cpu.rax
                ELSE IF p \in Alive THEN kstack[pcb[p].ks].rax ELSE 0]

ProcessesAreIsolated == Processes!Spec

\* A store that faulted is restarted and done, however the processes that run
\* in between share and copy the frame.
FaultedStoreIsDone ==
    \A p \in Procs : restart[p] # NULL ~> (restart[p] = NULL \/ ~Running)

\* Every process gets the processor again and again.
EveryProcessRuns ==
    \A p \in Procs : [](p \in Alive => <>(cpu.cr3 = p \/ ~Running))
=============================================================================
