----------------------------- MODULE Fork_proofs -----------------------------
(***************************************************************************)
(* For any number of processes, pages, frames and slots: the ring of the   *)
(* scheduler holds every process, the accounts of shared frames are exact, *)
(* a shared frame is writable through none of its entries, and processes   *)
(* are isolated: Fork implements AddressSpaces.                            *)
(*                                                                         *)
(* The invariant has two halves.  The kernel's half says whose stack is    *)
(* whose and that the only part of the ring closed under "next" is all of  *)
(* it.  The memory's half is PageFrames' consistency, exact counts, write  *)
(* protection of what is shared, and that just the living processes have   *)
(* their pages mapped.                                                     *)
(***************************************************************************)
EXTENDS Fork, PageFrames_proofs

-----------------------------------------------------------------------------
(* The kernel's half                                                        *)

AliveOf(pcbs) == {p \in Procs : pcbs[p] # NULL}

Registers == Words \cup -1 .. MaxProcs
Stacks == [pcb : 0 .. MaxProcs, rax : Registers]
Cpus == [rax : Registers, ks : Procs, cr3 : Procs]

\* Kernel stack p belongs to process p, and processes are created in order.
Owned(pcbs, stacks, c) ==
    LET alive == AliveOf(pcbs)
    IN  /\ 1 \in alive
        /\ \A p \in alive, r \in Procs : r <= p => r \in alive
        /\ \A p \in alive :
            /\ pcbs[p].pid <= p /\ pcbs[p].ks = p /\ pcbs[p].next \in alive
            /\ stacks[p].pcb = p
            /\ p # c.ks => pcbs[p].context = p
        /\ c.ks \in alive /\ c.cr3 = c.ks

\* Who follows "next" cannot stay among some of the processes.
OneRing(pcbs) ==
    \A S \in SUBSET AliveOf(pcbs) :
        S # {} /\ (\A p \in S : pcbs[p].next \in S) => S = AliveOf(pcbs)

KernelSound(pcbs, stacks, c) ==
    /\ pcbs \in [Procs -> {NULL} \cup PCBs]
    /\ stacks \in [Procs -> Stacks]
    /\ c \in Cpus
    /\ Owned(pcbs, stacks, c)
    /\ OneRing(pcbs)

\* What Schedule makes of the kernel's data
Switched(pcbs, stacks, c, pcbs2, stacks2, c2) ==
    LET old == stacks[c.ks].pcb
        stored == [pcbs EXCEPT ![old].context = c.ks]
        new == stored[old].next
        ks == stored[new].context
    IN  /\ pcbs2 = stored
        /\ stacks2 = stacks
        /\ c2 = [rax |-> stacks[ks].rax, ks |-> ks, cr3 |-> new]

\* The fields of a process control block that has been changed in one of them
LEMMA ContextOfPCB ==
  ASSUME NEW x \in PCBs, NEW ks \in Procs
  PROVE  LET y == [x EXCEPT !.context = ks]
         IN  /\ y \in PCBs /\ y.context = ks
             /\ y.pid = x.pid /\ y.ks = x.ks /\ y.next = x.next /\ y.prev = x.prev
BY ForkAssumption DEF PCBs, Procs

\* os_schedule stores the context of the process it leaves and enters the next one with
\* the stack that one was left with: its own.
LEMMA SwitchKeepsKernel ==
  ASSUME NEW pcbs, NEW stacks, NEW c, KernelSound(pcbs, stacks, c),
         NEW pcbs2, NEW stacks2, NEW c2, Switched(pcbs, stacks, c, pcbs2, stacks2, c2)
  PROVE  /\ KernelSound(pcbs2, stacks2, c2)
         /\ AliveOf(pcbs2) = AliveOf(pcbs)
         /\ c2.ks = pcbs[c.ks].next /\ c2.rax = stacks[c2.ks].rax
<1> DEFINE alive == AliveOf(pcbs)
           old == c.ks
           x == [pcbs[old] EXCEPT !.context = old]
           new == pcbs[old].next
<1>1. /\ pcbs \in [Procs -> {NULL} \cup PCBs] /\ stacks \in [Procs -> Stacks] /\ c \in Cpus
      /\ Owned(pcbs, stacks, c) /\ OneRing(pcbs)
  BY DEF KernelSound
<1>2. alive \subseteq Procs /\ old \in alive /\ \A p \in alive : pcbs[p] \in PCBs
  BY <1>1 DEF Owned, AliveOf
<1>3. stacks[c.ks].pcb = old
  BY <1>1, <1>2 DEF Owned
<1>4. /\ x \in PCBs /\ x.context = old /\ x.pid = pcbs[old].pid /\ x.ks = pcbs[old].ks
      /\ x.next = new
  BY <1>2, ContextOfPCB
<1>5. pcbs2 = [pcbs EXCEPT ![old] = x]
  BY <1>3 DEF Switched
<1> HIDE DEF x
<1>6. /\ pcbs2 \in [Procs -> {NULL} \cup PCBs]
      /\ pcbs2[old] = x /\ \A p \in Procs \ {old} : pcbs2[p] = pcbs[p]
  BY <1>1, <1>2, <1>4, <1>5
<1>7. AliveOf(pcbs2) = alive
  BY <1>2, <1>4, <1>6, NullAssumption DEF AliveOf
<1>8. /\ \A p \in alive : /\ pcbs2[p].pid = pcbs[p].pid /\ pcbs2[p].ks = pcbs[p].ks
                          /\ pcbs2[p].next = pcbs[p].next
                          /\ pcbs2[p].context = p
  BY <1>1, <1>2, <1>4, <1>6 DEF Owned
<1>9. new \in alive
  BY <1>1, <1>2 DEF Owned
<1>10. stacks2 = stacks /\ c2 = [rax |-> stacks[new].rax, ks |-> new, cr3 |-> new]
  <2>1. pcbs2[old].next = new /\ pcbs2[new].context = new
    BY <1>2, <1>8, <1>9
  <2>2. /\ stacks2 = stacks
        /\ c2 = [rax |-> stacks[pcbs2[pcbs2[old].next].context].rax,
                 ks |-> pcbs2[pcbs2[old].next].context, cr3 |-> pcbs2[old].next]
    BY <1>3 DEF Switched
  <2>. QED BY <2>1, <2>2
<1> HIDE DEF new
<1>11. c2 \in Cpus /\ c2.ks = new /\ c2.cr3 = new /\ c2.rax = stacks[c2.ks].rax
  BY <1>1, <1>2, <1>9, <1>10 DEF Cpus, Stacks
<1>12. Owned(pcbs2, stacks2, c2)
  BY <1>1, <1>7, <1>8, <1>9, <1>10, <1>11 DEF Owned
<1>13. OneRing(pcbs2)
  BY <1>1, <1>7, <1>8 DEF OneRing
<1>. QED BY <1>1, <1>6, <1>7, <1>10, <1>11, <1>12, <1>13 DEF KernelSound, new

\* The least of some processes
LEMMA FirstProcess ==
  ASSUME NEW S \in SUBSET Procs, S # {}
  PROVE  First(S) \in S /\ \A p \in S : First(S) <= p
<1>1. S \in SUBSET Nat
  BY ForkAssumption DEF Procs
<1>2. \E p \in S : \A r \in S : p <= r
  BY <1>1, LeastOfNaturals
<1>. QED BY <1>2 DEF First

\* What fork finds of the kernel: a slot for the child above all processes, and a pid.
LEMMA NewProcess ==
  ASSUME KernelSound(pcb, kstack, cpu), Procs # Alive, NEW p \in Alive
  PROVE  LET q == First(Procs \ Alive)
         IN  /\ q \in Procs \ Alive /\ \A r \in Alive : r < q
             /\ get_newpid(p) \in 1 .. q
<1> DEFINE q == First(Procs \ Alive)
           seen == {pcb[r].pid : r \in {r \in Alive : r = p \/ pcb[r].next # p}}
<1>1. Alive = AliveOf(pcb) /\ Alive \subseteq Procs /\ Procs \subseteq Nat
  BY ForkAssumption DEF Alive, AliveOf, Procs
<1>2. q \in Procs \ Alive
  BY <1>1, FirstProcess
<1> HIDE DEF q
<1>3. ASSUME NEW r \in Alive PROVE r < q
  <2>1. q <= r => q \in Alive
    BY <1>1, <1>2 DEF KernelSound, Owned
  <2>. QED BY <1>1, <1>2, <2>1
<1>4. \A r \in Alive : pcb[r].pid \in Nat /\ pcb[r].pid >= 1 /\ pcb[r].pid <= r
  <2>1. \A r \in Alive : pcb[r] \in PCBs /\ pcb[r].pid <= r
    BY <1>1 DEF KernelSound, Owned, Alive
  <2>. QED BY <2>1, ForkAssumption DEF PCBs
<1>5. seen \in SUBSET Nat /\ seen # {} /\ \A pid \in seen : pid <= q - 1 /\ pid >= 1
  <2>1. \A r \in Alive : pcb[r].pid <= q - 1
    BY <1>1, <1>2, <1>3, <1>4
  <2>. QED BY <1>4, <2>1
<1>6. get_newpid(p) = 1 + CHOOSE pid \in seen : \A other \in seen : other <= pid
  BY DEF get_newpid
<1> HIDE DEF seen
<1>7. q - 1 \in Nat
  BY <1>1, <1>2, ForkAssumption DEF Procs
<1>8. \E pid \in seen : \A other \in seen : other <= pid
  BY <1>5, <1>7, GreatestOfBounded
<1>9. get_newpid(p) \in 1 .. q
  <2> DEFINE pid == CHOOSE pid \in seen : \A other \in seen : other <= pid
  <2>1. pid \in seen
    BY <1>8
  <2> HIDE DEF pid
  <2>2. pid \in Nat /\ pid <= q - 1 /\ pid >= 1
    BY <1>5, <2>1
  <2>3. get_newpid(p) = 1 + pid
    BY <1>6 DEF pid
  <2>. QED BY <1>1, <1>2, <2>2, <2>3
<1>. QED BY <1>2, <1>3, <1>9 DEF q

ChildBlock(x, p, q, pid) == [x EXCEPT !.pid = pid, !.ks = q, !.context = q, !.prev = p]
ParentBlock(x, p, q) == [x EXCEPT !.next = q, !.prev = IF x.prev = p THEN q ELSE @]

\* The process control block of a child
LEMMA ChildOfPCB ==
  ASSUME NEW x \in PCBs, NEW p \in Procs, NEW q \in Procs, NEW pid \in 1 .. MaxProcs
  PROVE  LET y == ChildBlock(x, p, q, pid)
         IN  /\ y \in PCBs /\ y.pid = pid /\ y.ks = q /\ y.context = q
             /\ y.next = x.next
<1> DEFINE y == ChildBlock(x, p, q, pid)
<1>1. y = [pid |-> pid, next |-> x.next, prev |-> p, ks |-> q, context |-> q]
  <2>1. x = [pid |-> x.pid, next |-> x.next, prev |-> x.prev, ks |-> x.ks, context |-> x.context]
    BY DEF PCBs
  <2>2. y = [x EXCEPT !.pid = pid, !.ks = q, !.context = q, !.prev = p]
    BY DEF ChildBlock
  <2> HIDE DEF y
  <2>. QED BY <2>1, <2>2, Zenon
<1>2. x.next \in Procs /\ q \in 0 .. MaxProcs
  BY ForkAssumption DEF PCBs, Procs
<1> HIDE DEF y
<1>. QED BY <1>1, <1>2 DEF PCBs, y

\* The process control block of its parent
LEMMA ParentOfPCB ==
  ASSUME NEW x \in PCBs, NEW p \in Procs, NEW q \in Procs
  PROVE  LET y == ParentBlock(x, p, q)
         IN  /\ y \in PCBs /\ y.pid = x.pid /\ y.ks = x.ks /\ y.context = x.context
             /\ y.next = q
<1> DEFINE y == ParentBlock(x, p, q)
           prev == IF x.prev = p THEN q ELSE x.prev
<1>1. y = [pid |-> x.pid, next |-> q, prev |-> prev, ks |-> x.ks, context |-> x.context]
  <2>1. x = [pid |-> x.pid, next |-> x.next, prev |-> x.prev, ks |-> x.ks, context |-> x.context]
    BY DEF PCBs
  <2>2. y = [x EXCEPT !.next = q, !.prev = prev]
    BY DEF ParentBlock
  <2> HIDE DEF y, prev
  <2>. QED BY <2>1, <2>2, Zenon
<1>2. x.pid \in 1 .. MaxProcs /\ x.ks \in Procs /\ x.context \in 0 .. MaxProcs /\ prev \in Procs
  BY DEF PCBs
<1> HIDE DEF y, prev
<1>. QED BY <1>1, <1>2 DEF PCBs, y

\* What fork takes for its child
NextChild(q, pid) ==
    /\ q \in Procs \ Alive /\ pid \in 1 .. q
    /\ \A r \in Alive : r < q
    /\ \A r \in Procs \ Alive : q <= r
\* The stacks of the living processes and of a child
OwnStacks(stacks, q) ==
    stacks \in [Procs -> Stacks] /\ \A r \in Alive \cup {q} : stacks[r].pcb = r

\* The child goes into the ring between its parent and the next process.
LEMMA LinkKeepsKernel ==
  ASSUME KernelSound(pcb, kstack, cpu), NEW p, p = cpu.ks,
         NEW q, NEW pid, NextChild(q, pid), NEW stacks, OwnStacks(stacks, q)
  PROVE  /\ KernelSound(LinkChild(p, q, pid), stacks, cpu)
         /\ AliveOf(LinkChild(p, q, pid)) = Alive \cup {q}
<1> DEFINE pcbs == LinkChild(p, q, pid)
           block == pcb[p]
           child == ChildBlock(block, p, q, pid)
           parent == ParentBlock(block, p, q)
<1>N. /\ q \in Procs \ Alive /\ pid \in 1 .. q
      /\ (\A r \in Alive : r < q) /\ \A r \in Procs \ Alive : q <= r
  BY DEF NextChild
<1>S. /\ stacks \in [Procs -> Stacks] /\ stacks[q].pcb = q /\ \A r \in Alive : stacks[r].pcb = r
  BY DEF OwnStacks
<1>P. p \in Alive
  BY DEF KernelSound, Owned, Alive, AliveOf
<1>. USE <1>N, <1>S, <1>P
<1>1. /\ pcb \in [Procs -> {NULL} \cup PCBs] /\ cpu \in Cpus
      /\ Owned(pcb, kstack, cpu) /\ OneRing(pcb)
      /\ Alive = AliveOf(pcb)
  BY DEF KernelSound, Alive, AliveOf
<1>2. Alive \subseteq Procs /\ \A r \in Alive : pcb[r] \in PCBs
  BY <1>1 DEF AliveOf
<1>3. Procs \subseteq Nat /\ 1 .. q \subseteq 1 .. MaxProcs /\ p # q
  BY <1>1, <1>N, <1>P, ForkAssumption DEF Procs
<1>4. block \in PCBs /\ p \in Procs /\ q \in Procs /\ pid \in 1 .. MaxProcs
  BY <1>2, <1>3, <1>N, <1>P
<1> HIDE DEF block
<1>C. /\ child \in PCBs /\ child.pid = pid /\ child.ks = q /\ child.context = q
      /\ child.next = block.next
  BY <1>4, ChildOfPCB
<1>5. /\ parent \in PCBs /\ parent.pid = block.pid /\ parent.ks = block.ks
      /\ parent.context = block.context /\ parent.next = q
  BY <1>4, ParentOfPCB
<1>6. pcbs = [pcb EXCEPT ![q] = child, ![p] = parent]
  BY <1>1, <1>2, <1>3 DEF LinkChild, ChildBlock, ParentBlock, block
<1> HIDE DEF pcbs, child, parent
<1> USE DEF block
<1>7. /\ pcbs \in [Procs -> {NULL} \cup PCBs]
      /\ pcbs[q] = child /\ pcbs[p] = parent
      /\ \A r \in Procs \ {p, q} : pcbs[r] = pcb[r]
  BY <1>1, <1>2, <1>3, <1>C, <1>5, <1>6
<1>8. AliveOf(pcbs) = Alive \cup {q}
  BY <1>1, <1>2, <1>C, <1>5, <1>7, NullAssumption DEF AliveOf
<1>9. pcb[p].next \in Alive /\ \A r \in Alive : pcb[r].next \in Alive
  BY <1>1 DEF Owned
<1>10. Owned(pcbs, stacks, cpu)
  <2>1. 1 \in AliveOf(pcbs) /\ cpu.ks \in AliveOf(pcbs) /\ cpu.cr3 = cpu.ks
    BY <1>1, <1>8 DEF Owned
  <2>2. ASSUME NEW x \in AliveOf(pcbs), NEW r \in Procs, r <= x
        PROVE  r \in AliveOf(pcbs)
    <3>1. r \in Nat /\ x \in Nat /\ q \in Nat
      BY <1>2, <1>3, <1>8
    <3>2. x \in Alive => x < q
      OBVIOUS
    <3>3. r \notin Alive => q <= r
      OBVIOUS
    <3>4. x \in Alive => r \in Alive
      BY <1>1, <2>2 DEF Owned
    <3>5. r \notin Alive => r = q
      BY <1>8, <2>2, <3>1, <3>3, <3>4
    <3>. QED BY <1>8, <3>5
  <2>3. ASSUME NEW x \in AliveOf(pcbs)
        PROVE  /\ pcbs[x].pid <= x /\ pcbs[x].ks = x /\ pcbs[x].next \in AliveOf(pcbs)
               /\ stacks[x].pcb = x
               /\ x # cpu.ks => pcbs[x].context = x
    <3>1. CASE x = q
      BY <1>3, <1>C, <1>7, <1>8, <1>9, <3>1
    <3>2. CASE x = p
      BY <1>1, <1>5, <1>7, <1>8, <3>2 DEF Owned
    <3>3. CASE x \in Alive \ {p, q}
      BY <1>1, <1>2, <1>7, <1>8, <1>9, <3>3 DEF Owned
    <3>. QED BY <1>8, <3>1, <3>2, <3>3
  <2>. QED BY <2>1, <2>2, <2>3 DEF Owned
<1>11. OneRing(pcbs)
  <2> SUFFICES ASSUME NEW S \in SUBSET (Alive \cup {q}), S # {}, \A r \in S : pcbs[r].next \in S
               PROVE  S = Alive \cup {q}
    BY <1>8 DEF OneRing
  <2>1. \A r \in Alive \ {p} : pcbs[r].next = pcb[r].next
    BY <1>2, <1>7
  <2>2. pcbs[p].next = q /\ pcbs[q].next = pcb[p].next
    BY <1>C, <1>5, <1>7
  <2>3. q \in S
    <3> SUFFICES ASSUME q \notin S PROVE FALSE
      OBVIOUS
    <3>1. p \notin S
      BY <2>2
    <3>2. S \in SUBSET Alive /\ \A r \in S : pcb[r].next \in S
      BY <2>1, <3>1
    <3>3. S = Alive
      BY <1>1, <3>2 DEF OneRing
    <3>. QED BY <3>1, <3>3
  <2> DEFINE T == S \ {q}
  <2>4. T \in SUBSET Alive /\ T # {} /\ \A r \in T : pcb[r].next \in T
    <3>1. pcb[p].next \in T
      BY <1>9, <2>2, <2>3
    <3>2. ASSUME NEW r \in T PROVE pcb[r].next \in T
      <4>1. CASE r = p
        BY <3>1, <4>1
      <4>2. CASE r # p
        BY <1>9, <2>1, <4>2
      <4>. QED BY <4>1, <4>2
    <3>. QED BY <3>1, <3>2
  <2> HIDE DEF T
  <2>5. T = Alive
    BY <1>1, <2>4 DEF OneRing
  <2>. QED BY <2>3, <2>5 DEF T
<1>. QED BY <1>1, <1>7, <1>8, <1>10, <1>11 DEF KernelSound, pcbs

\* The walk along the ring from a process, as in RingHoldsEveryProcess
Walks(walk, p) ==
    /\ walk[0] = p
    /\ \A i \in 1 .. MaxProcs : walk[i] = pcb[walk[i - 1]].next

\* Who walks along the ring meets processes only.
LEMMA WalkStaysAlive ==
  ASSUME KernelSound(pcb, kstack, cpu), NEW p \in Alive, NEW walk, Walks(walk, p)
  PROVE  \A i \in 0 .. MaxProcs : walk[i] \in Alive
<1> DEFINE P == {i \in 0 .. MaxProcs : walk[i] \in Alive}
<1>1. 0 \in P /\ MaxProcs \in Nat
  BY ForkAssumption DEF Walks
<1>2. \A r \in Alive : pcb[r].next \in Alive
  BY DEF KernelSound, Owned, Alive, AliveOf
<1>3. \A i \in 1 .. MaxProcs : i - 1 \in P => i \in P
  BY <1>1, <1>2 DEF Walks
<1> HIDE DEF P
<1>4. 0 .. MaxProcs \subseteq P
  BY <1>1, <1>3, InductionUpTo
<1>. QED BY <1>4 DEF P

\* A walk of as many steps as there are processes meets all of them: either it
\* repeats itself, and the part it repeats is closed, or it cannot miss any.
LEMMA WalkMeetsAll ==
  ASSUME KernelSound(pcb, kstack, cpu), NEW p \in Alive, NEW walk, Walks(walk, p)
  PROVE  {walk[i] : i \in 1 .. Cardinality(Alive)} = Alive
<1> DEFINE last == Cardinality(Alive)
           W == {walk[i] : i \in 1 .. last}
<1>1. IsFiniteSet(Alive) /\ last \in Nat /\ last <= MaxProcs
  <2>1. IsFiniteSet(Procs) /\ Cardinality(Procs) = MaxProcs
    BY ForkAssumption, FS_Interval DEF Procs
  <2>2. Alive \in SUBSET Procs
    BY DEF Alive
  <2>. QED BY <2>1, <2>2, FS_Subset, FS_CardinalityType
<1>2. \A i \in 0 .. MaxProcs : walk[i] \in Alive
  BY WalkStaysAlive
<1>3. \A i \in 1 .. MaxProcs : walk[i] = pcb[walk[i - 1]].next
  BY DEF Walks
<1> HIDE DEF last
<1>4. W \subseteq Alive
  BY <1>1, <1>2, ForkAssumption
<1>5. CASE \E i, j \in 1 .. last : i < j /\ walk[i] = walk[j]
  <2>1. PICK i, j \in 1 .. last : i < j /\ walk[i] = walk[j]
    BY <1>5
  <2> DEFINE S == {walk[k] : k \in i .. j - 1}
  <2>2. S \subseteq W /\ S # {}
    <3>1. i .. j - 1 \subseteq 1 .. last /\ i \in i .. j - 1
      BY <1>1, <2>1
    <3>. QED BY <3>1
  <2>3. ASSUME NEW k \in i .. j - 1 PROVE pcb[walk[k]].next \in S
    <3>1. k + 1 \in 1 .. MaxProcs /\ (k + 1) - 1 = k
      BY <1>1, <2>1, ForkAssumption
    <3>2. pcb[walk[k]].next = walk[k + 1]
      BY <1>3, <3>1
    <3>3. CASE k + 1 = j
      <4>1. i \in i .. j - 1
        BY <2>1
      <4>. QED BY <2>1, <3>2, <3>3, <4>1
    <3>4. CASE k + 1 # j
      <4>1. k + 1 \in i .. j - 1
        BY <2>1, <3>4
      <4>. QED BY <3>2, <4>1
    <3>. QED BY <3>3, <3>4
  <2>4. \A r \in S : pcb[r].next \in S
    BY <2>3
  <2> HIDE DEF S, W
  <2>5. S \in SUBSET AliveOf(pcb) /\ Alive = AliveOf(pcb)
    BY <1>4, <2>2 DEF Alive, AliveOf
  <2>6. S = Alive
    BY <2>2, <2>4, <2>5 DEF KernelSound, OneRing
  <2>. QED BY <1>4, <2>2, <2>6 DEF W, last
<1>6. CASE ~ \E i, j \in 1 .. last : i < j /\ walk[i] = walk[j]
  <2> DEFINE f == [i \in 1 .. last |-> walk[i]]
  <2>1. \A i \in 1 .. last : walk[i] \in Alive
    BY <1>1, <1>2, ForkAssumption
  <2>2. ASSUME NEW i \in 1 .. last, NEW j \in 1 .. last, walk[i] = walk[j] PROVE i = j
    BY <1>1, <1>6, <2>2
  <2>3. f \in Injection(1 .. last, Alive)
    BY <2>1, <2>2 DEF Injection, IsInjective
  <2>4. Cardinality(1 .. last) = last /\ IsFiniteSet(1 .. last)
    BY <1>1, FS_Interval
  <2>5. f \in Surjection(1 .. last, Alive)
    <3> HIDE DEF f
    <3>. QED BY <1>1, <2>3, <2>4, FS_Injection DEF last
  <2>6. \A r \in Alive : \E i \in 1 .. last : walk[i] = r
    BY <2>5 DEF Surjection
  <2>. QED BY <1>4, <2>6 DEF last
<1>. QED BY <1>5, <1>6

\* The ring of a sound kernel holds every process.
LEMMA SoundRingHoldsAll ==
  ASSUME KernelSound(pcb, kstack, cpu)
  PROVE  RingHoldsEveryProcess
<1> SUFFICES ASSUME NEW p \in Alive
             PROVE  LET walk[i \in 0 .. MaxProcs] == IF i = 0 THEN p ELSE pcb[walk[i - 1]].next
                    IN  {walk[i] : i \in 1 .. Cardinality(Alive)} = Alive
  BY DEF RingHoldsEveryProcess
<1> DEFINE walk[i \in 0 .. MaxProcs] == IF i = 0 THEN p ELSE pcb[walk[i - 1]].next
           G == [x \in (1 .. MaxProcs) \X Alive |-> pcb[x[2]].next]
<1>1. MaxProcs \in Nat /\ \A r \in Alive : pcb[r].next \in Alive
  BY ForkAssumption DEF KernelSound, Owned, Alive, AliveOf
<1>2. G \in [(1 .. MaxProcs) \X Alive -> Alive]
  BY <1>1
<1>3. \A i \in 1 .. MaxProcs, r \in Alive : G[<<i, r>>] = pcb[r].next
  OBVIOUS
<1> HIDE DEF G
<1>4. PICK h : Runs(h, MaxProcs, Alive, p, G)
  <2> HIDE DEF walk
  <2>. QED BY <1>1, <1>2, LoopExists
<1>5. h = [i \in 0 .. MaxProcs |-> IF i = 0 THEN p ELSE pcb[h[i - 1]].next]
  <2> HIDE DEF walk
  <2>1. h \in [0 .. MaxProcs -> Alive] /\ h[0] = p
    BY <1>4 DEF Runs
  <2>2. ASSUME NEW i \in 1 .. MaxProcs PROVE h[i] = pcb[h[i - 1]].next
    <3>1. i - 1 \in 0 .. MaxProcs
      BY <1>1
    <3>. QED BY <1>3, <1>4, <2>1, <3>1 DEF Runs
  <2>3. \A i \in 0 .. MaxProcs : h[i] = IF i = 0 THEN p ELSE pcb[h[i - 1]].next
    <3>1. \A i \in 0 .. MaxProcs : i # 0 => i \in 1 .. MaxProcs
      BY <1>1
    <3>. QED BY <2>1, <2>2, <3>1
  <2>. QED BY <2>1, <2>3
<1>6. walk = [i \in 0 .. MaxProcs |-> IF i = 0 THEN p ELSE pcb[walk[i - 1]].next]
  BY <1>5 DEF walk
<1> HIDE DEF walk
<1>7. Walks(walk, p)
  <2>1. \A i \in 0 .. MaxProcs : walk[i] = IF i = 0 THEN p ELSE pcb[walk[i - 1]].next
    BY <1>6, Zenon
  <2>2. 0 \in 0 .. MaxProcs /\ \A i \in 1 .. MaxProcs : i \in 0 .. MaxProcs /\ i # 0
    BY <1>1
  <2>. QED BY <2>1, <2>2 DEF Walks
<1>8. {walk[i] : i \in 1 .. Cardinality(Alive)} = Alive
  BY <1>7, WalkMeetsAll
<1>. QED BY <1>8 DEF walk

-----------------------------------------------------------------------------
(* The memory's half                                                        *)

\* A machine of this component: swap space is never used.
Typed(n) == n \in AnyMachine /\ n.internal_swap_addr = SWAP_ADDRESS_MIN

\* Only copy-on-write shares frames, and then nobody may write them; a writable page
\* that is not shared may be written.
Protected(n, b) ==
    \A f \in Frames : \A x \in Pointing(n, f) :
        /\ Pointing(n, f) # {x} => b = "cow" /\ ReadOnly(n.pt[x]) = 1
        /\ Pointing(n, f) = {x} /\ (AreaWritable(x[2]) \/ b = "naive") => ReadOnly(n.pt[x]) = 0

\* Just the entries in "present" are.
Present(n, present) == \A x \in PTEs : n.pt[x].present = 1 <=> x \in present

MemorySound(n, b, present) ==
    /\ Consistent(n) /\ SlotsCounted(n) /\ Protected(n, b) /\ Present(n, present)

Of(who) == {x \in PTEs : x[1] \in who}

\* The words of some pages, wherever they are
SameWords(n, k, pages) == \A x \in pages : Content(k, x) = Content(n, x)

\* A page that is present has its word in a frame.
LEMMA ContentOfPresent ==
  ASSUME NEW n \in AnyMachine, NEW x \in PTEs, n.pt[x].present = 1, Consistent(n)
  PROVE  /\ Content(n, x) = n.pm[Ppn(n.pt[x])] /\ Content(n, x) \in Words
         /\ Ppn(n.pt[x]) \in Frames /\ x \in Pointing(n, Ppn(n.pt[x]))
BY DEF Content, WordAt, Pointing, Consistent, EntriesPointToFrames, AnyMachine

\* Entries that keep their bits and point where they pointed keep the protection.
LEMMA SameEntriesKeepSound ==
  ASSUME NEW n, NEW k, Consistent(k), SlotsCounted(k), NEW b, NEW present,
         MemorySound(n, b, present),
         \A f \in Frames : Pointing(k, f) = Pointing(n, f),
         \A x \in PTEs : /\ k.pt[x].present = n.pt[x].present
                         /\ ReadOnly(k.pt[x]) = ReadOnly(n.pt[x])
  PROVE  MemorySound(k, b, present)
<1>1. Present(k, present)
  BY DEF MemorySound, Present
<1>2. \A f \in Frames : Pointing(n, f) \subseteq PTEs
  BY DEF Pointing
<1>3. Protected(k, b)
  BY <1>2 DEF MemorySound, Protected
<1>. QED BY <1>1, <1>3 DEF MemorySound

SameButTimes(n, k) ==
    /\ k.pt = n.pt /\ k.panic = n.panic /\ SameMemory(n, k)
    /\ \A f \in Frames : SameButTime(k.page_map[f], n.page_map[f])

\* What times do not matter to
LEMMA TimesKeepSound ==
  ASSUME NEW n \in AnyMachine, NEW k \in AnyMachine, k.pt = n.pt,
         \A f \in Frames : SameButTime(k.page_map[f], n.page_map[f]),
         NEW b, NEW present, MemorySound(n, b, present)
  PROVE  MemorySound(k, b, present) /\ \A f \in Frames : Pointing(k, f) = Pointing(n, f)
<1>1. Consistent(k) /\ \A f \in Frames : Pointing(k, f) = Pointing(n, f)
  BY SameAccountsKeepConsistent DEF SameAccounts, SameButTime, MemorySound
<1>2. SlotsCounted(k)
  BY DEF SlotsCounted, MemorySound, SameButTime, Used
<1>. QED BY <1>1, <1>2, SameEntriesKeepSound

\* Forgetting the times
LEMMA TimelessEffect ==
  ASSUME NEW n, Typed(n), NEW k, k = Timeless(n)
  PROVE  Typed(k) /\ SameButTimes(n, k)
<1> DEFINE page_map == [f \in Frames |-> [n.page_map[f] EXCEPT !.time = 0]]
<1>1. n \in AnyMachine /\ n.page_map \in [Frames -> PD]
  BY DEF Typed, AnyMachine
<1>2. ASSUME NEW d \in PD
      PROVE  [d EXCEPT !.time = 0] \in PD /\ SameButTime([d EXCEPT !.time = 0], d)
  BY DEF PD, SameButTime
<1>3. page_map \in [Frames -> PD] /\ \A f \in Frames : SameButTime(page_map[f], n.page_map[f])
  BY <1>1, <1>2
<1>4. k = [n EXCEPT !.page_map = page_map]
  BY DEF Timeless
<1> HIDE DEF page_map
<1>. QED BY <1>1, <1>3, <1>4 DEF AnyMachine, Typed, SameButTimes, SameMemory

\* With the same entries and frames go the same words.
LEMMA SameButTimesKeepsWords ==
  ASSUME NEW n, NEW k, SameButTimes(n, k), NEW x
  PROVE  Content(k, x) = Content(n, x)
BY DEF SameButTimes, SameMemory, Content, WordAt, SwapFile

\* Setting a dirty bit
LEMMA DirtyKeepsCounted ==
  ASSUME NEW n \in AnyMachine, NEW k \in AnyMachine, NEW ppn \in Frames,
         Dirties(n, k, ppn), SlotsCounted(n)
  PROVE  SlotsCounted(k)
<1>1. n.page_map[ppn] \in PD
  BY DEF AnyMachine
<1>2. /\ k.page_map[ppn].mapping = n.page_map[ppn].mapping
      /\ k.page_map[ppn].reversed_counter = n.page_map[ppn].reversed_counter
  BY <1>1 DEF Dirties, PD
<1>3. ASSUME NEW f \in Frames PROVE Cardinality(Used(k.page_map[f])) = k.page_map[f].reversed_counter
  <2>1. /\ k.page_map[f].mapping = n.page_map[f].mapping
        /\ k.page_map[f].reversed_counter = n.page_map[f].reversed_counter
    BY <1>2 DEF Dirties
  <2>2. Used(k.page_map[f]) = Used(n.page_map[f])
    BY <2>1 DEF Used
  <2>. QED BY <2>1, <2>2 DEF SlotsCounted
<1>. QED BY <1>3 DEF SlotsCounted

\* No assertion fails in an access to an accountable frame.
LEMMA AccessesSucceed ==
  ASSUME NEW n \in AnyMachine, NEW ppn \in Frames, n.panic = "none", Accountable(n, ppn)
  PROVE  pagemap_update_time(n, ppn).panic = "none" /\ pagemap_dirty(n, ppn).panic = "none"
<1>1. /\ pagemap_update_time(n, ppn) = [n EXCEPT !.page_map = Touched(n.page_map, ppn)]
      /\ pagemap_dirty(n, ppn)
            = [n EXCEPT !.page_map[ppn].dirty = 1, !.pt = DirtyEntries(n, ppn)]
  BY Zenon DEF pagemap_update_time, pagemap_dirty, Guarded
<1>. QED BY <1>1 DEF AnyMachine

\* A store through an entry that allows it changes the word of that page only, whoever
\* else lives: what may be written is not shared.
LEMMA WriteKeepsMemory ==
  ASSUME NEW n, Typed(n), n.panic = "none", NEW b, NEW present \in SUBSET PTEs, MemorySound(n, b, present),
         NEW pte \in PTEs, n.pt[pte].present = 1, ReadOnly(n.pt[pte]) # 1, NEW word \in Words,
         NEW k, k = WriteAccess(n, pte, word)
  PROVE  /\ Typed(k) /\ k.panic = "none" /\ MemorySound(k, b, present)
         /\ Content(k, pte) = word
         /\ SameWords(n, k, present \ {pte})
<1> DEFINE ppn == Ppn(n.pt[pte])
           w == [n EXCEPT !.pm[ppn] = word]
           t == pagemap_update_time(w, ppn)
<1>1. k = pagemap_dirty(t, ppn)
  BY DEF WriteAccess
<1>2. n \in AnyMachine /\ Consistent(n) /\ SlotsCounted(n) /\ Protected(n, b) /\ Present(n, present)
  BY DEF Typed, MemorySound
<1>3. ppn \in Frames /\ pte \in Pointing(n, ppn) /\ ReadOnly(n.pt[pte]) # 1 /\ n.pt[pte].present = 1
  BY <1>2, ContentOfPresent
<1>4. Pointing(n, ppn) = {pte}
  BY <1>2, <1>3 DEF Protected
<1> HIDE DEF ppn
<1>5. /\ w \in AnyMachine /\ w.pt = n.pt /\ w.page_map = n.page_map /\ w.panic = n.panic
      /\ w.pm = [n.pm EXCEPT ![ppn] = word] /\ w.swap = n.swap
      /\ w.internal_swap_addr = n.internal_swap_addr
  BY <1>2, <1>3 DEF AnyMachine
<1> HIDE DEF w
<1>6. /\ t \in AnyMachine /\ SameMemory(w, t) /\ t.pt = n.pt
      /\ \A f \in Frames : SameButTime(t.page_map[f], n.page_map[f])
  BY <1>3, <1>5, UpdateTimeEffect
<1>7. MemorySound(t, b, present) /\ \A f \in Frames : Pointing(t, f) = Pointing(n, f)
  BY <1>2, <1>6, TimesKeepSound
<1>8. t.panic = "none"
  <2>1. Accountable(w, ppn)
    <3>1. Accountable(n, ppn)
      BY <1>2, <1>3, FramesInUseAreAccountable
    <3>. QED BY <1>5, <3>1 DEF Accountable
  <2>. QED BY <1>3, <1>5, <2>1, AccessesSucceed
<1> HIDE DEF t
<1>9. /\ k \in AnyMachine /\ SameMemory(t, k)
      /\ k.panic = "none" => Dirties(t, k, ppn)
  BY <1>1, <1>3, <1>6, DirtyEffect
<1>10. k.panic = "none"
  <2>1. Accountable(t, ppn)
    <3>1. Consistent(t) /\ SlotsCounted(t) /\ Pointing(t, ppn) # {}
      BY <1>3, <1>7 DEF MemorySound
    <3>. QED BY <1>3, <3>1, FramesInUseAreAccountable
  <2>. QED BY <1>1, <1>3, <1>6, <1>8, <2>1, AccessesSucceed
<1>11. Dirties(t, k, ppn)
  BY <1>9, <1>10
<1>12. /\ Consistent(k)
       /\ \A f \in Frames : Pointing(k, f) = Pointing(t, f)
       /\ \A x \in PTEs : /\ k.pt[x].present = t.pt[x].present
                          /\ ReadOnly(k.pt[x]) = ReadOnly(t.pt[x])
                          /\ Ppn(k.pt[x]) = Ppn(t.pt[x])
                          /\ t.pt[x].present # 1 => k.pt[x] = t.pt[x]
  BY <1>3, <1>6, <1>7, <1>9, <1>11, DirtyKeepsConsistent DEF MemorySound
<1>13. SlotsCounted(k)
  BY <1>3, <1>6, <1>7, <1>9, <1>11, DirtyKeepsCounted DEF MemorySound
<1>14. MemorySound(k, b, present)
  BY <1>7, <1>12, <1>13, SameEntriesKeepSound
<1>15. k.pm = [n.pm EXCEPT ![ppn] = word] /\ k.internal_swap_addr = n.internal_swap_addr
  BY <1>5, <1>6, <1>9 DEF SameMemory
<1>16. ASSUME NEW x \in PTEs, n.pt[x].present = 1
       PROVE  /\ Content(k, x) = [n.pm EXCEPT ![ppn] = word][Ppn(n.pt[x])]
              /\ Content(n, x) = n.pm[Ppn(n.pt[x])]
              /\ Ppn(n.pt[x]) \in Frames /\ (x # pte => Ppn(n.pt[x]) # ppn)
  <2>1. k.pt[x].present = 1 /\ Ppn(k.pt[x]) = Ppn(n.pt[x])
    BY <1>6, <1>12, <1>16
  <2>2. Content(k, x) = k.pm[Ppn(k.pt[x])]
    BY <1>9, <1>12, <2>1, ContentOfPresent
  <2>3. /\ Content(n, x) = n.pm[Ppn(n.pt[x])] /\ Ppn(n.pt[x]) \in Frames
        /\ x \in Pointing(n, Ppn(n.pt[x]))
    BY <1>2, <1>16, ContentOfPresent
  <2>. QED BY <1>4, <1>15, <2>1, <2>2, <2>3
<1>17. n.pm \in [Frames -> Words]
  BY <1>2 DEF AnyMachine
<1>18. Content(k, pte) = word
  BY <1>3, <1>16, <1>17 DEF ppn
<1>19. \A x \in PTEs : x \in present => n.pt[x].present = 1
  BY <1>2 DEF Present
<1>20. ASSUME NEW x \in PTEs, x \in present \ {pte} PROVE Content(k, x) = Content(n, x)
  BY <1>16, <1>17, <1>19, <1>20
<1>. QED BY <1>9, <1>10, <1>14, <1>15, <1>18, <1>20 DEF Typed, SameWords

\* The protection after a copy on write
LEMMA CopyKeepsProtected ==
  ASSUME NEW n \in AnyMachine, NEW k, NEW pte \in PTEs, Consistent(n), Protected(n, "cow"),
         CopiesOnWrite(n, k, pte), Ppn(n.pt[pte]) \in Frames
  PROVE  Protected(k, "cow")
<1> DEFINE old == Ppn(n.pt[pte])
           rest == Pointing(n, old) \ {pte}
<1>1. PICK g \in Frames \ {old} :
            /\ Pointing(n, g) = {} /\ Pointing(k, g) = {pte}
            /\ Pointing(k, old) = rest
            /\ \A f \in Frames \ {old, g} : Pointing(k, f) = Pointing(n, f)
  BY DEF CopiesOnWrite
<1>2. /\ ReadOnly(k.pt[pte]) = 0
      /\ \A x \in rest : ReadOnly(k.pt[x]) = IF rest = {x} THEN 0 ELSE 1
      /\ \A x \in PTEs \ Pointing(n, old) : k.pt[x] = n.pt[x]
  BY DEF CopiesOnWrite
<1> SUFFICES ASSUME NEW f \in Frames, NEW x \in Pointing(k, f)
             PROVE  /\ Pointing(k, f) # {x} => ReadOnly(k.pt[x]) = 1
                    /\ Pointing(k, f) = {x} /\ AreaWritable(x[2]) => ReadOnly(k.pt[x]) = 0
  BY Zenon DEF Protected
<1>3. CASE f = g
  BY <1>1, <1>2, <1>3
<1>4. CASE f = old
  <2> HIDE DEF rest
  <2>. QED BY <1>1, <1>2, <1>4
<1>5. CASE f \in Frames \ {old, g}
  <2>1. Pointing(k, f) = Pointing(n, f)
    BY <1>1, <1>5
  <2>2. x \in PTEs \ Pointing(n, old)
    BY <1>5, <2>1 DEF Pointing
  <2>3. k.pt[x] = n.pt[x]
    BY <1>2, <2>2
  <2>. QED BY <2>1, <2>3 DEF Protected
<1>. QED BY <1>3, <1>4, <1>5

\* A copy on write leaves every page with its word: the frame of the copy was free.
LEMMA CopyKeepsMemory ==
  ASSUME NEW n, Typed(n), NEW present \in SUBSET PTEs, MemorySound(n, "cow", present),
         NEW pte \in present, NEW k, k = copy_on_write(n, pte)
  PROVE  /\ Typed(k)
         /\ k.panic = "none" => MemorySound(k, "cow", present) /\ SameWords(n, k, present)
<1>1. /\ n \in AnyMachine /\ Consistent(n) /\ SlotsCounted(n) /\ Protected(n, "cow")
      /\ Present(n, present) /\ pte \in PTEs
  BY DEF Typed, MemorySound
<1>2. n.pt[pte].present = 1
  BY <1>1 DEF Present
<1>3. /\ k \in AnyMachine /\ k.internal_swap_addr = n.internal_swap_addr
      /\ k.panic = "none" => Consistent(k) /\ SlotsCounted(k) /\ CopiesOnWrite(n, k, pte)
  BY <1>1, <1>2, CopyOnWriteEffect
<1>4. ASSUME k.panic = "none"
      PROVE  MemorySound(k, "cow", present) /\ SameWords(n, k, present)
  <2> DEFINE old == Ppn(n.pt[pte])
             rest == Pointing(n, old) \ {pte}
  <2>1. Consistent(k) /\ SlotsCounted(k) /\ CopiesOnWrite(n, k, pte)
    BY <1>3, <1>4
  <2>2. PICK g \in Frames \ {old} :
            /\ Pointing(n, g) = {} /\ Pointing(k, g) = {pte}
            /\ Pointing(k, old) = rest
            /\ k.pm = [n.pm EXCEPT ![g] = n.pm[old]]
    BY <2>1 DEF CopiesOnWrite
  <2>3. \A x \in PTEs \ Pointing(n, old) : k.pt[x] = n.pt[x]
    BY <2>1 DEF CopiesOnWrite
  <2>4. old \in Frames /\ pte \in Pointing(n, old)
    BY <1>1, <1>2, ContentOfPresent
  <2>5. Protected(k, "cow")
    BY <1>1, <2>1, <2>4, CopyKeepsProtected
  <2> HIDE DEF old
  <2>6. ASSUME NEW x \in PTEs
        PROVE  /\ k.pt[x].present = 1 <=> n.pt[x].present = 1
               /\ k.pt[x].present = 1 => Ppn(k.pt[x]) = IF x = pte THEN g ELSE Ppn(n.pt[x])
    <3>1. CASE x \notin Pointing(n, old)
      BY <2>3, <2>4, <3>1
    <3>2. CASE x = pte
      BY <1>2, <2>2, <3>2 DEF Pointing
    <3>3. CASE x \in rest
      BY <2>2, <3>3 DEF Pointing
    <3>. QED BY <3>1, <3>2, <3>3
  <2>7. Present(k, present)
    BY <1>1, <2>6 DEF Present
  <2>8. ASSUME NEW x \in present PROVE Content(k, x) = Content(n, x)
    <3>1. x \in PTEs /\ n.pt[x].present = 1 /\ k.pt[x].present = 1
      BY <1>1, <2>6 DEF Present
    <3>2. /\ Content(n, x) = n.pm[Ppn(n.pt[x])] /\ Ppn(n.pt[x]) \in Frames
          /\ x \in Pointing(n, Ppn(n.pt[x]))
      BY <1>1, <3>1, ContentOfPresent
    <3>3. Content(k, x) = k.pm[Ppn(k.pt[x])]
      BY <1>3, <2>1, <3>1, ContentOfPresent
    <3>4. n.pm \in [Frames -> Words]
      BY <1>1 DEF AnyMachine
    <3>5. CASE x = pte
      BY <2>2, <2>6, <3>1, <3>2, <3>3, <3>4, <3>5 DEF old
    <3>6. CASE x # pte
      <4>1. Ppn(k.pt[x]) = Ppn(n.pt[x]) /\ Ppn(n.pt[x]) # g
        BY <2>2, <2>6, <3>1, <3>2, <3>6
      <4>. QED BY <2>2, <3>2, <3>3, <3>4, <4>1
    <3>. QED BY <3>5, <3>6
  <2>. QED BY <2>1, <2>5, <2>7, <2>8 DEF MemorySound, SameWords
<1>. QED BY <1>3, <1>4 DEF Typed

-----------------------------------------------------------------------------
(* Loops over the pages of a process                                        *)

\* Pages and entries are numbers and pairs of numbers.
LEMMA PagesAreNumbers ==
  /\ NumPages \in Nat /\ NumPages >= 1
  /\ Pages \subseteq Nat /\ 0 \in Pages /\ NumPages - 1 \in Pages
  /\ \A page \in Pages : page <= NumPages - 1 /\ (page # 0 => page - 1 \in Pages)
  /\ PTEs = Procs \X Pages
  /\ \A x \in PTEs : x = <<x[1], x[2]>> /\ x[1] \in Procs /\ x[2] \in Pages /\ x[2] \in Nat
  /\ IsFiniteSet(Pages) /\ Cardinality(Pages) = NumPages
<1>1. NumPages \in Nat /\ NumPages >= 1 /\ Pages = 0 .. NumPages - 1
  BY ForkAssumption DEF Pages
<1>2. IsFiniteSet(Pages) /\ Cardinality(Pages) = NumPages
  BY <1>1, FS_Interval
<1>3. PTEs = Procs \X Pages /\ Pages \subseteq Nat
  BY <1>1, ForkAssumption DEF Procs, Pages
<1>. QED BY <1>1, <1>2, <1>3

\* Induction over the pages
LEMMA PageInduction ==
  ASSUME NEW P, 0 \in P, \A page \in Pages \ {0} : page - 1 \in P => page \in P
  PROVE  Pages \subseteq P
<1>1. NumPages - 1 \in Nat /\ Pages = 0 .. NumPages - 1
  BY PagesAreNumbers DEF Pages
<1>2. \A page \in 1 .. NumPages - 1 : page - 1 \in P => page \in P
  BY <1>1
<1>3. 0 .. NumPages - 1 \subseteq P
  BY <1>1, <1>2, InductionUpTo
<1>. QED BY <1>1, <1>3

PageRuns(f, V, start, G) ==
    /\ f \in [Pages -> V]
    /\ \A page \in Pages : f[page] = G[<<IF page = 0 THEN start ELSE f[page - 1], page>>]

\* A loop over the pages, from 0, computes a function.
LEMMA PageLoop ==
  ASSUME NEW V, NEW start \in V, NEW G \in [V \X Pages -> V]
  PROVE  \E f : PageRuns(f, V, start, G)
<1> DEFINE T == [x \in (1 .. NumPages) \X V |-> G[<<x[2], x[1] - 1>>]]
<1>1. NumPages \in Nat /\ Pages = 0 .. NumPages - 1
  BY PagesAreNumbers DEF Pages
<1>2. \A i \in 1 .. NumPages : i - 1 \in Pages
  BY <1>1
<1>3. T \in [(1 .. NumPages) \X V -> V]
  BY <1>2
<1>4. \A i \in 1 .. NumPages, v \in V : T[<<i, v>>] = G[<<v, i - 1>>]
  OBVIOUS
<1> HIDE DEF T
<1>5. PICK h : Runs(h, NumPages, V, start, T)
  BY <1>1, <1>3, LoopExists
<1> DEFINE f == [page \in Pages |-> h[page + 1]]
<1>6. h \in [0 .. NumPages -> V] /\ h[0] = start
  BY <1>5 DEF Runs
<1>7. \A page \in Pages : page + 1 \in 1 .. NumPages /\ page + 1 \in 0 .. NumPages /\ page \in 0 .. NumPages
                          /\ (page + 1) - 1 = page
  BY <1>1
<1>8. f \in [Pages -> V]
  BY <1>6, <1>7
<1>9. ASSUME NEW page \in Pages
      PROVE  f[page] = G[<<IF page = 0 THEN start ELSE f[page - 1], page>>]
  <2>1. h[page + 1] = T[<<page + 1, h[page]>>]
    <3>1. h[page + 1] = T[<<page + 1, h[(page + 1) - 1]>>]
      BY <1>5, <1>7 DEF Runs
    <3>. QED BY <1>7, <3>1
  <2>2. T[<<page + 1, h[page]>>] = G[<<h[page], page>>]
    <3>1. h[page] \in V
      BY <1>6, <1>7
    <3>2. T[<<page + 1, h[page]>>] = G[<<h[page], (page + 1) - 1>>]
      BY <1>4, <1>7, <3>1
    <3>. QED BY <1>7, <3>2
  <2>3. h[page] = IF page = 0 THEN start ELSE f[page - 1]
    <3>1. CASE page = 0
      BY <1>6, <3>1
    <3>2. CASE page # 0
      <4>1. page - 1 \in Pages /\ (page - 1) + 1 = page
        BY <1>1, <3>2
      <4>. QED BY <3>2, <4>1
    <3>. QED BY <3>1, <3>2
  <2>4. f[page] = h[page + 1]
    OBVIOUS
  <2> HIDE DEF f
  <2>. QED BY <2>1, <2>2, <2>3, <2>4
<1> HIDE DEF f
<1>10. PageRuns(f, V, start, G)
  BY <1>8, <1>9 DEF PageRuns
<1>. QED BY <1>10

\* While a child's table is being built, the entries it has of its parent's are not yet
\* its own: the machine without them is the one that has sound accounts.
Later(q, page) == {x \in PTEs : x[1] = q /\ x[2] > page}
UpTo(q, page) == {x \in PTEs : x[1] = q /\ x[2] <= page}
Without(n, rows) == [n EXCEPT !.pt = [x \in PTEs |-> IF x \in rows THEN NoPage ELSE n.pt[x]]]
Halfway(n, b, q, page) == MemorySound(Without(n, Later(q, page)), b, Of(Alive) \cup UpTo(q, page))

\* The machine without some entries
LEMMA WithoutEffect ==
  ASSUME NEW n \in AnyMachine, NEW rows, NEW e, e = Without(n, rows)
  PROVE  /\ e \in AnyMachine /\ e.page_map = n.page_map /\ SameMemory(n, e) /\ e.panic = n.panic
         /\ \A x \in PTEs : e.pt[x] = IF x \in rows THEN NoPage ELSE n.pt[x]
<1> DEFINE pt == [x \in PTEs |-> IF x \in rows THEN NoPage ELSE n.pt[x]]
<1>1. NoPage \in PTE
  BY DEF NoPage, PTE
<1>2. pt \in [PTEs -> PTE]
  BY <1>1 DEF AnyMachine
<1>3. e = [n EXCEPT !.pt = pt]
  BY DEF Without
<1>4. \A x \in PTEs : pt[x] = IF x \in rows THEN NoPage ELSE n.pt[x]
  OBVIOUS
<1> HIDE DEF pt
<1>. QED BY <1>2, <1>3, <1>4 DEF AnyMachine, SameMemory

\* After the last page nothing is missing.
LEMMA HalfwayAtTheEnd ==
  ASSUME NEW n \in AnyMachine, NEW b, NEW q \in Procs, Halfway(n, b, q, NumPages - 1)
  PROVE  MemorySound(n, b, Of(Alive \cup {q}))
<1>1. ASSUME NEW x \in PTEs PROVE x[2] <= NumPages - 1 /\ ~ x[2] > NumPages - 1
  <2>1. x[2] \in Nat /\ x[2] <= NumPages - 1 /\ NumPages \in Nat
    BY PagesAreNumbers
  <2>. QED BY <2>1
<1>2. Later(q, NumPages - 1) = {}
  BY <1>1 DEF Later
<1>3. Of(Alive) \cup UpTo(q, NumPages - 1) = Of(Alive \cup {q})
  BY <1>1 DEF Of, UpTo
<1>4. Without(n, {}) = n
  <2>1. n.pt = [x \in PTEs |-> n.pt[x]]
    BY DEF AnyMachine
  <2>2. Without(n, {}) = [n EXCEPT !.pt = [x \in PTEs |-> n.pt[x]]]
    BY DEF Without
  <2>3. Without(n, {}) = [n EXCEPT !.pt = n.pt]
    BY <2>1, <2>2
  <2>. QED BY <2>3 DEF AnyMachine
<1>. QED BY <1>2, <1>3, <1>4 DEF Halfway

\* Before the first page only the living processes have entries.
LEMMA HalfwayAtTheStart ==
  ASSUME NEW q \in Procs \ Alive, m \in AnyMachine, NEW b, MemorySound(m, b, Of(Alive)),
         NEW n \in AnyMachine, n.page_map = m.page_map,
         \A x \in PTEs : x[1] # q => n.pt[x] = m.pt[x]
  PROVE  Halfway(n, b, q, -1)
<1> DEFINE e == Without(n, Later(q, -1))
<1>1. /\ e \in AnyMachine /\ e.page_map = n.page_map
      /\ \A x \in PTEs : e.pt[x] = IF x \in Later(q, -1) THEN NoPage ELSE n.pt[x]
  BY WithoutEffect
<1> HIDE DEF e
<1>2. ASSUME NEW x \in PTEs
      PROVE  /\ x[1] # q => e.pt[x] = m.pt[x]
             /\ x[1] = q => e.pt[x].present # 1 /\ m.pt[x].present # 1
  <2>1. x \in Later(q, -1) <=> x[1] = q
    BY PagesAreNumbers DEF Later
  <2>2. x[1] = q => m.pt[x].present # 1
    BY DEF MemorySound, Present, Of
  <2>. QED BY <1>1, <2>1, <2>2 DEF NoPage
<1>3. \A x \in PTEs : e.pt[x].present = 1 \/ m.pt[x].present = 1 => e.pt[x] = m.pt[x]
  BY <1>2
<1>4. \A f \in Frames : Pointing(e, f) = Pointing(m, f)
  BY <1>3 DEF Pointing
<1>5. InverseMaps(e)
  BY <1>1, <1>4 DEF MemorySound, Consistent, InverseMaps
<1>6. SameDirtyBits(e) /\ EntriesPointToFrames(e)
  BY <1>1, <1>3 DEF MemorySound, Consistent, SameDirtyBits, EntriesPointToFrames
<1>7. SlotsCounted(e)
  BY <1>1 DEF MemorySound, SlotsCounted
<1>8. Protected(e, b)
  <2>1. \A f \in Frames : \A x \in Pointing(m, f) : e.pt[x] = m.pt[x]
    BY <1>3 DEF Pointing
  <2>. QED BY <1>4, <2>1 DEF MemorySound, Protected
<1>9. Present(e, Of(Alive) \cup UpTo(q, -1))
  <2>1. UpTo(q, -1) = {}
    BY PagesAreNumbers DEF UpTo
  <2>2. Present(m, Of(Alive))
    BY DEF MemorySound
  <2>. QED BY <1>3, <2>1, <2>2 DEF Present
<1>. QED BY <1>5, <1>6, <1>7, <1>8, <1>9 DEF Halfway, MemorySound, Consistent, e

\* One entry more
Grows(e, k, x, ppn) ==
    /\ Consistent(k) /\ SlotsCounted(k)
    /\ Pointing(k, ppn) = Pointing(e, ppn) \cup {x}
    /\ \A f \in Frames \ {ppn} : Pointing(k, f) = Pointing(e, f)
    /\ \A y \in PTEs \ {x} : k.pt[y] = e.pt[y]

\* A page of the child that is attached to a frame becomes its own.
LEMMA HalfwayByAttach ==
  ASSUME NEW q \in Procs \ Alive, NEW page \in Pages, NEW ppn \in Frames,
         NEW w \in AnyMachine, NEW n \in AnyMachine, Attaches(w, n, <<q, page>>, ppn),
         NEW e, e = Without(w, Later(q, page - 1)), NEW k, k = Without(n, Later(q, page)),
         Consistent(e), SlotsCounted(e), Present(e, Of(Alive) \cup UpTo(q, page - 1))
  PROVE  /\ e \in AnyMachine /\ k \in AnyMachine
         /\ Grows(e, k, <<q, page>>, ppn)
         /\ k.pt[<<q, page>>] = n.pt[<<q, page>>]
         /\ Present(k, Of(Alive) \cup UpTo(q, page))
<1> DEFINE x == <<q, page>>
<1>1. /\ e \in AnyMachine /\ e.page_map = w.page_map
      /\ \A y \in PTEs : e.pt[y] = IF y \in Later(q, page - 1) THEN NoPage ELSE w.pt[y]
  BY WithoutEffect
<1>2. /\ k \in AnyMachine /\ k.page_map = n.page_map
      /\ \A y \in PTEs : k.pt[y] = IF y \in Later(q, page) THEN NoPage ELSE n.pt[y]
  BY WithoutEffect
<1>3. x \in PTEs /\ x[1] = q /\ x[2] = page
  BY PagesAreNumbers
<1>4. ASSUME NEW y \in PTEs
      PROVE  /\ y \in Later(q, page - 1) <=> y \in Later(q, page) \/ y = x
             /\ y \in UpTo(q, page) <=> y \in UpTo(q, page - 1) \/ y = x
             /\ x \notin Later(q, page) /\ x \notin UpTo(q, page - 1)
  <2>1. y = <<y[1], y[2]>> /\ y[2] \in Pages
    BY PagesAreNumbers
  <2>2. y[2] \in Nat /\ page \in Nat
    BY <2>1, PagesAreNumbers
  <2>. QED BY <1>3, <2>1, <2>2 DEF Later, UpTo
<1>5. \A y \in PTEs \ {x} : k.pt[y] = e.pt[y]
  BY <1>1, <1>2, <1>4 DEF Attaches
<1>6. k.pt[x] = n.pt[x] /\ e.pt[x] = NoPage
  BY <1>1, <1>2, <1>3, <1>4
<1> HIDE DEF x
<1>7. Attaches(e, k, x, ppn)
  BY <1>1, <1>2, <1>5, <1>6 DEF Attaches, x
<1>8. e.pt[x].present = 0
  BY <1>6 DEF NoPage
<1>9. /\ Consistent(k) /\ Pointing(k, ppn) = Pointing(e, ppn) \cup {x}
      /\ \A f \in Frames \ {ppn} : Pointing(k, f) = Pointing(e, f)
  BY <1>1, <1>2, <1>3, <1>7, <1>8, AttachKeepsConsistent
<1>10. SlotsCounted(k)
  BY <1>7, AttachKeepsCounted
<1>11. Present(k, Of(Alive) \cup UpTo(q, page))
  <2>1. k.pt[x].present = 1
    BY <1>7 DEF Attaches
  <2>. QED BY <1>4, <1>5, <2>1 DEF Present
<1>. QED BY <1>1, <1>2, <1>5, <1>6, <1>9, <1>10, <1>11 DEF Grows, x

-----------------------------------------------------------------------------
(* fork with copy-on-write                                                  *)

Marks(k, w, p, q, page) ==
    /\ w.page_map = k.page_map /\ w.panic = k.panic
    /\ \A x \in PTEs \ {<<p, page>>, <<q, page>>} : w.pt[x] = k.pt[x]
    /\ w.pt[<<p, page>>].present = k.pt[<<p, page>>].present
    /\ Ppn(w.pt[<<p, page>>]) = Ppn(k.pt[<<p, page>>])
    /\ DirtyBit(w.pt[<<p, page>>]) = DirtyBit(k.pt[<<p, page>>])
    /\ ReadOnly(w.pt[<<p, page>>]) = 1
    /\ w.pt[<<q, page>>] = w.pt[<<p, page>>]

\* Parent and child get the same write-protected entry.
LEMMA MarkEffect ==
  ASSUME NEW k \in AnyMachine, NEW p \in Procs, NEW q \in Procs \ {p}, NEW page \in Pages,
         NEW w, w = MarkReadOnly(k, p, q, page)
  PROVE  w \in AnyMachine /\ SameMemory(k, w) /\ Marks(k, w, p, q, page)
<1> DEFINE x == <<p, page>>
           y == <<q, page>>
           b == 1
           e == WithReadOnly(k.pt[x], b)
           pt == [k.pt EXCEPT ![x] = e, ![y] = e]
<1>1. x \in PTEs /\ y \in PTEs /\ x # y /\ b \in {0, 1}
  BY PagesAreNumbers
<1>2. w = [k EXCEPT !.pt = pt]
  BY DEF MarkReadOnly
<1>3. k.pt \in [PTEs -> PTE] /\ k.pt[x] \in PTE
  BY <1>1 DEF AnyMachine
<1> HIDE DEF b
<1>4. /\ e \in PTE /\ e.present = k.pt[x].present
      /\ Ppn(e) = Ppn(k.pt[x]) /\ DirtyBit(e) = DirtyBit(k.pt[x]) /\ ReadOnly(e) = b
  BY <1>1, <1>3, FieldsOfReadOnly
<1> HIDE DEF e, x, y
<1>5. /\ pt \in [PTEs -> PTE] /\ pt[x] = e /\ pt[y] = e
      /\ \A z \in PTEs \ {x, y} : pt[z] = k.pt[z]
  BY <1>1, <1>3, <1>4
<1> HIDE DEF pt
<1>6. /\ w \in AnyMachine /\ w.pt = pt /\ w.page_map = k.page_map /\ w.panic = k.panic
      /\ SameMemory(k, w)
  BY <1>2, <1>5 DEF AnyMachine, SameMemory
<1>7. b = 1
  BY DEF b
<1>. QED BY <1>4, <1>5, <1>6, <1>7 DEF Marks, x, y

ShareStep(k, p, q, page) ==
    IF k.pt[<<p, page>>].present = 1
    THEN map_pte4(MarkReadOnly(k, p, q, page), <<q, page>>, Ppn(k.pt[<<p, page>>]))
    ELSE k

\* The parent's pages point to frames at every turn, even after a failed assertion.
Sharing(p) == {k \in AnyMachine : \A i \in Pages : Ppn(k.pt[<<p, i>>]) \in Frames}

\* One turn of copy_pagetable
LEMMA ShareStepEffect ==
  ASSUME NEW p \in Procs, NEW q \in Procs \ {p}, NEW page \in Pages, NEW k \in Sharing(p),
         NEW n, n = ShareStep(k, p, q, page)
  PROVE  /\ n \in Sharing(p) /\ SameMemory(k, n)
         /\ k.pt[<<p, page>>].present = 1 /\ n.panic = "none" =>
              \E w \in AnyMachine : /\ Marks(k, w, p, q, page)
                                    /\ Maps(w, n, <<q, page>>, Ppn(k.pt[<<p, page>>]))
<1> DEFINE x == <<p, page>>
           y == <<q, page>>
           ppn == Ppn(k.pt[x])
<1>1. x \in PTEs /\ y \in PTEs /\ x # y /\ ppn \in Frames /\ k \in AnyMachine
  BY PagesAreNumbers DEF Sharing
<1>2. CASE k.pt[x].present # 1
  <2>1. n = k
    BY <1>2 DEF ShareStep
  <2>. QED BY <1>2, <2>1 DEF SameMemory
<1>3. CASE k.pt[x].present = 1
  <2> DEFINE w == MarkReadOnly(k, p, q, page)
  <2>1. n = map_pte4(w, y, ppn)
    BY <1>3 DEF ShareStep
  <2>2. w \in AnyMachine /\ SameMemory(k, w) /\ Marks(k, w, p, q, page)
    BY <1>1, MarkEffect
  <2> HIDE DEF w, x, y, ppn
  <2>3. /\ n \in AnyMachine /\ SameMemory(w, n)
        /\ \A other \in PTEs \ {y} : n.pt[other] = w.pt[other]
        /\ n.panic = "none" => Maps(w, n, y, ppn)
    BY <1>1, <2>1, <2>2, MapEffect
  <2>4. ASSUME NEW i \in Pages PROVE Ppn(n.pt[<<p, i>>]) \in Frames
    <3>1. <<p, i>> \in PTEs /\ <<p, i>> # y /\ (<<p, i>> = x <=> i = page)
      BY PagesAreNumbers DEF x, y
    <3>2. n.pt[<<p, i>>] = w.pt[<<p, i>>] /\ Ppn(k.pt[<<p, i>>]) \in Frames
      BY <2>3, <3>1 DEF Sharing
    <3>3. CASE i = page
      BY <2>2, <3>2, <3>3 DEF Marks
    <3>4. CASE i # page
      BY <2>2, <3>1, <3>2, <3>4 DEF Marks, x, y
    <3>. QED BY <3>3, <3>4
  <2>5. n \in Sharing(p)
    BY <2>3, <2>4 DEF Sharing
  <2>6. SameMemory(k, n)
    BY <2>2, <2>3 DEF SameMemory
  <2>. QED BY <2>2, <2>3, <2>5, <2>6 DEF x, y, ppn
<1>. QED BY <1>2, <1>3

\* The pages up to "page" are shared, and every page is where it was.
SharedUpTo(n, p, q, page) ==
    /\ Halfway(n, "cow", q, page)
    /\ \A x \in PTEs : x[1] # q => /\ n.pt[x].present = m.pt[x].present
                                   /\ Ppn(n.pt[x]) = Ppn(m.pt[x])
    /\ \A i \in Pages : i <= page => Ppn(n.pt[<<q, i>>]) = Ppn(m.pt[<<p, i>>])

\* The accounts and the protection after one turn of copy_pagetable
LEMMA ShareKeepsHalfway ==
  ASSUME NEW p \in Alive, NEW q \in Procs \ Alive, NEW page \in Pages,
         NEW k \in AnyMachine, NEW n \in AnyMachine, NEW w \in AnyMachine,
         Marks(k, w, p, q, page), NEW ppn \in Frames, ppn = Ppn(k.pt[<<p, page>>]),
         k.pt[<<p, page>>].present = 1,
         Maps(w, n, <<q, page>>, ppn),
         Halfway(k, "cow", q, page - 1)
  PROVE  Halfway(n, "cow", q, page)
<1> DEFINE x == <<p, page>>
           y == <<q, page>>
           present == Of(Alive) \cup UpTo(q, page - 1)
           d == Without(k, Later(q, page - 1))
           e == Without(w, Later(q, page - 1))
           f == Without(n, Later(q, page))
<1>1. x \in PTEs /\ y \in PTEs /\ x # y /\ p \in Procs /\ p # q
      /\ x \notin Later(q, page - 1) /\ y \in Later(q, page - 1)
  <2>1. p \in Procs /\ p # q /\ page \in Nat
    BY PagesAreNumbers DEF Alive
  <2>. QED BY <2>1, PagesAreNumbers DEF Later
<1>2. /\ d \in AnyMachine /\ d.page_map = k.page_map
      /\ \A z \in PTEs : d.pt[z] = IF z \in Later(q, page - 1) THEN NoPage ELSE k.pt[z]
  BY WithoutEffect
<1>3. /\ e \in AnyMachine /\ e.page_map = w.page_map
      /\ \A z \in PTEs : e.pt[z] = IF z \in Later(q, page - 1) THEN NoPage ELSE w.pt[z]
  BY WithoutEffect
<1>4. Consistent(d) /\ SlotsCounted(d) /\ Protected(d, "cow") /\ Present(d, present)
  BY DEF Halfway, MemorySound
<1> HIDE DEF d, e, f, present
<1>5. \A z \in PTEs \ {x} : e.pt[z] = d.pt[z]
  BY <1>1, <1>2, <1>3 DEF Marks, x, y
<1>6. /\ e.pt[x].present = d.pt[x].present /\ Ppn(e.pt[x]) = Ppn(d.pt[x])
      /\ DirtyBit(e.pt[x]) = DirtyBit(d.pt[x]) /\ ReadOnly(e.pt[x]) = 1
      /\ d.pt[x] = k.pt[x]
  BY <1>1, <1>2, <1>3 DEF Marks, x
<1>7. Reprotects(d, e)
  BY <1>2, <1>3, <1>5, <1>6 DEF Reprotects, Marks
<1>8. Consistent(e) /\ \A g \in Frames : Pointing(e, g) = Pointing(d, g)
  BY <1>4, <1>7, ReprotectKeepsConsistent
<1>9. SlotsCounted(e) /\ Present(e, present)
  BY <1>4, <1>7 DEF SlotsCounted, Present, Reprotects
<1>10. Attaches(w, n, y, ppn)
  BY DEF Maps, Attaches, y
<1>11. /\ Grows(e, f, y, ppn) /\ f.pt[y] = n.pt[y]
       /\ Present(f, Of(Alive) \cup UpTo(q, page))
  <2>1. e = Without(w, Later(q, page - 1)) /\ f = Without(n, Later(q, page))
    BY DEF e, f
  <2>2. Present(e, Of(Alive) \cup UpTo(q, page - 1))
    BY <1>9 DEF present
  <2> HIDE DEF y
  <2>3. Attaches(w, n, <<q, page>>, ppn)
    BY <1>10 DEF y
  <2>4. /\ Grows(e, f, <<q, page>>, ppn) /\ f.pt[<<q, page>>] = n.pt[<<q, page>>]
        /\ Present(f, Of(Alive) \cup UpTo(q, page))
    BY <1>8, <1>9, <2>1, <2>2, <2>3, HalfwayByAttach, Z3
  <2>. QED BY <2>4 DEF y
<1>12. ReadOnly(f.pt[y]) = 1
  BY <1>11 DEF Maps, Marks, x, y
<1>13. x \in Pointing(d, ppn)
  BY <1>1, <1>6 DEF Pointing, x
<1>14. Protected(f, "cow")
  <2> SUFFICES ASSUME NEW g \in Frames, NEW z \in Pointing(f, g)
               PROVE  /\ Pointing(f, g) # {z} => ReadOnly(f.pt[z]) = 1
                      /\ Pointing(f, g) = {z} /\ AreaWritable(z[2]) => ReadOnly(f.pt[z]) = 0
    BY Zenon DEF Protected
  <2>1. CASE g = ppn
    <3>1. Pointing(f, g) = Pointing(d, ppn) \cup {y}
      BY <1>8, <1>11, <2>1 DEF Grows
    <3>2. Pointing(f, g) # {z}
      BY <1>1, <1>13, <3>1
    <3>3. ReadOnly(f.pt[z]) = 1
      <4>1. CASE z = y
        BY <1>12, <4>1
      <4>2. CASE z = x
        BY <1>1, <1>6, <1>11, <4>2 DEF Grows
      <4>3. CASE z \notin {x, y}
        <5>1. z \in Pointing(d, ppn) /\ z \in PTEs /\ Pointing(d, ppn) # {z}
          BY <1>13, <3>1, <4>3 DEF Pointing
        <5>2. ReadOnly(d.pt[z]) = 1
          BY <1>4, <5>1 DEF Protected
        <5>3. f.pt[z] = d.pt[z]
          BY <1>5, <1>11, <4>3, <5>1 DEF Grows
        <5>. QED BY <5>2, <5>3
      <4>. QED BY <4>1, <4>2, <4>3
    <3>. QED BY <3>2, <3>3
  <2>2. CASE g # ppn
    <3>1. Pointing(f, g) = Pointing(d, g)
      BY <1>8, <1>11, <2>2 DEF Grows
    <3>2. z \in PTEs /\ z # x /\ z # y
      <4>1. Ppn(d.pt[x]) = ppn /\ d.pt[y] = NoPage
        BY <1>1, <1>2, <1>6 DEF x
      <4>. QED BY <2>2, <3>1, <4>1 DEF Pointing, NoPage
    <3>3. f.pt[z] = d.pt[z]
      BY <1>5, <1>11, <3>2 DEF Grows
    <3>. QED BY <1>4, <3>1, <3>3 DEF Protected
  <2>. QED BY <2>1, <2>2
<1>. QED BY <1>11, <1>14 DEF Halfway, MemorySound, Grows, f

\* One turn of the loop, with its assertions
LEMMA ShareKeepsUpTo ==
  ASSUME m \in AnyMachine, MemorySound(m, "cow", Of(Alive)),
         NEW p \in Alive, NEW q \in Procs \ Alive, NEW page \in Pages,
         NEW k \in Sharing(p), k.panic = "none" => SharedUpTo(k, p, q, page - 1),
         NEW n, n = ShareStep(k, p, q, page), n.panic = "none"
  PROVE  SharedUpTo(n, p, q, page)
<1> DEFINE x == <<p, page>>
           y == <<q, page>>
           ppn == Ppn(k.pt[x])
<1>1. p \in Procs /\ q \in Procs \ {p} /\ k \in AnyMachine
  BY DEF Alive, Sharing
<1>2. x \in PTEs /\ y \in PTEs /\ x # y /\ x[1] # q /\ ppn \in Frames
  BY <1>1, PagesAreNumbers DEF Sharing
<1>3. /\ n \in Sharing(p)
      /\ k.pt[x].present = 1 /\ n.panic = "none" =>
            \E w \in AnyMachine : Marks(k, w, p, q, page) /\ Maps(w, n, y, ppn)
  BY <1>1, ShareStepEffect
<1>4. k.panic = "none"
  <2>1. CASE k.pt[x].present # 1
    BY <2>1 DEF ShareStep
  <2>2. CASE k.pt[x].present = 1
    BY <1>3, <2>2 DEF Marks, Maps
  <2>. QED BY <2>1, <2>2
<1>5. SharedUpTo(k, p, q, page - 1)
  BY <1>4
<1>6. /\ Halfway(k, "cow", q, page - 1)
      /\ \A z \in PTEs : z[1] # q => /\ k.pt[z].present = m.pt[z].present
                                     /\ Ppn(k.pt[z]) = Ppn(m.pt[z])
      /\ \A i \in Pages : i <= page - 1 => Ppn(k.pt[<<q, i>>]) = Ppn(m.pt[<<p, i>>])
  BY <1>5 DEF SharedUpTo
<1>7. k.pt[x].present = 1 /\ ppn = Ppn(m.pt[x])
  <2>1. m.pt[x].present = 1
    BY <1>2 DEF MemorySound, Present, Of
  <2>. QED BY <1>2, <1>6, <2>1
<1>8. PICK w \in AnyMachine : Marks(k, w, p, q, page) /\ Maps(w, n, y, ppn)
  BY <1>3, <1>7
<1> DEFINE f == ppn
<1>9. f \in Frames /\ f = Ppn(k.pt[<<p, page>>]) /\ Maps(w, n, <<q, page>>, f) /\ n \in AnyMachine
      /\ k.pt[<<p, page>>].present = 1
  BY <1>2, <1>3, <1>7, <1>8 DEF Sharing
<1>10. Halfway(n, "cow", q, page)
  <2> HIDE DEF f, x, y, ppn
  <2>. QED BY <1>1, <1>6, <1>8, <1>9, ShareKeepsHalfway
<1>11. ASSUME NEW z \in PTEs, z[1] # q
       PROVE  n.pt[z].present = m.pt[z].present /\ Ppn(n.pt[z]) = Ppn(m.pt[z])
  <2>1. z # y
    BY <1>11
  <2>2. n.pt[z] = w.pt[z]
    BY <1>8, <2>1 DEF Maps
  <2>3. w.pt[z].present = k.pt[z].present /\ Ppn(w.pt[z]) = Ppn(k.pt[z])
    BY <1>8, <2>1 DEF Marks
  <2>. QED BY <1>6, <1>11, <2>2, <2>3
<1>12. ASSUME NEW i \in Pages, i <= page PROVE Ppn(n.pt[<<q, i>>]) = Ppn(m.pt[<<p, i>>])
  <2>1. CASE i = page
    BY <1>7, <1>8, <2>1 DEF Maps
  <2>2. CASE i # page
    <3>1. i <= page - 1 /\ <<q, i>> \in PTEs /\ <<q, i>> # y /\ <<q, i>> # x
      BY <1>1, <1>12, <2>2, PagesAreNumbers
    <3>2. n.pt[<<q, i>>] = k.pt[<<q, i>>]
      BY <1>8, <3>1 DEF Maps, Marks
    <3>. QED BY <1>6, <3>1, <3>2
  <2>. QED BY <2>1, <2>2
<1>. QED BY <1>10, <1>11, <1>12 DEF SharedUpTo

CopiedTable(p, q) ==
    [m EXCEPT !.pt = [pte \in PTEs |-> IF pte[1] = q THEN m.pt[<<p, pte[2]>>] ELSE m.pt[pte]]]

\* memcpy of the page table
LEMMA CopiedTableEffect ==
  ASSUME m \in AnyMachine, NEW p \in Procs, NEW q \in Procs \ {p}, NEW n, n = CopiedTable(p, q)
  PROVE  /\ n \in AnyMachine /\ SameMemory(m, n) /\ n.page_map = m.page_map /\ n.panic = m.panic
         /\ \A x \in PTEs : x[1] # q => n.pt[x] = m.pt[x]
         /\ \A i \in Pages : n.pt[<<q, i>>] = m.pt[<<p, i>>]
<1> DEFINE pt == [pte \in PTEs |-> IF pte[1] = q THEN m.pt[<<p, pte[2]>>] ELSE m.pt[pte]]
<1>1. m.pt \in [PTEs -> PTE]
  BY DEF AnyMachine
<1>2. \A pte \in PTEs : <<p, pte[2]>> \in PTEs
  BY PagesAreNumbers
<1>3. pt \in [PTEs -> PTE]
  BY <1>1, <1>2
<1>4. /\ \A x \in PTEs : x[1] # q => pt[x] = m.pt[x]
      /\ \A i \in Pages : pt[<<q, i>>] = m.pt[<<p, i>>]
  BY PagesAreNumbers
<1>5. n = [m EXCEPT !.pt = pt]
  BY DEF CopiedTable
<1> HIDE DEF pt
<1>. QED BY <1>3, <1>4, <1>5 DEF AnyMachine, SameMemory

\* The loop of copy_pagetable
LEMMA ShareLoop ==
  ASSUME build = "cow", NEW p \in Procs, NEW q \in Procs \ {p}, CopiedTable(p, q) \in Sharing(p)
  PROVE  \E f : /\ \A page \in Pages :
                      f[page] = ShareStep(IF page = 0 THEN CopiedTable(p, q) ELSE f[page - 1],
                                          p, q, page)
                /\ copy_pagetable(p, q) = f[NumPages - 1]
<1> DEFINE copied == [m EXCEPT !.pt =
            [pte \in PTEs |-> IF pte[1] = q THEN m.pt[<<p, pte[2]>>] ELSE m.pt[pte]]]
           Share(n, page) ==
            IF n.pt[<<p, page>>].present = 1
            THEN map_pte4(MarkReadOnly(n, p, q, page), <<q, page>>, Ppn(n.pt[<<p, page>>]))
            ELSE n
           share[page \in Pages] == Share(IF page = 0 THEN copied ELSE share[page - 1], page)
           start == CopiedTable(p, q)
           G == [z \in Sharing(p) \X Pages |-> ShareStep(z[1], p, q, z[2])]
<1>1. copy_pagetable(p, q) = share[NumPages - 1]
  BY DEF copy_pagetable
<1>2. G \in [Sharing(p) \X Pages -> Sharing(p)]
  <2> HIDE DEF share
  <2>1. \A k \in Sharing(p), page \in Pages : ShareStep(k, p, q, page) \in Sharing(p)
    BY ShareStepEffect
  <2>. QED BY <2>1
<1>3. \A k \in Sharing(p), page \in Pages : G[<<k, page>>] = ShareStep(k, p, q, page)
  OBVIOUS
<1> HIDE DEF G
<1>4. PICK h : PageRuns(h, Sharing(p), start, G)
  <2> HIDE DEF share, copied, Share, start
  <2>1. start \in Sharing(p)
    BY DEF start
  <2>. QED BY <1>2, <2>1, PageLoop
<1>5. \A page \in Pages : h[page] = ShareStep(IF page = 0 THEN start ELSE h[page - 1], p, q, page)
  <2> HIDE DEF share, copied, Share, start
  <2> SUFFICES ASSUME NEW page \in Pages
               PROVE  h[page] = ShareStep(IF page = 0 THEN start ELSE h[page - 1], p, q, page)
    OBVIOUS
  <2> DEFINE k == IF page = 0 THEN start ELSE h[page - 1]
  <2>1. k \in Sharing(p)
    BY <1>4, PagesAreNumbers DEF start, PageRuns
  <2>2. h[page] = G[<<k, page>>]
    BY <1>4 DEF PageRuns
  <2> HIDE DEF k
  <2>3. h[page] = ShareStep(k, p, q, page)
    BY <1>3, <2>1, <2>2
  <2>. QED BY <2>3 DEF k
<1>6. h = [page \in Pages |-> Share(IF page = 0 THEN copied ELSE h[page - 1], page)]
  <2>1. h = [page \in Pages |-> ShareStep(IF page = 0 THEN start ELSE h[page - 1], p, q, page)]
    <3> HIDE DEF share, copied, Share, start
    <3>. QED BY <1>4, <1>5 DEF PageRuns
  <2>. QED BY <2>1, Zenon DEF ShareStep, CopiedTable
<1>7. share = [page \in Pages |-> Share(IF page = 0 THEN copied ELSE share[page - 1], page)]
  BY <1>6 DEF share
<1> HIDE DEF share
<1>8. \A page \in Pages : share[page] = ShareStep(IF page = 0 THEN start ELSE share[page - 1], p, q, page)
  <2> SUFFICES ASSUME NEW page \in Pages
               PROVE  share[page] = ShareStep(IF page = 0 THEN start ELSE share[page - 1], p, q, page)
    OBVIOUS
  <2>1. share[page] = Share(IF page = 0 THEN copied ELSE share[page - 1], page)
    BY <1>7, Zenon
  <2>. QED BY <2>1, Zenon DEF ShareStep, CopiedTable
<1>. QED BY <1>1, <1>8

\* What fork promises about memory: the child's pages have the words of its parent's,
\* and everybody keeps his own.
Forks(n, b, p, q) ==
    /\ MemorySound(n, b, Of(Alive \cup {q}))
    /\ SameWords(m, n, Of(Alive))
    /\ \A i \in Pages : Content(n, <<q, i>>) = Content(m, <<p, i>>)

\* fork with copy-on-write shares every frame of the parent, write-protected.
LEMMA CowForkIsSound ==
  ASSUME Typed(m), build = "cow", MemorySound(m, "cow", Of(Alive)),
         NEW p \in Alive, NEW q \in Procs \ Alive,
         NEW n, n = copy_pagetable(p, q)
  PROVE  Typed(n) /\ (n.panic = "none" => Forks(n, "cow", p, q))
<1> DEFINE start == CopiedTable(p, q)
<1>1. p \in Procs /\ q \in Procs \ {p} /\ m \in AnyMachine /\ Consistent(m) /\ Present(m, Of(Alive))
  BY DEF Alive, Typed, MemorySound
<1>2. /\ start \in AnyMachine /\ SameMemory(m, start) /\ start.page_map = m.page_map
      /\ start.panic = m.panic
      /\ \A x \in PTEs : x[1] # q => start.pt[x] = m.pt[x]
      /\ \A i \in Pages : start.pt[<<q, i>>] = m.pt[<<p, i>>]
  BY <1>1, CopiedTableEffect
<1> HIDE DEF start
<1>3. ASSUME NEW x \in PTEs, x[1] \in Alive
      PROVE  /\ m.pt[x].present = 1 /\ Ppn(m.pt[x]) \in Frames
             /\ Content(m, x) = m.pm[Ppn(m.pt[x])]
  <2>1. m.pt[x].present = 1
    BY <1>1, <1>3 DEF Present, Of
  <2>. QED BY <1>1, <2>1, ContentOfPresent
<1>4. start \in Sharing(p)
  <2>1. ASSUME NEW i \in Pages PROVE Ppn(start.pt[<<p, i>>]) \in Frames
    <3>1. <<p, i>> \in PTEs /\ <<p, i>>[1] = p
      BY <1>1, PagesAreNumbers
    <3>2. start.pt[<<p, i>>] = m.pt[<<p, i>>]
      BY <1>1, <1>2, <3>1
    <3>. QED BY <1>3, <3>1, <3>2
  <2>. QED BY <1>2, <2>1 DEF Sharing
<1>5. PICK f : /\ \A page \in Pages :
                      f[page] = ShareStep(IF page = 0 THEN start ELSE f[page - 1], p, q, page)
               /\ n = f[NumPages - 1]
  BY <1>1, <1>4, ShareLoop DEF start
<1>6. SharedUpTo(start, p, q, -1)
  <2>1. Halfway(start, "cow", q, -1)
    <3> DEFINE b == "cow"
    <3>1. MemorySound(m, b, Of(Alive))
      OBVIOUS
    <3> HIDE DEF b
    <3>2. Halfway(start, b, q, -1)
      BY <1>1, <1>2, <3>1, HalfwayAtTheStart
    <3>. QED BY <3>2 DEF b
  <2>2. \A i \in Pages : ~ i <= -1
    BY PagesAreNumbers
  <2>. QED BY <1>2, <2>1, <2>2 DEF SharedUpTo
<1> DEFINE Turn(page) == /\ f[page] \in Sharing(p) /\ SameMemory(m, f[page])
                         /\ f[page].panic = "none" => SharedUpTo(f[page], p, q, page)
<1>7. ASSUME NEW page \in Pages, NEW k \in Sharing(p), SameMemory(m, k),
             k.panic = "none" => SharedUpTo(k, p, q, page - 1),
             f[page] = ShareStep(k, p, q, page)
      PROVE  Turn(page)
  <2> DEFINE l == f[page]
  <2>1. l = ShareStep(k, p, q, page)
    BY <1>7
  <2> HIDE DEF l
  <2>2. l \in Sharing(p) /\ SameMemory(k, l)
    BY <1>1, <1>7, <2>1, ShareStepEffect
  <2>3. l.panic = "none" => SharedUpTo(l, p, q, page)
    BY <1>1, <1>7, <2>1, ShareKeepsUpTo
  <2>4. SameMemory(m, l)
    BY <1>7, <2>2 DEF SameMemory
  <2>. QED BY <2>2, <2>3, <2>4 DEF l
<1>8. Turn(0)
  <2>1. f[0] = ShareStep(start, p, q, 0) /\ 0 \in Pages
    BY <1>5, PagesAreNumbers
  <2>2. SharedUpTo(start, p, q, 0 - 1)
    BY <1>6
  <2>. QED BY <1>2, <1>4, <1>7, <2>1, <2>2
<1>9. ASSUME NEW page \in Pages \ {0}, Turn(page - 1) PROVE Turn(page)
  <2>1. f[page] = ShareStep(f[page - 1], p, q, page)
    BY <1>5
  <2>. QED BY <1>7, <1>9, <2>1
<1>10. Turn(NumPages - 1)
  <2> DEFINE P == {page \in Pages : Turn(page)}
  <2> HIDE DEF Turn
  <2>1. 0 \in P /\ \A page \in Pages \ {0} : page - 1 \in P => page \in P
    BY <1>8, <1>9, PagesAreNumbers
  <2> HIDE DEF P
  <2>2. Pages \subseteq P
    BY <2>1, PageInduction
  <2>. QED BY <2>2, PagesAreNumbers DEF P
<1>11. n \in Sharing(p) /\ SameMemory(m, n) /\ (n.panic = "none" => SharedUpTo(n, p, q, NumPages - 1))
  BY <1>5, <1>10
<1>12. n \in AnyMachine /\ Typed(n)
  BY <1>11 DEF Typed, Sharing, SameMemory
<1>13. ASSUME n.panic = "none" PROVE Forks(n, "cow", p, q)
  <2>1. /\ Halfway(n, "cow", q, NumPages - 1)
        /\ \A x \in PTEs : x[1] # q => /\ n.pt[x].present = m.pt[x].present
                                       /\ Ppn(n.pt[x]) = Ppn(m.pt[x])
        /\ \A i \in Pages : Ppn(n.pt[<<q, i>>]) = Ppn(m.pt[<<p, i>>])
    BY <1>11, <1>13, PagesAreNumbers DEF SharedUpTo
  <2>2. MemorySound(n, "cow", Of(Alive \cup {q}))
    <3> DEFINE b == "cow"
    <3> HIDE DEF b
    <3>1. Halfway(n, b, q, NumPages - 1)
      BY <2>1 DEF b
    <3>2. MemorySound(n, b, Of(Alive \cup {q}))
      BY <1>1, <1>12, <3>1, HalfwayAtTheEnd
    <3>. QED BY <3>2 DEF b
  <2>3. n.pm = m.pm
    BY <1>11 DEF SameMemory
  <2>4. ASSUME NEW x \in PTEs, x[1] \in Alive \cup {q}
        PROVE  Content(n, x) = m.pm[Ppn(n.pt[x])]
    <3>1. n.pt[x].present = 1 /\ Consistent(n)
      BY <2>2, <2>4 DEF MemorySound, Present, Of
    <3>. QED BY <1>12, <2>3, <3>1, ContentOfPresent
  <2>5. SameWords(m, n, Of(Alive))
    <3> SUFFICES ASSUME NEW x \in Of(Alive) PROVE Content(n, x) = Content(m, x)
      BY DEF SameWords
    <3>1. x \in PTEs /\ x[1] \in Alive /\ x[1] # q
      BY DEF Of
    <3>. QED BY <1>3, <2>1, <2>4, <3>1
  <2>6. ASSUME NEW i \in Pages PROVE Content(n, <<q, i>>) = Content(m, <<p, i>>)
    <3>1. /\ <<q, i>> \in PTEs /\ <<q, i>>[1] = q
          /\ <<p, i>> \in PTEs /\ <<p, i>>[1] = p
      BY <1>1, PagesAreNumbers
    <3>2. Content(n, <<q, i>>) = m.pm[Ppn(n.pt[<<q, i>>])]
      BY <2>4, <3>1
    <3>3. Content(m, <<p, i>>) = m.pm[Ppn(m.pt[<<p, i>>])]
      BY <1>3, <3>1
    <3>. QED BY <2>1, <3>2, <3>3
  <2>. QED BY <2>2, <2>5, <2>6 DEF Forks
<1>. QED BY <1>12, <1>13

-----------------------------------------------------------------------------
(* fork with copies                                                         *)

CopyStep(k, p, q, page) ==
    IF k.pt[<<p, page>>].present = 1
    THEN copy_physicalframe(k, <<q, page>>, Ppn(k.pt[<<p, page>>]))
    ELSE k

\* The parent's table stays as it is at every turn, even after a failed assertion.
Copying(p) ==
    {k \in AnyMachine : /\ k.internal_swap_addr = SWAP_ADDRESS_MIN
                        /\ \A i \in Pages : k.pt[<<p, i>>] = m.pt[<<p, i>>]}

\* What a living process' page is
LEMMA PageOfTheLiving ==
  ASSUME m \in AnyMachine, NEW b, MemorySound(m, b, Of(Alive)), NEW x \in Of(Alive)
  PROVE  /\ x \in PTEs /\ m.pt[x].present = 1 /\ Ppn(m.pt[x]) \in Frames
         /\ x \in Pointing(m, Ppn(m.pt[x]))
         /\ Content(m, x) = m.pm[Ppn(m.pt[x])] /\ Content(m, x) \in Words
         /\ b = "naive" => Pointing(m, Ppn(m.pt[x])) = {x} /\ ReadOnly(m.pt[x]) = 0
<1>1. x \in PTEs /\ Consistent(m) /\ Protected(m, b) /\ Present(m, Of(Alive))
  BY DEF Of, MemorySound
<1>2. m.pt[x].present = 1
  BY <1>1 DEF Present
<1>3. /\ Content(m, x) = m.pm[Ppn(m.pt[x])] /\ Content(m, x) \in Words
      /\ Ppn(m.pt[x]) \in Frames /\ x \in Pointing(m, Ppn(m.pt[x]))
  BY <1>1, <1>2, ContentOfPresent
<1>4. b = "naive" => Pointing(m, Ppn(m.pt[x])) = {x} /\ ReadOnly(m.pt[x]) = 0
  BY <1>1, <1>3 DEF Protected
<1>. QED BY <1>1, <1>2, <1>3, <1>4

\* A process' pages are entries.
LEMMA RowOf ==
  ASSUME NEW p \in Procs, NEW i \in Pages
  PROVE  <<p, i>> \in PTEs /\ <<p, i>>[1] = p /\ <<p, i>>[2] = i /\ (p \in Alive => <<p, i>> \in Of(Alive))
BY PagesAreNumbers DEF Of

\* One turn of copy_userframes: while frames are left, it copies one.
CopyTurn(k, n, p, q, page) ==
    /\ n \in Copying(p)
    /\ \A x \in PTEs \ {<<q, page>>} : n.pt[x] = k.pt[x]
    /\ n.panic = "none" => k.panic = "none"
    /\ FreeFrames(k) # {} /\ n.panic = "none" =>
         /\ CopiesFrame(k, n, <<q, page>>, Ppn(m.pt[<<p, page>>]))
         /\ ReadOnly(n.pt[<<q, page>>]) = ReadOnly(k.pt[<<q, page>>])

\* A turn of copy_userframes copies the page if a frame is free.
LEMMA CopyStepEffect ==
  ASSUME m \in AnyMachine, NEW b, MemorySound(m, b, Of(Alive)),
         NEW p \in Alive, NEW q \in Procs \ {p}, NEW page \in Pages, NEW k \in Copying(p),
         NEW n, n = CopyStep(k, p, q, page)
  PROVE  CopyTurn(k, n, p, q, page)
<1> DEFINE x == <<p, page>>
           y == <<q, page>>
           ppn == Ppn(m.pt[x])
<1>1. p \in Procs /\ k \in AnyMachine /\ k.pt[x] = m.pt[x] /\ x \in PTEs /\ y \in PTEs
  BY RowOf DEF Copying, Alive
<1>2. m.pt[x].present = 1 /\ ppn \in Frames
  BY <1>1, RowOf, PageOfTheLiving
<1>3. n = copy_physicalframe(k, y, ppn)
  BY <1>1, <1>2 DEF CopyStep
<1>4. CASE FreeFrames(k) = {}
  <2>1. n = k
    BY <1>3, <1>4 DEF copy_physicalframe
  <2>. QED BY <1>4, <2>1 DEF CopyTurn
<1>5. CASE FreeFrames(k) # {}
  <2> HIDE DEF x, y, ppn
  <2>1. /\ n \in AnyMachine /\ n.internal_swap_addr = k.internal_swap_addr
        /\ \A other \in PTEs \ {y} : n.pt[other] = k.pt[other]
        /\ n.panic = "none" =>
              /\ k.panic = "none"
              /\ CopiesFrame(k, n, y, ppn)
              /\ ReadOnly(n.pt[y]) = ReadOnly(k.pt[y])
    BY <1>1, <1>2, <1>3, <1>5, CopyFrameEffect
  <2>2. ASSUME NEW i \in Pages PROVE n.pt[<<p, i>>] = m.pt[<<p, i>>]
    <3>1. <<p, i>> \in PTEs \ {y}
      BY <1>1, RowOf DEF y
    <3>. QED BY <2>1, <3>1 DEF Copying
  <2>. QED BY <2>1, <2>2 DEF CopyTurn, Copying, x, y, ppn
<1>. QED BY <1>4, <1>5

\* The pages up to "page" are copied, the others still to be.
CopiedUpTo(n, p, q, page) ==
    /\ Halfway(n, "naive", q, page)
    /\ \A x \in PTEs : x[1] # q => n.pt[x] = m.pt[x]
    /\ \A x \in Of(Alive) : n.pm[Ppn(m.pt[x])] = m.pm[Ppn(m.pt[x])]
    /\ \A i \in Pages : i <= page => n.pm[Ppn(n.pt[<<q, i>>])] = m.pm[Ppn(m.pt[<<p, i>>])]
    /\ \A i \in Pages : i > page => n.pt[<<q, i>>] = m.pt[<<p, i>>]
    /\ Cardinality(FreeFrames(n)) >= NumPages - 1 - page

\* A frame that gets its first page is one free frame less.
LEMMA OneFreeFrameLess ==
  ASSUME NEW k, NEW n, NEW x, NEW g \in FreeFrames(k), Attaches(k, n, x, g)
  PROVE  /\ IsFiniteSet(FreeFrames(k)) /\ IsFiniteSet(FreeFrames(n))
         /\ Cardinality(FreeFrames(k)) \in Nat
         /\ Cardinality(FreeFrames(n)) = Cardinality(FreeFrames(k)) - 1
<1>1. IsFiniteSet(FreeFrames(k)) /\ IsFiniteSet(FreeFrames(n))
  BY FramesAreNaturals, FS_Subset DEF FreeFrames
<1>2. g \in Frames /\ \A f \in Frames : n.page_map[f].allocated = IF f = g THEN 1 ELSE k.page_map[f].allocated
  BY DEF Attaches, SameButTime, FreeFrames
<1>3. FreeFrames(n) = FreeFrames(k) \ {g}
  BY <1>2 DEF FreeFrames
<1>. QED BY <1>1, <1>3, FS_RemoveElement, FS_CardinalityType

\* The accounts and the protection after one turn of copy_userframes
LEMMA CopyKeepsHalfway ==
  ASSUME NEW q \in Procs \ Alive, NEW page \in Pages,
         NEW k \in AnyMachine, NEW n \in AnyMachine, NEW g \in FreeFrames(k),
         Attaches(k, n, <<q, page>>, g), ReadOnly(n.pt[<<q, page>>]) = 0,
         Halfway(k, "naive", q, page - 1)
  PROVE  /\ Halfway(n, "naive", q, page)
         /\ \A x \in PTEs : x[1] \in Alive \/ (x[1] = q /\ x[2] < page) =>
                k.pt[x].present = 1 /\ Ppn(k.pt[x]) # g
<1> DEFINE y == <<q, page>>
           present == Of(Alive) \cup UpTo(q, page - 1)
           e == Without(k, Later(q, page - 1))
           f == Without(n, Later(q, page))
<1>1. y \in PTEs /\ y \in Later(q, page - 1)
  <2>1. page > page - 1
    BY PagesAreNumbers
  <2>. QED BY <2>1, RowOf DEF Later
<1>2. /\ e \in AnyMachine /\ e.page_map = k.page_map
      /\ \A z \in PTEs : e.pt[z] = IF z \in Later(q, page - 1) THEN NoPage ELSE k.pt[z]
  BY WithoutEffect
<1>3. Consistent(e) /\ SlotsCounted(e) /\ Protected(e, "naive") /\ Present(e, present)
  BY DEF Halfway, MemorySound
<1> HIDE DEF e, f, present
<1>4. g \in Frames /\ Pointing(e, g) = {}
  <2>1. g \in Frames /\ e.page_map[g].allocated = 0
    BY <1>2 DEF FreeFrames
  <2>. QED BY <1>3, <2>1 DEF Consistent, InverseMaps
<1>5. /\ Grows(e, f, y, g) /\ f.pt[y] = n.pt[y]
      /\ Present(f, Of(Alive) \cup UpTo(q, page))
  <2>1. e = Without(k, Later(q, page - 1)) /\ f = Without(n, Later(q, page))
    BY DEF e, f
  <2>2. Present(e, Of(Alive) \cup UpTo(q, page - 1)) /\ Consistent(e) /\ SlotsCounted(e)
    BY <1>3 DEF present
  <2> HIDE DEF y
  <2>3. /\ Grows(e, f, <<q, page>>, g) /\ f.pt[<<q, page>>] = n.pt[<<q, page>>]
        /\ Present(f, Of(Alive) \cup UpTo(q, page))
    BY <1>4, <2>1, <2>2, HalfwayByAttach, Z3
  <2>. QED BY <2>3 DEF y
<1>6. Pointing(f, g) = {y} /\ \A h \in Frames \ {g} : Pointing(f, h) = Pointing(e, h)
  BY <1>4, <1>5 DEF Grows
<1>7. Protected(f, "naive")
  <2> SUFFICES ASSUME NEW h \in Frames, NEW z \in Pointing(f, h)
               PROVE  Pointing(f, h) = {z} /\ ReadOnly(f.pt[z]) = 0
    BY Zenon DEF Protected
  <2>1. CASE h = g
    BY <1>5, <1>6, <2>1 DEF y
  <2>2. CASE h # g
    <3>1. z \in Pointing(e, h) /\ Pointing(f, h) = Pointing(e, h)
      BY <1>6, <2>2
    <3>2. z \in PTEs \ {y}
      BY <1>1, <1>2, <3>1 DEF Pointing, NoPage
    <3>3. f.pt[z] = e.pt[z]
      BY <1>5, <3>2 DEF Grows
    <3>. QED BY <1>3, <3>1, <3>3 DEF Protected
  <2>. QED BY <2>1, <2>2
<1>8. ASSUME NEW x \in PTEs, x[1] \in Alive \/ (x[1] = q /\ x[2] < page)
      PROVE  k.pt[x].present = 1 /\ Ppn(k.pt[x]) # g
  <2>1. x[2] \in Nat /\ page \in Nat
    BY PagesAreNumbers
  <2>2. x \in present /\ x \notin Later(q, page - 1)
    BY <1>8, <2>1 DEF present, Of, UpTo, Later
  <2>3. e.pt[x].present = 1 /\ e.pt[x] = k.pt[x]
    BY <1>2, <1>3, <2>2 DEF Present
  <2>. QED BY <1>4, <2>3 DEF Pointing
<1>. QED BY <1>5, <1>7, <1>8 DEF Halfway, MemorySound, Grows, f

\* One turn of the loop, which has a free frame left for every page
LEMMA CopyKeepsUpTo ==
  ASSUME m \in AnyMachine, MemorySound(m, "naive", Of(Alive)),
         NEW p \in Alive, NEW q \in Procs \ Alive, NEW page \in Pages,
         NEW k \in Copying(p), k.panic = "none" => CopiedUpTo(k, p, q, page - 1),
         NEW n, n = CopyStep(k, p, q, page), n.panic = "none"
  PROVE  CopiedUpTo(n, p, q, page)
<1> DEFINE x == <<p, page>>
           y == <<q, page>>
<1>1. p \in Procs /\ q \in Procs \ {p} /\ k \in AnyMachine
  BY DEF Alive, Copying
<1>2. x \in Of(Alive) /\ x \in PTEs /\ y \in PTEs /\ page \in Nat /\ page <= NumPages - 1
  BY <1>1, RowOf, PagesAreNumbers
<1> DEFINE b == "naive"
<1>S. k.panic = "none"
  <2>1. MemorySound(m, b, Of(Alive))
    OBVIOUS
  <2> HIDE DEF b
  <2>2. CopyTurn(k, n, p, q, page)
    BY <1>1, <2>1, CopyStepEffect
  <2>. QED BY <2>2 DEF CopyTurn
<1>3. /\ Halfway(k, "naive", q, page - 1)
      /\ \A z \in PTEs : z[1] # q => k.pt[z] = m.pt[z]
      /\ \A z \in Of(Alive) : k.pm[Ppn(m.pt[z])] = m.pm[Ppn(m.pt[z])]
      /\ \A i \in Pages : i <= page - 1 => k.pm[Ppn(k.pt[<<q, i>>])] = m.pm[Ppn(m.pt[<<p, i>>])]
      /\ \A i \in Pages : i > page - 1 => k.pt[<<q, i>>] = m.pt[<<p, i>>]
      /\ Cardinality(FreeFrames(k)) >= NumPages - 1 - (page - 1)
  BY <1>S DEF CopiedUpTo
<1>4. FreeFrames(k) # {}
  <2>1. NumPages - 1 - (page - 1) >= 1
    BY <1>2, PagesAreNumbers
  <2>2. Cardinality({}) = 0
    BY FS_EmptySet
  <2>. QED BY <1>3, <2>1, <2>2, PagesAreNumbers, <1>2
<1>5. n \in Copying(p) /\ CopiesFrame(k, n, y, Ppn(m.pt[x])) /\ ReadOnly(n.pt[y]) = ReadOnly(k.pt[y])
  <2>1. MemorySound(m, b, Of(Alive))
    OBVIOUS
  <2> HIDE DEF b
  <2>2. CopyTurn(k, n, p, q, page)
    BY <1>1, <2>1, CopyStepEffect
  <2>. QED BY <1>4, <2>2 DEF CopyTurn
<1>6. PICK g \in FreeFrames(k) :
         Attaches(k, n, y, g) /\ n.pm = [k.pm EXCEPT ![g] = k.pm[Ppn(m.pt[x])]]
  BY <1>5 DEF CopiesFrame
<1>7. \A z \in Of(Alive) : /\ z \in PTEs /\ m.pt[z].present = 1 /\ Ppn(m.pt[z]) \in Frames
                           /\ ReadOnly(m.pt[z]) = 0
  <2> SUFFICES ASSUME NEW z \in Of(Alive)
               PROVE  /\ z \in PTEs /\ m.pt[z].present = 1 /\ Ppn(m.pt[z]) \in Frames
                      /\ ReadOnly(m.pt[z]) = 0
    OBVIOUS
  <2>1. MemorySound(m, b, Of(Alive))
    OBVIOUS
  <2>2. b = "naive"
    OBVIOUS
  <2> HIDE DEF b
  <2>. QED BY <2>1, <2>2, PageOfTheLiving
<1>8. ReadOnly(n.pt[y]) = 0
  <2>1. page > page - 1
    BY <1>2
  <2>2. k.pt[y] = m.pt[x]
    BY <1>3, <2>1
  <2>. QED BY <1>2, <1>5, <1>7, <2>2
<1>9. n \in AnyMachine
  BY <1>5 DEF Copying
<1>10. /\ Halfway(n, "naive", q, page)
       /\ \A z \in PTEs : z[1] \in Alive \/ (z[1] = q /\ z[2] < page) =>
                k.pt[z].present = 1 /\ Ppn(k.pt[z]) # g
  <2> HIDE DEF x, y
  <2>. QED BY <1>1, <1>3, <1>6, <1>8, <1>9, CopyKeepsHalfway DEF y
<1>11. k.pm \in [Frames -> Words] /\ g \in Frames
  BY <1>1 DEF AnyMachine, FreeFrames
<1>12. n.pm[g] = k.pm[Ppn(m.pt[x])] /\ \A h : h \in Frames \ {g} => n.pm[h] = k.pm[h]
  BY <1>6, <1>11
<1>13. \A z \in PTEs \ {y} : n.pt[z] = k.pt[z]
  BY <1>6 DEF Attaches
<1>14. ASSUME NEW z \in PTEs, z[1] # q PROVE n.pt[z] = m.pt[z]
  <2>1. z # y
    BY <1>14
  <2>. QED BY <1>3, <1>13, <1>14, <2>1
<1>15. ASSUME NEW z \in Of(Alive) PROVE n.pm[Ppn(m.pt[z])] = m.pm[Ppn(m.pt[z])]
  <2>1. z \in PTEs /\ z[1] \in Alive /\ z[1] # q /\ Ppn(m.pt[z]) \in Frames
    BY <1>7 DEF Of
  <2>2. k.pt[z] = m.pt[z]
    BY <1>3, <2>1
  <2>3. Ppn(m.pt[z]) # g
    BY <1>10, <2>1, <2>2
  <2>. QED BY <1>3, <1>12, <2>1, <2>3
<1>16. ASSUME NEW i \in Pages, i <= page PROVE n.pm[Ppn(n.pt[<<q, i>>])] = m.pm[Ppn(m.pt[<<p, i>>])]
  <2>1. CASE i = page
    <3>1. Ppn(n.pt[y]) = g
      BY <1>6 DEF Attaches
    <3>2. k.pm[Ppn(m.pt[x])] = m.pm[Ppn(m.pt[x])]
      BY <1>2, <1>3
    <3>. QED BY <1>12, <2>1, <3>1, <3>2
  <2>2. CASE i # page
    <3>1. i \in Nat /\ i <= page - 1 /\ i < page
      BY <1>2, <1>16, <2>2, PagesAreNumbers
    <3> DEFINE z == <<q, i>>
    <3>2. z \in PTEs /\ z # y /\ z[1] = q /\ z[2] = i
      BY <2>2, RowOf
    <3>3. n.pt[z] = k.pt[z]
      BY <1>13, <3>2
    <3>4. Ppn(k.pt[z]) # g
      BY <1>10, <3>1, <3>2
    <3>5. Ppn(k.pt[z]) \in Frames
      <4>1. k.pt[z].present = 1
        BY <1>10, <3>1, <3>2
      <4> DEFINE e == Without(k, Later(q, page - 1))
      <4>2. e.pt[z] = k.pt[z]
        <5>1. z \notin Later(q, page - 1)
          BY <1>2, <3>1, <3>2 DEF Later
        <5>2. \A v \in PTEs : e.pt[v] = IF v \in Later(q, page - 1) THEN NoPage ELSE k.pt[v]
          BY <1>1, WithoutEffect
        <5> HIDE DEF e, z
        <5>. QED BY <3>2, <5>1, <5>2
      <4>3. EntriesPointToFrames(e)
        BY <1>3 DEF Halfway, MemorySound, Consistent
      <4> HIDE DEF e, z
      <4>. QED BY <3>2, <4>1, <4>2, <4>3 DEF EntriesPointToFrames
    <3> HIDE DEF z
    <3>6. n.pm[Ppn(n.pt[z])] = k.pm[Ppn(k.pt[z])]
      BY <1>12, <3>3, <3>4, <3>5
    <3>. QED BY <1>3, <3>1, <3>6 DEF z
  <2>. QED BY <2>1, <2>2
<1>17. ASSUME NEW i \in Pages, i > page PROVE n.pt[<<q, i>>] = m.pt[<<p, i>>]
  <2>1. i \in Nat /\ i > page - 1 /\ i # page
    BY <1>2, <1>17, PagesAreNumbers
  <2>2. <<q, i>> \in PTEs /\ <<q, i>> # y
    BY <2>1, RowOf
  <2>. QED BY <1>3, <1>13, <2>1, <2>2
<1>18. Cardinality(FreeFrames(n)) >= NumPages - 1 - page
  <2>1. /\ Cardinality(FreeFrames(k)) \in Nat
        /\ Cardinality(FreeFrames(n)) = Cardinality(FreeFrames(k)) - 1
    BY <1>6, OneFreeFrameLess
  <2>. QED BY <1>2, <1>3, <2>1, PagesAreNumbers
<1>. QED BY <1>10, <1>14, <1>15, <1>16, <1>17, <1>18 DEF CopiedUpTo

\* The loop of copy_userframes
LEMMA CopyLoop ==
  ASSUME m \in AnyMachine, NEW b, MemorySound(m, b, Of(Alive)),
         NEW p \in Alive, NEW q \in Procs \ {p}, NEW start \in Copying(p)
  PROVE  \E f : /\ \A page \in Pages :
                      f[page] = CopyStep(IF page = 0 THEN start ELSE f[page - 1], p, q, page)
                /\ copy_userframes(start, p, q) = f[NumPages - 1]
<1> DEFINE Copy(k, page) ==
            IF k.pt[<<p, page>>].present = 1
            THEN copy_physicalframe(k, <<q, page>>, Ppn(k.pt[<<p, page>>]))
            ELSE k
           copy[page \in Pages] == Copy(IF page = 0 THEN start ELSE copy[page - 1], page)
           G == [z \in Copying(p) \X Pages |-> CopyStep(z[1], p, q, z[2])]
<1>1. copy_userframes(start, p, q) = copy[NumPages - 1]
  BY DEF copy_userframes
<1>2. G \in [Copying(p) \X Pages -> Copying(p)]
  <2> HIDE DEF copy
  <2>1. \A k \in Copying(p), page \in Pages : CopyStep(k, p, q, page) \in Copying(p)
    BY CopyStepEffect DEF CopyTurn
  <2>. QED BY <2>1
<1>3. \A k \in Copying(p), page \in Pages : G[<<k, page>>] = CopyStep(k, p, q, page)
  OBVIOUS
<1> HIDE DEF G
<1>4. PICK h : PageRuns(h, Copying(p), start, G)
  <2> HIDE DEF copy, Copy
  <2>. QED BY <1>2, PageLoop
<1>5. \A page \in Pages : h[page] = CopyStep(IF page = 0 THEN start ELSE h[page - 1], p, q, page)
  <2> HIDE DEF copy, Copy
  <2> SUFFICES ASSUME NEW page \in Pages
               PROVE  h[page] = CopyStep(IF page = 0 THEN start ELSE h[page - 1], p, q, page)
    OBVIOUS
  <2> DEFINE k == IF page = 0 THEN start ELSE h[page - 1]
  <2>1. k \in Copying(p)
    BY <1>4, PagesAreNumbers DEF PageRuns
  <2>2. h[page] = G[<<k, page>>]
    BY <1>4 DEF PageRuns
  <2> HIDE DEF k
  <2>3. h[page] = CopyStep(k, p, q, page)
    BY <1>3, <2>1, <2>2
  <2>. QED BY <2>3 DEF k
<1>6. h = [page \in Pages |-> Copy(IF page = 0 THEN start ELSE h[page - 1], page)]
  <2>1. h = [page \in Pages |-> CopyStep(IF page = 0 THEN start ELSE h[page - 1], p, q, page)]
    <3> HIDE DEF copy, Copy
    <3>. QED BY <1>4, <1>5 DEF PageRuns
  <2>. QED BY <2>1, Zenon DEF CopyStep
<1>7. copy = [page \in Pages |-> Copy(IF page = 0 THEN start ELSE copy[page - 1], page)]
  BY <1>6 DEF copy
<1> HIDE DEF copy
<1>8. \A page \in Pages : copy[page] = CopyStep(IF page = 0 THEN start ELSE copy[page - 1], p, q, page)
  <2> SUFFICES ASSUME NEW page \in Pages
               PROVE  copy[page] = CopyStep(IF page = 0 THEN start ELSE copy[page - 1], p, q, page)
    OBVIOUS
  <2>1. copy[page] = Copy(IF page = 0 THEN start ELSE copy[page - 1], page)
    BY <1>7, Zenon
  <2>. QED BY <2>1, Zenon DEF CopyStep
<1>. QED BY <1>1, <1>8

\* All pages of a living process are present: its copy needs as many frames.
LEMMA FramesOfChild ==
  ASSUME NEW b, MemorySound(m, b, Of(Alive)), NEW p \in Alive
  PROVE  get_childframe_num(p) = NumPages
<1>1. \A i \in Pages : m.pt[<<p, i>>].present = 1
  BY RowOf DEF MemorySound, Present, Alive
<1>2. {page \in Pages : m.pt[<<p, page>>].present = 1} = Pages
  BY <1>1
<1>. QED BY <1>2, PagesAreNumbers DEF get_childframe_num

\* fork with copies gives every page of the child a frame of its own, with the words of
\* the parent's.
LEMMA NaiveForkIsSound ==
  ASSUME Typed(m), MemorySound(m, "naive", Of(Alive)),
         NEW p \in Alive, NEW q \in Procs \ Alive, enough_frames(m, get_childframe_num(p)),
         m.panic = "none",
         NEW n, n = copy_userframes(CopiedTable(p, q), p, q)
  PROVE  Typed(n) /\ (n.panic = "none" => Forks(n, "naive", p, q))
<1> DEFINE start == CopiedTable(p, q)
           b == "naive"
<1>1. p \in Procs /\ q \in Procs \ {p} /\ m \in AnyMachine /\ MemorySound(m, b, Of(Alive))
      /\ b = "naive"
  BY DEF Alive, Typed
<1>2. /\ start \in AnyMachine /\ SameMemory(m, start) /\ start.page_map = m.page_map
      /\ start.panic = m.panic
      /\ \A x \in PTEs : x[1] # q => start.pt[x] = m.pt[x]
      /\ \A i \in Pages : start.pt[<<q, i>>] = m.pt[<<p, i>>]
  BY <1>1, CopiedTableEffect
<1> HIDE DEF start, b
<1>3. start \in Copying(p)
  <2>1. ASSUME NEW i \in Pages PROVE start.pt[<<p, i>>] = m.pt[<<p, i>>]
    BY <1>1, <1>2, RowOf
  <2>. QED BY <1>2, <2>1 DEF Copying, Typed, SameMemory
<1>4. PICK f : /\ \A page \in Pages :
                      f[page] = CopyStep(IF page = 0 THEN start ELSE f[page - 1], p, q, page)
               /\ n = f[NumPages - 1]
  <2>1. \E f : /\ \A page \in Pages :
                      f[page] = CopyStep(IF page = 0 THEN start ELSE f[page - 1], p, q, page)
               /\ copy_userframes(start, p, q) = f[NumPages - 1]
    BY <1>1, <1>3, CopyLoop
  <2>. QED BY <2>1 DEF start
<1>5. CopiedUpTo(start, p, q, -1)
  <2>1. Halfway(start, "naive", q, -1)
    BY <1>1, <1>2, HalfwayAtTheStart
  <2>2. \A i \in Pages : ~ i <= -1 /\ i > -1
    BY PagesAreNumbers
  <2>3. Cardinality(FreeFrames(start)) >= NumPages - 1 - (-1)
    <3>1. FreeFrames(start) = FreeFrames(m)
      BY <1>2 DEF FreeFrames
    <3>2. get_childframe_num(p) = NumPages
      BY <1>1, FramesOfChild
    <3>3. Cardinality(FreeFrames(m)) \in Nat
      BY FramesAreNaturals, FS_Subset, FS_CardinalityType DEF FreeFrames
    <3>. QED BY <3>1, <3>2, <3>3, PagesAreNumbers DEF enough_frames
  <2>4. start.pm = m.pm
    BY <1>2 DEF SameMemory
  <2>. QED BY <1>2, <2>1, <2>2, <2>3, <2>4 DEF CopiedUpTo
<1> DEFINE Turn(page) == /\ f[page] \in Copying(p)
                         /\ f[page].panic = "none" => CopiedUpTo(f[page], p, q, page)
<1>7. ASSUME NEW page \in Pages, NEW k \in Copying(p),
             k.panic = "none" => CopiedUpTo(k, p, q, page - 1),
             f[page] = CopyStep(k, p, q, page)
      PROVE  Turn(page)
  <2> DEFINE l == f[page]
  <2>1. l = CopyStep(k, p, q, page)
    BY <1>7
  <2> HIDE DEF l
  <2>2. CopyTurn(k, l, p, q, page)
    BY <1>1, <1>7, <2>1, CopyStepEffect
  <2>3. l.panic = "none" => CopiedUpTo(l, p, q, page)
    BY <1>1, <1>7, <2>1, CopyKeepsUpTo
  <2>. QED BY <2>2, <2>3 DEF l, CopyTurn
<1>8. Turn(0)
  <2>1. f[0] = CopyStep(start, p, q, 0) /\ 0 \in Pages
    BY <1>4, PagesAreNumbers
  <2>2. CopiedUpTo(start, p, q, 0 - 1)
    BY <1>5
  <2>. QED BY <1>3, <1>7, <2>1, <2>2
<1>9. ASSUME NEW page \in Pages \ {0}, Turn(page - 1) PROVE Turn(page)
  <2>1. f[page] = CopyStep(f[page - 1], p, q, page)
    BY <1>4
  <2>. QED BY <1>7, <1>9, <2>1
<1>10. Turn(NumPages - 1)
  <2> DEFINE P == {page \in Pages : Turn(page)}
  <2> HIDE DEF Turn
  <2>1. 0 \in P /\ \A page \in Pages \ {0} : page - 1 \in P => page \in P
    BY <1>8, <1>9, PagesAreNumbers
  <2> HIDE DEF P
  <2>2. Pages \subseteq P
    BY <2>1, PageInduction
  <2>. QED BY <2>2, PagesAreNumbers DEF P
<1>11. n \in Copying(p) /\ (n.panic = "none" => CopiedUpTo(n, p, q, NumPages - 1))
  BY <1>4, <1>10
<1>12. n \in AnyMachine /\ Typed(n)
  BY <1>11 DEF Typed, Copying
<1>13. ASSUME n.panic = "none" PROVE Forks(n, "naive", p, q)
  <2>1. /\ Halfway(n, b, q, NumPages - 1)
        /\ \A x \in PTEs : x[1] # q => n.pt[x] = m.pt[x]
        /\ \A x \in Of(Alive) : n.pm[Ppn(m.pt[x])] = m.pm[Ppn(m.pt[x])]
        /\ \A i \in Pages : n.pm[Ppn(n.pt[<<q, i>>])] = m.pm[Ppn(m.pt[<<p, i>>])]
    BY <1>1, <1>11, <1>13, PagesAreNumbers DEF CopiedUpTo
  <2>2. MemorySound(n, b, Of(Alive \cup {q}))
    BY <1>1, <1>12, <2>1, HalfwayAtTheEnd
  <2>4. ASSUME NEW x \in PTEs, x[1] \in Alive \cup {q}
        PROVE  Content(n, x) = n.pm[Ppn(n.pt[x])]
    <3>1. n.pt[x].present = 1 /\ Consistent(n)
      BY <2>2, <2>4 DEF MemorySound, Present, Of
    <3>. QED BY <1>12, <3>1, ContentOfPresent
  <2>5. SameWords(m, n, Of(Alive))
    <3> SUFFICES ASSUME NEW x \in Of(Alive) PROVE Content(n, x) = Content(m, x)
      BY DEF SameWords
    <3>1. x \in PTEs /\ x[1] \in Alive /\ x[1] # q
      BY DEF Of
    <3>2. Content(m, x) = m.pm[Ppn(m.pt[x])]
      BY <1>1, PageOfTheLiving
    <3>. QED BY <2>1, <2>4, <3>1, <3>2
  <2>6. ASSUME NEW i \in Pages PROVE Content(n, <<q, i>>) = Content(m, <<p, i>>)
    <3>1. /\ <<q, i>> \in PTEs /\ <<q, i>>[1] = q
          /\ <<p, i>> \in Of(Alive)
      BY <1>1, RowOf
    <3>2. Content(n, <<q, i>>) = n.pm[Ppn(n.pt[<<q, i>>])]
      BY <2>4, <3>1
    <3>3. Content(m, <<p, i>>) = m.pm[Ppn(m.pt[<<p, i>>])]
      BY <1>1, <3>1, PageOfTheLiving
    <3>. QED BY <2>1, <3>2, <3>3
  <2>. QED BY <1>1, <2>2, <2>5, <2>6 DEF Forks
<1>. QED BY <1>12, <1>13

\* fork in both builds
LEMMA ForkIsSound ==
  ASSUME Typed(m), build \in {"naive", "cow"}, MemorySound(m, build, Of(Alive)), m.panic = "none",
         NEW p \in Alive, NEW q \in Procs \ Alive,
         build = "naive" => enough_frames(m, get_childframe_num(p)),
         NEW n, n = ForkedMachine(p, q)
  PROVE  Typed(n) /\ (n.panic = "none" => Forks(n, build, p, q))
<1>1. CASE build = "cow"
  <2>1. n = copy_pagetable(p, q)
    BY <1>1, Zenon DEF ForkedMachine
  <2>2. Typed(n) /\ (n.panic = "none" => Forks(n, "cow", p, q))
    BY <1>1, <2>1, CowForkIsSound
  <2>. QED BY <1>1, <2>2
<1>2. CASE build = "naive"
  <2> DEFINE c == copy_userframes(CopiedTable(p, q), p, q)
  <2>1. copy_pagetable(p, q) = CopiedTable(p, q)
    BY <1>2, Zenon DEF copy_pagetable, CopiedTable
  <2>2. n = Guarded(c, SameTables(c, p, q), "compare_pagetables", c)
    BY <1>2, <2>1, Zenon DEF ForkedMachine
  <2>3. Typed(c) /\ (c.panic = "none" => Forks(c, "naive", p, q))
    BY <1>2, NaiveForkIsSound
  <2> HIDE DEF c
  <2>4. n = c \/ n = [c EXCEPT !.panic = "compare_pagetables"]
    BY <2>2 DEF Guarded
  <2>5. ASSUME n = [c EXCEPT !.panic = "compare_pagetables"] PROVE Typed(n) /\ n.panic # "none"
    <3>1. c \in AnyMachine /\ c.internal_swap_addr = SWAP_ADDRESS_MIN
      BY <2>3 DEF Typed
    <3>2. "compare_pagetables" \in Panics
      BY DEF Panics
    <3>3. n \in AnyMachine /\ n.panic = "compare_pagetables"
      BY <2>5, <3>1, <3>2 DEF AnyMachine
    <3>4. n.internal_swap_addr = c.internal_swap_addr
      BY <2>5, <3>1 DEF AnyMachine
    <3>. QED BY <3>1, <3>3, <3>4 DEF Typed
  <2>. QED BY <1>2, <2>3, <2>4, <2>5
<1>. QED BY <1>1, <1>2

-----------------------------------------------------------------------------
(* The loader                                                               *)

\* map_pte4 of a frame that nobody uses meets no assertion.
LEMMA MapOfUnusedSucceeds ==
  ASSUME NEW k \in AnyMachine, k.panic = "none", NEW pte \in PTEs, NEW ppn \in Frames,
         k.page_map[ppn].dirty = 0, k.page_map[ppn].reversed_counter = 0,
         Used(k.page_map[ppn]) = {}
  PROVE  map_pte4(k, pte, ppn).panic = "none"
<1> DEFINE d == k.page_map[ppn]
           page_map == WithTimes([k.page_map EXCEPT ![ppn] = Mapped(d, pte, k.pt[pte].saddr)],
               [f \in Frames |-> [k.page_map EXCEPT ![ppn] = Mapped(d, pte, k.pt[pte].saddr)][f].time])
           e == WithDirty(WithPpn([k.pt[pte] EXCEPT !.present = 1], ppn), 0)
<1>1. d.reversed_counter < MaxMapping /\ Used(d) # Slots
  <2>1. MaxMapping \in Nat /\ 0 < MaxMapping /\ 1 \in Slots
    BY FramesAssumption DEF Slots
  <2>. QED BY <2>1
<1>2. map_pte4(k, pte, ppn) = [k EXCEPT !.page_map = page_map, !.pt[pte] = e]
  BY <1>1, Zenon DEF map_pte4, Guarded
<1> HIDE DEF page_map, e
<1>. QED BY <1>2 DEF AnyMachine

\* The entry of a page that is being set up: the first "page" frames are in use.
SetUpEntry(page) ==
    IF build = "cow" THEN WithReadOnly([NoPage EXCEPT !.present = 1], IF AreaWritable(page) THEN 0 ELSE 1)
    ELSE WithPpn([NoPage EXCEPT !.present = 1], page)

\* A page that is being set up may be written if its area may.
LEMMA SetUpEntryIsPlain ==
  ASSUME NEW page \in Pages
  PROVE  /\ SetUpEntry(page) \in PTE
         /\ AreaWritable(page) \/ build # "cow" => ReadOnly(SetUpEntry(page)) = 0
<1> DEFINE e == [NoPage EXCEPT !.present = 1]
           b == IF AreaWritable(page) THEN 0 ELSE 1
<1>1. e \in PTE /\ e.saddr = 0 /\ e.present = 1
  BY DEF NoPage, PTE
<1>2. b \in {0, 1} /\ (AreaWritable(page) => b = 0)
  OBVIOUS
<1>3. page \in Nat
  BY PagesAreNumbers
<1> HIDE DEF e, b
<1>4. CASE build = "cow"
  <2>1. SetUpEntry(page) = WithReadOnly(e, b)
    BY <1>4 DEF SetUpEntry, e, b
  <2>2. WithReadOnly(e, b) \in PTE /\ ReadOnly(WithReadOnly(e, b)) = b
    BY <1>1, <1>2, FieldsOfReadOnly
  <2>. QED BY <1>2, <1>4, <2>1, <2>2
<1>5. CASE build # "cow"
  <2>1. SetUpEntry(page) = WithPpn(e, page)
    BY <1>5 DEF SetUpEntry, e
  <2>2. WithPpn(e, page) = [e EXCEPT !.saddr = 2048 * page + (0 % 2048)]
    BY <1>1 DEF WithPpn, PTE
  <2>3. WithPpn(e, page) = [e EXCEPT !.saddr = 2048 * page]
    BY <1>3, <2>2
  <2>4. WithPpn(e, page) \in PTE /\ WithPpn(e, page).saddr = 2048 * page
    BY <1>1, <1>3, <2>3 DEF PTE
  <2>5. (2048 * page) % 2 = 0
    BY <1>3
  <2>. QED BY <2>1, <2>4, <2>5 DEF ReadOnly
<1>. QED BY <1>4, <1>5

LoadedUpTo(n, page) ==
    /\ n \in AnyMachine /\ n.internal_swap_addr = SWAP_ADDRESS_MIN /\ n.panic = "none"
    /\ MemorySound(n, build, UpTo(1, page))
    /\ \A f \in Frames : n.page_map[f].dirty = 0 /\ (n.page_map[f].allocated = 1 <=> f <= page)
    /\ \A x \in PTEs : x \notin UpTo(1, page) => n.pt[x] = NoPage

WithEntry(k, x, e) == [k EXCEPT !.pt[x] = e]

\* The machine with one entry changed
LEMMA WithEntryEffect ==
  ASSUME NEW k \in AnyMachine, NEW x \in PTEs, NEW e \in PTE, NEW w, w = WithEntry(k, x, e)
  PROVE  /\ w \in AnyMachine /\ w.page_map = k.page_map /\ SameMemory(k, w) /\ w.panic = k.panic
         /\ w.pt[x] = e /\ \A y \in PTEs \ {x} : w.pt[y] = k.pt[y]
<1> DEFINE pt == [k.pt EXCEPT ![x] = e]
<1>1. pt \in [PTEs -> PTE] /\ pt[x] = e /\ \A y \in PTEs \ {x} : pt[y] = k.pt[y]
  BY DEF AnyMachine
<1>2. w = [k EXCEPT !.pt = pt]
  BY DEF WithEntry
<1> HIDE DEF pt
<1>. QED BY <1>1, <1>2 DEF AnyMachine, SameMemory

\* One turn of the loader maps one page to one frame, whatever happened before.
LEMMA SetUpIsAMap ==
  ASSUME NEW page \in Pages, NEW k \in AnyMachine
  PROVE  /\ SetUp(k, page) \in AnyMachine
         /\ LoadedUpTo(k, page - 1) =>
                SetUp(k, page) = map_pte4(WithEntry(k, <<1, page>>, SetUpEntry(page)), <<1, page>>, page)
         /\ page \in Frames /\ <<1, page>> \in PTEs
<1> DEFINE x == <<1, page>>
<1>1. x \in PTEs /\ page \in Frames /\ page \in Nat /\ NumFrames \in Nat
  BY ForkAssumption, FramesAssumption, RowOf DEF Procs, Pages, Frames
<1>2. k.pt[x] \in PTE /\ k.pt \in [PTEs -> PTE]
  BY <1>1 DEF AnyMachine
<1> HIDE DEF x
<1>3. CASE build = "cow"
  <2> DEFINE e == WithReadOnly([k.pt[x] EXCEPT !.present = 1], IF AreaWritable(page) THEN 0 ELSE 1)
             w == WithEntry(k, x, e)
  <2>1. SetUp(k, page) = allocate_physicalframe(w, x)
    BY <1>3, Zenon DEF SetUp, WithEntry, x
  <2>2. e \in PTE
    <3> DEFINE c == [k.pt[x] EXCEPT !.present = 1]
               b == IF AreaWritable(page) THEN 0 ELSE 1
    <3>1. c \in PTE
      BY <1>2 DEF PTE
    <3>2. b \in {0, 1}
      OBVIOUS
    <3> HIDE DEF c, b
    <3>3. WithReadOnly(c, b) \in PTE
      BY <3>1, <3>2, FieldsOfReadOnly
    <3>. QED BY <3>3 DEF b, c
  <2>3. k.pt[x] = NoPage => e = SetUpEntry(page)
    BY <1>3, Zenon DEF SetUpEntry
  <2> HIDE DEF e
  <2>4. w \in AnyMachine /\ w.page_map = k.page_map
    BY <1>1, <2>2, WithEntryEffect
  <2> HIDE DEF w
  <2>5. SetUp(k, page) \in AnyMachine
    <3>1. FreeFrames(w) # {} => First(FreeFrames(w)) \in Frames
      BY FirstExists DEF FreeFrames
    <3>. QED BY <1>1, <2>1, <2>4, <3>1, MapEffect DEF allocate_physicalframe
  <2>6. ASSUME LoadedUpTo(k, page - 1)
        PROVE  SetUp(k, page) = map_pte4(WithEntry(k, x, SetUpEntry(page)), x, page)
    <3>1. k.pt[x] = NoPage
      <4>1. x \notin UpTo(1, page - 1)
        BY <1>1, RowOf DEF UpTo, x
      <4>. QED BY <1>1, <2>6, <4>1 DEF LoadedUpTo
    <3>2. FreeFrames(w) = {f \in Frames : ~ f <= page - 1}
      <4>1. \A f \in Frames : k.page_map[f].allocated = 1 <=> f <= page - 1
        BY <2>6 DEF LoadedUpTo
      <4>2. \A f \in Frames : k.page_map[f].allocated \in {0, 1}
        BY DEF AnyMachine, PD
      <4>. QED BY <2>4, <4>1, <4>2 DEF FreeFrames
    <3>3. page \in FreeFrames(w) /\ FreeFrames(w) \in SUBSET Nat /\ \A f \in FreeFrames(w) : page <= f
      <4>1. \A f \in Frames : f \in Nat
        BY FramesAreNaturals
      <4>2. \A f \in Frames : ~ f <= page - 1 <=> page <= f
        BY <1>1, <4>1
      <4>3. FreeFrames(w) = {f \in Frames : page <= f}
        BY <3>2, <4>2
      <4> HIDE DEF w
      <4>4. page <= page
        BY <1>1
      <4>. QED BY <1>1, <4>1, <4>3, <4>4
    <3>4. First(FreeFrames(w)) = page
      <4>1. \E f \in FreeFrames(w) : \A g \in FreeFrames(w) : f <= g
        BY <3>3
      <4> DEFINE least == First(FreeFrames(w))
      <4>2. least \in FreeFrames(w) /\ \A g \in FreeFrames(w) : least <= g
        BY <4>1 DEF First
      <4> HIDE DEF least
      <4>3. least <= page /\ page <= least /\ least \in Nat /\ page \in Nat
        BY <1>1, <3>3, <4>2
      <4>4. least = page
        BY <4>3
      <4>. QED BY <4>4 DEF least
    <3>5. SetUp(k, page) = map_pte4(w, x, page)
      BY <2>1, <3>3, <3>4 DEF allocate_physicalframe
    <3>. QED BY <2>3, <3>1, <3>5 DEF w
  <2>. QED BY <1>1, <2>5, <2>6 DEF x
<1>4. CASE build # "cow"
  <2> DEFINE e == WithPpn([k.pt[x] EXCEPT !.present = 1], page)
             w == WithEntry(k, x, e)
  <2>1. SetUp(k, page) = map_pte4(w, x, page)
    BY <1>4, Zenon DEF SetUp, WithEntry, link_page_table, x
  <2>2. e \in PTE
    <3> DEFINE c == [k.pt[x] EXCEPT !.present = 1]
    <3>1. c \in PTE
      BY <1>2 DEF PTE
    <3> HIDE DEF c
    <3>2. c.saddr \in Nat /\ e = [c EXCEPT !.saddr = 2048 * page + (c.saddr % 2048)]
      BY <3>1 DEF WithPpn, PTE, c
    <3>3. 2048 * page + (c.saddr % 2048) \in Nat
      BY <1>1, <3>2
    <3>. QED BY <3>1, <3>2, <3>3 DEF PTE
  <2>3. k.pt[x] = NoPage => e = SetUpEntry(page)
    BY <1>4 DEF SetUpEntry
  <2> HIDE DEF e
  <2>4. w \in AnyMachine
    BY <1>1, <2>2, WithEntryEffect
  <2> HIDE DEF w
  <2>5. SetUp(k, page) \in AnyMachine
    BY <1>1, <2>1, <2>4, MapEffect
  <2>6. LoadedUpTo(k, page - 1) => k.pt[x] = NoPage
    <3>1. x \notin UpTo(1, page - 1)
      BY <1>1, RowOf DEF UpTo, x
    <3>. QED BY <1>1, <3>1 DEF LoadedUpTo
  <2>. QED BY <1>1, <2>1, <2>3, <2>5, <2>6 DEF w, x
<1>. QED BY <1>3, <1>4

\* One turn of the loader
LEMMA SetUpKeepsLoaded ==
  ASSUME build \in {"naive", "cow"}, NEW page \in Pages, NEW k, LoadedUpTo(k, page - 1),
         NEW n, n = SetUp(k, page)
  PROVE  LoadedUpTo(n, page)
<1> DEFINE x == <<1, page>>
           w == WithEntry(k, x, SetUpEntry(page))
           b == build
<1>1. /\ k \in AnyMachine /\ k.internal_swap_addr = SWAP_ADDRESS_MIN /\ k.panic = "none"
      /\ MemorySound(k, b, UpTo(1, page - 1))
      /\ \A f \in Frames : k.page_map[f].dirty = 0 /\ (k.page_map[f].allocated = 1 <=> f <= page - 1)
      /\ \A y \in PTEs : y \notin UpTo(1, page - 1) => k.pt[y] = NoPage
  BY DEF LoadedUpTo
<1>2. x \in PTEs /\ page \in Frames /\ page \in Nat /\ \A f \in Frames : f \in Nat
  BY <1>1, SetUpIsAMap, PagesAreNumbers, FramesAreNaturals
<1>3. n = map_pte4(w, x, page)
  BY <1>1, SetUpIsAMap
<1>4. /\ SetUpEntry(page) \in PTE
      /\ AreaWritable(page) \/ b # "cow" => ReadOnly(SetUpEntry(page)) = 0
  BY SetUpEntryIsPlain
<1>5. /\ w \in AnyMachine /\ w.page_map = k.page_map /\ SameMemory(k, w) /\ w.panic = k.panic
      /\ w.pt[x] = SetUpEntry(page) /\ \A y \in PTEs \ {x} : w.pt[y] = k.pt[y]
  BY <1>1, <1>2, <1>4, WithEntryEffect
<1>6. ASSUME NEW y \in PTEs
      PROVE  /\ y \in UpTo(1, page) <=> y \in UpTo(1, page - 1) \/ y = x
             /\ x \notin UpTo(1, page - 1)
  <2>1. y = <<y[1], y[2]>> /\ y[2] \in Nat /\ x[1] = 1 /\ x[2] = page
    BY PagesAreNumbers
  <2> HIDE DEF x
  <2>2. x = <<1, page>>
    BY DEF x
  <2>. QED BY <1>2, <2>1, <2>2 DEF UpTo
<1>7. k.pt[x] = NoPage /\ k.pt[x].present = 0
  BY <1>1, <1>2, <1>6 DEF NoPage
<1> HIDE DEF x, w, b
<1>8. Consistent(k) /\ SlotsCounted(k) /\ Protected(k, b) /\ Present(k, UpTo(1, page - 1))
  BY <1>1 DEF MemorySound
<1>9. /\ Pointing(k, page) = {} /\ k.page_map[page].reversed_counter = 0
      /\ Used(k.page_map[page]) = {}
  <2>1. k.page_map[page].allocated # 1
    BY <1>1, <1>2
  <2>2. Pointing(k, page) = {}
    BY <1>2, <1>8, <2>1 DEF Consistent, InverseMaps
  <2>3. k.page_map[page].reversed_counter = 0
    BY <1>2, <1>8, <2>2, FS_EmptySet DEF Consistent, InverseMaps
  <2>4. Cardinality(Used(k.page_map[page])) = 0
    BY <1>2, <1>8, <2>3 DEF SlotsCounted
  <2>5. IsFiniteSet(Used(k.page_map[page]))
    BY FramesAreNaturals, FS_Subset DEF Used
  <2>. QED BY <2>2, <2>3, <2>4, <2>5, FS_EmptySet
<1>10. n.panic = "none"
  BY <1>1, <1>2, <1>3, <1>5, <1>9, MapOfUnusedSucceeds
<1>11. n \in AnyMachine /\ SameMemory(w, n) /\ Maps(w, n, x, page)
  BY <1>2, <1>3, <1>5, <1>10, MapEffect
<1>12. Attaches(k, n, x, page)
  BY <1>5, <1>11 DEF Maps, Attaches
<1>13. /\ Consistent(n) /\ Pointing(n, page) = Pointing(k, page) \cup {x}
       /\ \A f \in Frames \ {page} : Pointing(n, f) = Pointing(k, f)
  BY <1>1, <1>2, <1>7, <1>8, <1>11, <1>12, AttachKeepsConsistent
<1>14. SlotsCounted(n)
  BY <1>2, <1>8, <1>12, AttachKeepsCounted
<1>15. n.pt[x].present = 1 /\ ReadOnly(n.pt[x]) = ReadOnly(SetUpEntry(page))
       /\ \A y \in PTEs \ {x} : n.pt[y] = k.pt[y]
  BY <1>5, <1>11, <1>12 DEF Maps, Attaches
<1>16. Present(n, UpTo(1, page))
  BY <1>6, <1>8, <1>15 DEF Present
<1>17. Protected(n, b)
  <2> SUFFICES ASSUME NEW f \in Frames, NEW y \in Pointing(n, f)
               PROVE  /\ Pointing(n, f) # {y} => b = "cow" /\ ReadOnly(n.pt[y]) = 1
                      /\ Pointing(n, f) = {y} /\ (AreaWritable(y[2]) \/ b = "naive") => ReadOnly(n.pt[y]) = 0
    BY Zenon DEF Protected
  <2>1. CASE f = page
    <3>1. y = x /\ Pointing(n, f) = {x} /\ x[2] = page
      BY <1>9, <1>13, <2>1 DEF x
    <3>. QED BY <1>4, <1>15, <3>1
  <2>2. CASE f # page
    <3>1. Pointing(n, f) = Pointing(k, f)
      BY <1>13, <2>2
    <3>2. n.pt[y] = k.pt[y]
      BY <1>7, <1>15, <3>1 DEF Pointing
    <3>. QED BY <1>8, <3>1, <3>2 DEF Protected
  <2>. QED BY <2>1, <2>2
<1>18. \A f \in Frames : n.page_map[f].dirty = 0 /\ (n.page_map[f].allocated = 1 <=> f <= page)
  <2> SUFFICES ASSUME NEW f \in Frames
               PROVE  n.page_map[f].dirty = 0 /\ (n.page_map[f].allocated = 1 <=> f <= page)
    OBVIOUS
  <2>1. CASE f = page
    BY <1>2, <1>12, <2>1 DEF Attaches
  <2>2. CASE f # page
    <3>1. n.page_map[f].dirty = k.page_map[f].dirty /\ n.page_map[f].allocated = k.page_map[f].allocated
      BY <1>12, <2>2 DEF Attaches, SameButTime
    <3>2. f <= page <=> f <= page - 1
      BY <1>2, <2>2
    <3>. QED BY <1>1, <3>1, <3>2
  <2>. QED BY <2>1, <2>2
<1>19. \A y \in PTEs : y \notin UpTo(1, page) => n.pt[y] = NoPage
  BY <1>1, <1>6, <1>15
<1>20. n.internal_swap_addr = SWAP_ADDRESS_MIN
  BY <1>1, <1>5, <1>11 DEF SameMemory
<1>. QED BY <1>10, <1>11, <1>13, <1>14, <1>16, <1>17, <1>18, <1>19, <1>20 DEF LoadedUpTo, MemorySound, b

\* The machine before anything is loaded
LEMMA BlankIsLoaded ==
  BlankMachine \in AnyMachine /\ LoadedUpTo(BlankMachine, -1)
<1> DEFINE n == BlankMachine
           slots == [i \in Slots |-> NULL]
<1>1. /\ n.page_map = [f \in Frames |-> FreshPD] /\ n.pt = [pte \in PTEs |-> NoPage]
      /\ n.panic = "none" /\ n.internal_swap_addr = SWAP_ADDRESS_MIN
      /\ n = [page_map |-> [f \in Frames |-> FreshPD], pt |-> [pte \in PTEs |-> NoPage],
              pm |-> [f \in Frames |-> Blank], swap |-> [s \in FileAddresses |-> NoFile],
              internal_swap_addr |-> SWAP_ADDRESS_MIN, panic |-> "none"]
  BY DEF BlankMachine, page_map_init
<1>2. NoPage \in PTE /\ NoPage.present = 0
  BY DEF NoPage, PTE
<1>3. /\ FreshPD \in PD /\ FreshPD.allocated = 0 /\ FreshPD.dirty = 0 /\ FreshPD.reversed_counter = 0
      /\ FreshPD.mapping = slots
  <2>1. slots \in [Slots -> PTEs \cup {NULL}]
    OBVIOUS
  <2>2. FreshPD = [allocated |-> 0, dirty |-> 0, time |-> 0, mapping |-> slots,
                   reversed_counter |-> 0, saddr |-> 0]
    BY DEF FreshPD
  <2> HIDE DEF slots
  <2>. QED BY <2>1, <2>2 DEF PD
<1>4. Mappers(FreshPD) = {} /\ Used(FreshPD) = {}
  BY <1>3 DEF Mappers, Used
<1> HIDE DEF n
<1>5. n \in AnyMachine
  <2>1. SWAP_ADDRESS_MIN \in Nat /\ "none" \in Panics
    BY DEF SWAP_ADDRESS_MIN, Panics
  <2>. QED BY <1>1, <1>2, <1>3, <2>1, WordsAssumption DEF AnyMachine
<1>6. \A f \in Frames : n.page_map[f] = FreshPD
  BY <1>1
<1>7. \A x \in PTEs : n.pt[x] = NoPage
  BY <1>1
<1>8. \A f \in Frames : Pointing(n, f) = {}
  BY <1>2, <1>7 DEF Pointing
<1>9. Consistent(n)
  <2>1. InverseMaps(n)
    BY <1>3, <1>4, <1>6, <1>8, FS_EmptySet DEF InverseMaps
  <2>2. SameDirtyBits(n) /\ EntriesPointToFrames(n)
    BY <1>2, <1>7 DEF SameDirtyBits, EntriesPointToFrames
  <2>. QED BY <2>1, <2>2 DEF Consistent
<1>10. SlotsCounted(n)
  BY <1>3, <1>4, <1>6, FS_EmptySet DEF SlotsCounted
<1>11. Protected(n, build)
  BY <1>8 DEF Protected
<1>12. UpTo(1, -1) = {}
  BY PagesAreNumbers DEF UpTo
<1>13. Present(n, UpTo(1, -1))
  BY <1>2, <1>7, <1>12 DEF Present
<1>14. \A f \in Frames : n.page_map[f].dirty = 0 /\ (n.page_map[f].allocated = 1 <=> f <= -1)
  BY <1>3, <1>6, FramesAreNaturals
<1>. QED BY <1>1, <1>5, <1>7, <1>9, <1>10, <1>11, <1>13, <1>14 DEF LoadedUpTo, MemorySound, n

\* The loop of the loader
LEMMA LoadLoop ==
  \E f : /\ \A page \in Pages : f[page] = SetUp(IF page = 0 THEN BlankMachine ELSE f[page - 1], page)
         /\ Loaded = [f[NumPages - 1] EXCEPT !.pm[0] = Code]
<1> DEFINE load[page \in Pages] ==
            SetUp(IF page = 0 THEN BlankMachine ELSE load[page - 1], page)
           G == [z \in AnyMachine \X Pages |-> SetUp(z[1], z[2])]
<1>1. Loaded = [load[NumPages - 1] EXCEPT !.pm[0] = Code]
  BY DEF Loaded
<1>2. G \in [AnyMachine \X Pages -> AnyMachine]
  <2> HIDE DEF load
  <2>1. \A k \in AnyMachine, page \in Pages : SetUp(k, page) \in AnyMachine
    BY SetUpIsAMap
  <2>. QED BY <2>1
<1>3. \A k \in AnyMachine, page \in Pages : G[<<k, page>>] = SetUp(k, page)
  OBVIOUS
<1> HIDE DEF G
<1>4. PICK h : PageRuns(h, AnyMachine, BlankMachine, G)
  <2> HIDE DEF load
  <2>. QED BY <1>2, BlankIsLoaded, PageLoop
<1>5. \A page \in Pages : h[page] = SetUp(IF page = 0 THEN BlankMachine ELSE h[page - 1], page)
  <2> HIDE DEF load
  <2> SUFFICES ASSUME NEW page \in Pages
               PROVE  h[page] = SetUp(IF page = 0 THEN BlankMachine ELSE h[page - 1], page)
    OBVIOUS
  <2> DEFINE k == IF page = 0 THEN BlankMachine ELSE h[page - 1]
  <2>1. k \in AnyMachine
    BY <1>4, PagesAreNumbers, BlankIsLoaded DEF PageRuns
  <2>2. h[page] = G[<<k, page>>]
    BY <1>4 DEF PageRuns
  <2> HIDE DEF k
  <2>3. h[page] = SetUp(k, page)
    BY <1>3, <2>1, <2>2
  <2>. QED BY <2>3 DEF k
<1>6. h = [page \in Pages |-> SetUp(IF page = 0 THEN BlankMachine ELSE h[page - 1], page)]
  <2> HIDE DEF load
  <2>. QED BY <1>4, <1>5 DEF PageRuns
<1>7. load = [page \in Pages |-> SetUp(IF page = 0 THEN BlankMachine ELSE load[page - 1], page)]
  BY <1>6 DEF load
<1> HIDE DEF load
<1>8. \A page \in Pages : load[page] = SetUp(IF page = 0 THEN BlankMachine ELSE load[page - 1], page)
  BY <1>7, Zenon
<1>. QED BY <1>1, <1>8

\* The first process has all its pages, each in a frame of its own.
LEMMA LoadedIsSound ==
  ASSUME build \in {"naive", "cow"}
  PROVE  Typed(Loaded) /\ Loaded.panic = "none" /\ MemorySound(Loaded, build, Of({1}))
<1>1. PICK f : /\ \A page \in Pages : f[page] = SetUp(IF page = 0 THEN BlankMachine ELSE f[page - 1], page)
               /\ Loaded = [f[NumPages - 1] EXCEPT !.pm[0] = Code]
  BY LoadLoop
<1> DEFINE P == {page \in Pages : LoadedUpTo(f[page], page)}
<1>2. 0 \in P
  <2>1. 0 \in Pages /\ f[0] = SetUp(BlankMachine, 0) /\ LoadedUpTo(BlankMachine, 0 - 1)
    BY <1>1, PagesAreNumbers, BlankIsLoaded
  <2>2. LoadedUpTo(f[0], 0)
    BY <2>1, SetUpKeepsLoaded
  <2>. QED BY <2>1, <2>2
<1>3. ASSUME NEW page \in Pages \ {0}, page - 1 \in P PROVE page \in P
  <2>1. f[page] = SetUp(f[page - 1], page)
    BY <1>1
  <2>2. LoadedUpTo(f[page], page)
    BY <1>3, <2>1, SetUpKeepsLoaded
  <2>. QED BY <2>2
<1> DEFINE n == f[NumPages - 1]
           b == build
           present == UpTo(1, NumPages - 1)
<1>4. LoadedUpTo(n, NumPages - 1)
  <2>1. 0 \in P /\ \A page \in Pages \ {0} : page - 1 \in P => page \in P
    BY <1>2, <1>3
  <2> HIDE DEF P
  <2>2. Pages \subseteq P
    BY <2>1, PageInduction
  <2>. QED BY <2>2, PagesAreNumbers DEF P
<1>5. n \in AnyMachine /\ n.internal_swap_addr = SWAP_ADDRESS_MIN /\ n.panic = "none"
      /\ MemorySound(n, b, present)
  BY <1>4 DEF LoadedUpTo
<1> HIDE DEF n, b, present
<1> DEFINE pm == [n.pm EXCEPT ![0] = Code]
<1>6. pm \in [Frames -> Words]
  BY <1>5, ForkAssumption DEF AnyMachine
<1>7. Loaded = [n EXCEPT !.pm = pm]
  BY <1>1 DEF n
<1> HIDE DEF pm
<1>8. /\ Loaded \in AnyMachine /\ Loaded.pt = n.pt /\ Loaded.page_map = n.page_map
      /\ Loaded.panic = n.panic /\ Loaded.internal_swap_addr = n.internal_swap_addr
  BY <1>5, <1>6, <1>7 DEF AnyMachine
<1>9. MemorySound(Loaded, b, present)
  BY <1>5, <1>8, TimesKeepSound DEF SameButTime
<1>10. present = Of({1})
  <2>1. \A x \in PTEs : x[2] <= NumPages - 1
    BY PagesAreNumbers
  <2>. QED BY <2>1 DEF present, UpTo, Of
<1>. QED BY <1>5, <1>8, <1>9, <1>10 DEF Typed, b

-----------------------------------------------------------------------------
(* The steps of the processor                                               *)

\* What the processes see: their pages, and the register their traps save and restore
SpaceOf(who, n) ==
    [p \in Procs |-> IF p \in who THEN [page \in Pages |-> Content(n, <<p, page>>)] ELSE NULL]
ResultOf(who, stacks, c) ==
    [p \in Procs |-> IF p = c.ks THEN c.rax ELSE IF p \in who THEN stacks[p].rax ELSE 0]

IInv ==
    /\ build \in {"naive", "cow"}
    /\ Typed(m)
    /\ KernelSound(pcb, kstack, cpu)
    /\ restart \in [Procs -> {NULL} \cup [page : Pages, word : StoreWords]]
    /\ Running => MemorySound(m, build, Of(Alive))

\* The processor is at the process whose stack it is on.
LEMMA KernelFacts ==
  ASSUME KernelSound(pcb, kstack, cpu)
  PROVE  /\ Alive = AliveOf(pcb) /\ Alive \subseteq Procs
         /\ Current = cpu.ks /\ cpu.ks \in Alive /\ cpu.cr3 = cpu.ks
         /\ \A p \in Alive : pcb[p].ks = p /\ kstack[p].pcb = p
         /\ cpu \in Cpus /\ cpu.rax \in Registers /\ kstack \in [Procs -> Stacks]
         /\ pcb \in [Procs -> {NULL} \cup PCBs]
BY DEF KernelSound, Owned, Alive, AliveOf, Current, Cpus

\* What the processes see of a machine that has the same words
LEMMA SameWordsSameSpace ==
  ASSUME NEW n, NEW k, SameWords(n, k, Of(Alive)), Alive \subseteq Procs
  PROVE  SpaceOf(Alive, k) = SpaceOf(Alive, n)
<1>1. ASSUME NEW p \in Alive, NEW page \in Pages PROVE Content(k, <<p, page>>) = Content(n, <<p, page>>)
  BY RowOf DEF SameWords
<1>. QED BY <1>1 DEF SpaceOf

\* Registers on the kernel stacks may change, owners may not.
LEMMA StackKeepsKernel ==
  ASSUME KernelSound(pcb, kstack, cpu), NEW stacks \in [Procs -> Stacks],
         \A r \in Alive : stacks[r].pcb = r
  PROVE  KernelSound(pcb, stacks, cpu)
BY DEF KernelSound, Owned, Alive, AliveOf

\* A trap saves the register on the stack of the process that runs.
LEMMA SavedStacks ==
  ASSUME KernelSound(pcb, kstack, cpu)
  PROVE  /\ Saved \in [Procs -> Stacks]
         /\ \A r \in Procs : /\ Saved[r].pcb = kstack[r].pcb
                             /\ Saved[r].rax = IF r = cpu.ks THEN cpu.rax ELSE kstack[r].rax
<1>1. cpu.ks \in Procs /\ cpu.rax \in Registers /\ kstack \in [Procs -> Stacks]
  BY KernelFacts
<1> DEFINE x == [kstack[cpu.ks] EXCEPT !.rax = cpu.rax]
<1>2. x \in Stacks /\ x.pcb = kstack[cpu.ks].pcb /\ x.rax = cpu.rax
  BY <1>1 DEF Stacks
<1>3. Saved = [kstack EXCEPT ![cpu.ks] = x]
  BY DEF Saved
<1> HIDE DEF x
<1>. QED BY <1>1, <1>2, <1>3

\* os_schedule and the return to user mode: the next process gets back its register.
LEMMA ScheduleEffect ==
  ASSUME NEW pcbs, NEW stacks, KernelSound(pcbs, stacks, cpu), Schedule(pcbs, stacks)
  PROVE  /\ KernelSound(pcb', kstack', cpu') /\ AliveOf(pcb') = AliveOf(pcbs)
         /\ ResultOf(AliveOf(pcb'), kstack', cpu')
                = [p \in Procs |-> IF p \in AliveOf(pcbs) THEN stacks[p].rax ELSE 0]
<1>1. Switched(pcbs, stacks, cpu, pcb', kstack', cpu')
  BY Zenon DEF Schedule, Switched
<1>2. /\ KernelSound(pcb', kstack', cpu') /\ AliveOf(pcb') = AliveOf(pcbs)
      /\ cpu'.rax = stacks[cpu'.ks].rax
  BY <1>1, SwitchKeepsKernel
<1>3. kstack' = stacks
  BY Zenon DEF Schedule
<1>4. cpu'.ks \in AliveOf(pcbs)
  BY <1>2 DEF KernelSound, Owned
<1>. QED BY <1>2, <1>3, <1>4 DEF ResultOf

Invisible ==
    /\ SpaceOf(AliveOf(pcb'), m') = SpaceOf(AliveOf(pcb), m)
    /\ ResultOf(AliveOf(pcb'), kstack', cpu') = ResultOf(AliveOf(pcb), kstack, cpu)

RestartOK(f) == f \in [Procs -> {NULL} \cup [page : Pages, word : StoreWords]]

\* A step that takes a trap and moves no word is invisible to the processes.
LEMMA TrapIsInvisible ==
  ASSUME IInv, Running, build' = build, Schedule(pcb, Saved), RestartOK(restart'),
         Typed(m'), m'.panic = "none", MemorySound(m', build, Of(Alive)), SameWords(m, m', Of(Alive))
  PROVE  IInv' /\ Invisible
<1>1. KernelSound(pcb, kstack, cpu)
  BY DEF IInv
<1>2. /\ Alive = AliveOf(pcb) /\ Alive \subseteq Procs /\ cpu.ks \in Alive
      /\ \A p \in Alive : kstack[p].pcb = p
  BY <1>1, KernelFacts
<1>3. /\ Saved \in [Procs -> Stacks]
      /\ \A r \in Procs : /\ Saved[r].pcb = kstack[r].pcb
                          /\ Saved[r].rax = IF r = cpu.ks THEN cpu.rax ELSE kstack[r].rax
  BY <1>1, SavedStacks
<1>4. KernelSound(pcb, Saved, cpu)
  BY <1>1, <1>2, <1>3, StackKeepsKernel
<1>5. /\ KernelSound(pcb', kstack', cpu') /\ AliveOf(pcb') = AliveOf(pcb)
      /\ ResultOf(AliveOf(pcb'), kstack', cpu')
                = [p \in Procs |-> IF p \in AliveOf(pcb) THEN Saved[p].rax ELSE 0]
  BY <1>4, ScheduleEffect
<1>6. Alive' = Alive
  BY <1>2, <1>5 DEF Alive, AliveOf
<1>7. IInv'
  BY <1>5, <1>6 DEF IInv, RestartOK
<1>8. ResultOf(AliveOf(pcb'), kstack', cpu') = ResultOf(AliveOf(pcb), kstack, cpu)
  BY <1>2, <1>3, <1>5 DEF ResultOf
<1>9. SpaceOf(AliveOf(pcb'), m') = SpaceOf(AliveOf(pcb), m)
  BY <1>2, <1>5, SameWordsSameSpace
<1>. QED BY <1>7, <1>8, <1>9 DEF Invisible

\* A step that ends the simulator leaves everything else as it was.
LEMMA StopKeepsAll ==
  ASSUME IInv, NEW n, n.panic \in Panics, Stops(n), Stop(n), build' = build
  PROVE  IInv' /\ Invisible /\ ~Running'
<1> DEFINE panic == n.panic
<1>1. m' = [m EXCEPT !.panic = panic] /\ panic # "none" /\ panic \in Panics
      /\ pcb' = pcb /\ kstack' = kstack /\ cpu' = cpu /\ restart' = restart
  BY DEF Stop, Stops
<1>2. m \in AnyMachine
  BY DEF IInv, Typed
<1> HIDE DEF panic
<1>3. /\ m' \in AnyMachine /\ m'.internal_swap_addr = m.internal_swap_addr
      /\ m'.panic = panic /\ SameMemory(m, m') /\ m'.pt = m.pt
  BY <1>1, <1>2 DEF AnyMachine, SameMemory
<1>4. ~Running' /\ Typed(m')
  BY <1>1, <1>3 DEF Running, IInv, Typed
<1>5. IInv'
  BY <1>1, <1>4 DEF IInv
<1>6. \A x : Content(m', x) = Content(m, x)
  BY <1>3 DEF Content, WordAt, SwapFile, SameMemory
<1>7. Invisible
  BY <1>1, <1>6 DEF Invisible, SpaceOf
<1>. QED BY <1>4, <1>5, <1>7

\* The abstract steps, in terms of what the processes see
Loads(p, page) ==
    /\ SpaceOf(AliveOf(pcb'), m') = SpaceOf(AliveOf(pcb), m)
    /\ ResultOf(AliveOf(pcb'), kstack', cpu')
         = [ResultOf(AliveOf(pcb), kstack, cpu) EXCEPT ![p] = SpaceOf(AliveOf(pcb), m)[p][page]]
Stores(p, page, word) ==
    /\ SpaceOf(AliveOf(pcb'), m') = [SpaceOf(AliveOf(pcb), m) EXCEPT ![p][page] = word]
    /\ ResultOf(AliveOf(pcb'), kstack', cpu') = ResultOf(AliveOf(pcb), kstack, cpu)
ForksInto(p, q, pid) ==
    /\ SpaceOf(AliveOf(pcb'), m')
         = [SpaceOf(AliveOf(pcb), m) EXCEPT ![q] = SpaceOf(AliveOf(pcb), m)[p]]
    /\ ResultOf(AliveOf(pcb'), kstack', cpu')
         = [ResultOf(AliveOf(pcb), kstack, cpu) EXCEPT ![p] = pid, ![q] = 0]
RefusesFork(p) ==
    /\ SpaceOf(AliveOf(pcb'), m') = SpaceOf(AliveOf(pcb), m)
    /\ ResultOf(AliveOf(pcb'), kstack', cpu') = [ResultOf(AliveOf(pcb), kstack, cpu) EXCEPT ![p] = -1]

\* What holds while the simulator runs
LEMMA RunningFacts ==
  ASSUME IInv, Running
  PROVE  /\ KernelSound(pcb, kstack, cpu) /\ Typed(m) /\ m \in AnyMachine /\ m.panic = "none"
         /\ MemorySound(m, build, Of(Alive)) /\ build \in {"naive", "cow"}
         /\ Of(Alive) \in SUBSET PTEs
         /\ \A page \in Pages : Entry(page) = <<cpu.ks, page>> /\ Entry(page) \in Of(Alive)
                                /\ Entry(page) \in PTEs
<1>1. cpu.ks \in Alive /\ cpu.cr3 = cpu.ks /\ Alive \subseteq Procs
  BY KernelFacts DEF IInv
<1>. QED BY <1>1, RowOf DEF IInv, Running, Typed, Entry, Of

\* A load puts the word of the page into the register, and nothing else moves.
LEMMA LoadEffect ==
  ASSUME IInv, Running, NEW page \in Pages, Load(page)
  PROVE  IInv' /\ Loads(cpu.ks, page)
<1> DEFINE word == WordAt(m, Entry(page))
           p == cpu.ks
<1>1. /\ KernelSound(pcb, kstack, cpu) /\ m \in AnyMachine /\ MemorySound(m, build, Of(Alive))
      /\ Entry(page) = <<p, page>> /\ Entry(page) \in Of(Alive)
  BY RunningFacts
<1>2. /\ Alive = AliveOf(pcb) /\ Alive \subseteq Procs /\ p \in Alive /\ cpu \in Cpus
  BY <1>1, KernelFacts
<1>3. word = Content(m, <<p, page>>) /\ word \in Words
  <2> DEFINE b == build
             x == Entry(page)
  <2>1. MemorySound(m, b, Of(Alive)) /\ x \in Of(Alive)
    BY <1>1
  <2> HIDE DEF b, x
  <2>2. Content(m, x) = m.pm[Ppn(m.pt[x])] /\ Content(m, x) \in Words
    BY <1>1, <2>1, PageOfTheLiving
  <2>. QED BY <1>1, <2>2 DEF WordAt, x
<1>4. /\ cpu' = [cpu EXCEPT !.rax = word]
      /\ build' = build /\ m' = m /\ pcb' = pcb /\ kstack' = kstack /\ restart' = restart
  BY DEF Load
<1> HIDE DEF word
<1>5. cpu' \in Cpus /\ cpu'.ks = cpu.ks /\ cpu'.cr3 = cpu.cr3 /\ cpu'.rax = word
  BY <1>2, <1>3, <1>4 DEF Cpus, Registers
<1>6. KernelSound(pcb', kstack', cpu')
  BY <1>1, <1>4, <1>5 DEF KernelSound, Owned
<1>7. IInv'
  BY <1>4, <1>6 DEF IInv, Running, Alive
<1>8. SpaceOf(AliveOf(pcb'), m') = SpaceOf(AliveOf(pcb), m)
  BY <1>4
<1>9. SpaceOf(AliveOf(pcb), m)[p][page] = word
  BY <1>2, <1>3 DEF SpaceOf
<1>10. ResultOf(AliveOf(pcb'), kstack', cpu') = [ResultOf(AliveOf(pcb), kstack, cpu) EXCEPT ![p] = word]
  BY <1>2, <1>4, <1>5 DEF ResultOf
<1>. QED BY <1>7, <1>8, <1>9, <1>10 DEF Loads

\* A store is seen by its own process only.
LEMMA StoreEffect ==
  ASSUME IInv, Running, NEW page \in Pages, NEW word \in StoreWords, StoreDone(page, word),
         build' = build
  PROVE  IInv' /\ Stores(cpu.ks, page, word) /\ Running'
<1> DEFINE k == WriteAccess(m, Entry(page), word)
           p == cpu.ks
           x == Entry(page)
           b == build
           present == Of(Alive)
<1>1. /\ KernelSound(pcb, kstack, cpu) /\ Typed(m) /\ m.panic = "none"
      /\ MemorySound(m, b, present)
      /\ x = <<p, page>> /\ x \in present /\ x \in PTEs /\ present \in SUBSET PTEs
  BY RunningFacts
<1>2. /\ Alive = AliveOf(pcb) /\ Alive \subseteq Procs /\ p \in Alive /\ Current = p
  BY <1>1, KernelFacts
<1>3. /\ Translates(m, x, TRUE) /\ m' = Timeless(k)
      /\ restart' = [restart EXCEPT ![Current] = NULL]
      /\ pcb' = pcb /\ kstack' = kstack /\ cpu' = cpu
  BY DEF StoreDone
<1>4. word \in Words
  BY ForkAssumption
<1>5. k = WriteAccess(m, x, word)
  OBVIOUS
<1> HIDE DEF k, x, b, present
<1>6. /\ Typed(k) /\ k.panic = "none" /\ MemorySound(k, b, present)
      /\ Content(k, x) = word /\ SameWords(m, k, present \ {x})
  <2>1. Typed(m) /\ m.panic = "none" /\ MemorySound(m, b, present) /\ present \in SUBSET PTEs
    BY <1>1
  <2>2. x \in PTEs
    BY <1>1
  <2>3. m.pt[x].present = 1 /\ ReadOnly(m.pt[x]) # 1
    BY <1>3 DEF Translates
  <2>. QED BY <1>4, <1>5, <2>1, <2>2, <2>3, WriteKeepsMemory
<1>7. Typed(m') /\ SameButTimes(k, m')
  BY <1>3, <1>6, TimelessEffect
<1>8. MemorySound(m', b, present) /\ m'.panic = "none"
  <2>1. k \in AnyMachine /\ m' \in AnyMachine
    BY <1>6, <1>7 DEF Typed
  <2>2. /\ m'.pt = k.pt /\ m'.panic = k.panic
        /\ \A f \in Frames : SameButTime(m'.page_map[f], k.page_map[f])
    BY <1>7 DEF SameButTimes
  <2>. QED BY <1>6, <2>1, <2>2, TimesKeepSound
<1>9. \A y : Content(m', y) = Content(k, y)
  BY <1>7, SameButTimesKeepsWords
<1>10. RestartOK(restart')
  BY <1>2, <1>3 DEF IInv, RestartOK
<1>11. IInv'
  <2>1. Alive' = Alive
    BY <1>3 DEF Alive
  <2>2. MemorySound(m', build, Of(Alive))
    BY <1>8 DEF b, present
  <2>. QED BY <1>1, <1>3, <1>7, <1>10, <2>1, <2>2 DEF IInv, RestartOK
<1>12. ASSUME NEW r \in Alive, NEW i \in Pages
       PROVE  Content(m', <<r, i>>) = IF r = p /\ i = page THEN word ELSE Content(m, <<r, i>>)
  <2>1. <<r, i>> \in present
    BY <1>2, RowOf DEF present
  <2>2. CASE r = p /\ i = page
    BY <1>1, <1>6, <1>9, <2>2
  <2>3. CASE ~ (r = p /\ i = page)
    <3>1. <<r, i>> # x
      BY <1>1, <2>3
    <3>. QED BY <1>6, <1>9, <2>1, <2>3, <3>1 DEF SameWords
  <2>. QED BY <2>2, <2>3
<1>13. SpaceOf(AliveOf(pcb'), m') = [SpaceOf(AliveOf(pcb), m) EXCEPT ![p][page] = word]
  <2> DEFINE S == [r \in Procs |-> IF r \in Alive THEN [i \in Pages |-> Content(m, <<r, i>>)] ELSE NULL]
             T == [r \in Procs |-> IF r \in Alive THEN [i \in Pages |-> Content(m', <<r, i>>)] ELSE NULL]
  <2>1. SpaceOf(AliveOf(pcb'), m') = T /\ SpaceOf(AliveOf(pcb), m) = S
    BY <1>2, <1>3 DEF SpaceOf
  <2>2. ASSUME NEW r \in Procs PROVE T[r] = [S EXCEPT ![p][page] = word][r]
    <3>1. CASE r = p
      BY <1>2, <1>12, <3>1
    <3>2. CASE r # p
      BY <1>2, <1>12, <3>2
    <3>. QED BY <3>1, <3>2
  <2>. QED BY <2>1, <2>2
<1>14. ResultOf(AliveOf(pcb'), kstack', cpu') = ResultOf(AliveOf(pcb), kstack, cpu)
  BY <1>3
<1>. QED BY <1>8, <1>11, <1>13, <1>14 DEF Stores, Running

\* fork without room for a copy returns -1 to the caller and does nothing else.
LEMMA RefusalEffect ==
  ASSUME IInv, Running, ForkRefused(Current)
  PROVE  IInv' /\ RefusesFork(cpu.ks)
<1> DEFINE p == cpu.ks
           x == [Saved[p] EXCEPT !.rax = -1]
           stacks == [Saved EXCEPT ![p] = x]
<1>1. KernelSound(pcb, kstack, cpu)
  BY RunningFacts
<1>2. /\ Alive = AliveOf(pcb) /\ Alive \subseteq Procs /\ p \in Alive /\ Current = p
      /\ \A r \in Alive : pcb[r].ks = r /\ kstack[r].pcb = r
  BY <1>1, KernelFacts
<1>3. /\ Saved \in [Procs -> Stacks]
      /\ \A r \in Procs : /\ Saved[r].pcb = kstack[r].pcb
                          /\ Saved[r].rax = IF r = p THEN cpu.rax ELSE kstack[r].rax
  BY <1>1, SavedStacks
<1> HIDE DEF p
<1>4. x \in Stacks /\ x.pcb = Saved[p].pcb /\ x.rax = -1
  <2>1. -1 \in Registers
    BY ForkAssumption DEF Registers
  <2>2. Saved[p] \in Stacks
    BY <1>2, <1>3
  <2>. QED BY <2>1, <2>2 DEF Stacks
<1>5. Schedule(pcb, stacks) /\ build' = build /\ m' = m /\ restart' = restart
  <2>1. pcb[Current].ks = p
    BY <1>2
  <2>2. [Saved EXCEPT ![pcb[Current].ks].rax = -1] = stacks
    BY <1>2, <1>3, <2>1
  <2>. QED BY <2>2, Zenon DEF ForkRefused
<1> HIDE DEF x
<1>6. /\ stacks \in [Procs -> Stacks]
      /\ stacks[p] = x /\ \A r \in Procs \ {p} : stacks[r] = Saved[r]
  BY <1>2, <1>3, <1>4
<1> HIDE DEF stacks
<1>7. KernelSound(pcb, stacks, cpu)
  <2>1. \A r \in Alive : stacks[r].pcb = r
    BY <1>2, <1>3, <1>4, <1>6
  <2>. QED BY <1>1, <1>6, <2>1, StackKeepsKernel
<1>8. /\ KernelSound(pcb', kstack', cpu') /\ AliveOf(pcb') = AliveOf(pcb)
      /\ ResultOf(AliveOf(pcb'), kstack', cpu')
                = [r \in Procs |-> IF r \in AliveOf(pcb) THEN stacks[r].rax ELSE 0]
  BY <1>5, <1>7, ScheduleEffect
<1>9. IInv'
  <2>1. Alive' = Alive
    BY <1>2, <1>8 DEF Alive, AliveOf
  <2>. QED BY <1>5, <1>8, <2>1 DEF IInv, Running
<1>10. SpaceOf(AliveOf(pcb'), m') = SpaceOf(AliveOf(pcb), m)
  BY <1>5, <1>8
<1>11. ResultOf(AliveOf(pcb'), kstack', cpu') = [ResultOf(AliveOf(pcb), kstack, cpu) EXCEPT ![p] = -1]
  <2> DEFINE R == [r \in Procs |-> IF r = p THEN cpu.rax ELSE IF r \in Alive THEN kstack[r].rax ELSE 0]
             T == [r \in Procs |-> IF r \in Alive THEN stacks[r].rax ELSE 0]
  <2>1. ResultOf(AliveOf(pcb), kstack, cpu) = R /\ ResultOf(AliveOf(pcb'), kstack', cpu') = T
    BY <1>2, <1>8 DEF ResultOf, p
  <2>2. ASSUME NEW r \in Procs PROVE T[r] = [R EXCEPT ![p] = -1][r]
    <3>1. CASE r = p
      BY <1>2, <1>4, <1>6, <3>1
    <3>2. CASE r # p
      BY <1>2, <1>3, <1>6, <3>2
    <3>. QED BY <3>1, <3>2
  <2>. QED BY <2>1, <2>2
<1>. QED BY <1>9, <1>10, <1>11 DEF RefusesFork, p

\* The stacks fork leaves to the scheduler
ForkStacks(p, q, pid) == [Saved EXCEPT ![pcb[p].ks].rax = pid, ![q] = ChildStack(p, q)]

Returned(stacks, p, q, pid) ==
    /\ \A r \in Alive \ {p} : stacks[r].rax = kstack[r].rax
    /\ stacks[p].rax = pid /\ stacks[q].rax = 0

\* The parent finds the child's pid in its register, the child 0.
LEMMA ForkStacksEffect ==
  ASSUME KernelSound(pcb, kstack, cpu), NEW p, p = cpu.ks,
         NEW q, NEW pid, NextChild(q, pid), NEW stacks, stacks = ForkStacks(p, q, pid)
  PROVE  OwnStacks(stacks, q) /\ Returned(stacks, p, q, pid)
<1> DEFINE x == [Saved[p] EXCEPT !.rax = pid]
           y == ChildStack(p, q)
<1>1. q \in Procs \ Alive /\ pid \in 1 .. q
  BY DEF NextChild
<1>2. /\ Alive \subseteq Procs /\ p \in Alive /\ p # q
      /\ \A r \in Alive : pcb[r].ks = r /\ kstack[r].pcb = r
  BY <1>1, KernelFacts
<1>3. /\ Saved \in [Procs -> Stacks]
      /\ \A r \in Procs : /\ Saved[r].pcb = kstack[r].pcb
                          /\ Saved[r].rax = IF r = p THEN cpu.rax ELSE kstack[r].rax
  BY SavedStacks
<1>4. x \in Stacks /\ x.pcb = p /\ x.rax = pid
  <2>1. pid \in Registers
    BY <1>1, ForkAssumption DEF Registers, Procs
  <2>2. Saved[p] \in Stacks /\ Saved[p].pcb = p
    BY <1>2, <1>3
  <2>. QED BY <2>1, <2>2 DEF Stacks
<1>5. y \in Stacks /\ y.pcb = q /\ y.rax = 0
  BY <1>1, ForkAssumption DEF ChildStack, Stacks, Registers, Procs
<1>6. stacks = [Saved EXCEPT ![p] = x, ![q] = y]
  BY <1>1, <1>2, <1>3 DEF ForkStacks
<1> HIDE DEF x, y
<1>7. /\ stacks \in [Procs -> Stacks] /\ stacks[p] = x /\ stacks[q] = y
      /\ \A r \in Procs \ {p, q} : stacks[r] = Saved[r]
  BY <1>1, <1>2, <1>3, <1>4, <1>5, <1>6
<1>. QED BY <1>1, <1>2, <1>3, <1>4, <1>5, <1>7 DEF OwnStacks, Returned

\* A fork that comes about: the child sees its parent's pages, and both return.
LEMMA CreationEffect ==
  ASSUME IInv, Running, NEW p, p = cpu.ks, NEW q, q = First(Procs \ Alive), Procs # Alive,
         NEW pid, pid = get_newpid(p), build = "naive" => enough_frames(m, get_childframe_num(p)),
         NEW n, n = ForkedMachine(p, q), n.panic = "none",
         m' = Timeless(n), Schedule(LinkChild(p, q, pid), ForkStacks(p, q, pid)),
         restart' = restart, build' = build
  PROVE  IInv' /\ ForksInto(p, q, pid) /\ Running' /\ q \in Procs \ Alive /\ pid \in 1 .. MaxProcs
<1> DEFINE pcbs == LinkChild(p, q, pid)
           stacks == ForkStacks(p, q, pid)
           b == build
           who == Alive \cup {q}
<1>1. /\ KernelSound(pcb, kstack, cpu) /\ Typed(m) /\ m.panic = "none"
      /\ MemorySound(m, b, Of(Alive)) /\ build \in {"naive", "cow"}
  BY RunningFacts
<1>2. /\ Alive = AliveOf(pcb) /\ Alive \subseteq Procs /\ p \in Alive /\ Current = p
  BY <1>1, KernelFacts
<1>3. q \in Procs \ Alive /\ (\A r \in Alive : r < q) /\ pid \in 1 .. q
      /\ \A r \in Procs \ Alive : q <= r
  <2>1. Procs \ Alive # {} /\ Procs \ Alive \in SUBSET Procs
    BY <1>2
  <2>2. \A r \in Procs \ Alive : q <= r
    BY <2>1, FirstProcess
  <2>. QED BY <1>1, <1>2, <2>2, NewProcess
<1>N. NextChild(q, pid)
  BY <1>3 DEF NextChild
<1>4. pid \in 1 .. MaxProcs
  BY <1>3, ForkAssumption DEF Procs
<1> HIDE DEF pcbs, stacks, b
<1>S. OwnStacks(stacks, q) /\ Returned(stacks, p, q, pid)
  <2>1. stacks = ForkStacks(p, q, pid)
    BY DEF stacks
  <2>2. KernelSound(pcb, kstack, cpu)
    BY <1>1
  <2>. QED BY <1>N, <2>1, <2>2, ForkStacksEffect
<1>5. /\ \A r \in Alive \ {p} : stacks[r].rax = kstack[r].rax
      /\ stacks[p].rax = pid /\ stacks[q].rax = 0
  BY <1>S DEF Returned
<1>6. KernelSound(pcbs, stacks, cpu) /\ AliveOf(pcbs) = who
  <2>1. KernelSound(pcb, kstack, cpu)
    BY <1>1
  <2>. QED BY <1>N, <1>S, <2>1, LinkKeepsKernel DEF pcbs
<1>7. /\ KernelSound(pcb', kstack', cpu') /\ AliveOf(pcb') = who
      /\ ResultOf(AliveOf(pcb'), kstack', cpu')
                = [r \in Procs |-> IF r \in who THEN stacks[r].rax ELSE 0]
  <2>1. Schedule(pcbs, stacks)
    BY DEF pcbs, stacks
  <2> HIDE DEF who
  <2>. QED BY <1>6, <2>1, ScheduleEffect
<1>8. Typed(n) /\ Forks(n, b, p, q)
  <2>1. Typed(n) /\ (n.panic = "none" => Forks(n, build, p, q))
    BY <1>1, <1>2, <1>3, ForkIsSound DEF b
  <2>. QED BY <2>1 DEF b
<1>9. Typed(m') /\ SameButTimes(n, m')
  BY <1>8, TimelessEffect
<1>10. MemorySound(m', b, Of(who)) /\ m'.panic = "none"
  <2> DEFINE present == Of(who)
  <2>1. n \in AnyMachine /\ m' \in AnyMachine /\ MemorySound(n, b, present)
    BY <1>8, <1>9 DEF Typed, Forks
  <2>2. /\ m'.pt = n.pt /\ m'.panic = n.panic
        /\ \A f \in Frames : SameButTime(m'.page_map[f], n.page_map[f])
    BY <1>9 DEF SameButTimes
  <2> HIDE DEF present
  <2>3. MemorySound(m', b, present)
    BY <2>1, <2>2, TimesKeepSound
  <2>. QED BY <2>2, <2>3 DEF present
<1>11. IInv'
  <2>1. Alive' = who
    BY <1>7 DEF Alive, AliveOf
  <2>2. MemorySound(m', build, Of(who))
    BY <1>10 DEF b
  <2>. QED BY <1>7, <1>9, <2>1, <2>2 DEF IInv
<1>12. ASSUME NEW i \in Pages
       PROVE  /\ \A r \in Alive : Content(m', <<r, i>>) = Content(m, <<r, i>>)
              /\ Content(m', <<q, i>>) = Content(m, <<p, i>>)
  <2>1. \A x : Content(m', x) = Content(n, x)
    BY <1>9, SameButTimesKeepsWords
  <2>2. \A r \in Alive : <<r, i>> \in Of(Alive)
    BY <1>2, RowOf
  <2>. QED BY <1>8, <2>1, <2>2 DEF Forks, SameWords
<1>13. SpaceOf(AliveOf(pcb'), m') = [SpaceOf(AliveOf(pcb), m) EXCEPT ![q] = SpaceOf(AliveOf(pcb), m)[p]]
  <2> DEFINE S == [r \in Procs |-> IF r \in Alive THEN [i \in Pages |-> Content(m, <<r, i>>)] ELSE NULL]
             T == [r \in Procs |-> IF r \in who THEN [i \in Pages |-> Content(m', <<r, i>>)] ELSE NULL]
  <2>1. SpaceOf(AliveOf(pcb'), m') = T /\ SpaceOf(AliveOf(pcb), m) = S
    BY <1>2, <1>7 DEF SpaceOf
  <2>2. ASSUME NEW r \in Procs PROVE T[r] = [S EXCEPT ![q] = S[p]][r]
    <3>1. CASE r = q
      BY <1>2, <1>3, <1>12, <3>1
    <3>2. CASE r # q
      BY <1>2, <1>3, <1>12, <3>2
    <3>. QED BY <3>1, <3>2
  <2>. QED BY <2>1, <2>2
<1>14. ResultOf(AliveOf(pcb'), kstack', cpu')
         = [ResultOf(AliveOf(pcb), kstack, cpu) EXCEPT ![p] = pid, ![q] = 0]
  <2> DEFINE R == [r \in Procs |-> IF r = p THEN cpu.rax ELSE IF r \in Alive THEN kstack[r].rax ELSE 0]
             T == [r \in Procs |-> IF r \in who THEN stacks[r].rax ELSE 0]
  <2>1. ResultOf(AliveOf(pcb), kstack, cpu) = R /\ ResultOf(AliveOf(pcb'), kstack', cpu') = T
    BY <1>2, <1>7 DEF ResultOf
  <2>2. ASSUME NEW r \in Procs PROVE T[r] = [R EXCEPT ![p] = pid, ![q] = 0][r]
    <3>1. CASE r = p
      BY <1>2, <1>3, <1>5, <3>1
    <3>2. CASE r = q
      BY <1>2, <1>3, <1>5, <3>2
    <3>3. CASE r \notin {p, q}
      BY <1>2, <1>3, <1>5, <3>3
    <3>. QED BY <3>1, <3>2, <3>3
  <2>. QED BY <2>1, <2>2
<1>. QED BY <1>3, <1>4, <1>10, <1>11, <1>13, <1>14 DEF ForksInto, Running

\* The store that a process will restart
LEMMA RestartOfStore ==
  ASSUME IInv, NEW page \in Pages, NEW word \in StoreWords, Current \in Procs,
         restart' = [restart EXCEPT ![Current] = [page |-> page, word |-> word]]
  PROVE  RestartOK(restart')
<1>1. [page |-> page, word |-> word] \in [page : Pages, word : StoreWords]
  OBVIOUS
<1>. QED BY <1>1 DEF IInv, RestartOK

\* A store that may not write is only possible with copy-on-write; the fault it takes
\* copies the page, and the processes see nothing of it.
LEMMA FaultEffect ==
  ASSUME IInv, Running, NEW page \in Pages, NEW word \in StoreWords, StoreFaults(page, word),
         build' = build
  PROVE  IInv' /\ Invisible
<1> DEFINE p == cpu.ks
           x == <<p, page>>
           n == Fix(page)
           b == build
           present == Of(Alive)
           stopped == [m EXCEPT !.panic = "not in area"]
<1>1. /\ KernelSound(pcb, kstack, cpu) /\ Typed(m) /\ m \in AnyMachine /\ m.panic = "none"
      /\ MemorySound(m, b, present)
      /\ Entry(page) = x /\ x \in present /\ x \in PTEs /\ present \in SUBSET PTEs
      /\ b \in {"naive", "cow"}
  BY RunningFacts
<1>2. /\ Alive = AliveOf(pcb) /\ Alive \subseteq Procs /\ p \in Alive /\ Current = p
  BY <1>1, KernelFacts
<1>3. m.pt[x].present = 1 /\ (b = "naive" => ReadOnly(m.pt[x]) = 0)
  <2> HIDE DEF b, x, present
  <2>1. MemorySound(m, b, Of(Alive)) /\ x \in Of(Alive) /\ m \in AnyMachine
    BY <1>1 DEF present
  <2>. QED BY <2>1, PageOfTheLiving
<1>4. b = "cow"
  <2>1. ~ Translates(m, x, TRUE)
    BY <1>1 DEF StoreFaults
  <2>2. ReadOnly(m.pt[x]) = 1
    BY <1>3, <2>1 DEF Translates
  <2>. QED BY <1>1, <1>3, <2>2
<1> DEFINE k == copy_on_write(m, x)
<1>5. n = k \/ n = stopped
  <2>1. n = fix_protectionfault(page)
    BY <1>4 DEF Fix
  <2>2. n = Guarded(m, ReadOnly(m.pt[x]) = 1 /\ AreaWritable(page), "not in area", k)
    BY <1>2, <2>1, Zenon DEF fix_protectionfault
  <2> HIDE DEF n, k, x
  <2>. QED BY <1>1, <2>2, Zenon DEF Guarded
<1>P. stopped.panic = "not in area"
  BY <1>1 DEF AnyMachine
<1> HIDE DEF k, n, x, present, stopped
<1>6. /\ Typed(k)
      /\ k.panic = "none" => MemorySound(k, "cow", present) /\ SameWords(m, k, present)
  <2>1. MemorySound(m, "cow", present)
    BY <1>1, <1>4
  <2>. QED BY <1>1, <2>1, CopyKeepsMemory DEF k
<1>7. CASE Stops(n)
  <2>1. Stop(n)
    BY <1>7, Zenon DEF StoreFaults, n
  <2>2. n.panic \in Panics
    <3>1. k.panic \in Panics
      BY <1>6 DEF Typed, AnyMachine
    <3>2. "not in area" \in Panics
      BY DEF Panics
    <3>. QED BY <1>5, <1>P, <3>1, <3>2
  <2>. QED BY <1>7, <2>1, <2>2, StopKeepsAll
<1>8. CASE ~ Stops(n)
  <2>1. /\ m' = Timeless(n) /\ Schedule(pcb, Saved)
        /\ restart' = [restart EXCEPT ![Current] = [page |-> page, word |-> word]]
    BY <1>8, Zenon DEF StoreFaults, n
  <2>2. n = k /\ n.panic = "none"
    <3>1. "not in area" # "none"
      OBVIOUS
    <3>2. n.panic = "none"
      BY <1>8 DEF Stops
    <3>. QED BY <1>5, <1>P, <3>1, <3>2
  <2>3. MemorySound(n, b, present) /\ SameWords(m, n, present) /\ Typed(n)
    BY <1>4, <1>6, <2>2
  <2>4. Typed(m') /\ SameButTimes(n, m')
    BY <2>1, <2>3, TimelessEffect
  <2>5. MemorySound(m', b, present) /\ m'.panic = "none"
    <3>1. n \in AnyMachine /\ m' \in AnyMachine
      BY <2>3, <2>4 DEF Typed
    <3>2. /\ m'.pt = n.pt /\ m'.panic = n.panic
          /\ \A f \in Frames : SameButTime(m'.page_map[f], n.page_map[f])
      BY <2>4 DEF SameButTimes
    <3> HIDE DEF b
    <3>3. MemorySound(m', b, present)
      BY <2>3, <3>1, <3>2, TimesKeepSound
    <3>. QED BY <2>2, <3>2, <3>3
  <2>6. SameWords(m, m', present)
    <3>1. \A y : Content(m', y) = Content(n, y)
      BY <2>4, SameButTimesKeepsWords
    <3>. QED BY <2>3, <3>1 DEF SameWords
  <2>7. RestartOK(restart')
    BY <1>2, <2>1, RestartOfStore
  <2>8. MemorySound(m', build, Of(Alive)) /\ SameWords(m, m', Of(Alive))
    BY <2>5, <2>6 DEF b, present
  <2>. QED BY <2>1, <2>4, <2>5, <2>7, <2>8, TrapIsInvisible
<1>. QED BY <1>7, <1>8

\* What a step is to the processes, and what its instruction asked for
AbstractStep ==
    \/ op' = NoOp /\ Invisible
    \/ /\ Running'
       /\ \/ \E page \in Pages : op' = LoadOf(cpu.ks, page) /\ Loads(cpu.ks, page)
          \/ \E page \in Pages, word \in StoreWords :
                op' = StoreOf(cpu.ks, page, word) /\ Stores(cpu.ks, page, word)
          \/ \E q \in Procs \ Alive, pid \in 1 .. MaxProcs :
                op' = ForkOf(cpu.ks) /\ ForksInto(cpu.ks, q, pid)
          \/ op' = ForkOf(cpu.ks) /\ RefusesFork(cpu.ks)

\* A trap that leaves the machine as it is
LEMMA PlainTrapEffect ==
  ASSUME IInv, Running, build' = build, m' = m, restart' = restart, Schedule(pcb, Saved)
  PROVE  IInv' /\ Invisible
<1>1. /\ Typed(m') /\ m'.panic = "none" /\ MemorySound(m', build, Of(Alive))
      /\ SameWords(m, m', Of(Alive))
  BY RunningFacts DEF SameWords
<1>2. RestartOK(restart')
  BY DEF IInv, RestartOK
<1>. QED BY <1>1, <1>2, TrapIsInvisible

\* fork as a whole
LEMMA ForkEffect ==
  ASSUME IInv, Running, ForkCreates(Current)
  PROVE  IInv' /\ AbstractStep
<1> DEFINE p == cpu.ks
           q == First(Procs \ Alive)
           n == ForkedMachine(p, q)
           pid == get_newpid(p)
<1>1. /\ KernelSound(pcb, kstack, cpu) /\ Typed(m) /\ m.panic = "none"
      /\ MemorySound(m, build, Of(Alive)) /\ build \in {"naive", "cow"}
  BY RunningFacts
<1>2. /\ Alive \subseteq Procs /\ p \in Alive /\ Current = p
  BY <1>1, KernelFacts
<1>3. ForkCreates(p)
  BY <1>2
<1>4. /\ build = "naive" => enough_frames(m, get_childframe_num(p))
      /\ Procs # Alive /\ build' = build
  BY <1>3, Zenon DEF ForkCreates
<1>5. \/ Stops(n) /\ Stop(n)
      \/ /\ ~Stops(n)
         /\ op' = ForkOf(p)
         /\ m' = Timeless(n)
         /\ Schedule(LinkChild(p, q, pid), ForkStacks(p, q, pid))
         /\ restart' = restart
  BY <1>3, Zenon DEF ForkCreates, ForkStacks
<1>6. q \in Procs \ Alive
  BY <1>1, <1>2, <1>4, NewProcess
<1> HIDE DEF n, q, pid
<1>7. Typed(n)
  BY <1>1, <1>2, <1>4, <1>6, ForkIsSound DEF n
<1>8. CASE Stops(n) /\ Stop(n)
  <2>1. n.panic \in Panics
    BY <1>7 DEF Typed, AnyMachine
  <2>2. op' = NoOp
    BY <1>8 DEF Stop
  <2>. QED BY <1>4, <1>8, <2>1, <2>2, StopKeepsAll DEF AbstractStep
<1>9. CASE /\ ~Stops(n)
           /\ op' = ForkOf(p)
           /\ m' = Timeless(n)
           /\ Schedule(LinkChild(p, q, pid), ForkStacks(p, q, pid))
           /\ restart' = restart
  <2>1. n.panic = "none"
    BY <1>9 DEF Stops
  <2>2. q = First(Procs \ Alive) /\ pid = get_newpid(p) /\ n = ForkedMachine(p, q)
    BY DEF q, pid, n
  <2>3. IInv' /\ ForksInto(p, q, pid) /\ Running' /\ q \in Procs \ Alive /\ pid \in 1 .. MaxProcs
    <3> HIDE DEF p
    <3>1. p = cpu.ks
      BY DEF p
    <3>. QED BY <1>4, <1>9, <2>1, <2>2, <3>1, CreationEffect
  <2>. QED BY <1>9, <2>3 DEF AbstractStep
<1>. QED BY <1>5, <1>8, <1>9

-----------------------------------------------------------------------------
(* The theorems                                                             *)

\* The loader leaves one process, which is its own neighbour, with all its pages.
LEMMA InitIsSound == Init => IInv
<1> SUFFICES ASSUME Init PROVE IInv
  OBVIOUS
<1>1. MaxProcs \in Nat /\ MaxProcs >= 1 /\ 1 \in Procs /\ Procs = 1 .. MaxProcs
  BY ForkAssumption DEF Procs
<1> DEFINE block == [pid |-> 1, next |-> 1, prev |-> 1, ks |-> 1, context |-> 0]
<1>2. block \in PCBs
  BY <1>1 DEF PCBs
<1>3. /\ build \in {"naive", "cow"} /\ m = Loaded
      /\ pcb = [p \in Procs |-> IF p = 1 THEN block ELSE NULL]
      /\ kstack = [p \in Procs |-> [pcb |-> IF p = 1 THEN 1 ELSE 0, rax |-> 0]]
      /\ cpu = [rax |-> 0, ks |-> 1, cr3 |-> 1]
      /\ restart = [p \in Procs |-> NULL]
  BY DEF Init
<1>4. block.pid = 1 /\ block.next = 1 /\ block.ks = 1
  OBVIOUS
<1> HIDE DEF block
<1>5. pcb \in [Procs -> {NULL} \cup PCBs] /\ pcb[1] = block /\ \A p \in Procs : p # 1 => pcb[p] = NULL
  BY <1>1, <1>2, <1>3
<1>6. AliveOf(pcb) = {1} /\ Alive = {1}
  BY <1>1, <1>2, <1>5, NullAssumption DEF AliveOf, Alive
<1>7. kstack \in [Procs -> Stacks] /\ kstack[1].pcb = 1
  <2>1. 0 \in Registers
    BY <1>1 DEF Registers
  <2>2. \A p \in Procs : [pcb |-> IF p = 1 THEN 1 ELSE 0, rax |-> 0] \in Stacks
    BY <1>1, <2>1 DEF Stacks
  <2>. QED BY <1>1, <1>3, <2>2
<1>8. cpu \in Cpus /\ cpu.ks = 1 /\ cpu.cr3 = 1
  BY <1>1, <1>3 DEF Cpus, Registers
<1>9. Owned(pcb, kstack, cpu)
  BY <1>1, <1>4, <1>5, <1>6, <1>7, <1>8 DEF Owned
<1>10. OneRing(pcb)
  BY <1>6 DEF OneRing
<1>11. KernelSound(pcb, kstack, cpu)
  BY <1>5, <1>7, <1>8, <1>9, <1>10 DEF KernelSound
<1>12. Typed(m) /\ MemorySound(m, build, Of(Alive))
  BY <1>3, <1>6, LoadedIsSound
<1>13. restart \in [Procs -> {NULL} \cup [page : Pages, word : StoreWords]]
  BY <1>3
<1>. QED BY <1>3, <1>11, <1>12, <1>13 DEF IInv

\* Every step keeps the invariant, and is one of what the processes may see.
LEMMA StepIsSound ==
  ASSUME IInv, Next
  PROVE  IInv' /\ AbstractStep /\ Running
<1>1. Running /\ Current = cpu.ks
  BY KernelFacts DEF Next, IInv
<1>2. CASE syscall_fork
  <2>1. CASE ForkRefused(Current)
    <3>1. IInv' /\ RefusesFork(cpu.ks)
      BY <1>1, <2>1, RefusalEffect
    <3>2. Running' /\ op' = ForkOf(cpu.ks)
      BY <1>1, <2>1 DEF ForkRefused, Running
    <3>. QED BY <1>1, <3>1, <3>2 DEF AbstractStep
  <2>2. CASE ForkCreates(Current)
    BY <1>1, <2>2, ForkEffect
  <2>. QED BY <1>2, <2>1, <2>2 DEF syscall_fork
<1>3. CASE DecodeFails
  <2> DEFINE n == [m EXCEPT !.panic = "decode"]
  <2>1. n.panic = "decode" /\ Stop(n) /\ build' = build
    <3>1. m \in AnyMachine
      BY <1>1, RunningFacts
    <3>. QED BY <1>3, <3>1 DEF DecodeFails, AnyMachine
  <2> HIDE DEF n
  <2>2. n.panic \in Panics /\ Stops(n)
    BY <2>1 DEF Panics, Stops
  <2>3. op' = NoOp
    BY <2>1 DEF Stop
  <2>. QED BY <1>1, <2>1, <2>2, <2>3, StopKeepsAll DEF AbstractStep
<1>4. CASE \E page \in Pages : Load(page)
  <2>1. PICK page \in Pages : Load(page)
    BY <1>4
  <2>2. IInv' /\ Loads(cpu.ks, page)
    BY <1>1, <2>1, LoadEffect
  <2>3. Running' /\ op' = LoadOf(cpu.ks, page)
    BY <1>1, <2>1 DEF Load, Running
  <2>. QED BY <1>1, <2>2, <2>3 DEF AbstractStep
<1>5. CASE \E page \in Pages, word \in StoreWords : Store(page, word)
  <2>1. PICK page \in Pages, word \in StoreWords : Store(page, word)
    BY <1>5
  <2>2. build' = build /\ (StoreDone(page, word) \/ StoreFaults(page, word))
    BY <2>1 DEF Store
  <2>3. CASE StoreDone(page, word)
    <3>1. IInv' /\ Stores(cpu.ks, page, word) /\ Running'
      BY <1>1, <2>2, <2>3, StoreEffect
    <3>2. op' = StoreOf(cpu.ks, page, word)
      BY <1>1, <2>3 DEF StoreDone
    <3>. QED BY <1>1, <3>1, <3>2 DEF AbstractStep
  <2>4. CASE StoreFaults(page, word)
    <3>1. op' = NoOp
      BY <2>4 DEF StoreFaults, Stop
    <3>. QED BY <1>1, <2>2, <2>4, <3>1, FaultEffect DEF AbstractStep
  <2>. QED BY <2>2, <2>3, <2>4
<1>6. CASE syscall_write \/ Timer
  <2>1. /\ build' = build /\ m' = m /\ restart' = restart /\ Schedule(pcb, Saved)
        /\ op' = NoOp
    BY <1>6, Zenon DEF syscall_write, Timer
  <2>. QED BY <1>1, <2>1, PlainTrapEffect DEF AbstractStep
<1>. QED BY <1>1, <1>2, <1>3, <1>4, <1>5, <1>6, Zenon DEF Next

\* A step that changes nothing
LEMMA StutterKeepsSound ==
  ASSUME IInv, UNCHANGED vars
  PROVE  IInv' /\ Invisible /\ Running' = Running /\ op' = op
<1>1. /\ build' = build /\ m' = m /\ pcb' = pcb /\ kstack' = kstack /\ cpu' = cpu
      /\ restart' = restart /\ op' = op
  BY DEF vars, system
<1>2. IInv' /\ Running' = Running
  BY <1>1 DEF IInv, Running, Alive
<1>. QED BY <1>1, <1>2 DEF Invisible

\* In every reachable state, the accounts of the memory and of the kernel are sound.
THEOREM SoundAlways == Spec => []IInv
<1>1. Init => IInv
  BY InitIsSound
<1>2. IInv /\ [Next]_vars => IInv'
  BY StepIsSound, StutterKeepsSound
<1>. QED BY <1>1, <1>2, PTL DEF Spec

\* Process control blocks, kernel stacks, the processor and the machine keep their types,
\* and a step asks for a fork, or for a page and word of a process, or for nothing.
THEOREM TypeCorrect == Spec => []TypeOK
<1> DEFINE OpTyped ==
        op \in {NoOp} \cup {ForkOf(p) : p \in Procs} \cup {LoadOf(p, a) : p \in Procs, a \in Pages}
              \cup {StoreOf(p, a, w) : p \in Procs, a \in Pages, w \in StoreWords}
<1>2. Init => OpTyped
  BY DEF Init
<1>3. IInv /\ OpTyped /\ [Next]_vars => OpTyped'
  <2> SUFFICES ASSUME IInv, OpTyped, [Next]_vars PROVE OpTyped'
    OBVIOUS
  <2>1. CASE Next
    <3>1. AbstractStep
      BY <2>1, StepIsSound
    <3>2. cpu.ks \in Procs
      BY KernelFacts DEF IInv
    <3>. QED BY <3>1, <3>2 DEF AbstractStep
  <2>2. CASE UNCHANGED vars
    BY <2>2 DEF vars
  <2>. QED BY <2>1, <2>2
<1>1. IInv /\ OpTyped => TypeOK
  <2> SUFFICES ASSUME IInv, OpTyped PROVE TypeOK
    OBVIOUS
  <2>1. m \in Machine
    <3>1. m \in AnyMachine /\ m.internal_swap_addr = SWAP_ADDRESS_MIN
      BY DEF IInv, Typed
    <3>2. SWAP_ADDRESS_MIN \in SWAP_ADDRESS_MIN .. MaxSwapAddress + 1
      BY SwapAssumption DEF SWAP_ADDRESS_MIN
    <3>. QED BY <3>1, <3>2 DEF AnyMachine, Machine
  <2>2. /\ pcb \in [Procs -> {NULL} \cup PCBs]
        /\ kstack \in [Procs -> [pcb : 0 .. MaxProcs, rax : Words \cup -1 .. MaxProcs]]
        /\ cpu \in [rax : Words \cup -1 .. MaxProcs, ks : Procs, cr3 : Procs]
    BY DEF IInv, KernelSound, Stacks, Cpus, Registers
  <2>. QED BY <2>1, <2>2 DEF IInv, TypeOK
<1> HIDE DEF OpTyped
<1>. QED BY <1>1, <1>2, <1>3, SoundAlways, PTL DEF Spec

\* Through every fork and copy on write, mapping[] and reversed_counter of a frame account
\* for exactly the entries that point to it, and dirty bits agree.
THEOREM SharingIsAccounted == Spec => []SharingAccounted
<1>1. IInv => SharingAccounted
  BY DEF IInv, SharingAccounted, MemorySound, Consistent
<1>. QED BY <1>1, SoundAlways, PTL

\* No entry of a shared frame may write, and a writable page that is not shared may.
THEOREM SharedIsProtected == Spec => []ProtectedWhileShared
<1>1. IInv => ProtectedWhileShared
  <2> SUFFICES ASSUME IInv, Running, NEW f \in Frames, NEW pte \in Pointing(m, f)
               PROVE  /\ Cardinality(Pointing(m, f)) > 1 => ReadOnly(m.pt[pte]) = 1
                      /\ Pointing(m, f) = {pte} /\ AreaWritable(pte[2]) => ReadOnly(m.pt[pte]) = 0
    BY DEF ProtectedWhileShared
  <2>1. Protected(m, build)
    BY DEF IInv, MemorySound
  <2>2. Pointing(m, f) # {pte} => ReadOnly(m.pt[pte]) = 1
    BY <2>1 DEF Protected
  <2>3. Pointing(m, f) = {pte} /\ AreaWritable(pte[2]) => ReadOnly(m.pt[pte]) = 0
    BY <2>1 DEF Protected
  <2>4. Cardinality({pte}) = 1
    BY FS_Singleton
  <2>5. Cardinality(Pointing(m, f)) > 1 => Pointing(m, f) # {pte}
    BY <2>4
  <2>. QED BY <2>2, <2>3, <2>5
<1>. QED BY <1>1, SoundAlways, PTL

\* The round robin forgets nobody, whoever forked whom.
THEOREM RingHoldsAll == Spec => []RingHoldsEveryProcess
<1>1. IInv => RingHoldsEveryProcess
  BY SoundRingHoldsAll DEF IInv
<1>. QED BY <1>1, SoundAlways, PTL

-----------------------------------------------------------------------------
(* The processes are isolated                                               *)

\* The refinement mapping of Processes, and its name in this module
MappedSpace ==
    [p \in Procs |-> IF p \in Alive
        THEN [page \in Pages |-> Content(m, <<p, page>>)] ELSE NULL]
MappedResult ==
    [p \in Procs |-> IF p = Current THEN cpu.rax
        ELSE IF p \in Alive THEN kstack[pcb[p].ks].rax ELSE 0]
AsMapped ==
    /\ MappedSpace = SpaceOf(AliveOf(pcb), m)
    /\ MappedResult = ResultOf(AliveOf(pcb), kstack, cpu)

\* The mapping shows what the lemmas on steps speak of.
LEMMA MappedIsWhatTheySee == IInv => AsMapped
<1> SUFFICES ASSUME IInv PROVE AsMapped
  OBVIOUS
<1>1. KernelSound(pcb, kstack, cpu)
  BY DEF IInv
<1>2. /\ Alive = AliveOf(pcb) /\ Current = cpu.ks
      /\ \A p \in Alive : pcb[p].ks = p
  BY <1>1, KernelFacts
<1>. QED BY <1>2 DEF AsMapped, MappedSpace, MappedResult, SpaceOf, ResultOf

\* A process exists when its space does.
LEMMA AliveHasSpace ==
  ASSUME IInv, Running
  PROVE  /\ \A p \in Procs : (p \in Alive) <=> MappedSpace[p] # NULL
         /\ MappedSpace \in [Procs -> [Pages -> Words] \cup {NULL}]
<1>1. /\ m \in AnyMachine /\ MemorySound(m, build, Of(Alive)) /\ Alive \subseteq Procs
  BY RunningFacts, KernelFacts
<1>2. ASSUME NEW p \in Alive
      PROVE  [page \in Pages |-> Content(m, <<p, page>>)] \in [Pages -> Words]
  <2> DEFINE b == build
  <2>1. MemorySound(m, b, Of(Alive))
    BY <1>1
  <2> HIDE DEF b
  <2>2. ASSUME NEW page \in Pages PROVE Content(m, <<p, page>>) \in Words
    <3> DEFINE x == <<p, page>>
    <3>1. x \in Of(Alive)
      BY <1>1, <1>2, RowOf
    <3> HIDE DEF x
    <3>2. Content(m, x) \in Words
      BY <1>1, <2>1, <3>1, PageOfTheLiving
    <3>. QED BY <3>2 DEF x
  <2>. QED BY <2>2
<1>. QED BY <1>2, NullAssumption DEF MappedSpace

\* Every step, seen through the mapping, is what its instruction asks of the abstract
\* program.
MappedStep ==
    \/ op' = NoOp /\ MappedSpace' = MappedSpace /\ MappedResult' = MappedResult
    \/ /\ Running'
       /\ \/ \E page \in Pages :
                /\ op' = LoadOf(cpu.ks, page)
                /\ MappedSpace' = MappedSpace
                /\ MappedResult' = [MappedResult EXCEPT ![cpu.ks] = MappedSpace[cpu.ks][page]]
          \/ \E page \in Pages, word \in StoreWords :
                /\ op' = StoreOf(cpu.ks, page, word)
                /\ MappedSpace' = [MappedSpace EXCEPT ![cpu.ks][page] = word]
                /\ MappedResult' = MappedResult
          \/ \E q \in Procs \ Alive, pid \in 1 .. MaxProcs :
                /\ op' = ForkOf(cpu.ks)
                /\ MappedSpace' = [MappedSpace EXCEPT ![q] = MappedSpace[cpu.ks]]
                /\ MappedResult' = [MappedResult EXCEPT ![cpu.ks] = pid, ![q] = 0]
          \/ /\ op' = ForkOf(cpu.ks)
             /\ MappedSpace' = MappedSpace
             /\ MappedResult' = [MappedResult EXCEPT ![cpu.ks] = -1]

\* A step that is one of what the processes may see is one through the mapping.
LEMMA StepIsMapped ==
  ASSUME AsMapped, AsMapped', AbstractStep
  PROVE  MappedStep
<1> DEFINE s == SpaceOf(AliveOf(pcb), m)
           r == ResultOf(AliveOf(pcb), kstack, cpu)
           t == SpaceOf(AliveOf(pcb'), m')
           u == ResultOf(AliveOf(pcb'), kstack', cpu')
<1>1. MappedSpace = s /\ MappedResult = r
  BY DEF AsMapped
<1>2. MappedSpace' = t /\ MappedResult' = u
  BY DEF AsMapped
<1>3. CASE op' = NoOp /\ Invisible
  BY <1>1, <1>2, <1>3 DEF Invisible, MappedStep
<1>4. CASE Running' /\ \E page \in Pages : op' = LoadOf(cpu.ks, page) /\ Loads(cpu.ks, page)
  BY <1>1, <1>2, <1>4 DEF Loads, MappedStep
<1>5. CASE Running' /\ \E page \in Pages, word \in StoreWords :
            op' = StoreOf(cpu.ks, page, word) /\ Stores(cpu.ks, page, word)
  BY <1>1, <1>2, <1>5 DEF Stores, MappedStep
<1>6. CASE Running' /\ \E q \in Procs \ Alive, pid \in 1 .. MaxProcs :
            op' = ForkOf(cpu.ks) /\ ForksInto(cpu.ks, q, pid)
  BY <1>1, <1>2, <1>6 DEF ForksInto, MappedStep
<1>7. CASE Running' /\ op' = ForkOf(cpu.ks) /\ RefusesFork(cpu.ks)
  BY <1>1, <1>2, <1>7 DEF RefusesFork, MappedStep
<1>. QED BY <1>3, <1>4, <1>5, <1>6, <1>7 DEF AbstractStep

\* The loaded process is a first state of the abstract program.
LEMMA MappedInit ==
  ASSUME Init
  PROVE  Processes!Init
<1>1. IInv /\ Running
  <2>1. m = Loaded
    BY DEF Init
  <2>2. build \in {"naive", "cow"} /\ IInv
    BY InitIsSound DEF Init
  <2>3. Loaded.panic = "none"
    BY <2>2, LoadedIsSound
  <2>. QED BY <2>1, <2>2, <2>3 DEF Running
<1>2. MappedSpace \in [Procs -> [Pages -> Words] \cup {NULL}]
  BY <1>1, AliveHasSpace
<1>3. MappedResult \in [Procs -> Words \cup -1 .. MaxProcs]
  <2>1. /\ cpu.rax \in Registers /\ kstack \in [Procs -> Stacks] /\ Alive \subseteq Procs
        /\ \A p \in Alive : pcb[p].ks = p
    BY <1>1, KernelFacts DEF IInv
  <2>2. \A p \in Procs : kstack[p].rax \in Registers
    BY <2>1 DEF Stacks
  <2>3. 0 \in Registers
    BY ForkAssumption DEF Registers
  <2>4. MappedResult \in [Procs -> Registers]
    BY <2>1, <2>2, <2>3 DEF MappedResult
  <2>. QED BY <2>4 DEF Registers
<1>. QED BY <1>1, <1>2, <1>3 DEF Processes!Init, Processes!Results, MappedSpace, MappedResult

\* A step through the mapping is an abstract step: in os_schedule, page faults and copies
\* nothing is asked, a failing assertion halts.
LEMMA MappedNext ==
  ASSUME IInv, Running, MappedStep
  PROVE  [Processes!Next]_(Processes!vars)
<1>1. cpu.ks \in Alive /\ Alive \subseteq Procs /\ StoreWords \subseteq Words
  BY KernelFacts, ForkAssumption DEF IInv
<1>2. \A p \in Procs : (p \in Alive) <=> MappedSpace[p] # NULL
  BY <1>1, AliveHasSpace
<1>3. Processes!Alive = Alive
  BY <1>1, <1>2 DEF Processes!Alive, MappedSpace
<1>4. Running' => Running' = Running
  BY DEF Running
<1>5. CASE op' = NoOp /\ MappedSpace' = MappedSpace /\ MappedResult' = MappedResult
  <2>1. CASE Running'
    <3>1. Processes!NothingAsked
      BY <1>4, <1>5, <2>1
      DEF Processes!NothingAsked, Processes!NoOp, NoOp, MappedSpace, MappedResult
    <3>. QED BY <3>1 DEF Processes!Next
  <2>2. CASE ~Running'
    <3>1. Running' = FALSE
      BY <2>2 DEF Running
    <3>2. Processes!Halt
      BY <1>5, <3>1 DEF Processes!Halt, Processes!NoOp, NoOp, MappedSpace, MappedResult
    <3>. QED BY <3>2 DEF Processes!Next
  <2>. QED BY <2>1, <2>2
<1>6. CASE Running' /\ \E page \in Pages :
                /\ op' = LoadOf(cpu.ks, page)
                /\ MappedSpace' = MappedSpace
                /\ MappedResult' = [MappedResult EXCEPT ![cpu.ks] = MappedSpace[cpu.ks][page]]
  <2>1. \E page \in Pages : Processes!Load(cpu.ks, page)
    BY <1>4, <1>6 DEF Processes!Load, Processes!LoadOf, LoadOf, MappedSpace, MappedResult
  <2>. QED BY <1>1, <1>3, <2>1 DEF Processes!Next
<1>7. CASE Running' /\ \E page \in Pages, word \in StoreWords :
                /\ op' = StoreOf(cpu.ks, page, word)
                /\ MappedSpace' = [MappedSpace EXCEPT ![cpu.ks][page] = word]
                /\ MappedResult' = MappedResult
  <2>1. \E page \in Pages, word \in Words : Processes!Store(cpu.ks, page, word)
    BY <1>1, <1>4, <1>7 DEF Processes!Store, Processes!StoreOf, StoreOf, MappedSpace, MappedResult
  <2>. QED BY <1>1, <1>3, <2>1 DEF Processes!Next
<1>8. CASE Running' /\ \E q \in Procs \ Alive, pid \in 1 .. MaxProcs :
                /\ op' = ForkOf(cpu.ks)
                /\ MappedSpace' = [MappedSpace EXCEPT ![q] = MappedSpace[cpu.ks]]
                /\ MappedResult' = [MappedResult EXCEPT ![cpu.ks] = pid, ![q] = 0]
  <2>1. \E q \in Procs, pid \in 1 .. MaxProcs : Processes!Fork(cpu.ks, q, pid)
    BY <1>3, <1>4, <1>8 DEF Processes!Fork, Processes!ForkOf, ForkOf, MappedSpace, MappedResult
  <2>. QED BY <1>1, <1>3, <2>1 DEF Processes!Next
<1>9. CASE /\ Running' /\ op' = ForkOf(cpu.ks)
           /\ MappedSpace' = MappedSpace
           /\ MappedResult' = [MappedResult EXCEPT ![cpu.ks] = -1]
  <2>1. PICK p \in Processes!Alive : p = cpu.ks
    BY <1>1, <1>3
  <2>2. Processes!ForkRefused(p)
    BY <1>4, <1>9, <2>1
    DEF Processes!ForkRefused, Processes!ForkOf, ForkOf, MappedSpace, MappedResult
  <2>. QED BY <2>2 DEF Processes!Next
<1>. QED BY <1>5, <1>6, <1>7, <1>8, <1>9 DEF MappedStep

\* However frames are shared, copied and written through page tables, and whatever the
\* scheduler does with stacks and registers: the store of an instruction changes this page of
\* its own process to its word and nothing that another process sees, a load brings the
\* process what it stored there last, it gets its register back after every trap, and a fork
\* returns twice.
THEOREM Isolation == Spec => ProcessesAreIsolated
<1>1. Init => Processes!Init
  BY MappedInit
<1>2. IInv /\ IInv' /\ [Next]_vars => [Processes!Next]_(Processes!vars)
  <2> SUFFICES ASSUME IInv, IInv', [Next]_vars
               PROVE  [Processes!Next]_(Processes!vars)
    OBVIOUS
  <2>1. AsMapped /\ (IInv' => AsMapped')
    <3>1. IInv' => AsMapped'
      BY MappedIsWhatTheySee, PTL
    <3>. QED BY <3>1, MappedIsWhatTheySee
  <2>2. CASE Next
    <3>1. AbstractStep /\ Running
      BY <2>2, StepIsSound
    <3>2. MappedStep
      BY <2>1, <3>1, StepIsMapped
    <3>. QED BY <3>1, <3>2, MappedNext
  <2>3. CASE UNCHANGED vars
    <3>1. Invisible /\ Running' = Running /\ op' = op
      BY <2>3, StutterKeepsSound
    <3>2. MappedSpace' = MappedSpace /\ MappedResult' = MappedResult
      BY <2>1, <3>1 DEF AsMapped, Invisible
    <3>. QED BY <3>1, <3>2 DEF Processes!vars, MappedSpace, MappedResult
  <2>. QED BY <2>2, <2>3
<1>. QED BY <1>1, <1>2, SoundAlways, PTL DEF Spec, ProcessesAreIsolated, Processes!Spec
=============================================================================
