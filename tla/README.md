# TLA+ models of the CSAPP simulators

This directory holds TLA+ modules for the programs of this repository, the
TLC configurations that check them on small instances, and theorems that TLAPS
proves for every value of the constants. Every definition is translated from
the C source; `PROJECT.json` names the lines each one stands for ("map").

Run a model with `tlc -config MCMesi.cfg MCMesi.tla`, check the proofs of a
module with `tlapm Mesi_proofs.tla`. The modules use the TLA+ community modules
(SequencesExt, Functions) and the TLAPS library.

Definitions named after a fault (`WriteBackSkipped`, `NeverPromoted`, ...) are
in no specification. Each stands before the definition it is a faulty form of;
putting it in that one's place makes one property fail, which shows that the
property depends on the code ("mutants" in `PROJECT.json`).

## 1. Inventory

The repository is a set of programs around one theme, built by `cmd.py` from
`config.json`: a simulated processor with its memory and a small kernel, and
separate simulators and data structures.

| Component | State | Operations | What is hard |
|---|---|---|---|
| MESI simulator, `mains/mesi.c` | a line per processor, the memory word | read, write, evict, in any order by any processor | which copies must be invalidated, written back or promoted, over several events |
| Instruction cycle, `hardware/cpu/isa.c` | registers, the instruction in flight | fetch, one handler per operator, timer | an instruction that faults is run again from its fetch |
| Address translation, `hardware/cpu/mmu.c`, `memory/dram.c` | page table entries, `page_map`, physical memory | `page_walk`, loads and stores | the same 63 bits of an entry are a swap address or a frame number with flags |
| Page frames, `process/pagefault.c`, `memory/swap.c` | `page_map` with reverse mapping, swap files | map, unmap, replace, swap in and out, copy on write | two data structures that must stay inverse; dirty bits kept twice; what a swap file can hold |
| Fork, scheduler, traps, `process/fork.c`, `schedule.c`, `syscall.c`, `cpu/interrupt.c` | process control blocks in a ring, kernel stacks, TSS and CR3 | fork with naive copy or copy-on-write, write, page fault, timer, `os_schedule` | stacks switched in the middle of a handler; frames shared by several processes |
| Virtual memory areas, `process/vmarea.c` on `algorithm/linkedlist.c` | a circular list of areas per process | add, search, copy at fork | order of insertion; an iterator that goes the other way |
| Shell, `mains/shell.c` | job list, `fg_pid`, `fg_reaped`, blocked signals | start a job, wait for it, SIGCHLD handler, Ctrl-C, Ctrl-Z | the handler interrupts the main flow anywhere; signals merge |
| Allocator, `malloc/` | the words of the heap with boundary tags, three indexes of free blocks | `mem_alloc`, `mem_free` with splitting, merging and growth | blocks of eight bytes keep their tags in their neighbours |
| Red-black tree, `algorithm/rbt.c`, `bst.c` | nodes with parent and child pointers and colours | insert, delete, search for a best fit | loops that leave the tree broken between two turns |
| SRAM cache, `hardware/cpu/sram.c` | sets of lines with timers, counters | read, write | LRU by timers; counters of dirty bytes |
| Hash table and trie, `algorithm/hashtable.c`, `trie.c` | a directory of shared buckets; nodes with a table each | insert, search, free | doubling and splitting must redirect exactly the entries that share a bucket; a full bucket is split once only |
| Linker, `linker/parseElf.c`, `staticlink.c` | symbol tables, a map table, the merged file | parse, resolve, lay out, merge, relocate | three numberings of lines; symbols that replace each other in file order; pointers that are never set |
| Instruction parser `cpu/inst.c`, numbers `common/convert.c` | automaton state | one character at a time | formats that writer and reader must agree on |
| False sharing, `mains/false_sharing.c` | words shared by two threads | increments that are timed | a race on purpose |

How they interact. The instruction cycle calls translation for every access. A
failed translation raises interrupt 14, `fix_pagefault` maps, replaces or copies
a frame, `os_schedule` switches to the next process of the ring, and a `longjmp`
restarts the cycle of whichever process is current then. `fork` copies the page
table (or shares its frames), the kernel stack and the areas. `fix_pagefault`
asks the areas of the process whether a page may be written. The heap keeps its
blocks of 24 bytes and more in the red-black tree, keyed by size, and the smaller
ones in two lists of `linkedlist.c`, the same code that links the areas of a
process. The parser looks operators up in tries, which are built of hash tables,
as are the linker's dictionaries. The MESI simulator, the SRAM cache, the shell,
the linker and the false sharing benchmark stand alone. The shell runs beside its children and is
interrupted by its handler; the benchmark has two threads; in the simulated
machine interleaving comes from scheduling between instructions.

What makes each component correct:

- MESI: the combination of line states is one that `check_state` accepts; clean
  copies equal memory; the newest value is never dropped; reads and writes are
  those of one atomic word.
- Paging: page table and reverse mapping are inverse; a discarded frame can be
  read back; two pages never share a swap file; a store changes its page to its
  word and nothing else, a load returns the last store to its page, a fault changes
  no data.
- Fork: a store changes its page of its process only; a shared frame is writable
  through nobody, an unshared one is not left read-only; the ring forgets no
  process; each process runs and each restarted store is done.
- Areas: the list is one ring in both directions; an address finds its area in
  parent and child.
- Shell: the prompt waits until a foreground job has ended or stopped, and no longer than that; a live
  job keeps its slot; each zombie is reaped.
- Heap: tags tile the heap; each free block is in exactly the right index;
  payloads are disjoint and untouched; a request is refused only without room.
- Red-black tree: order, colours and black heights; calls return; the search is
  the best fit.
- SRAM cache: replacement is LRU; the dirty byte counters are exact.
- Hash table and trie: every directory entry leads to the bucket of exactly the
  entries it agrees with; a string has the value of its last insertion; the
  assertion on a full bucket fails for colliding characters only.
- Linker: resolution does not depend on the order of the files; each kept symbol
  has its lines at the place its entry says; each reference is written where its
  line is in the result, for the entry of the definition.

`PROJECT.json` lists every component, modelled or not, and under "hazards" what
could go wrong at which line, with the properties that would show it.

## 2. Modules

| Module | Models | State and actions |
|---|---|---|
| `CoherentMemory` | abstract: one atomic word | serve a read, a write of a value, an eviction |
| `Mesi` | `mesi.c` | `cache`, `mem_value`; one action per branch of the three handlers; `read_value` is what `main` gets back, `op` the event it drew, with the value of a write |
| `Mesi_proofs` | theorems about `Mesi` | |
| `PageFrames` | `pagefault.c`, `swap.c`, the accesses of `dram.c` | no variables: functions from a machine `[page_map, pt, pm, swap, internal_swap_addr, panic]` to the machine they leave |
| `MemoryOps` | what an instruction asks of memory: load, store of a word, fork, nothing | records, shared by the next three |
| `AddressSpaces` | abstract: private pages, a result register, fork that returns twice | load, store, fork, nothing, stop, each for the `op` of its name |
| `Paging` | the build `pgf`: one process, `isa.c` with `PageFrames` | the machine, the instruction in flight, `rsp`, a register, `op`; fetch, and one action per kind of instruction, each with its fault |
| `Fork` | both builds of `fork.c` with `schedule.c`, `syscall.c`, `interrupt.c` | the machine, `pcb`, `kstack`, `cpu`, `op`; fork, load, store with its fault, write, timer, each with the `os_schedule` it ends in |
| `PageFrames_proofs`, `Paging_proofs`, `Fork_proofs` | facts about the operations of `PageFrames`, theorems about `Paging` and `Fork` | |
| `Rings` | `linkedlist.c`: insertion at the head, after and before a node, deletion | operators on a store; like the C code with its node interface, the module is generic in how a pointer is read and written |
| `VmAreas` | `vmarea.c`, `copy_vmareas` of `fork.c`, on an instance of `Rings` | a list for the parent and one for the child; `AddArea`, `Fork` |
| `Shell` | `shell.c`, with the operating system behind its calls | `pc` of the main flow, job list, flags, child states, two history variables; main flow, handler, children, terminal and other processes interleave |
| `Shell_proofs` | theorems about `Shell` | |
| `Allocator` | abstract: disjoint aligned payloads | allocate, free, refuse |
| `Heap` | `mem_alloc.c`, `block.c`, `redblack_tree.c`, with two instances of `Rings` for the lists whose pointers lie in the words of free blocks | the words, the heads and counts of the lists, the tree, what callers hold; `AllocFree`, `AllocGrown`, `AllocRefused`, `mem_free` |
| `Heap_proofs` | theorems about `Heap` | |
| `RbTree` | `rbt.c`, `bst.c` | the tree, the loop in progress; insert, delete, one action per kind of loop turn |
| `RbTree_proofs` | theorems about `RbTree` | |
| `LruCache` | abstract: an LRU stack per set | hit, miss, evict |
| `SramCache` | `sram.c`, simulation build | lines with timers, counters; `AccessHits`, `AccessMisses`, `AccessEvicts` |
| `SramCache_proofs` | theorems about `SramCache` | |
| `HashTable` | `hashtable.c` | operators on a table: search, doubling, splitting, insertion, what freeing does twice |
| `Dictionary` | abstract: a partial map, the call just made, and when it may stop | insert, abort, free |
| `Trie` | `trie.c` on `HashTable` | the nodes, and as history what it was called with last; `trie_insert` with its whole loop, `trie_free` |
| `Linker` | `parseElf.c`, `staticlink.c` | the parsed files, the map table, the result; an action for one turn of each loop (a symbol, a section, a relocation) and one for the end of each function |
| `MC...` | values of constants for TLC | |

`Paging` and `Fork` both hold a machine of `PageFrames` as a variable `m`.
Paging keeps LRU times and swapping; in Fork all pages are mapped when the
program starts, as in `tests/test_fork.c`, and no frame is replaced. `Heap` uses
the tree as a set with best fit, which is what `FindSuccIsBestFit` shows of
`RbTree`. `VmAreas` has the areas of one process and its child; `Fork` needs of
areas only whether a page may be written. `Trie` keeps a table of `HashTable` in
each node.

### Abstractions

- A page of memory holds one opaque word. The four levels of the page table are
  one function from pages to entries. An entry keeps the arithmetic of its 63
  shared bits, because two of the disagreements below come from it.
- A failing `assert` (all builds keep assertions), and `exit(0)` in the number
  parser, stop the simulator: `panic` says where, and nothing happens afterwards.
  A property that begins with `Running =>` says nothing after a stop.
- Swap files are written as `0x%16lx`, padded with blanks that `string2uint`
  rejects. `Parses` keeps that: a page whose words have fewer than 16
  hexadecimal digits cannot be read back (`Unparsable` is the set of those
  words). An address gets a file on allocation, an empty one.
- LRU times are replaced by their rank among the frames. Only their order is
  used, and the least time is always 0.
- In `Heap`, a word in which the user or an index may have left anything is
  `Stale`. A step that copied a field of such a word would bring `Stale` into a tag.
  A test of a bit of it counts as not set, so that what a garbage bit would do is
  not shown. The two lists are real: their pointers are fields of the words of free blocks, and a
  payload overwrites them. The tree is the set of its blocks.
- In `Trie`, a character is a number with its hash value. What freeing a bucket
  twice does is up to the C library, so it may abort or not.
- In `Linker`, a file is a sequence of lines, and a line is what it says: a symbol,
  a relocation, or a line of a section with an opaque code and an operand.
  `parse_elf` finds sections by offset and size, as the code does. A pointer that
  was never set, and a symbol table entry that was never written, may end the
  linker or not.
- In `Shell`, the process states, groups, `waitpid` and signals are those that
  the calls of `shell.c` use. A child that runs another program may be stopped,
  continued and killed by anybody at any time, also when it was stopped and
  reported: `/bin/kill` started from this very shell can do it. Parsing is the job
  type it returns.

### How a refinement is tied to what was asked for

An abstract memory that may store any word at any step allows everything. So the
concrete and the abstract specification share a variable that says what the step
was asked to do, and the abstract one may do that and nothing else:

- `Mesi.op` is the event that `main` drew. `CoherentMemory` stores `v` in a step with
  `op' = Write(v)`, returns the word in one with `op' = Read`, and changes nothing in
  one with `op' = Evict`.
- `Paging.op` and `Fork.op` are set from the operands of the instruction: `StoreOf`
  with the process, the page and the word when it retires, `LoadOf` likewise, `NoOp`
  in a fetch, a fault, a trap or a switch. `AddressSpaces` changes that one page of that one
  process to that word, or loads that page, or nothing.
- `Trie.last` is the string and value `trie_insert` was called with; in `Dictionary`
  the map has that value for that string after the call.

No guard and no other variable depends on `op` or `last`, and no invariant but the
type invariant. The configurations of `paging`, `paging_restart`, `fork` and `trie`
therefore name a `VIEW` without it: states that differ in nothing else are explored
once. TLC evaluates the step condition of a refinement on every step that it
generates, those to states it has seen included, so that no step goes unchecked.
Fairness is stated over the other variables, too. The proofs do not know of views.

## 3. Runs

| Run | Shows |
|---|---|
| `mesi` | Four processors and every order of events: `check_state`, clean copies equal memory, dirty copies are written back, and the refinement of `CoherentMemory`: reads return the last write event's value, evictions lose nothing. |
| `paging` | An arbitrary program of loads, stores, pushes and pops over four pages and three frames, from each state that `test_pagefault.c` loads: inverse maps with equal dirty bits, clean frames are on swap, swap files are not shared, and the refinement of `AddressSpaces`: each instruction does to the data what it asked for, faults do nothing. |
| `paging_restart` | Disagreement 1 below. |
| `fork` | Up to three processes, both builds: accounting and protection of shared frames, the ring, the refinement of `AddressSpaces` (a store changes its page of the current process and nothing else), progress of restarted stores and of each process. |
| `vmareas` | Up to six disjoint areas in six pages, in any order, with forks in between: rings agree up to five areas, while they do a lower area is found and disturbs no lookup, a child finds its parent's areas up to three. |
| `shell` | Three children, two slots, Ctrl-C and Ctrl-Z, children stopped, continued and killed by others, the handler between any two steps: the prompt waits but where a former job is taken for the new one (section 5), live jobs keep their slots, zombies are reaped. |
| `shell_hang` | Disagreement 2. |
| `heap` | Four request sizes, up to four payloads, a page that grows to two: tags, indexes, payloads, refusals, refinement of `Allocator`. |
| `rbtree` | Eight nodes, two of each key, every order of insertions and deletions: order and completeness after each turn of a loop, colours when a call returns, best fit, each call returns. |
| `sram` | Every trace of six accesses to a set of three lines with four blocks: refinement of `LruCache`, exact dirty counter. |
| `trie` | Eight strings in every order of insertion: directories are exact after each, and the refinement of `Dictionary`: a string has the value of its last insertion, and the abstract module says when an insertion may abort and when freeing is in doubt. |
| `linker` | Any two of 49 object files and any three of twelve, in every order: resolution chooses the strong definition or a tentative one, and fails only for two strong ones, none, a declaration in no row of the table of precedence, or a full map; sections hold what was kept; references to global symbols are written for the row and the entry they are about. |

### Bounds, and why they are enough

- `mesi`: a reader, a writer, a supplier and a bystander; an event involves no
  more. Values: the reset value, the initial one and two others.
- `paging`: with three frames for four pages each instruction can evict the page
  of another, the text page too. `MaxMapping` is 1 because a single process
  maps a frame once. `MaxSwapAddress` 103 leaves three allocations beyond those
  of the loader's states; both parities occur. The words are the blank page, the
  text, one that a swap file can hold and one that it cannot.
- `fork`: three processes give a ring that is longer than a pair (for a pair
  `next` and `prev` coincide) and a frame with three sharers; one text and one
  data page; five frames, so that the naive build is refused for want of frames
  in some states and not in others.
- `vmareas`: four areas are the first number for which the reversed iterator
  loses an area (`ChildFindsParentsAreas` says where), six the first for which it
  leaves `next` and `prev` different (`RingsAgree`), and six pages are enough for
  both. Two kinds, because the assertion in `check_vm_areas` distinguishes them.
- `shell`: two slots and three children fill the list; three children are a
  foreground job, a background job and one more that ends while the handler
  runs. `shell_hang` needs no more than two.
- `heap`: `PageSize` 64 stands for 4096 and `Width` 1024 for 2^32, both multiples
  of a page as in the code, so that the wrap of `uint32_t` rounds as it does
  there. The sizes give blocks of 8, 16 and 24 bytes and one of more than a page.
- `rbtree`: eight nodes are enough for red siblings, near and far red nephews and
  a double black that moves up; two nodes to a key for equal keys on both sides.
- `sram`: three lines and four blocks make the order of three timers matter; six
  accesses fill the set, reorder it, and evict.
- `trie`: `Size` 2 stands for the 8 pairs of a bucket. Seven characters with the
  hash function of the code include three that agree in two bits, so that one
  split is not enough; others make the directory double and then split a bucket
  that four of its entries share. A longer string makes a second node.
- `linker`: a variable and a function can be declared in seven ways each, which
  includes every row and column of the precedence table and a symbol outside it;
  three files suffice for a symbol to replace one that replaced another.
  `MaxLines` 18 and `MaxSymbols` 5 stand for 64: some files fit and some do not.

`CHECK_DEADLOCK FALSE` is set where the model really stops: a stopped simulator,
an ended shell, a bound that is reached. The other runs check for deadlock.

### Fairness

- `Fork`: weak fairness of the restarted store, of the failing decode and of the
  timer. The loop of `isa.c` executes instructions as long as the simulator runs,
  a restarted instruction is what the cycle does next, and every process that
  does not trap meets the timer. No fairness is assumed of the program.
- `Paging`, for `SecondExecutionSucceeds`: weak fairness of the cycle.
- `Shell`: weak fairness of the main flow away from the prompt, of the delivery
  of a pending unblocked signal, and of each turn of the handler. Users may stay
  idle and jobs may run for ever.
- `RbTree`: weak fairness of the loop in progress; one thread runs it.

## 4. Proofs

TLAPS proves for every number of processors and every set of values
(`Mesi_proofs`):

- `TypeCorrect`, `CheckStateHolds`, `CleanCopies`: the type invariant,
  `check_state` and the agreement of clean copies with memory;
- `DirtyCopySurvives`: the action property that a step which takes a MODIFIED
  line away leaves its value in memory;
- `CachesImplementMemory`: `Spec => ImplementsMemory`, the refinement, for the
  event that each step serves: a read returns the value of the last write event, a
  write stores its own value, an eviction changes nothing visible.

`check_state` counts lines and is not inductive: it does not say that the values
agree, on which a promotion to EXCLUSIVE relies. The inductive invariant is
`IInv`: types, `Exclusion` (a MODIFIED or EXCLUSIVE copy is the only one),
`SharedInCompany` (a SHARED copy has a companion; eviction promotes the last),
and clean copies equal memory. There is one lemma per handler, and one that
turns `Exclusion` and `SharedInCompany` into the counts of `check_state`. For
the refinement, `CopiesHoldVisibleWord` says that any valid copy holds the
visible word; reads return it, writes set it, evictions keep it. Assumptions:
at least one processor; 0, the initial value and the written values are values.

For every number of children and of job slots (`Shell_proofs`):

- `TypeCorrect`: the type invariant;
- `PromptWaits`: the prompt does not come back before `waitpid` told that the
  foreground job ended or was stopped, but for the one case that the property names
  (`TakesFormerForStarted`). The invariant is `WaitInv`: a foreground job that was
  neither reported nor overtaken is the one the main flow is starting or waiting for,
  from line 205 on `fg_reaped` is 0, and during the wait `fg_pid` names it. Until line
  206 `fg_pid` may name a job that was stopped and is now reported again, because
  somebody continued or killed it; the proof shows that setting `fg_reaped` for it
  can end a wait only when it happens between those two lines;
- `SlotsAreStable`: the slot of a live listed job is not touched. The invariant
  is `SlotInv`: the slot `job_add` has chosen is still free when it is written,
  and no other free slot carries a pid the handler could look for. This holds
  although SIGCHLD is not blocked.

For every number of sets, lines per set and blocks (`SramCache_proofs`):

- `DirtyCounterIsExact`: the counter of dirty bytes of `sram.c` counts the dirty
  lines. The invariant is the property with the types: an evicting store takes the
  victim out of the count and puts the new block in, and they are lines of the same
  set. That the loops find a line holds because a set has finitely many (`LeastRank`);
- `LruImplemented`: `Spec => ImplementsLru`, the refinement of `LruCache`. The
  invariant is that no two valid lines of a set have the same timer
  (`TimersOrderLines`); invalid lines, which age too, may. Then the ranks of the valid
  lines by time are a bijection to 1..n (`RankedLines`), filling any line moves its
  place to the top of the stack (`FillMovesToTop`), and the line with the highest timer
  is at the bottom;
- `NoBlockTwice`: no set holds a block in two lines.

For every number of frames, of slots in a reverse mapping, of data pages and of
words (`PageFrames_proofs`, `Paging_proofs`):

- `PagingTypeCorrect`: the type invariant;
- `ReverseMapIsConsistent`: page table and reverse mapping are inverse to each
  other, the counters of the frames are the numbers of their entries, and the two
  copies of the dirty bit agree, as long as no assertion has failed;
- `PagesHaveTheirOwnFile`: no two pages own the same swap address;
- `DiscardedFramesAreOnSwap`: a clean frame with a swap address equals its swap
  file, which is what allows case 2 of the handler to discard it;
- `Transparency`: `Spec => PagingIsTransparent`, the refinement of `AddressSpaces` for
  the operands of each instruction: a store or a push puts its word into its page and
  changes no other, a load or a pop brings what the page holds since the last store,
  wherever the page has been since; a fetch or a fault changes nothing, also when
  the simulator stops in the middle of it;
- `AccountingNeverFails`: the assertions of `pagefault.c` never fail. The simulator can
  stop only in `swap.c` or in the decoder.

`PageFrames_proofs` says of each operation what it does when no assertion fails
(`MapEffect`, `UnmapEffect`, `SwapInEffect`, ...), then that it keeps `Consistent`:
`InverseMaps`, `SameDirtyBits`, and that present entries point to frames. Mapping
keeps it only for an absent page, and there the property is not inductive: the
handler is also entered for a page that is present but write-protected. Without a
free frame it replaces some frame, perhaps another one, and would map the page
twice. What saves the code is `swap_in`: the bits of the page's entry are odd and
at least 2048, hence neither 0 nor an address, and an assertion stops the
simulator. This argument needs two facts that the invariant adds.
`WritableWhileFree`: as long as there are free frames no entry is write-protected.
`TextKept`: while an instruction executes, the text page is alone in frame 0, so
that a data page is in another frame and its bits are large; a text page that was
discarded has no swap page, comes back blank and does not parse.

The swap files need a third part, `SwapSound`. The address of a page (`AddressOf`)
is that of its frame or, when it is out, that of its entry: `NotShared` says that
these addresses differ, `GivenOut` that they are all below the next one that
`allocate_swappage` gives out. A replacement moves two addresses, from frame to
entry and from entry to frame, and never copies one; `swap_out` writes the file of
its victim, and by `NotShared` that is no other frame's. `NothingOutWhileFree`
(nothing is swapped out while frames are free) is why a page that is mapped to a
free frame brings no address that would be lost there. For a page without an
address `swap_in` allocates one, which `map_pte4` at once overwrites with the 0
of the entry: the file is lost, and shared by nobody.

The refinement has an invariant of its own, `Faithful`, on top of that one: frames that
are free were never written (`Untouched`), a frame holds one page (`Unshared`), a clean
page without a swap page is still blank (`FromBlank`), and what each page is to hold
exists (`HoldsWords`). `FaultKeepsContents` then follows `Content` of every page through
each operation of a fault, step by step in the code's order, because the content has to
survive also where an assertion stops the simulator in the middle: the step before it
has written the frame to its file, or left the frame alone. With the slots counted
(`SlotsCounted`), the same invariant gives `AccountingNeverFails`: a present page is in
its frame's reverse mapping, a free frame is clean and empty, and a victim has a page.

Assumptions
(`Paging`): swap addresses are below 2048, the loader has a page for each frame
and room for what it swaps out, code is not a blank page, and the mark for a process
that does not exist is not an address space.

The loaders of `test_pagefault.c` are loops over the frames, recursive functions
in the model. That such a function exists and what it computes is proved by
induction over a set of frames (`FrameInduction`, and `LoopExists` in
`PageFrames_proofs`).

For every number of processes, of pages per process, of frames and of words, and
for both builds (`Fork_proofs`):

- `TypeCorrect`: the type invariant;
- `SharingIsAccounted`: every present entry is in the reverse mapping of its frame
  once, and nothing else is, whoever shares it;
- `SharedIsProtected`: a data frame with several sharers is read-only in each of
  their tables, a frame with one owner is not left protected;
- `RingHoldsAll`: every process that exists is reached by following `next` from the
  current one;
- `Isolation`: `Spec => ProcessesAreIsolated`, the refinement of `AddressSpaces` for
  the instruction of the current process: its store puts its word into its page and
  changes no other page of any process, its load brings what it stored there last;
  `fork` copies the space and returns twice; a fault, a copy on write, a trap or a
  switch changes no data and no register.

The invariant has two halves. The kernel's (`KernelSound`) says that the control
blocks of the living processes form one ring (`OneRing`), that each owns its own
kernel stack and context (`Owned`), and that the TSS and CR3 are those of the
current process: a trap saves into, and a switch restores from, the stack of the
process it concerns. The memory's (`MemorySound`) is `Consistent` of
`PageFrames_proofs` with the number of slots in use (`SlotsCounted`), protection
(`Protected`) and, because no frame is ever replaced in this build, that every page
of a living process is present (`Present`).

`fork` copies the page table in a loop, and in the middle of it the child has half
a table. `Halfway` is the loop's invariant, on the memory of which the child's
pages that are still to come are taken out (`Without`); `LoopExists` says that the
loop's recursive function exists, and the induction over the pages gives what it
leaves. For `copy_on_write` there are two cases, a frame that is still shared
(unmap, take a new frame, copy) and one whose last sharer is the writer (only the
protection goes). The refinement then needs one lemma per action: what the action
does to `Content` of every page of every living process (`SpaceOf`) and to the
registers, wherever they are saved (`ResultOf`). Assumption: the mark for a process
that does not exist is not an address space (`NullAssumption`).

For every page size, every limit of the heap, every width of the integers and every
set of request sizes (`Heap_proofs`):

- `HeapInvariant`: the inductive invariant itself, `HeapInv`; it contains that no
  assertion of the allocator fails;
- `HeapTagsTile`: walking the headers reaches the epilogue exactly, tags agree, no
  two free blocks are neighbours;
- `HeapIndexesExact`: the two lists and the tree hold the free blocks of their
  sizes, each once, and the lists are rings in both directions;
- `HeapPayloadsIntact`: no operation writes into a payload that is held;
- `HeapRefusesOnlyWithoutRoom`: a request of more than four bytes is refused only
  if no free block fits and the heap cannot grow by what is missing;
- `HeapImplementsAllocator`: `Spec => ImplementsAllocator`, the refinement.

What the runs check is stated over the words by walking them, and a walk says
nothing while a block is half written. The invariant says that there is a *layout*
`T`, a function from headers to sizes and allocated bits, which the words follow:
the blocks fill the heap without gap or overlap (`Tiles`), each word that is a tag
says what `T` does (`Tags`), the three indexes hold the free blocks (`Indexed`), and
the words held by callers lie in allocated blocks (`Holds`, `HeldOn`). `HeapInv` asks
for a whole layout without two free neighbours. In the middle of `mem_alloc` and
`mem_free` there is a layout with a *hole* from `lo` to `hi`: `OpenHole` takes a block
out of the indexes and of the layout, `FillTag` puts one at the hole's start with the
setters of `block.c`, `CloseHole` ends it, and P8 of the header behind a hole may be
stale. Splitting (`SplitSettled`), merging on either side (`MergeSettled`), freeing
(`AloneSettled`) and growing (`GrowStep`) are such sequences, in the order of the code.

The lists are the hard part, because their pointers are words of the blocks they list
and the tag of a block of eight does not hold its size. `Ring` says that one order
(`Order`) runs through `next` and that `prev` is its inverse; `RingInsert` and
`RingDelete` are about `linkedlist.c`, and `List8` and `List16` say that a change of
such a block's pointers changes neither a tag nor another list. The walks of `Heap`
over a ring (`Members8`, `Members16`) and over the headers (`HeadersOfLayout`) are
recursive functions. That of the headers recurs towards higher addresses; `WalkUp`
shows that it has a solution by constructing one, the intersection of the sets of
headers that are closed under "next". On a layout the walks then find the free blocks
of a size, and the domain of `T`.

Two cases need arithmetic that a test would hardly reach. When the last block is free
and the heap has to grow, the size to ask for is a difference in `uint32_t`:
`Requested` shows that it wraps only for a block of eight in front of a free last
block of sixteen, that the rounding then gives no page, and `RefusedRested` that the
request is refused with the heap as it was. `GrownRested` shows that the grown
last block always has room, so that the search after growing does not fail. For
the refinement, `HeldApart` derives that payloads are disjoint from `Tiles`,
and `GrantIsAlloc` that a granted one is aligned and below the end.

Assumptions (`HeapAssumption`): a page is a multiple of eight of at least 40 bytes,
the limit of the heap is a multiple of a page and below `Width`, itself a multiple of
a page, and no request exceeds the limit less the prologue, the tags and the epilogue.
4096, the 8 pages of the code and 2^32 satisfy them.

For every finite set of nodes and any keys, equal ones included (`RbTree_proofs`):

- `TreeStaysInOrder`: the inductive invariant itself, `RbInv`; it contains that no
  assertion of `rbt.c` and `bst.c` fails;
- `MembersStayInOrder`: the nodes reached from the root are the members, parents and
  children agree, and keys are ordered, also in the middle of a call;
- `TreeIsRedAndBlack`: when a call has returned the root is black, no red node has a
  red child, and every path has as many black nodes;
- `EveryColoringIsHandled`: the loop of `rbt_internal_delete` never meets a family in a
  colouring that its `switch` sends to `assert(0)`, nor a double black without sibling;
- `SearchFindsBestFit`: `find_succ` returns a member with the least key that is large
  enough, on which the heap relies.

The runs state these over recursive walks from the root, which say nothing of the
step that changes a pointer. The invariant says instead that there is a function `U`,
from nodes to the sets of nodes under them, that fits the pointers (`Tree`) and the
keys (`Ordered`), and a function `H` from nodes to black heights (`Balanced`). `U` and
`H` are not state: each step is shown to have new ones. A tree is then a condition on
each node by itself, and no induction is needed to keep it. What a loop has yet to mend
has a name for each `pc`: `Settled` (nothing), `Floating` (node `n` may be red under a
red parent), `Deficient` (the paths on the side `ds` of `dp` lack one black node). The
induction needs, for a deficit below a parent, that the missing side is the side of
`db` also when `db` is a leaf, as in the first turn, where `SideOf` can only compare
with NULL: that the sibling is no leaf follows from its height, which is one more than
that of `db`.

There are four arguments:

- *Rotations.* A rotation of two nodes is a lift of a child over its parent
  (`Lifted`); the outer rotation is one lift, the inner one two (`OuterLifts`,
  `RotatedInner`), although the code writes it as one sequence of pointers. `LiftTree`
  shows once that a lift keeps the tree and the order, for either side.
- *Colours.* `TurnedColored` says when three nodes, recoloured after a rotation, leave
  no red pair, and `Level` on which heights of the four subtrees they are balanced.
  Both loops use it, insertion with red on top and deletion with the parent's colour.
- *The exchange with the successor.* `bst_internal_delete` rewires the pointers around both,
  differently when the successor is the child. Both give the tree in which the two
  nodes have swapped names (`PlacesChanged`), and a renaming keeps a tree
  (`ChangedTree`). Only the node to be deleted is out of order then, so `Ordered` is
  stated for the other members until it is taken out.
- *Recursive walks.* The three searches (`Place`, `Leftmost`, `find_succ`) go down
  the tree and are recursive functions on all nodes, not only on those of a tree.
  `TailRecursion` gives the function: where a walk never ends any value does. `Under`
  and `BlackHeights` recurse on both children and count levels: `FixedPoint` gives the
  functions, and a tree has no path longer than its number of nodes, which is where
  the set of nodes must be finite.

Assumptions (`RbTreeAssumption`): the nodes are finitely many, `NULL_ID` is not one of
them and keys are natural numbers. Nodes are the words of a heap of bounded size, and
`NULL_ID` is 0.

Only model-checked:

- liveness and fairness, everywhere (beyond this prover);
- `VmAreas`: `RingsAgree` holds up to five areas only, because of the code's reversed
  iterator. It is a statement about five insertions, not one that an invariant of
  insertion carries;
- `RbTree.CallsReturn`, which is liveness. The step the loops make upwards is in the
  proofs (a deficit moves to the parent, a red node to its grandparent), the
  conclusion that they end is not;
- `Trie`, `HashTable` and `Linker`: folds over strings and files, `2^n`, and
  recursion. What they compute for every input needs induction over data.

## 5. Disagreements between the code and what it says

1. `paging_restart`: `map_pte4` (pagefault.c:219) leaves bits of the swap address
   in the entry. Bit 0 of an odd address is `readonly`; a store to that page
   faults, is "fixed" and restarted for ever. isa.c:53 expects the second
   execution to succeed.
2. `shell_hang`: `sigaddset(&mask, SIGCHLD | SIGINT | SIGTSTP)` adds signal 23
   (shell.c:177), so that SIGCHLD stays unblocked in the section that
   shell.c:199 calls critical; a child that ends there leaves the shell waiting
   for ever.

Met while modelling, without a run of their own. All of them are in the models,
with the properties worded so as to say what remains true.

- Paging: a page created on demand is given a swap page, and `map_pte4` then
  overwrites its address with 0 (pagefault.c:216); when the dirty page has to go,
  the assertion of swap.c:91 fails. `push` and `call` decrement `rsp` again when
  restarted (isa.c:104).
- Fork: `get_newpid` (fork.c:57) gives pid 2 to two children of one parent. A fork
  after a store aborts, because `map_pte4` requires a clean frame.
- Areas: the search for the end of the list arrives at the head again
  (vmarea.c:247), and an area above all others is linked behind it, although
  vmarea.c:220 says that the list should be sorted. The fourth in a row that is
  linked there makes the walk forget an area, because `get_node_next` of the
  list's interface is `get_prev_vma` (vmarea.c:128); the walk still takes `count`
  steps, so that the sixth may be linked between two areas that are no
  neighbours, and then following `next` and following `prev` differ. Areas that
  touch each other abort in `can_vmas_merge` (vmarea.c:150).
- Shell: `setpgid` is not called for a job, so that Ctrl-C reaches background
  jobs too. `fg_pid` is not cleared when its job is stopped. If that job is
  continued and stopped again, or killed, and the handler reports it after
  `fg_reaped` was cleared for the next foreground job and before `fg_pid` names that
  one (between lines 205 and 206), line 281 takes it for the new job and the prompt
  comes back while the new one runs. `ForegroundHoldsPrompt` has this one
  exception (`overtaken`). A stopped job keeps its slot with pid 0 (416) for ever, and
  a job without a slot runs unlisted.
- Heap: a request of up to four bytes may be refused although it fits
  (mem_alloc.c:237).
- Hash table: a full bucket is split once (hashtable.c:180), and the assertion at
  line 284 fails if that does not help. `hashtable_free` frees a bucket once for
  every entry that shares it (line 85); the linker's own dictionary has such a
  bucket, so that every run of the linker ends that way (parseElf.c:433).
- Linker: a symbol in `.bss`, and a tentative one that goes there, gets no entry
  in the result, which is then printed and searched all the same
  (staticlink.c:581, 668). A reference to a local symbol is not relocated, or to a
  global symbol of the same name (668). An instruction is 64 bytes long in the
  section header (staticlink.c:375), for the processor (isa.c:29) and in the tests
  (test_run_isa.c steps by 0x40), and the comment of instruction.h:49 expects
  `sizeof(inst_t)` to be 0x40; it is 40, and the relocation handlers use it (771).
  Every relocated address is off by that: in the committed
  `files/exe/output.eof.txt` neither the `lea` nor the `callq` of `main` names
  its target. The properties of `Linker` speak of rows and entries, and of the
  addresses as the handlers compute them, not of where the processor finds a
  symbol. The first
  assertion on the map table lets one entry too many pass (192). A weak function
  with references fails the assertion at 688. The addend is ignored.

## 6. Not modelled

- TLB functions of `mmu.c` and the data path of `sram.c`: compiled into no build.
- Condition flags and arithmetic of `isa.c`: no modelled state depends on them.
- Implicit and explicit list policies of the allocator, and the segregated list:
  in no build; the last is a sketch.
- The plain binary search tree, comparison of trees for tests, and iteration over
  the linked list with the default nodes that only its test uses.
- The dynamic array (no program uses it), the instruction parser (a deterministic
  automaton whose one effect on the modelled parts, refusing a lost text page, is
  modelled), number conversion (pure; what swap files need of it is `Parses`), the
  false sharing benchmark (a race on purpose that promises nothing), the loading
  of the linker as a library, build scripts: see "components" in `PROJECT.json`.

## 7. Plan

Done, in this order, the most central behaviour first: `Mesi` with its
refinement and proofs; `PageFrames` and `Paging`; `Fork` on the same machine;
`Shell` with its proofs; `Rings` and `VmAreas`; `SramCache`; `Heap`; `RbTree`;
`HashTable` and `Trie`; `Linker`; generic `Rings` under `Heap`; the proofs of
`SramCache`, of `Paging`, of `Fork`, of `Heap` and of `RbTree`.

What would come next:

1. `rsp` across a restarted push, as a property of `Paging`, with its proof.
2. Of `VmAreas`, the part that holds for any number of areas: which of them a walk
   of `count` steps finds after the reversed iterator has gone astray.
