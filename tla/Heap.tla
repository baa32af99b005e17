--------------------------------- MODULE Heap ---------------------------------
(***************************************************************************)
(* The heap of src/src/malloc as its only build configures it (config.json,*)
(* -DDEBUG_MALLOC -DREDBLACK_TREE): the boundary tags of block.c word by   *)
(* word, splitting, coalescing and growth of mem_alloc.c, and the three    *)
(* indexes of free blocks of redblack_tree.c.                              *)
(*                                                                         *)
(* A block of eight bytes has no room for a footer: its header carries B8, *)
(* the header after it P8, and while it is free its size field holds a     *)
(* list pointer.  So every operation must keep bits of its neighbours      *)
(* right, among words that hold whatever a user or an index left there.    *)
(* Such a word is Stale: a step that copied a field of it would spread     *)
(* Stale into the tags, and the invariants would show it; a test of a bit  *)
(* of it counts as not set.  The two lists of linkedlist.c have their      *)
(* pointers in the words of the free blocks; the tree, with its pointers   *)
(* and colours, is abstracted to the set of its blocks.  A definition      *)
(* named after a fault (PrevBitKept, ...) is not part of the model.        *)
(***************************************************************************)
EXTENDS Integers, FiniteSets, Functions

CONSTANTS
    PageSize,   \* 4096 in the code
    HeapMax,    \* HEAP_MAX_SIZE
    Width,      \* 2^32, the range of uint32_t
    Requests,   \* the sizes that are asked for
    MaxHeld     \* bound: payloads held at a time

ASSUME HeapAssumption ==
    /\ PageSize \in Nat /\ PageSize >= 40 /\ PageSize % 8 = 0
    /\ HeapMax \in Nat /\ HeapMax >= PageSize /\ HeapMax % PageSize = 0
    /\ Width \in Nat /\ Width > HeapMax /\ Width % PageSize = 0
    /\ Requests \subseteq 1 .. (HeapMax - 17)
    /\ MaxHeld \in Nat

VARIABLES
    mem,    \* the words, the end of the heap, the indexes, and "ok": no assert has failed
    held    \* what the callers hold: from payload addresses to sizes asked for

vars == <<mem, held>>

NIL == 0
FREE == 0
ALLOCATED == 1
Stale == 9      \* a field of a word that nobody may rely on

WordAddresses == {v \in 0 .. (HeapMax - 1) : v % 4 = 0}
StaleWord == [a |-> Stale, p8 |-> Stale, b8 |-> Stale, size |-> Stale]
Word(m, v) == IF v \in WordAddresses THEN m.word[v] ELSE StaleWord

-----------------------------------------------------------------------------
(* block.c *)

is_header(v) == v % 8 = 4

get_prologue == 4
get_firstblock == get_prologue + 8
get_epilogue(m) == m.end - 4

\* is_block8: by its own B8 for a header, by the P8 of the next header for a footer
is_block8(m, v) ==
    \/ is_header(v) /\ v # get_epilogue(m) /\ Word(m, v).b8 = 1
    \/ ~is_header(v) /\ Word(m, v + 4).p8 = 1

get_blocksize(m, v) == IF is_block8(m, v) THEN 8 ELSE Word(m, v).size

\* The word with the allocated bit: a block of eight has it in the header only.
TagWord(m, v) == IF ~is_header(v) /\ Word(m, v + 4).p8 = 1 THEN v - 4 ELSE v

get_allocated(m, v) == Word(m, TagWord(m, v)).a

set_allocated(m, v, allocated) == [m EXCEPT !.word[TagWord(m, v)].a = allocated]

\* set_blocksize for 8: no footer is written, and no size while the block is free
set_blocksize8(m, v) ==
    LET header == IF is_header(v) THEN v ELSE v - 4
    IN  [m EXCEPT !.word[header].b8 = 1,
                  !.word[header].size = IF m.word[header].a = FREE THEN @ ELSE 8,
                  !.word[header + 8].p8 = 1]

\* set_blocksize for any other size, of a header or of a footer
PrevBitKept(m, v, size) == [m EXCEPT !.word[v].b8 = 0, !.word[v].size = size]
set_blocksize_ordinary(m, v, size) ==
    LET next  == IF is_header(v) THEN v + size ELSE v + 4
        sized == [m EXCEPT !.word[v].b8 = 0, !.word[v].size = size]
    IN  IF next <= get_epilogue(m) THEN [sized EXCEPT !.word[next].p8 = 0] ELSE sized

set_blocksize(m, v, size) ==
    IF size = 8 THEN set_blocksize8(m, v) ELSE set_blocksize_ordinary(m, v, size)

\* The pair of calls that writes one tag
Tag(m, v, allocated, size) == set_blocksize(set_allocated(m, v, allocated), v, size)

\* Both tags of the block at "header"
TagBlock(m, header, allocated, size) ==
    Tag(Tag(m, header, allocated, size), header + size - 4, allocated, size)

get_payload(header) == header + 4
get_header(payload) == payload - 4
get_footer(m, header) == header + get_blocksize(m, header) - 4
get_nextheader(m, header) == header + get_blocksize(m, header)

get_prevheader(m, header) ==
    IF Word(m, header).p8 = 1 THEN header - 8
    ELSE header - get_blocksize(m, header - 4)

get_lastblock(m) == get_prevheader(m, get_epilogue(m))

\* The headers that a walk from the first block meets before the epilogue
Headers(m) ==
    LET from[h \in {v \in WordAddresses : is_header(v)}] ==
            LET next == get_nextheader(m, h)
            IN  IF h >= get_epilogue(m) THEN {}
                ELSE IF is_header(next) /\ h < next /\ next <= get_epilogue(m)
                     THEN {h} \cup from[next]
                     ELSE {h}
    IN  from[get_firstblock]

Asserting(m, condition) == [m EXCEPT !.ok = @ /\ condition]

-----------------------------------------------------------------------------
(* The two lists of free blocks.  A pointer is a word of 32 bits, and its   *)
(* low bits are those of the tags: the 4 of a header's address is b8.       *)

IsBlock(m, v) == is_header(v) /\ get_firstblock <= v /\ v <= get_lastblock(m)

PointerWord(v) == [a |-> 0, p8 |-> 0, b8 |-> IF v = NIL THEN 0 ELSE 1,
                   size |-> IF v = NIL THEN 0 ELSE v - 4]
Pointer(word) == word.size + 4 * word.b8 + 2 * word.p8 + word.a

\* small_list.c: a free block of eight keeps its neighbours in the 29 bits above the
\* tag bits of its two words
IsFreeHeader(m, v) == is_header(v) /\ get_allocated(m, v) = FREE
get_prevfree_block8(m, v) == 4 + Word(m, v).size
get_nextfree_block8(m, v) == 4 + Word(m, v + 4).size
set_prevfree_block8(m, v, to) ==
    [Asserting(m, IsFreeHeader(m, v) /\ is_header(to)) EXCEPT !.word[v].size = to - 4]
set_nextfree_block8(m, v, to) ==
    [Asserting(m, IsFreeHeader(m, v) /\ is_header(to)) EXCEPT !.word[v + 4].size = to - 4]
update_small_head(m, v) ==
    [Asserting(m, v = NIL \/ (IsBlock(m, v) /\ get_blocksize(m, v) = 8)) EXCEPT
        !.small_list.head = v]

Small == INSTANCE Rings WITH
    NULL_ID <- NIL, list_in <- LAMBDA m : m.small_list,
    with_count <- LAMBDA m, count : [m EXCEPT !.small_list.count = count],
    get_node_prev <- get_prevfree_block8, get_node_next <- get_nextfree_block8,
    set_node_prev <- set_prevfree_block8, set_node_next <- set_nextfree_block8,
    update_head <- update_small_head

\* explicit_list.c: a larger block has whole words for them (set_field32_block_ptr)
Lists16(m, v) == v = NIL \/ (IsBlock(m, v) /\ get_blocksize(m, v) >= 16)
set_field32_block_ptr(m, v, to, offset) ==
    IF v = NIL THEN m
    ELSE [Asserting(m, Lists16(m, v) /\ Lists16(m, to)) EXCEPT
              !.word[v + offset] = PointerWord(to)]
get_prevfree(m, v) == IF v = NIL THEN NIL ELSE Pointer(Word(m, v + 4))
get_nextfree(m, v) == IF v = NIL THEN NIL ELSE Pointer(Word(m, v + 8))
set_prevfree(m, v, to) == set_field32_block_ptr(m, v, to, 4)
set_nextfree(m, v, to) == set_field32_block_ptr(m, v, to, 8)
update_explicit_head(m, v) == [Asserting(m, Lists16(m, v)) EXCEPT !.explicit_list.head = v]

Explicit == INSTANCE Rings WITH
    NULL_ID <- NIL, list_in <- LAMBDA m : m.explicit_list,
    with_count <- LAMBDA m, count : [m EXCEPT !.explicit_list.count = count],
    get_node_prev <- get_prevfree, get_node_next <- get_nextfree,
    set_node_prev <- set_prevfree, set_node_next <- set_nextfree,
    update_head <- update_explicit_head

explicit_list_delete(m, v) == set_nextfree(set_prevfree(Explicit!delete(m, v), v, NIL), v, NIL)

\* explicit_list_search: the first free block of the walk that is large enough
explicit_list_search(m, blocksize) ==
    LET Fits(i) == LET b == Explicit!Walk(m, i)
                   IN  get_allocated(m, b) = FREE /\ blocksize <= get_blocksize(m, b)
    IN  {Explicit!Walk(m, i) : i \in {j \in 0 .. m.explicit_list.count - 1 :
                                        Fits(j) /\ \A k \in 0 .. j - 1 : ~Fits(k)}}

-----------------------------------------------------------------------------
(* redblack_tree.c: blocks of 8 in small_list, of 16 in explicit_list, the  *)
(* others in the tree                                                       *)

\* insert_free_block.  In the tree the colour takes the bit of the footer under B8.
insert_free_block(m, header) ==
    LET size == get_blocksize(m, header)
        free == Asserting(m, IsBlock(m, header) /\ get_allocated(m, header) = FREE)
    IN  CASE size = 8  -> Small!insert(free, header)
          [] size = 16 -> Explicit!insert(free, header)
          [] OTHER     -> [Asserting(free, size >= 24) EXCEPT
                              !.rbt = @ \cup {header},
                              !.word[get_footer(m, header)].p8 = Stale]

\* delete_free_block: from the index that the size names now
delete_free_block(m, header) ==
    LET size == get_blocksize(m, header)
        free == Asserting(m, IsBlock(m, header) /\ get_allocated(m, header) = FREE)
    IN  CASE size = 8  -> Small!delete(free, header)
          [] size = 16 -> explicit_list_delete(free, header)
          [] OTHER     -> [free EXCEPT !.rbt = @ \ {header}]

round_up(x, n) == n * ((x + n - 1) \div n)

\* What a payload needs with its tags
NoRoomForFooter(size) == IF size <= 4 THEN 8 ELSE round_up(size, 8)
alloc_blocksize(size) == IF size <= 4 THEN 8 ELSE round_up(size, 8) + 8

\* bst_internal_find_succ: a smallest of the tree's blocks that are large enough
find_succ(m, blocksize) ==
    LET fitting == {h \in m.rbt : get_blocksize(m, h) >= blocksize}
    IN  {h \in fitting : \A other \in fitting : get_blocksize(m, h) <= get_blocksize(m, other)}

\* redblack_tree_search_free_block: the blocks it may return
search_free_block(m, blocksize) ==
    IF blocksize = 8 /\ m.small_list.count # 0 THEN {m.small_list.head}
    ELSE IF blocksize = 16 /\ explicit_list_search(m, 16) # {} THEN explicit_list_search(m, 16)
    ELSE find_succ(m, blocksize)

-----------------------------------------------------------------------------
(* mem_alloc.c *)

\* merge_blocks_as_free, with its asserts
merge_blocks_as_free(m, low, high) ==
    TagBlock(Asserting(m, get_nextheader(m, low) = high /\ get_prevheader(m, high) = low),
             low, FREE, get_blocksize(m, low) + get_blocksize(m, high))

\* try_alloc_with_splitting, from a free block that is large enough
RestNotIndexed(m, rest) == m
IndexRest(m, rest) == insert_free_block(m, rest)

try_alloc_with_splitting(m, block, blocksize) ==
    LET left_size == get_blocksize(m, block) - blocksize
        taken     == TagBlock(delete_free_block(m, block), block, ALLOCATED, blocksize)
        rest      == get_nextheader(taken, block)
    IN  IF left_size >= 8 THEN IndexRest(TagBlock(taken, rest, FREE, left_size), rest) ELSE taken

\* extend_heap: what it adds, in uint32_t, and what it writes; nothing when the
\* heap would be too large
RoundedRequest(request) == round_up(request, PageSize) % Width
MayGrow(m, request) == m.end + RoundedRequest(request) <= HeapMax
Grown(m, request) == IF MayGrow(m, request) THEN RoundedRequest(request) ELSE 0

extend_heap(m, request) ==
    IF MayGrow(m, request)
    THEN LET larger == [m EXCEPT !.end = @ + RoundedRequest(request)]
         IN  Tag(larger, get_epilogue(larger), ALLOCATED, 0)
    ELSE m

\* What try_extend_heap_to_alloc asks for: a free last block helps, and uint32_t
\* wraps when it is larger than the request
LastIsFree(m) == get_allocated(m, get_lastblock(m)) = FREE
LastFreeSize(m) == IF LastIsFree(m) THEN get_blocksize(m, get_lastblock(m)) ELSE 0
WholeRequest(m, blocksize) == blocksize
to_request_from_OS(m, blocksize) == (blocksize + Width - LastFreeSize(m)) % Width

\* try_extend_heap_to_alloc: the block that grows is the free last one, or starts
\* at the old epilogue; when nothing was added the free last block goes back
GrowingBlock(m) == IF LastIsFree(m) THEN get_lastblock(m) ELSE get_epilogue(m)

LastKeptInIndex(m) == m
WithoutFreeLast(m) == IF LastIsFree(m) THEN delete_free_block(m, get_lastblock(m)) ELSE m

try_extend_heap(m, blocksize) ==
    LET request  == to_request_from_OS(m, blocksize)
        block    == GrowingBlock(m)
        extended == extend_heap(WithoutFreeLast(m), request)
    IN  IF Grown(m, request) # 0
        THEN insert_free_block(
                 TagBlock(extended, block, FREE, LastFreeSize(m) + Grown(m, request)), block)
        ELSE IF LastIsFree(m) THEN insert_free_block(extended, block) ELSE extended

Refused(m, size) ==
    LET blocksize == alloc_blocksize(size)
    IN  /\ search_free_block(m, blocksize) = {}
        /\ Grown(m, to_request_from_OS(m, blocksize)) = 0

\* What a step leaves in the words of no tag, list or held payload is of no meaning,
\* and neither are the bits of a footer that only its neighbour's P8 or a colour uses.
PayloadWords(p, size) == {v \in WordAddresses : p <= v /\ v < p + size}
Forget(m, kept) ==
    LET headers == Headers(m)
        tags    == headers \cup {get_epilogue(m)}
        footers == {get_footer(m, h) : h \in {g \in headers : get_blocksize(m, g) # 8}}
        free(size) == {h \in headers : get_allocated(m, h) = FREE /\ get_blocksize(m, h) = size}
    IN  [m EXCEPT !.word = [v \in WordAddresses |->
            CASE v \in tags \cup kept \/ {v - 4, v - 8} \cap free(16) # {} -> m.word[v]
              [] v - 4 \in free(8) -> [StaleWord EXCEPT !.size = m.word[v].size]
              [] v \in footers -> [m.word[v] EXCEPT !.p8 = Stale]
              [] OTHER -> StaleWord]]
KeptWords(holders) == UNION {PayloadWords(p, holders[p]) : p \in DOMAIN holders}

-----------------------------------------------------------------------------
\* heap_init
heap_init ==
    LET blank == [word |-> [v \in WordAddresses |->
                               IF v < PageSize THEN [a |-> 0, p8 |-> 0, b8 |-> 0, size |-> 0]
                               ELSE StaleWord],
                  end |-> PageSize, small_list |-> [head |-> NIL, count |-> 0],
                  explicit_list |-> [head |-> NIL, count |-> 0],
                  rbt |-> {}, ok |-> TRUE]
        fenced == Tag(TagBlock(blank, get_prologue, ALLOCATED, 8),
                      get_epilogue(blank), ALLOCATED, 0)
    IN  insert_free_block(TagBlock(fenced, get_firstblock, FREE, PageSize - 16), get_firstblock)

Init ==
    /\ mem = Forget(heap_init, {get_prologue})
    /\ held = [p \in {} |-> 0]

\* A payload is the caller's from here on, and its words hold what the caller likes.
Give(m, block, size) ==
    /\ held' = [p \in DOMAIN held \cup {get_payload(block)} |->
                   IF p = get_payload(block) THEN size ELSE held[p]]
    /\ mem' = Forget(m, KeptWords(held) \cup {get_prologue})

\* mem_alloc that finds a free block
AllocFree(size) ==
    /\ Cardinality(DOMAIN held) < MaxHeld
    /\ \E block \in search_free_block(mem, alloc_blocksize(size)) :
          Give(try_alloc_with_splitting(mem, block, alloc_blocksize(size)), block, size)

\* mem_alloc that finds none, and the heap grows
AllocGrown(size) ==
    LET blocksize == alloc_blocksize(size)
        block     == GrowingBlock(mem)
    IN  /\ Cardinality(DOMAIN held) < MaxHeld
        /\ search_free_block(mem, blocksize) = {}
        /\ Grown(mem, to_request_from_OS(mem, blocksize)) # 0
        /\ Give(try_alloc_with_splitting(try_extend_heap(mem, blocksize), block, blocksize),
                block, size)

\* mem_alloc that returns NIL
AllocRefused(size) ==
    /\ Refused(mem, size)
    /\ mem' = Forget(try_extend_heap(mem, alloc_blocksize(size)),
                     KeptWords(held) \cup {get_prologue})
    /\ UNCHANGED held

\* mem_free: four cases of which neighbours are free
Freed(m, block) ==
    LET next     == get_nextheader(m, block)
        prev     == get_prevheader(m, block)
        nextFree == get_allocated(m, next) = FREE
        prevFree == get_allocated(m, prev) = FREE
        alone    == set_allocated(set_allocated(m, block, FREE), get_footer(m, block), FREE)
        belowOut == IF prevFree THEN delete_free_block(m, prev) ELSE m
        bothOut  == IF nextFree THEN delete_free_block(belowOut, next) ELSE belowOut
        low      == IF prevFree THEN prev ELSE block
        withPrev == IF prevFree THEN merge_blocks_as_free(bothOut, prev, block) ELSE bothOut
        merged   == IF nextFree THEN merge_blocks_as_free(withPrev, low, next) ELSE withPrev
    IN  insert_free_block(IF nextFree \/ prevFree THEN merged ELSE alone, low)

mem_free(p) ==
    LET left == Restrict(held, DOMAIN held \ {p})
    IN  /\ mem' = Forget(Freed(Asserting(mem, get_allocated(mem, get_header(p)) = ALLOCATED),
                               get_header(p)),
                         KeptWords(left) \cup {get_prologue})
        /\ held' = left

Next ==
    \/ \E size \in Requests : AllocFree(size) \/ AllocGrown(size) \/ AllocRefused(size)
    \/ \E p \in DOMAIN held : mem_free(p)

Spec == Init /\ [][Next]_vars

-----------------------------------------------------------------------------
(* Properties *)

\* The tags tile the heap: from the first block each header leads to the next one
\* and the last to the epilogue, a footer repeats its header, B8 and the next P8 tell
\* the blocks of eight, and no two neighbours are free (check_heap_correctness); no
\* assert about a block failed on the way.
TagsTileTheHeap ==
    LET headers == Headers(mem)
    IN  /\ mem.ok
        /\ get_allocated(mem, get_epilogue(mem)) = ALLOCATED
        /\ \A h \in headers :
              LET size == get_blocksize(mem, h)
                  next == get_nextheader(mem, h)
              IN  /\ next \in headers \cup {get_epilogue(mem)}
                  /\ get_allocated(mem, h) \in {FREE, ALLOCATED}
                  /\ get_prevheader(mem, next) = h
                  /\ Word(mem, h).b8 = Word(mem, next).p8
                  /\ Word(mem, h).b8 = (IF size = 8 THEN 1 ELSE 0)
                  /\ size # 8 => /\ Word(mem, next - 4).size = size
                                 /\ Word(mem, next - 4).a = get_allocated(mem, h)
                  /\ get_allocated(mem, h) = FREE => get_allocated(mem, next) = ALLOCATED

\* The three indexes hold the free blocks, each once and in the index of its size:
\* a block that no index holds is lost, one in two places is handed out twice.  The
\* pointers in the words of the free blocks are rings in both directions, whatever
\* was split, merged and tagged around them (check_size_list_correctness).
IndexesAreExact ==
    LET free(sizes) == {h \in Headers(mem) : /\ get_allocated(mem, h) = FREE
                                             /\ get_blocksize(mem, h) \in sizes}
    IN  /\ Small!Members(mem) = free({8}) /\ Small!IsRing(mem)
        /\ Explicit!Members(mem) = free({16}) /\ Explicit!IsRing(mem)
        /\ mem.rbt = free(24 .. HeapMax)

\* Each payload held has an allocated block of its own with room for the size asked
\* for, no other block is allocated, and no step wrote a tag into its words.
HeldPayloadsIntact ==
    /\ {get_payload(h) : h \in {g \in Headers(mem) : get_allocated(mem, g) = ALLOCATED}}
           = DOMAIN held
    /\ \A p \in DOMAIN held :
          /\ p % 8 = 0
          /\ p + held[p] <= get_header(p) + get_blocksize(mem, get_header(p))
          /\ \A v \in PayloadWords(p, held[p]) : mem.word[v] = StaleWord

\* mem_alloc gives up only when no free block fits and the heap cannot grow enough:
\* "else, no page can be allocated" (mem_alloc.c:304).  That is so of the requests
\* that need a block with a footer.  A block of eight may be refused although it
\* fits: the size to grow by underflows when a free block of sixteen is the last.
NoRoomFor(m, size) ==
    /\ \A h \in Headers(m) : get_allocated(m, h) = ALLOCATED
                                \/ get_blocksize(m, h) < alloc_blocksize(size)
    /\ m.end + round_up(alloc_blocksize(size) - LastFreeSize(m), PageSize) > HeapMax
OrdinaryRefusedOnlyWithoutRoom ==
    \A size \in Requests : size > 4 /\ Refused(mem, size) => NoRoomFor(mem, size)

\* mem_alloc and mem_free do what Allocator promises the callers.
Promise == INSTANCE Allocator
ImplementsAllocator == Promise!Spec
=============================================================================
