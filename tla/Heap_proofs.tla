----------------------------- MODULE Heap_proofs -----------------------------
(***************************************************************************)
(* Proofs about Heap for every page size, every limit of the heap and      *)
(* every sequence of requests.                                             *)
(*                                                                         *)
(* The words are read through a layout: a function T from the headers of   *)
(* blocks to their sizes and allocated bits.  While blocks are split,      *)
(* merged or added, the words from some "lo" to some "hi" belong to no     *)
(* block of T: a hole, which the next pair of tags fills from below.       *)
(***************************************************************************)
EXTENDS Heap, FiniteSetTheorems, TLAPS

Marks == {0, 1, Stale}
WordType == [a : Marks, p8 : Marks, b8 : Marks, size : Nat]
ListType == [head : Nat, count : Nat]
MemType ==
    [word : [WordAddresses -> WordType], end : Nat, small_list : ListType,
     explicit_list : ListType, rbt : SUBSET Nat, ok : BOOLEAN]

HeaderAddresses == {v \in WordAddresses : is_header(v) /\ get_firstblock <= v}

-----------------------------------------------------------------------------
(* Least numbers and induction                                              *)

\* Every set of natural numbers that is not empty has a least element.  The
\* intervals below the numbers are finite sets, and those are well-founded.
LEMMA LeastOfNaturals ==
  ASSUME NEW S \in SUBSET Nat, S # {}
  PROVE  \E x \in S : \A y \in S : x <= y
<1> DEFINE Below == {0 .. n - 1 : n \in S}
<1>1. Below \subseteq FiniteSubsetsOf(Nat)
  <2> SUFFICES ASSUME NEW n \in S PROVE 0 .. n - 1 \in FiniteSubsetsOf(Nat)
    OBVIOUS
  <2>1. IsFiniteSet(0 .. n - 1) /\ 0 .. n - 1 \subseteq Nat
    BY FS_Interval
  <2>. QED BY <2>1 DEF FiniteSubsetsOf
<1>2. Below # {}
  OBVIOUS
<1>3. PICK b \in Below : \A c \in Below : <<c, b>> \notin StrictSubsetOrdering(Nat)
  <2> HIDE DEF Below
  <2>. QED BY <1>1, <1>2, FS_StrictSubsetOrderingWellFounded, WFMin
<1>4. PICK x \in S : b = 0 .. x - 1
  OBVIOUS
<1>5. ASSUME NEW y \in S, y < x PROVE FALSE
  <2>1. 0 .. y - 1 \in Below
    OBVIOUS
  <2>2. 0 .. y - 1 \subseteq 0 .. x - 1 /\ 0 .. y - 1 # 0 .. x - 1
    <3>1. y \in 0 .. x - 1 /\ y \notin 0 .. y - 1
      BY <1>5
    <3>2. \A k \in 0 .. y - 1 : k \in 0 .. x - 1
      BY <1>5
    <3>. QED BY <3>1, <3>2
  <2>3. <<0 .. y - 1, 0 .. x - 1>> \in StrictSubsetOrdering(Nat)
    <3>1. 0 .. y - 1 \subseteq Nat /\ 0 .. x - 1 \subseteq Nat
      OBVIOUS
    <3>. QED BY <2>2, <3>1 DEF StrictSubsetOrdering
  <2>. QED BY <1>3, <1>4, <2>1, <2>3
<1>. QED
  <2> SUFFICES ASSUME NEW y \in S PROVE x <= y
    OBVIOUS
  <2>. QED BY <1>5

\* A set of natural numbers with a bound has a greatest element.
LEMMA GreatestOfBounded ==
  ASSUME NEW S \in SUBSET Nat, S # {}, NEW bound \in Nat, \A x \in S : x <= bound
  PROVE  \E x \in S : \A y \in S : y <= x
<1> DEFINE Gaps == {bound - x : x \in S}
<1>1. Gaps \in SUBSET Nat /\ Gaps # {}
  <2>1. \A x \in S : bound - x \in Nat
    OBVIOUS
  <2>. QED BY <2>1
<1>2. PICK g \in Gaps : \A h \in Gaps : g <= h
  <2> HIDE DEF Gaps
  <2>. QED BY <1>1, LeastOfNaturals
<1>3. PICK x \in S : g = bound - x
  OBVIOUS
<1>4. \A y \in S : bound - x <= bound - y
  BY <1>2, <1>3
<1>. QED
  <2> SUFFICES ASSUME NEW y \in S PROVE y <= x
    OBVIOUS
  <2>. QED BY <1>4

\* Induction, with a set in the place of the property: what holds of 0 and of
\* every successor of a number it holds of holds of all numbers up to a bound.
LEMMA InductionUpTo ==
  ASSUME NEW bound \in Nat, NEW P, 0 \in P, \A n \in 1 .. bound : n - 1 \in P => n \in P
  PROVE  0 .. bound \subseteq P
<1> DEFINE bad == {n \in 0 .. bound : n \notin P}
<1>1. SUFFICES ASSUME bad # {} PROVE FALSE
  OBVIOUS
<1>2. \A n \in bad : n \in Nat
  OBVIOUS
<1>3. PICK n \in bad : \A k \in bad : n <= k
  <2> HIDE DEF bad
  <2>. QED BY <1>1, <1>2, LeastOfNaturals
<1>4. n \in 1 .. bound /\ n - 1 \in 0 .. bound /\ n \notin P
  <2>1. n \in 0 .. bound /\ n \notin P
    OBVIOUS
  <2>. QED BY <2>1
<1>5. n - 1 \in bad
  BY <1>4
<1>. QED BY <1>3, <1>4, <1>5

-----------------------------------------------------------------------------
(* Layouts                                                                  *)

End(T, h) == h + T[h].size

\* The blocks of T fill the words from the first block to "lo" and from "hi" to the
\* epilogue "e", without a gap and without overlapping.
Tiles(T, lo, hi, e) ==
    /\ {lo, hi, e} \subseteq HeaderAddresses /\ lo <= hi /\ hi <= e
    /\ DOMAIN T \subseteq HeaderAddresses
    /\ \A h \in DOMAIN T :
          /\ T[h].a \in {FREE, ALLOCATED}
          /\ T[h].size \in Nat /\ T[h].size >= 8 /\ T[h].size % 8 = 0
          /\ \/ h < lo /\ End(T, h) <= lo
             \/ hi <= h /\ End(T, h) <= e
          /\ End(T, h) \in DOMAIN T \cup {lo, e}
    /\ \A g, h \in DOMAIN T : g < h => End(T, g) <= h
    /\ \A x \in DOMAIN T \cup {lo, e} :
          x = get_firstblock \/ (x = hi /\ lo # hi) \/ \E g \in DOMAIN T : End(T, g) = x
    /\ get_firstblock \in DOMAIN T \cup {lo}
    /\ hi \in DOMAIN T \cup {e}

\* The word "x" follows a block of eight; the prologue is one.
FollowsBlock8(T, x) ==
    x = get_firstblock \/ (x - 8 \in DOMAIN T /\ T[x - 8].size = 8)

Follows8(T, x) == IF FollowsBlock8(T, x) THEN 1 ELSE 0

\* The tags of the blocks of T, in the words; P8 of the block after a hole is unknown.
Tags(m, T, lo, hi) ==
    /\ m.word[get_prologue].a = ALLOCATED /\ m.word[get_epilogue(m)].a = ALLOCATED
    /\ \A h \in DOMAIN T :
          /\ m.word[h].a = T[h].a
          /\ m.word[h].b8 = (IF T[h].size = 8 THEN 1 ELSE 0)
          /\ T[h].size # 8 =>
                /\ m.word[h].size = T[h].size
                /\ m.word[End(T, h) - 4].size = T[h].size
                /\ m.word[End(T, h) - 4].a = T[h].a
    /\ \A x \in DOMAIN T \cup {lo, get_epilogue(m)} :
          x # hi \/ lo = hi => m.word[x].p8 = Follows8(T, x)

Layout(m, T, lo, hi) ==
    m \in MemType /\ m.end <= HeapMax /\ Tiles(T, lo, hi, get_epilogue(m)) /\ Tags(m, T, lo, hi)

\* A layout without a hole
Whole(m, T) == Layout(m, T, get_epilogue(m), get_epilogue(m))

\* The layout T with a block more, and with blocks less
With(T, h, size, allocated) ==
    [x \in DOMAIN T \cup {h} |-> IF x = h THEN [size |-> size, a |-> allocated] ELSE T[x]]
Without(T, B) == [x \in DOMAIN T \ B |-> T[x]]

\* Headers are four above a multiple of eight, and what lies between is not a header.
LEMMA Headers8 ==
  /\ \A v \in HeaderAddresses : v \in Nat /\ v % 8 = 4 /\ v >= 12 /\ v < HeapMax
  /\ \A v \in HeaderAddresses, d \in Int :
        /\ d % 8 = 0 => (v + d) % 8 = 4 /\ (v + d) % 4 = 0
        /\ (v + 4) % 8 = 0 /\ (v + 4) % 4 = 0
  /\ HeapMax \in Nat
<1>1. HeapMax \in Nat
  BY HeapAssumption
<1>2. \A v \in HeaderAddresses : v \in Nat /\ v % 8 = 4 /\ v >= 12 /\ v < HeapMax
  BY <1>1 DEF HeaderAddresses, WordAddresses, is_header, get_firstblock, get_prologue
<1>3. \A v \in HeaderAddresses, d \in Int :
        /\ d % 8 = 0 => (v + d) % 8 = 4 /\ (v + d) % 4 = 0
        /\ (v + 4) % 8 = 0 /\ (v + 4) % 4 = 0
  BY <1>2
<1>. QED BY <1>1, <1>2, <1>3

\* A word belongs to one block at most.
LEMMA OneBlockPerWord ==
  ASSUME NEW T, NEW lo, NEW hi, NEW e, Tiles(T, lo, hi, e),
         NEW g \in DOMAIN T, NEW h \in DOMAIN T, NEW x \in Int,
         g <= x, x < End(T, g), h <= x, x < End(T, h)
  PROVE  g = h
<1>1. g \in Nat /\ h \in Nat
  BY Headers8 DEF Tiles
<1>2. T[g].size \in Nat /\ T[h].size \in Nat
  BY DEF Tiles
<1>3. (g < h => End(T, g) <= h) /\ (h < g => End(T, h) <= g)
  BY DEF Tiles
<1>. QED BY <1>1, <1>2, <1>3 DEF End

\* The words of a block are those of the heap: header, what follows it, footer.
LEMMA WordsOfBlock ==
  ASSUME NEW T, NEW lo, NEW hi, NEW e, Tiles(T, lo, hi, e), NEW h \in DOMAIN T
  PROVE  /\ h \in HeaderAddresses /\ h \in WordAddresses /\ h + 4 \in WordAddresses
         /\ End(T, h) \in HeaderAddresses /\ End(T, h) - 4 \in WordAddresses
         /\ End(T, h) - 4 \notin HeaderAddresses
         /\ T[h].size # 8 => h + 8 \in WordAddresses /\ T[h].size >= 16
         /\ T[h].size \in Nat /\ T[h].size >= 8 /\ T[h].size % 8 = 0
         /\ h < e /\ End(T, h) <= e
         /\ (h < lo /\ End(T, h) <= lo) \/ hi <= h
<1> DEFINE s == T[h].size
<1>1. /\ h \in HeaderAddresses /\ s \in Nat /\ s >= 8 /\ s % 8 = 0
      /\ lo \in Nat /\ hi \in Nat /\ h \in Nat
      /\ e \in HeaderAddresses /\ h < e /\ End(T, h) = h + s /\ h + s <= e
      /\ (h < lo /\ h + s <= lo) \/ hi <= h
  <2>1. /\ h \in HeaderAddresses /\ s \in Nat /\ s >= 8 /\ s % 8 = 0
        /\ lo \in HeaderAddresses /\ hi \in HeaderAddresses /\ e \in HeaderAddresses
        /\ lo <= hi /\ hi <= e
    BY DEF Tiles
  <2>2. (h < lo /\ End(T, h) <= lo) \/ (hi <= h /\ End(T, h) <= e)
    BY DEF Tiles
  <2>3. End(T, h) = h + s
    BY DEF End
  <2>4. lo \in Nat /\ hi \in Nat /\ h \in Nat /\ e \in Nat
    BY <2>1, Headers8
  <2> HIDE DEF s
  <2>. QED BY <2>1, <2>2, <2>3, <2>4
<1> HIDE DEF s
<1>2. /\ h \in Nat /\ h % 8 = 4 /\ h >= 12 /\ e \in Nat /\ e < HeapMax /\ HeapMax \in Nat
  BY <1>1, Headers8
<1>3. (h + s) % 8 = 4 /\ (h + s) % 4 = 0 /\ h + s < HeapMax
  BY <1>1, <1>2
<1>4. h + s \in HeaderAddresses
  BY <1>1, <1>2, <1>3 DEF HeaderAddresses, WordAddresses, is_header, get_firstblock, get_prologue
<1>5. h + s - 4 \in WordAddresses /\ h + s - 4 \notin HeaderAddresses
  BY <1>1, <1>2, <1>3 DEF HeaderAddresses, WordAddresses, is_header
<1>6. h + 4 \in WordAddresses /\ h \in WordAddresses
  BY <1>1, <1>2 DEF WordAddresses
<1>7. s # 8 => s >= 16 /\ h + 8 \in WordAddresses
  BY <1>1, <1>2 DEF WordAddresses
<1>. QED BY <1>1, <1>4, <1>5, <1>6, <1>7 DEF s

-----------------------------------------------------------------------------
(* Writing words                                                            *)

SameButWords(m, n) ==
    /\ n \in MemType
    /\ n.end = m.end /\ n.small_list = m.small_list /\ n.explicit_list = m.explicit_list
    /\ n.rbt = m.rbt /\ n.ok = m.ok

\* From m to n the word at "v" became "w".
Writes(m, n, v, w) ==
    /\ SameButWords(m, n)
    /\ n.word[v] = w
    /\ \A u \in WordAddresses \ {v} : n.word[u] = m.word[u]

\* One word is written.
LEMMA WriteWord ==
  ASSUME NEW m \in MemType, NEW v \in WordAddresses, NEW w \in WordType
  PROVE  Writes(m, [m EXCEPT !.word[v] = w], v, w)
<1> DEFINE n == [m EXCEPT !.word[v] = w]
<1>1. m.word \in [WordAddresses -> WordType]
  BY DEF MemType
<1>2. n.word = [m.word EXCEPT ![v] = w]
  BY DEF MemType
<1>3. n.word \in [WordAddresses -> WordType]
  BY <1>1, <1>2
<1>4. /\ n.end = m.end /\ n.small_list = m.small_list /\ n.explicit_list = m.explicit_list
      /\ n.rbt = m.rbt /\ n.ok = m.ok
  BY DEF MemType
<1>5. n \in MemType
  BY <1>2, <1>3 DEF MemType
<1>. QED BY <1>1, <1>2, <1>4, <1>5 DEF Writes, SameButWords

\* The fields that block.c writes
LEMMA WriteFields ==
  ASSUME NEW m \in MemType, NEW v \in WordAddresses
  PROVE  /\ \A x \in Marks :
               /\ Writes(m, [m EXCEPT !.word[v].a = x], v, [m.word[v] EXCEPT !.a = x])
               /\ Writes(m, [m EXCEPT !.word[v].p8 = x], v, [m.word[v] EXCEPT !.p8 = x])
         /\ \A x \in Nat :
               /\ Writes(m, [m EXCEPT !.word[v].size = x], v, [m.word[v] EXCEPT !.size = x])
               /\ \A b \in Marks :
                     Writes(m, [m EXCEPT !.word[v].b8 = b, !.word[v].size = x], v,
                            [m.word[v] EXCEPT !.b8 = b, !.size = x])
<1>1. m.word[v] \in WordType
  BY DEF MemType
<1>2. ASSUME NEW x \in Marks
      PROVE  /\ Writes(m, [m EXCEPT !.word[v].a = x], v, [m.word[v] EXCEPT !.a = x])
             /\ Writes(m, [m EXCEPT !.word[v].p8 = x], v, [m.word[v] EXCEPT !.p8 = x])
  <2>1. [m.word[v] EXCEPT !.a = x] \in WordType /\ [m.word[v] EXCEPT !.p8 = x] \in WordType
    BY <1>1 DEF WordType
  <2>2. /\ [m EXCEPT !.word[v].a = x] = [m EXCEPT !.word[v] = [m.word[v] EXCEPT !.a = x]]
        /\ [m EXCEPT !.word[v].p8 = x] = [m EXCEPT !.word[v] = [m.word[v] EXCEPT !.p8 = x]]
    OBVIOUS
  <2>. QED BY <2>1, <2>2, WriteWord
<1>3. ASSUME NEW x \in Nat
      PROVE  Writes(m, [m EXCEPT !.word[v].size = x], v, [m.word[v] EXCEPT !.size = x])
  <2>1. [m.word[v] EXCEPT !.size = x] \in WordType
    BY <1>1 DEF WordType
  <2>2. [m EXCEPT !.word[v].size = x] = [m EXCEPT !.word[v] = [m.word[v] EXCEPT !.size = x]]
    OBVIOUS
  <2>. QED BY <2>1, <2>2, WriteWord
<1>4. ASSUME NEW x \in Nat, NEW b \in Marks
      PROVE  Writes(m, [m EXCEPT !.word[v].b8 = b, !.word[v].size = x], v,
                    [m.word[v] EXCEPT !.b8 = b, !.size = x])
  <2>1. [m.word[v] EXCEPT !.b8 = b, !.size = x] \in WordType
    BY <1>1 DEF WordType
  <2>2. [m EXCEPT !.word[v].b8 = b, !.word[v].size = x]
          = [m EXCEPT !.word[v] = [m.word[v] EXCEPT !.b8 = b, !.size = x]]
    <3>1. m.word \in [WordAddresses -> WordType]
      BY DEF MemType
    <3>. QED BY <3>1 DEF MemType
  <2>. QED BY <2>1, <2>2, WriteWord
<1>. QED BY <1>2, <1>3, <1>4

-----------------------------------------------------------------------------
(* What a pair of tags writes                                               *)

\* The words after the tags of a block with a footer were written at "lo": the header
\* keeps its P8, the next header's is reset.
TaggedOrdinary(m, n, lo, allocated, size) ==
    /\ SameButWords(m, n)
    /\ n.word[lo].a = allocated /\ n.word[lo].b8 = 0 /\ n.word[lo].size = size
    /\ n.word[lo].p8 = m.word[lo].p8
    /\ n.word[lo + size - 4].a = allocated /\ n.word[lo + size - 4].size = size
    /\ n.word[lo + size] = [m.word[lo + size] EXCEPT !.p8 = 0]
    /\ \A v \in WordAddresses \ {lo, lo + size - 4, lo + size} : n.word[v] = m.word[v]

\* One of the two calls, on the tag at "v" with the next header at "x"
OneTagged(m, n, v, x, allocated, size) ==
    /\ SameButWords(m, n)
    /\ n.word[v] = [m.word[v] EXCEPT !.a = allocated, !.b8 = 0, !.size = size]
    /\ n.word[x] = [m.word[x] EXCEPT !.p8 = 0]
    /\ \A u \in WordAddresses \ {v, x} : n.word[u] = m.word[u]

\* The pair of calls on one tag of a block with a footer
LEMMA OneTag ==
  ASSUME NEW m \in MemType, NEW v \in WordAddresses, NEW x \in WordAddresses, v # x,
         NEW allocated \in {FREE, ALLOCATED}, NEW size \in Nat, size >= 16,
         TagWord(m, v) = v, x = (IF is_header(v) THEN v + size ELSE v + 4),
         x <= get_epilogue(m)
  PROVE  OneTagged(m, Tag(m, v, allocated, size), v, x, allocated, size)
<1> DEFINE s == set_allocated(m, v, allocated)
           t == [s EXCEPT !.word[v].b8 = 0, !.word[v].size = size]
           r == [t EXCEPT !.word[x].p8 = 0]
           n == Tag(m, v, allocated, size)
<1>1. m.word[v] \in WordType /\ m.word[x] \in WordType
  BY DEF MemType
<1>2. allocated \in Marks /\ 0 \in Marks
  BY DEF FREE, ALLOCATED, Marks
<1>3. Writes(m, s, v, [m.word[v] EXCEPT !.a = allocated])
  BY <1>2, WriteFields DEF set_allocated
<1>4. n = set_blocksize_ordinary(s, v, size)
  BY DEF Tag, set_blocksize
<1> HIDE DEF s
<1>5. s \in MemType
  BY <1>3 DEF Writes, SameButWords
<1>6. Writes(s, t, v, [s.word[v] EXCEPT !.b8 = 0, !.size = size])
  BY <1>2, <1>5, WriteFields
<1>7. n = r
  <2>1. set_blocksize_ordinary(s, v, size) = IF x <= get_epilogue(t) THEN r ELSE t
    <3>1. get_epilogue(t) = get_epilogue(s)
      BY <1>6 DEF Writes, SameButWords, get_epilogue
    <3>. QED BY <3>1 DEF set_blocksize_ordinary
  <2>2. x <= get_epilogue(t)
    BY <1>3, <1>6 DEF Writes, SameButWords, get_epilogue
  <2> HIDE DEF t, n
  <2>. QED BY <1>4, <2>1, <2>2
<1> HIDE DEF t
<1>8. t \in MemType
  BY <1>6 DEF Writes, SameButWords
<1>9. Writes(t, r, x, [t.word[x] EXCEPT !.p8 = 0])
  BY <1>2, <1>8, WriteFields
<1> HIDE DEF r, n
<1>10. SameButWords(m, n)
  BY <1>3, <1>7, <1>6, <1>9 DEF Writes, SameButWords
<1>11. n.word[v] = [m.word[v] EXCEPT !.a = allocated, !.b8 = 0, !.size = size]
  <2>1. s.word[v] = [m.word[v] EXCEPT !.a = allocated]
    BY <1>3 DEF Writes
  <2>2. t.word[v] = [s.word[v] EXCEPT !.b8 = 0, !.size = size]
    BY <1>6 DEF Writes
  <2>3. n.word[v] = t.word[v]
    BY <1>7, <1>9 DEF Writes
  <2>. QED BY <1>1, <2>1, <2>2, <2>3 DEF WordType
<1>12. n.word[x] = [m.word[x] EXCEPT !.p8 = 0]
  BY <1>3, <1>6, <1>7, <1>9 DEF Writes
<1>13. \A u \in WordAddresses \ {v, x} : n.word[u] = m.word[u]
  BY <1>3, <1>6, <1>7, <1>9 DEF Writes
<1>. QED BY <1>10, <1>11, <1>12, <1>13 DEF OneTagged, n

\* Both tags of a block with a footer
LEMMA TagOrdinary ==
  ASSUME NEW m \in MemType, NEW lo \in HeaderAddresses, NEW allocated \in {FREE, ALLOCATED},
         NEW size \in Nat, size >= 16,
         lo + size \in HeaderAddresses, lo + size - 4 \in WordAddresses,
         lo + size <= get_epilogue(m)
  PROVE  TaggedOrdinary(m, TagBlock(m, lo, allocated, size), lo, allocated, size)
<1> DEFINE f == lo + size - 4
           x == lo + size
           k == Tag(m, lo, allocated, size)
           n == Tag(k, f, allocated, size)
<1>1. /\ lo % 8 = 4 /\ x % 8 = 4 /\ f + 4 = x /\ f % 8 = 0
      /\ lo # f /\ lo # x /\ f # x
      /\ lo \in WordAddresses /\ x \in WordAddresses /\ f \in WordAddresses
  <2>1. lo \in Nat /\ lo % 8 = 4 /\ x \in Nat /\ x % 8 = 4
    BY Headers8
  <2>2. f + 4 = x /\ f % 8 = 0 /\ lo # f /\ lo # x /\ f # x
    BY <2>1
  <2>. QED BY <2>1, <2>2 DEF HeaderAddresses
<1>2. is_header(lo) /\ ~is_header(f)
  BY <1>1 DEF is_header
<1>3. /\ m.word[lo] \in WordType /\ m.word[f] \in WordType /\ m.word[x] \in WordType
  BY <1>1 DEF MemType
<1>4. OneTagged(m, k, lo, x, allocated, size)
  <2>1. TagWord(m, lo) = lo
    BY <1>2 DEF TagWord
  <2>2. x = (IF is_header(lo) THEN lo + size ELSE lo + 4)
    BY <1>2
  <2>3. x <= get_epilogue(m)
    OBVIOUS
  <2> HIDE DEF x
  <2>. QED BY <1>1, <2>1, <2>2, <2>3, OneTag
<1> HIDE DEF k
<1>5. k \in MemType /\ get_epilogue(k) = get_epilogue(m)
  BY <1>4 DEF OneTagged, SameButWords, get_epilogue
<1>6. OneTagged(k, n, f, x, allocated, size)
  <2>1. TagWord(k, f) = f
    <3>1. Word(k, f + 4).p8 = 0
      BY <1>1, <1>3, <1>4 DEF OneTagged, Word, WordType
    <3>. QED BY <3>1 DEF TagWord
  <2>2. x = (IF is_header(f) THEN f + size ELSE f + 4)
    BY <1>1, <1>2
  <2>3. x <= get_epilogue(k)
    BY <1>5
  <2> HIDE DEF x, f
  <2>. QED BY <1>1, <1>5, <2>1, <2>2, <2>3, OneTag
<1> HIDE DEF n, x, f
<1>7. SameButWords(m, n)
  BY <1>4, <1>6 DEF OneTagged, SameButWords
<1>8. n.word[lo] = [m.word[lo] EXCEPT !.a = allocated, !.b8 = 0, !.size = size]
  BY <1>1, <1>4, <1>6 DEF OneTagged
<1>9. n.word[f] = [m.word[f] EXCEPT !.a = allocated, !.b8 = 0, !.size = size]
  BY <1>1, <1>4, <1>6 DEF OneTagged
<1>10. n.word[x] = [m.word[x] EXCEPT !.p8 = 0]
  BY <1>1, <1>3, <1>4, <1>6 DEF OneTagged, WordType
<1>11. \A v \in WordAddresses \ {lo, f, x} : n.word[v] = m.word[v]
  BY <1>1, <1>4, <1>6 DEF OneTagged
<1>12. TagBlock(m, lo, allocated, size) = n
  BY DEF TagBlock, n, k, f
<1>. QED BY <1>3, <1>7, <1>8, <1>9, <1>10, <1>11, <1>12 DEF TaggedOrdinary, WordType, f, x

\* The words after the tags of a block of eight were written: its header says so, and the
\* next one; there is no footer, and a list may keep its pointers where they are.
TaggedEight(m, n, lo, allocated) ==
    /\ SameButWords(m, n)
    /\ n.word[lo].a = allocated /\ n.word[lo].b8 = 1 /\ n.word[lo].p8 = m.word[lo].p8
    /\ n.word[lo + 8] = [m.word[lo + 8] EXCEPT !.p8 = 1]
    /\ \A v \in WordAddresses \ {lo, lo + 8} : n.word[v] = m.word[v]

\* The pair of calls for a block of eight, from either of its two words
LEMMA OneTagEight ==
  ASSUME NEW m \in MemType, NEW lo \in WordAddresses, lo + 8 \in WordAddresses,
         NEW allocated \in {FREE, ALLOCATED},
         NEW v \in {lo, lo + 4}, TagWord(m, v) = lo,
         lo = (IF is_header(v) THEN v ELSE v - 4),
         NEW n, n = Tag(m, v, allocated, 8)
  PROVE  TaggedEight(m, n, lo, allocated)
<1> DEFINE x == lo + 8
           s == set_allocated(m, v, allocated)
           t == [s EXCEPT !.word[lo].b8 = 1,
                          !.word[lo].size = IF s.word[lo].a = FREE THEN @ ELSE 8]
           size == IF s.word[lo].a = FREE THEN s.word[lo].size ELSE 8
           r == [t EXCEPT !.word[x].p8 = 1]
<1>1. lo \in Nat /\ x # lo /\ x \in WordAddresses
  BY DEF WordAddresses
<1>2. allocated \in Marks /\ 1 \in Marks
  BY DEF FREE, ALLOCATED, Marks
<1>3. Writes(m, s, lo, [m.word[lo] EXCEPT !.a = allocated])
  BY <1>2, WriteFields DEF set_allocated
<1> HIDE DEF x
<1>4. n = r
  <2> HIDE DEF s
  <2>. QED BY <1>1 DEF Tag, s, set_blocksize, set_blocksize8, x
<1> HIDE DEF s
<1>5. s \in MemType /\ s.word[lo] \in WordType
  BY <1>3 DEF Writes, SameButWords, MemType
<1>6. Writes(s, t, lo, [s.word[lo] EXCEPT !.b8 = 1, !.size = size])
  <2>1. size \in Nat
    BY <1>5 DEF WordType
  <2>2. t = [s EXCEPT !.word[lo].b8 = 1, !.word[lo].size = size]
    BY <1>5 DEF MemType, WordType
  <2> HIDE DEF t, size
  <2>. QED BY <1>2, <1>5, <2>1, <2>2, WriteFields
<1> HIDE DEF t, size
<1>7. t \in MemType
  BY <1>6 DEF Writes, SameButWords
<1>8. Writes(t, r, x, [t.word[x] EXCEPT !.p8 = 1])
  BY <1>1, <1>2, <1>7, WriteFields
<1> HIDE DEF r
<1>9. SameButWords(m, n)
  BY <1>3, <1>4, <1>6, <1>8 DEF Writes, SameButWords
<1>10. n.word[lo].a = allocated /\ n.word[lo].b8 = 1 /\ n.word[lo].p8 = m.word[lo].p8
  <2>1. s.word[lo] = [m.word[lo] EXCEPT !.a = allocated] /\ m.word[lo] \in WordType
    BY <1>3 DEF Writes, MemType
  <2>2. t.word[lo] = [s.word[lo] EXCEPT !.b8 = 1, !.size = size]
    BY <1>6 DEF Writes
  <2>3. n.word[lo] = t.word[lo]
    BY <1>1, <1>4, <1>8 DEF Writes
  <2>. QED BY <1>5, <2>1, <2>2, <2>3 DEF WordType
<1>11. n.word[x] = [m.word[x] EXCEPT !.p8 = 1]
  BY <1>1, <1>3, <1>4, <1>6, <1>8 DEF Writes
<1>12. \A u \in WordAddresses \ {lo, x} : n.word[u] = m.word[u]
  BY <1>3, <1>4, <1>6, <1>8 DEF Writes
<1>. QED BY <1>9, <1>10, <1>11, <1>12 DEF TaggedEight, x

\* The tag of a block of eight, written twice
LEMMA TagEight ==
  ASSUME NEW m \in MemType, NEW lo \in HeaderAddresses, NEW allocated \in {FREE, ALLOCATED},
         lo + 8 \in HeaderAddresses
  PROVE  TaggedEight(m, TagBlock(m, lo, allocated, 8), lo, allocated)
<1> DEFINE k == Tag(m, lo, allocated, 8)
           n == Tag(k, lo + 4, allocated, 8)
<1>1. /\ lo \in Nat /\ lo % 8 = 4 /\ (lo + 4) % 8 = 0
      /\ lo \in WordAddresses /\ lo + 8 \in WordAddresses
  BY Headers8 DEF HeaderAddresses
<1>2. is_header(lo) /\ ~is_header(lo + 4)
  BY <1>1 DEF is_header
<1>3. TaggedEight(m, k, lo, allocated)
  <2>1. TagWord(m, lo) = lo
    BY <1>2 DEF TagWord
  <2>. QED BY <1>1, <1>2, <2>1, OneTagEight
<1> HIDE DEF k
<1>4. k \in MemType
  BY <1>3 DEF TaggedEight, SameButWords
<1>5. TaggedEight(k, n, lo, allocated)
  <2>1. Word(k, lo + 8).p8 = 1
    <3>1. m.word[lo + 8] \in WordType
      BY <1>1 DEF MemType
    <3>. QED BY <1>1, <1>3, <3>1 DEF TaggedEight, Word, WordType
  <2>2. TagWord(k, lo + 4) = lo /\ (lo + 4) - 4 = lo
    BY <1>1, <1>2, <2>1 DEF TagWord
  <2>. QED BY <1>1, <1>2, <1>4, <2>2, OneTagEight
<1>6. TagBlock(m, lo, allocated, 8) = n
  <2>1. lo + 8 - 4 = lo + 4
    BY <1>1
  <2>. QED BY <2>1 DEF TagBlock, n, k
<1> HIDE DEF n
<1>7. m.word[lo + 8] \in WordType
  BY <1>1 DEF MemType
<1>. QED BY <1>1, <1>3, <1>5, <1>6, <1>7 DEF TaggedEight, SameButWords, WordType

-----------------------------------------------------------------------------
(* Opening, filling and closing a hole                                      *)

\* The block "lo" fills the low end of a hole.
LEMMA TilesWith ==
  ASSUME NEW T, NEW lo, NEW hi, NEW e, Tiles(T, lo, hi, e),
         NEW a \in {FREE, ALLOCATED}, NEW size \in Nat, size >= 8, size % 8 = 0,
         lo + size <= hi
  PROVE  /\ Tiles(With(T, lo, size, a), lo + size, hi, e)
         /\ lo \notin DOMAIN T /\ lo + size \in HeaderAddresses
<1> DEFINE U == With(T, lo, size, a)
           x == lo + size
<1>1. /\ lo \in HeaderAddresses /\ hi \in HeaderAddresses /\ e \in HeaderAddresses
      /\ lo \in Nat /\ hi \in Nat /\ e \in Nat /\ hi <= e
  BY Headers8 DEF Tiles
<1>2. x \in HeaderAddresses /\ lo < x /\ x <= hi
  <2>1. x \in Nat /\ x % 8 = 4 /\ x % 4 = 0 /\ x >= 12 /\ x < HeapMax /\ HeapMax \in Nat
    BY <1>1, Headers8
  <2>. QED BY <1>1, <2>1 DEF HeaderAddresses, WordAddresses, is_header, get_firstblock, get_prologue
<1>3. \A h \in DOMAIN T : h \in Nat /\ T[h].size \in Nat /\ T[h].size >= 8 /\ End(T, h) \in Nat
  BY Headers8 DEF Tiles, End
<1>4. lo \notin DOMAIN T
  BY <1>1, <1>2, <1>3 DEF Tiles
<1>5. /\ DOMAIN U = DOMAIN T \cup {lo} /\ U[lo] = [size |-> size, a |-> a] /\ End(U, lo) = x
      /\ \A h \in DOMAIN T : U[h] = T[h] /\ End(U, h) = End(T, h) /\ h # lo
  BY <1>4 DEF With, End
<1> HIDE DEF U, x
<1>6. DOMAIN U \subseteq HeaderAddresses
  BY <1>1, <1>5 DEF Tiles
<1>7. ASSUME NEW h \in DOMAIN U
      PROVE  /\ U[h].a \in {FREE, ALLOCATED}
             /\ U[h].size \in Nat /\ U[h].size >= 8 /\ U[h].size % 8 = 0
             /\ \/ h < x /\ End(U, h) <= x
                \/ hi <= h /\ End(U, h) <= e
             /\ End(U, h) \in DOMAIN U \cup {x, e}
  <2>1. CASE h = lo
    BY <1>1, <1>2, <1>5, <2>1 DEF x
  <2>2. CASE h \in DOMAIN T
    <3>1. /\ T[h].a \in {FREE, ALLOCATED}
          /\ T[h].size \in Nat /\ T[h].size >= 8 /\ T[h].size % 8 = 0
          /\ \/ h < lo /\ End(T, h) <= lo
             \/ hi <= h /\ End(T, h) <= e
          /\ End(T, h) \in DOMAIN T \cup {lo, e}
      BY <2>2 DEF Tiles
    <3>2. (h < lo /\ End(T, h) <= lo) => (h < x /\ End(T, h) <= x)
      BY <1>1, <1>2, <1>3, <2>2 DEF x
    <3>. QED BY <1>5, <2>2, <3>1, <3>2
  <2>. QED BY <1>5, <2>1, <2>2
<1>8. ASSUME NEW g \in DOMAIN U, NEW h \in DOMAIN U, g < h
      PROVE  End(U, g) <= h
  <2>1. CASE g \in DOMAIN T /\ h \in DOMAIN T
    BY <1>5, <1>8, <2>1 DEF Tiles
  <2>2. CASE g = lo /\ h \in DOMAIN T
    <3>1. (h < lo /\ End(T, h) <= lo) \/ (hi <= h /\ End(T, h) <= e)
      BY <2>2 DEF Tiles
    <3>. QED BY <1>1, <1>2, <1>3, <1>5, <1>8, <2>2, <3>1 DEF x
  <2>3. CASE g \in DOMAIN T /\ h = lo
    <3>1. (g < lo /\ End(T, g) <= lo) \/ (hi <= g /\ End(T, g) <= e)
      BY <2>3 DEF Tiles
    <3>. QED BY <1>1, <1>2, <1>3, <1>5, <1>8, <2>3, <3>1 DEF x
  <2>4. CASE g = lo /\ h = lo
    BY <1>1, <1>8, <2>4
  <2>. QED BY <1>5, <2>1, <2>2, <2>3, <2>4
<1>9. ASSUME NEW y \in DOMAIN U \cup {x, e}
      PROVE  y = get_firstblock \/ (y = hi /\ x # hi) \/ \E g \in DOMAIN U : End(U, g) = y
  <2>1. CASE y = x
    BY <1>5, <2>1
  <2>2. CASE y # x
    <3>1. y = get_firstblock \/ (y = hi /\ lo # hi) \/ \E g \in DOMAIN T : End(T, g) = y
      BY <1>5, <2>2 DEF Tiles
    <3>. QED BY <1>5, <2>2, <3>1
  <2>. QED BY <2>1, <2>2
<1>10. get_firstblock \in DOMAIN U \cup {x} /\ hi \in DOMAIN U \cup {e}
  BY <1>5 DEF Tiles
<1>. QED BY <1>1, <1>2, <1>4, <1>6, <1>7, <1>8, <1>9, <1>10 DEF Tiles, U, x

\* The blocks from "lo" to before "hi"
Between(T, lo, hi) == {h \in DOMAIN T : lo <= h /\ h < hi}

\* Taking blocks that follow each other out leaves a hole.
LEMMA TilesWithout ==
  ASSUME NEW T, NEW e, Tiles(T, e, e, e),
         NEW lo \in DOMAIN T \cup {e}, NEW hi \in DOMAIN T \cup {e}, lo <= hi
  PROVE  Tiles(Without(T, Between(T, lo, hi)), lo, hi, e)
<1> DEFINE B == Between(T, lo, hi)
           U == Without(T, B)
<1>1. /\ lo \in HeaderAddresses /\ hi \in HeaderAddresses /\ e \in HeaderAddresses
      /\ lo \in Nat /\ hi \in Nat /\ e \in Nat /\ lo <= e /\ hi <= e
  <2>1. \A h \in DOMAIN T : h \in HeaderAddresses /\ h < e
    BY WordsOfBlock
  <2>2. e \in HeaderAddresses
    BY DEF Tiles
  <2>3. \A v \in HeaderAddresses : v \in Nat
    BY Headers8
  <2>4. \A v \in DOMAIN T \cup {e} : v \in HeaderAddresses /\ v \in Nat /\ v <= e
    BY <2>1, <2>2, <2>3
  <2>. QED BY <2>2, <2>4
<1>2. \A h \in DOMAIN T : /\ h \in Nat /\ T[h].size \in Nat /\ T[h].size >= 8 /\ End(T, h) \in Nat
                          /\ h < End(T, h) /\ End(T, h) <= e
  <2> TAKE h \in DOMAIN T
  <2>1. h \in HeaderAddresses /\ T[h].size \in Nat /\ T[h].size >= 8 /\ End(T, h) <= e
    BY WordsOfBlock
  <2>2. h \in Nat
    BY <2>1, Headers8
  <2>3. End(T, h) \in Nat /\ h < End(T, h)
    BY <2>1, <2>2 DEF End
  <2>. QED BY <2>1, <2>2, <2>3
<1>3. /\ DOMAIN U = {h \in DOMAIN T : h < lo \/ hi <= h}
      /\ \A h \in DOMAIN U : U[h] = T[h] /\ End(U, h) = End(T, h)
  BY <1>1, <1>2 DEF Without, Between, End
<1> HIDE DEF U
<1>4. \A h \in DOMAIN T : h < hi => End(T, h) <= hi
  BY <1>1, <1>2 DEF Tiles
<1>5. \A h \in DOMAIN T : h < lo => End(T, h) <= lo
  BY <1>1, <1>2 DEF Tiles
<1>6. ASSUME NEW h \in DOMAIN U
      PROVE  /\ U[h].a \in {FREE, ALLOCATED}
             /\ U[h].size \in Nat /\ U[h].size >= 8 /\ U[h].size % 8 = 0
             /\ \/ h < lo /\ End(U, h) <= lo
                \/ hi <= h /\ End(U, h) <= e
             /\ End(U, h) \in DOMAIN U \cup {lo, e}
  <2>1. h \in DOMAIN T /\ (h < lo \/ hi <= h)
    BY <1>3
  <2>2. /\ T[h].a \in {FREE, ALLOCATED}
        /\ T[h].size \in Nat /\ T[h].size >= 8 /\ T[h].size % 8 = 0
        /\ End(T, h) \in DOMAIN T \cup {e}
    BY <2>1 DEF Tiles
  <2>3. End(T, h) \in DOMAIN U \cup {lo, e}
    <3>1. End(T, h) \in Nat /\ (End(T, h) <= lo \/ hi <= End(T, h))
      BY <1>1, <1>2, <1>5, <2>1
    <3>2. End(T, h) < lo \/ End(T, h) = lo \/ hi <= End(T, h)
      BY <1>1, <3>1
    <3>. QED BY <1>3, <2>2, <3>2
  <2>4. (h < lo /\ End(T, h) <= lo) \/ (hi <= h /\ End(T, h) <= e)
    BY <1>2, <1>5, <2>1
  <2>. QED BY <1>3, <2>2, <2>3, <2>4
<1>7. \A g, h \in DOMAIN U : g < h => End(U, g) <= h
  BY <1>3 DEF Tiles
<1>8. ASSUME NEW y \in DOMAIN U \cup {lo, e}
      PROVE  y = get_firstblock \/ (y = hi /\ lo # hi) \/ \E g \in DOMAIN U : End(U, g) = y
  <2>1. y \in DOMAIN T \cup {e} /\ y \in Nat /\ (y <= lo \/ hi <= y)
    BY <1>1, <1>2, <1>3
  <2>2. y = get_firstblock \/ \E g \in DOMAIN T : End(T, g) = y
    BY <2>1 DEF Tiles
  <2>3. ASSUME NEW g \in DOMAIN T, End(T, g) = y, ~(y = hi /\ lo # hi)
        PROVE  g \in DOMAIN U
    <3>1. g < y
      BY <1>2, <2>3
    <3>2. CASE y <= lo
      BY <1>1, <1>2, <1>3, <2>1, <3>1, <3>2
    <3>3. CASE hi < y
      BY <1>1, <1>2, <1>3, <1>4, <2>1, <2>3, <3>3
    <3>4. CASE y = hi
      BY <1>1, <1>2, <1>3, <2>1, <2>3, <3>1, <3>4
    <3>. QED BY <1>1, <2>1, <3>2, <3>3, <3>4
  <2>. QED BY <1>3, <2>2, <2>3
<1>9. get_firstblock \in DOMAIN U \cup {lo}
  <2>1. get_firstblock \in DOMAIN T \cup {e} /\ get_firstblock <= lo /\ get_firstblock \in Nat
    BY <1>1, Headers8 DEF Tiles, HeaderAddresses, get_firstblock, get_prologue
  <2>. QED BY <1>1, <1>3, <2>1
<1>10. hi \in DOMAIN U \cup {e}
  BY <1>1, <1>3
<1>11. DOMAIN U \subseteq HeaderAddresses
  BY <1>3 DEF Tiles
<1>. QED BY <1>1, <1>6, <1>7, <1>8, <1>9, <1>10, <1>11 DEF Tiles, U

\* A hole of no words is none.
LEMMA TilesClose ==
  ASSUME NEW T, NEW hi, NEW e, Tiles(T, hi, hi, e)
  PROVE  Tiles(T, e, e, e)
<1>1. hi \in Nat /\ e \in Nat /\ e \in HeaderAddresses /\ hi <= e /\ hi \in DOMAIN T \cup {e}
  BY Headers8 DEF Tiles
<1>2. ASSUME NEW h \in DOMAIN T
      PROVE  h < e /\ End(T, h) <= e /\ End(T, h) \in DOMAIN T \cup {e}
  BY <1>1, WordsOfBlock DEF Tiles
<1>. QED BY <1>1, <1>2 DEF Tiles

\* When the heap grows, what is added joins the hole at its end.
LEMMA TilesGrow ==
  ASSUME NEW T, NEW lo, NEW e, Tiles(T, lo, e, e), NEW f \in HeaderAddresses, e < f
  PROVE  Tiles(T, lo, f, f)
<1>1. lo \in Nat /\ e \in Nat /\ f \in Nat /\ lo <= e /\ lo \in HeaderAddresses
  BY Headers8 DEF Tiles
<1>2. \A h \in DOMAIN T : h \in Nat /\ h < e /\ End(T, h) \in Nat /\ End(T, h) <= lo /\ h < lo
  <2> TAKE h \in DOMAIN T
  <2>1. h \in Nat /\ h < e /\ End(T, h) \in Nat
    BY WordsOfBlock, Headers8
  <2>2. (h < lo /\ End(T, h) <= lo) \/ e <= h
    BY WordsOfBlock
  <2>. QED BY <1>1, <2>1, <2>2
<1>3. ASSUME NEW h \in DOMAIN T
      PROVE  End(T, h) \in DOMAIN T \cup {lo, f}
  <2>1. End(T, h) \in DOMAIN T \cup {lo, e}
    BY DEF Tiles
  <2>2. End(T, h) = e => e = lo
    BY <1>1, <1>2
  <2>. QED BY <2>1, <2>2
<1>4. ASSUME NEW x \in DOMAIN T \cup {lo, f}
      PROVE  x = get_firstblock \/ (x = f /\ lo # f) \/ \E g \in DOMAIN T : End(T, g) = x
  <2>1. CASE x = f
    BY <1>1, <2>1
  <2>2. CASE x \in DOMAIN T \cup {lo}
    <3>1. x = get_firstblock \/ (x = e /\ lo # e) \/ \E g \in DOMAIN T : End(T, g) = x
      BY <2>2 DEF Tiles
    <3>2. ~(x = e /\ lo # e)
      BY <1>1, <1>2, <2>2
    <3>. QED BY <3>1, <3>2
  <2>. QED BY <2>1, <2>2
<1>5. /\ \A h \in DOMAIN T : /\ T[h].a \in {FREE, ALLOCATED}
                             /\ T[h].size \in Nat /\ T[h].size >= 8 /\ T[h].size % 8 = 0
      /\ \A g, h \in DOMAIN T : g < h => End(T, g) <= h
      /\ DOMAIN T \subseteq HeaderAddresses
      /\ get_firstblock \in DOMAIN T \cup {lo}
  BY DEF Tiles
<1>6. lo <= f /\ f <= f
  BY <1>1
<1>. QED BY <1>1, <1>2, <1>3, <1>4, <1>5, <1>6 DEF Tiles

\* What a pair of tags leaves: the block's own two words, P8 of the header behind it, and
\* nothing outside of the block.
Tagged(m, n, lo, a, size) ==
    /\ SameButWords(m, n)
    /\ n.word[lo].a = a /\ n.word[lo].p8 = m.word[lo].p8
    /\ n.word[lo].b8 = (IF size = 8 THEN 1 ELSE 0)
    /\ size # 8 => /\ n.word[lo].size = size
                   /\ n.word[lo + size - 4].size = size /\ n.word[lo + size - 4].a = a
    /\ n.word[lo + size] = [m.word[lo + size] EXCEPT !.p8 = IF size = 8 THEN 1 ELSE 0]
    /\ \A v \in WordAddresses : v < lo \/ lo + size < v => n.word[v] = m.word[v]

\* TagBlock writes the tags of a block of any size.
LEMMA TagBlockTags ==
  ASSUME NEW m \in MemType, NEW lo \in HeaderAddresses, NEW a \in {FREE, ALLOCATED},
         NEW size \in Nat, size >= 8, size % 8 = 0,
         lo + size \in HeaderAddresses, lo + size <= get_epilogue(m)
  PROVE  Tagged(m, TagBlock(m, lo, a, size), lo, a, size)
<1> DEFINE n == TagBlock(m, lo, a, size)
<1>1. lo \in Nat /\ lo % 8 = 4 /\ lo + size \in Nat /\ lo + size < HeapMax /\ HeapMax \in Nat
  BY Headers8
<1>2. CASE size = 8
  <2>1. TaggedEight(m, n, lo, a)
    BY <1>2, TagEight
  <2> HIDE DEF n
  <2>2. \A v \in WordAddresses : v < lo \/ lo + size < v => n.word[v] = m.word[v]
    <3>1. \A v \in WordAddresses : v < lo \/ lo + size < v => v \in WordAddresses \ {lo, lo + 8}
      BY <1>1, <1>2 DEF WordAddresses
    <3>. QED BY <2>1, <3>1 DEF TaggedEight
  <2>3. Tagged(m, n, lo, a, size)
    BY <1>2, <2>1, <2>2 DEF TaggedEight, Tagged
  <2>. QED BY <2>3 DEF n
<1>3. CASE size # 8
  <2>1. size >= 16
    BY <1>3
  <2>2. lo + size - 4 \in WordAddresses
    BY <1>1, <2>1 DEF WordAddresses
  <2>3. TaggedOrdinary(m, n, lo, a, size)
    BY <2>1, <2>2, TagOrdinary
  <2> HIDE DEF n
  <2>4. \A v \in WordAddresses : v < lo \/ lo + size < v => n.word[v] = m.word[v]
    <3>1. \A v \in WordAddresses : v < lo \/ lo + size < v =>
                v \in WordAddresses \ {lo, lo + size - 4, lo + size}
      BY <1>1, <2>1 DEF WordAddresses
    <3>. QED BY <2>3, <3>1 DEF TaggedOrdinary
  <2>5. Tagged(m, n, lo, a, size)
    BY <1>3, <2>3, <2>4 DEF TaggedOrdinary, Tagged
  <2>. QED BY <2>5 DEF n
<1>. QED BY <1>2, <1>3

\* P8 in a layout with a block more
LEMMA FollowsWith ==
  ASSUME NEW T, NEW lo, NEW hi, NEW e, Tiles(T, lo, hi, e), NEW a,
         NEW size \in Nat, size >= 8, size % 8 = 0, lo + size <= hi
  PROVE  /\ Follows8(With(T, lo, size, a), lo + size) = IF size = 8 THEN 1 ELSE 0
         /\ \A y \in DOMAIN T \cup {lo, e} :
               y # lo + size => Follows8(With(T, lo, size, a), y) = Follows8(T, y)
<1> DEFINE U == With(T, lo, size, a)
<1>1. lo \in Nat /\ hi \in Nat /\ e \in Nat /\ lo >= 12
  BY Headers8 DEF Tiles
<1>2. \A h \in DOMAIN T : h \in Nat /\ (h < lo \/ hi <= h)
  BY WordsOfBlock, Headers8
<1>3. lo \notin DOMAIN T
  BY <1>1, <1>2
<1>4. /\ DOMAIN U = DOMAIN T \cup {lo} /\ U[lo].size = size
      /\ \A h \in DOMAIN T : U[h] = T[h]
  BY <1>3 DEF With
<1> HIDE DEF U
<1>5. FollowsBlock8(U, lo + size) <=> size = 8
  <2>1. get_firstblock # lo + size
    BY <1>1 DEF get_firstblock, get_prologue
  <2>2. size = 8 => lo + size - 8 = lo
    BY <1>1
  <2>3. size # 8 => lo + size - 8 \notin DOMAIN U
    <3> SUFFICES ASSUME size # 8 PROVE lo + size - 8 \notin DOMAIN U
      OBVIOUS
    <3> DEFINE v == lo + size - 8
    <3>1. size >= 16
      OBVIOUS
    <3>2. lo < v /\ v < hi /\ v \in Int
      BY <1>1, <3>1
    <3> HIDE DEF v
    <3>3. v \notin DOMAIN T /\ v # lo
      BY <1>1, <1>2, <3>2
    <3>. QED BY <1>4, <3>3 DEF v
  <2> DEFINE x == lo + size
             v == x - 8
  <2>4. FollowsBlock8(U, x) <=> x = get_firstblock \/ (v \in DOMAIN U /\ U[v].size = 8)
    BY DEF FollowsBlock8
  <2>5. x # get_firstblock /\ (size = 8 => v = lo) /\ (size # 8 => v \notin DOMAIN U)
    <3>1. v = lo + size - 8
      BY <1>1
    <3> HIDE DEF v
    <3>. QED BY <2>1, <2>2, <2>3, <3>1
  <2> HIDE DEF v
  <2>6. (v \in DOMAIN U /\ U[v].size = 8) <=> size = 8
    BY <1>4, <2>5
  <2> HIDE DEF x
  <2>7. FollowsBlock8(U, x) <=> size = 8
    BY <2>4, <2>5, <2>6
  <2>. QED BY <2>7 DEF x
<1>6. ASSUME NEW y \in DOMAIN T \cup {lo, e}, y # lo + size
      PROVE  FollowsBlock8(U, y) <=> FollowsBlock8(T, y)
  <2>1. y \in Nat
    BY <1>1, <1>2
  <2>2. y - 8 = lo => size # 8
    BY <1>1, <1>6, <2>1
  <2>. QED BY <1>3, <1>4, <2>2 DEF FollowsBlock8
<1>. QED BY <1>5, <1>6 DEF Follows8, U

\* The tags of a block at the low end of a hole make a layout with that block.
LEMMA FillHole ==
  ASSUME NEW m, NEW T, NEW lo, NEW hi, Layout(m, T, lo, hi),
         NEW a \in {FREE, ALLOCATED}, NEW size \in Nat, size >= 8, size % 8 = 0,
         lo + size <= hi, NEW n, Tagged(m, n, lo, a, size)
  PROVE  Layout(n, With(T, lo, size, a), lo + size, hi)
<1> DEFINE U == With(T, lo, size, a)
           x == lo + size
           e == get_epilogue(m)
<1>1. Tiles(T, lo, hi, e) /\ Tags(m, T, lo, hi) /\ m \in MemType
  BY DEF Layout
<1>2. Tiles(U, x, hi, e) /\ lo \notin DOMAIN T /\ x \in HeaderAddresses
  BY <1>1, TilesWith
<1>3. n \in MemType /\ n.end <= HeapMax /\ get_epilogue(n) = e
  BY DEF Tagged, SameButWords, get_epilogue, Layout
<1>4. /\ lo \in Nat /\ hi \in Nat /\ e \in Nat /\ lo >= 12 /\ lo # hi /\ x \in Nat /\ lo < x
      /\ x <= hi /\ hi <= e /\ e \in WordAddresses /\ lo \in WordAddresses /\ x \in WordAddresses
  <2>1. lo \in HeaderAddresses /\ hi \in HeaderAddresses /\ e \in HeaderAddresses /\ hi <= e
    BY <1>1 DEF Tiles
  <2>2. \A v \in HeaderAddresses : v \in Nat /\ v >= 12 /\ v \in WordAddresses
    BY Headers8 DEF HeaderAddresses
  <2>3. lo \in Nat /\ lo < x /\ x <= hi
    BY <2>1, <2>2
  <2> HIDE DEF x, e
  <2>. QED BY <1>2, <2>1, <2>2, <2>3
<1>5. /\ DOMAIN U = DOMAIN T \cup {lo} /\ U[lo] = [size |-> size, a |-> a] /\ End(U, lo) = x
      /\ \A h \in DOMAIN T : U[h] = T[h] /\ End(U, h) = End(T, h)
  BY <1>2 DEF With, End
<1>6. /\ Follows8(U, x) = IF size = 8 THEN 1 ELSE 0
      /\ \A y \in DOMAIN T \cup {lo, e} : y # x => Follows8(U, y) = Follows8(T, y)
  BY <1>1, FollowsWith
<1>7. /\ n.word[x] = [m.word[x] EXCEPT !.p8 = IF size = 8 THEN 1 ELSE 0]
      /\ \A v \in WordAddresses : v < lo \/ x < v => n.word[v] = m.word[v]
  BY DEF Tagged
<1>8. m.word[x] \in WordType
  BY <1>1, <1>4 DEF MemType
<1>9. \A h \in DOMAIN T : /\ h \in WordAddresses /\ End(T, h) - 4 \in WordAddresses
                          /\ h \in Nat /\ End(T, h) \in Nat /\ h + 8 <= End(T, h)
                          /\ (h < lo /\ End(T, h) <= lo) \/ x <= h
  <2> TAKE h \in DOMAIN T
  <2>1. /\ h \in WordAddresses /\ End(T, h) - 4 \in WordAddresses /\ h \in HeaderAddresses
        /\ (h < lo /\ End(T, h) <= lo) \/ hi <= h
        /\ T[h].size \in Nat /\ T[h].size >= 8
    BY <1>1, WordsOfBlock
  <2>2. h \in Nat
    BY <2>1, Headers8
  <2>. QED BY <1>4, <2>1, <2>2 DEF End
<1> HIDE DEF U, x, e
<1>10. n.word[get_prologue].a = ALLOCATED /\ n.word[e].a = ALLOCATED
  <2>1. m.word[get_prologue].a = ALLOCATED /\ m.word[e].a = ALLOCATED
    BY <1>1 DEF Tags, e
  <2>2. get_prologue \in WordAddresses /\ get_prologue < lo
    BY <1>4, Headers8 DEF WordAddresses, get_prologue
  <2>3. e = x \/ x < e
    BY <1>4
  <2>. QED BY <1>4, <1>7, <1>8, <2>1, <2>2, <2>3 DEF WordType
<1>11. ASSUME NEW h \in DOMAIN U
       PROVE  /\ n.word[h].a = U[h].a
              /\ n.word[h].b8 = (IF U[h].size = 8 THEN 1 ELSE 0)
              /\ U[h].size # 8 =>
                    /\ n.word[h].size = U[h].size
                    /\ n.word[End(U, h) - 4].size = U[h].size
                    /\ n.word[End(U, h) - 4].a = U[h].a
  <2>1. CASE h = lo
    <3>1. /\ n.word[lo].a = a /\ n.word[lo].b8 = (IF size = 8 THEN 1 ELSE 0)
          /\ size # 8 => /\ n.word[lo].size = size
                         /\ n.word[x - 4].size = size /\ n.word[x - 4].a = a
      <4>1. n.word[lo].a = a /\ n.word[lo].b8 = (IF size = 8 THEN 1 ELSE 0)
        BY DEF Tagged
      <4>2. ASSUME size # 8
            PROVE  /\ n.word[lo].size = size
                   /\ n.word[lo + size - 4].size = size /\ n.word[lo + size - 4].a = a
        BY <4>2 DEF Tagged
      <4>3. x - 4 = lo + size - 4
        BY <1>4 DEF x
      <4>. QED BY <4>1, <4>2, <4>3
    <3>2. U[h].size = size /\ U[h].a = a /\ End(U, h) = x
      BY <1>5, <2>1
    <3>. QED BY <2>1, <3>1, <3>2
  <2>2. CASE h \in DOMAIN T
    <3>1. /\ m.word[h].a = T[h].a
          /\ m.word[h].b8 = (IF T[h].size = 8 THEN 1 ELSE 0)
          /\ T[h].size # 8 =>
                /\ m.word[h].size = T[h].size
                /\ m.word[End(T, h) - 4].size = T[h].size
                /\ m.word[End(T, h) - 4].a = T[h].a
      BY <1>1, <2>2 DEF Tags
    <3>2. /\ n.word[h].a = m.word[h].a /\ n.word[h].b8 = m.word[h].b8
          /\ n.word[h].size = m.word[h].size
      <4>1. h < lo \/ x < h \/ h = x
        BY <1>4, <1>9, <2>2
      <4>. QED BY <1>7, <1>8, <1>9, <2>2, <4>1 DEF WordType
    <3>3. n.word[End(T, h) - 4] = m.word[End(T, h) - 4]
      <4>1. End(T, h) - 4 < lo \/ x < End(T, h) - 4
        BY <1>4, <1>9, <2>2
      <4>. QED BY <1>7, <1>9, <2>2, <4>1
    <3>4. U[h] = T[h] /\ End(U, h) = End(T, h)
      BY <1>5, <2>2
    <3>. QED BY <3>1, <3>2, <3>3, <3>4
  <2>. QED BY <1>5, <2>1, <2>2
<1>12. ASSUME NEW y \in DOMAIN U \cup {x, e}, y # hi \/ x = hi
       PROVE  n.word[y].p8 = Follows8(U, y)
  <2>1. CASE y = x
    BY <1>6, <1>7, <1>8, <2>1 DEF WordType
  <2>2. CASE y = lo /\ y # x
    <3>1. m.word[lo].p8 = Follows8(T, lo)
      BY <1>1, <1>4 DEF Tags
    <3>2. n.word[lo].p8 = m.word[lo].p8
      BY DEF Tagged
    <3>. QED BY <1>6, <2>2, <3>1, <3>2
  <2>3. CASE y \in DOMAIN T \cup {e} /\ y # x
    <3>1. y # hi
      BY <1>12, <2>3
    <3>2. m.word[y].p8 = Follows8(T, y)
      BY <1>1, <2>3, <3>1 DEF Tags, e
    <3>3. n.word[y] = m.word[y]
      <4>1. y \in WordAddresses /\ (y < lo \/ x < y)
        BY <1>4, <1>9, <2>3
      <4>. QED BY <1>7, <4>1
    <3>. QED BY <1>6, <2>3, <3>2, <3>3
  <2>. QED BY <1>5, <2>1, <2>2, <2>3
<1>13. Tags(n, U, x, hi)
  BY <1>3, <1>10, <1>11, <1>12 DEF Tags
<1>. QED BY <1>2, <1>3, <1>13 DEF Layout, U, x

\* The words of a whole layout, without some of its blocks
LEMMA LayoutWithout ==
  ASSUME NEW m, NEW T, Whole(m, T),
         NEW lo \in DOMAIN T \cup {get_epilogue(m)}, NEW hi \in DOMAIN T \cup {get_epilogue(m)},
         lo <= hi
  PROVE  Layout(m, Without(T, Between(T, lo, hi)), lo, hi)
<1> DEFINE e == get_epilogue(m)
           U == Without(T, Between(T, lo, hi))
<1>1. Tiles(T, e, e, e) /\ Tags(m, T, e, e)
  BY DEF Whole, Layout
<1>2. Tiles(U, lo, hi, e)
  BY <1>1, TilesWithout
<1>3. /\ DOMAIN U \subseteq DOMAIN T
      /\ \A h \in DOMAIN U : U[h] = T[h] /\ End(U, h) = End(T, h)
      /\ \A h \in DOMAIN T : h \notin DOMAIN U => lo <= h /\ h < hi
  BY DEF Without, Between, End
<1> HIDE DEF U
<1>4. ASSUME NEW y \in DOMAIN U \cup {lo, e}, y # hi \/ lo = hi
      PROVE  m.word[y].p8 = Follows8(U, y)
  <2>1. y \in DOMAIN T \cup {e}
    BY <1>3
  <2>2. m.word[y].p8 = Follows8(T, y)
    BY <1>1, <2>1 DEF Tags, e
  <2>3. ASSUME y - 8 \in DOMAIN T, T[y - 8].size = 8
        PROVE  y - 8 \in DOMAIN U
    <3>1. SUFFICES ASSUME lo <= y - 8, y - 8 < hi PROVE FALSE
      BY <1>3, <2>3
    <3>2. y \in HeaderAddresses /\ lo \in HeaderAddresses /\ hi \in HeaderAddresses
      BY <1>1, <2>1 DEF Tiles, e
    <3>3. y \in Nat /\ lo \in Nat /\ hi \in Nat
      BY <3>2, Headers8
    <3>4. End(T, y - 8) = y
      BY <2>3, <3>3 DEF End
    <3>5. y <= hi
      <4>1. CASE hi \in DOMAIN T
        BY <1>1, <2>3, <3>1, <3>4, <4>1 DEF Tiles
      <4>2. CASE hi = e
        BY <1>1, <2>3, <3>4, <4>2, WordsOfBlock
      <4>. QED BY <4>1, <4>2 DEF e
    <3>6. y # hi
      BY <1>4, <3>1, <3>3
    <3>7. y \in DOMAIN U \/ y = e
      BY <1>4, <3>1, <3>3
    <3>8. (y < lo \/ hi <= y) \/ y = e
      <4>1. y \in DOMAIN U => (y < lo \/ hi <= y)
        BY <1>2, WordsOfBlock
      <4>. QED BY <3>7, <4>1
    <3>9. hi <= e
      BY <1>2 DEF Tiles
    <3>. QED BY <3>1, <3>3, <3>5, <3>6, <3>8, <3>9
  <2>4. FollowsBlock8(T, y) <=> FollowsBlock8(U, y)
    BY <1>3, <2>3 DEF FollowsBlock8
  <2>. QED BY <2>2, <2>4 DEF Follows8
<1>5. Tags(m, U, lo, hi)
  BY <1>1, <1>3, <1>4 DEF Tags, e
<1>. QED BY <1>2, <1>5 DEF Whole, Layout, U, e

\* A layout whose hole is full is whole.
LEMMA LayoutClose ==
  ASSUME NEW m, NEW T, NEW hi, Layout(m, T, hi, hi)
  PROVE  Whole(m, T)
<1> DEFINE e == get_epilogue(m)
<1>1. Tiles(T, hi, hi, e) /\ Tags(m, T, hi, hi)
  BY DEF Layout
<1>2. Tiles(T, e, e, e)
  BY <1>1, TilesClose
<1>3. Tags(m, T, e, e)
  BY <1>1 DEF Tags, e
<1>. QED BY <1>2, <1>3 DEF Whole, Layout

-----------------------------------------------------------------------------
(* Reading the tags                                                         *)

\* What a block's own tags say
LEMMA ReadBlock ==
  ASSUME NEW m, NEW T, NEW lo, NEW hi, Layout(m, T, lo, hi), NEW h \in DOMAIN T
  PROVE  /\ is_header(h) /\ h \in WordAddresses /\ h # get_epilogue(m)
         /\ get_blocksize(m, h) = T[h].size /\ get_allocated(m, h) = T[h].a
         /\ get_nextheader(m, h) = End(T, h) /\ get_footer(m, h) = End(T, h) - 4
<1>1. Tiles(T, lo, hi, get_epilogue(m)) /\ Tags(m, T, lo, hi)
  BY DEF Layout
<1>2. /\ h \in HeaderAddresses /\ h \in WordAddresses /\ h < get_epilogue(m)
      /\ T[h].size \in Nat
  BY <1>1, WordsOfBlock
<1>3. is_header(h) /\ h \in Nat /\ h # get_epilogue(m)
  BY <1>2, Headers8 DEF is_header
<1>4. /\ m.word[h].a = T[h].a /\ m.word[h].b8 = (IF T[h].size = 8 THEN 1 ELSE 0)
      /\ T[h].size # 8 => m.word[h].size = T[h].size
  BY <1>1 DEF Tags
<1>5. Word(m, h) = m.word[h]
  BY <1>2 DEF Word
<1>6. is_block8(m, h) <=> T[h].size = 8
  BY <1>3, <1>4, <1>5 DEF is_block8
<1>7. get_blocksize(m, h) = T[h].size
  BY <1>4, <1>5, <1>6 DEF get_blocksize
<1>8. get_allocated(m, h) = T[h].a
  BY <1>3, <1>4, <1>5 DEF get_allocated, TagWord
<1>9. get_nextheader(m, h) = End(T, h) /\ get_footer(m, h) = End(T, h) - 4
  BY <1>2, <1>3, <1>7 DEF get_nextheader, get_footer, End
<1>. QED BY <1>2, <1>3, <1>7, <1>8, <1>9

\* The prologue and the epilogue count as allocated.
LEMMA ReadFences ==
  ASSUME NEW m, NEW T, NEW lo, NEW hi, Layout(m, T, lo, hi)
  PROVE  /\ get_allocated(m, get_prologue) = ALLOCATED
         /\ get_allocated(m, get_epilogue(m)) = ALLOCATED
         /\ get_epilogue(m) \in HeaderAddresses
<1>1. /\ get_epilogue(m) \in HeaderAddresses
      /\ m.word[get_prologue].a = ALLOCATED /\ m.word[get_epilogue(m)].a = ALLOCATED
  BY DEF Layout, Tiles, Tags
<1>2. /\ get_prologue \in WordAddresses /\ is_header(get_prologue)
      /\ get_epilogue(m) \in WordAddresses /\ is_header(get_epilogue(m))
  BY <1>1, Headers8 DEF HeaderAddresses, WordAddresses, get_prologue, is_header
<1>. QED BY <1>1, <1>2 DEF get_allocated, TagWord, Word

\* The block below: by P8, or by the footer
LEMMA ReadPrevious ==
  ASSUME NEW m, NEW T, Whole(m, T)
  PROVE  /\ \A g \in DOMAIN T : get_prevheader(m, End(T, g)) = g
         /\ get_firstblock \in DOMAIN T \cup {get_epilogue(m)}
         /\ get_prevheader(m, get_firstblock) = get_prologue
<1> DEFINE e == get_epilogue(m)
<1>1. Tiles(T, e, e, e) /\ Tags(m, T, e, e)
  BY DEF Whole, Layout
<1>2. \A x \in DOMAIN T \cup {e} : x \in WordAddresses /\ x \in Nat /\ x >= 12
  <2>1. DOMAIN T \cup {e} \subseteq HeaderAddresses
    BY <1>1 DEF Tiles
  <2>. QED BY <2>1, Headers8 DEF HeaderAddresses
<1>3. \A x \in DOMAIN T \cup {e} : Word(m, x).p8 = Follows8(T, x)
  BY <1>1, <1>2 DEF Word, Tags, e
<1>4. ASSUME NEW g \in DOMAIN T
      PROVE  get_prevheader(m, End(T, g)) = g
  <2> DEFINE x == End(T, g)
  <2>1. x \in DOMAIN T \cup {e}
    BY <1>1 DEF Tiles
  <2>2. g \in Nat /\ x \in Nat /\ g >= 12 /\ x = g + T[g].size /\ T[g].size \in Nat /\ T[g].size >= 8
        /\ T[g].size % 8 = 0
    BY <1>1, <1>2, <2>1, WordsOfBlock DEF End
  <2> HIDE DEF x
  <2>3. CASE T[g].size = 8
    <3>1. x - 8 = g
      BY <2>2, <2>3
    <3>2. Word(m, x).p8 = 1
      BY <1>3, <2>1, <2>3, <3>1 DEF Follows8, FollowsBlock8
    <3>. QED BY <3>1, <3>2 DEF get_prevheader, x
  <2>4. CASE T[g].size # 8
    <3>1. ASSUME x - 8 \in DOMAIN T, T[x - 8].size = 8 PROVE FALSE
      <4>1. End(T, x - 8) = x
        BY <2>2, <3>1 DEF End
      <4>2. (g < x - 8 => x <= x - 8) /\ (x - 8 < g => x <= g)
        BY <1>1, <3>1, <4>1 DEF Tiles, x
      <4>. QED BY <2>2, <2>4, <3>1, <4>2
    <3>2. x # get_firstblock
      BY <2>2 DEF get_firstblock, get_prologue
    <3>3. Word(m, x).p8 = 0
      BY <1>3, <2>1, <3>1, <3>2 DEF Follows8, FollowsBlock8
    <3>4. x - 4 \in WordAddresses /\ m.word[x - 4].size = T[g].size
      BY <1>1, <2>4, WordsOfBlock DEF Tags, x
    <3>5. ~is_header(x - 4) /\ (x - 4) + 4 = x
      <4>1. g % 8 = 4
        BY <1>1, WordsOfBlock, Headers8
      <4> DEFINE s == T[g].size
      <4>2. g \in Nat /\ s \in Nat /\ s % 8 = 0 /\ x = g + s /\ s >= 8
        BY <2>2
      <4> HIDE DEF s
      <4>3. (x - 4) % 8 = 0 /\ (x - 4) + 4 = x
        BY <4>1, <4>2
      <4>. QED BY <4>3 DEF is_header
    <3>6. get_blocksize(m, x - 4) = T[g].size
      BY <3>3, <3>4, <3>5 DEF get_blocksize, is_block8, Word
    <3>. QED BY <2>2, <3>3, <3>6 DEF get_prevheader, x
  <2>. QED BY <2>3, <2>4
<1>5. get_firstblock \in DOMAIN T \cup {e}
  BY <1>1 DEF Tiles
<1>6. get_prevheader(m, get_firstblock) = get_prologue
  <2>1. Word(m, get_firstblock).p8 = 1
    BY <1>3, <1>5 DEF Follows8, FollowsBlock8
  <2>. QED BY <2>1 DEF get_prevheader, get_firstblock, get_prologue
<1>. QED BY <1>4, <1>5, <1>6

\* Something is below every header but the first, and below the epilogue the last block.
LEMMA ReadLast ==
  ASSUME NEW m, NEW T, Whole(m, T)
  PROVE  /\ \A x \in DOMAIN T \cup {get_epilogue(m)} :
               x = get_firstblock \/ \E g \in DOMAIN T : End(T, g) = x
         /\ get_epilogue(m) # get_firstblock =>
               /\ get_lastblock(m) \in DOMAIN T
               /\ End(T, get_lastblock(m)) = get_epilogue(m)
               /\ \A h \in DOMAIN T : IsBlock(m, h)
<1> DEFINE e == get_epilogue(m)
<1>1. Tiles(T, e, e, e)
  BY DEF Whole, Layout
<1>2. \A x \in DOMAIN T \cup {e} : x = get_firstblock \/ \E g \in DOMAIN T : End(T, g) = x
  BY <1>1 DEF Tiles
<1>3. ASSUME e # get_firstblock
      PROVE  /\ get_lastblock(m) \in DOMAIN T
             /\ End(T, get_lastblock(m)) = e
             /\ \A h \in DOMAIN T : IsBlock(m, h)
  <2>1. PICK g \in DOMAIN T : End(T, g) = e
    BY <1>2, <1>3
  <2>2. get_lastblock(m) = g
    BY <2>1, ReadPrevious DEF get_lastblock
  <2>3. ASSUME NEW h \in DOMAIN T
        PROVE  IsBlock(m, h)
    <3>1. /\ h \in HeaderAddresses /\ g \in HeaderAddresses /\ e \in HeaderAddresses
          /\ h < e /\ End(T, h) <= e
      BY <1>1, WordsOfBlock DEF Tiles
    <3>2. h \in Nat /\ g \in Nat /\ e \in Nat /\ get_firstblock <= h /\ is_header(h)
      BY <3>1, Headers8 DEF HeaderAddresses
    <3>3. g < h => e <= h
      BY <1>1, <2>1 DEF Tiles
    <3>4. h <= g
      BY <3>1, <3>2, <3>3
    <3>. QED BY <2>2, <3>2, <3>4 DEF IsBlock
  <2>. QED BY <2>1, <2>2, <2>3
<1>. QED BY <1>2, <1>3

-----------------------------------------------------------------------------
(* Rings                                                                    *)

\* "w" lists S in the order of a walk from "hd" along N.
Order(w, S, hd, cnt, N) ==
    /\ w \in [0 .. cnt - 1 -> S]
    /\ \A i, j \in 0 .. cnt - 1 : w[i] = w[j] => i = j
    /\ \A x \in S : \E i \in 0 .. cnt - 1 : w[i] = x
    /\ cnt > 0 => w[0] = hd
    /\ \A i \in 0 .. cnt - 1 : N[w[i]] = w[IF i = cnt - 1 THEN 0 ELSE i + 1]

\* S is one ring of "cnt" nodes along N, and P is N backwards.
Ring(S, hd, cnt, N, P) ==
    /\ cnt \in Nat
    /\ \E w : Order(w, S, hd, cnt, N)
    /\ \A x \in S : P[N[x]] = x

\* A ring depends on the links of its own nodes only.
LEMMA RingSame ==
  ASSUME NEW S, NEW hd, NEW cnt, NEW N, NEW P, Ring(S, hd, cnt, N, P),
         NEW M, NEW Q, \A x \in S : M[x] = N[x] /\ Q[x] = P[x]
  PROVE  Ring(S, hd, cnt, M, Q)
<1>1. PICK w : Order(w, S, hd, cnt, N)
  BY DEF Ring
<1>2. cnt \in Nat /\ \A x \in S : P[N[x]] = x
  BY DEF Ring
<1>3. \A i \in 0 .. cnt - 1 : w[i] \in S
  BY <1>1 DEF Order
<1>4. Order(w, S, hd, cnt, M)
  BY <1>1, <1>3 DEF Order
<1>5. \A x \in S : N[x] \in S
  <2> TAKE x \in S
  <2>1. PICK i \in 0 .. cnt - 1 : w[i] = x
    BY <1>1 DEF Order
  <2>2. N[x] = w[IF i = cnt - 1 THEN 0 ELSE i + 1]
    BY <1>1, <2>1 DEF Order
  <2>3. (IF i = cnt - 1 THEN 0 ELSE i + 1) \in 0 .. cnt - 1
    BY <1>2
  <2>. QED BY <1>3, <2>2, <2>3
<1>6. \A x \in S : Q[M[x]] = x
  BY <1>2, <1>5
<1>. QED BY <1>2, <1>4, <1>6 DEF Ring

\* What a ring that is not empty has
LEMMA RingFacts ==
  ASSUME NEW S, NEW hd, NEW cnt, NEW N, NEW P, Ring(S, hd, cnt, N, P)
  PROVE  /\ cnt \in Nat
         /\ cnt = 0 <=> S = {}
         /\ cnt > 0 => hd \in S
         /\ \A x \in S : N[x] \in S /\ P[x] \in S /\ N[P[x]] = x /\ P[N[x]] = x
         /\ cnt = 1 => S = {hd} /\ N[hd] = hd
         /\ cnt > 1 => \A x \in S : N[x] # x /\ P[x] # x
<1>1. PICK w : Order(w, S, hd, cnt, N)
  BY DEF Ring
<1>2. cnt \in Nat /\ \A x \in S : P[N[x]] = x
  BY DEF Ring
<1>3. \A i \in 0 .. cnt - 1 : w[i] \in S /\ N[w[i]] = w[IF i = cnt - 1 THEN 0 ELSE i + 1]
  BY <1>1 DEF Order
<1>4. cnt = 0 <=> S = {}
  <2>1. cnt = 0 => 0 .. cnt - 1 = {}
    BY <1>2
  <2>2. cnt # 0 => 0 \in 0 .. cnt - 1
    BY <1>2
  <2>3. \A x \in S : \E i \in 0 .. cnt - 1 : w[i] = x
    BY <1>1 DEF Order
  <2>. QED BY <1>3, <2>1, <2>2, <2>3
<1>5. cnt > 0 => hd \in S
  BY <1>1, <1>2, <1>3 DEF Order
<1>6. ASSUME NEW x \in S
      PROVE  /\ N[x] \in S /\ P[x] \in S /\ N[P[x]] = x /\ P[N[x]] = x
             /\ cnt > 1 => N[x] # x /\ P[x] # x
  <2>1. PICK i \in 0 .. cnt - 1 : w[i] = x
    BY <1>1 DEF Order
  <2> DEFINE j == IF i = cnt - 1 THEN 0 ELSE i + 1
             k == IF i = 0 THEN cnt - 1 ELSE i - 1
  <2>2. j \in 0 .. cnt - 1 /\ k \in 0 .. cnt - 1 /\ (cnt > 1 => j # i /\ k # i)
    BY <1>2
  <2>3. N[x] = w[j] /\ N[w[k]] = x
    <3>1. N[w[k]] = w[IF k = cnt - 1 THEN 0 ELSE k + 1]
      BY <1>3, <2>2
    <3>2. (IF k = cnt - 1 THEN 0 ELSE k + 1) = i
      BY <1>2
    <3> HIDE DEF k
    <3>. QED BY <1>3, <2>1, <3>1, <3>2
  <2> HIDE DEF j, k
  <2>4. P[x] = w[k] /\ P[N[x]] = x
    BY <1>2, <1>3, <2>2, <2>3
  <2>5. \A a, b \in 0 .. cnt - 1 : w[a] = w[b] => a = b
    BY <1>1 DEF Order
  <2>. QED BY <1>3, <2>1, <2>2, <2>3, <2>4, <2>5
<1>7. cnt = 1 => S = {hd} /\ N[hd] = hd
  <2> SUFFICES ASSUME cnt = 1 PROVE S = {hd} /\ N[hd] = hd
    OBVIOUS
  <2>1. \A x \in S : \E i \in 0 .. cnt - 1 : w[i] = x
    BY <1>1 DEF Order
  <2>2. w[0] = hd
    BY <1>1 DEF Order
  <2>3. \A i \in 0 .. cnt - 1 : i = 0
    OBVIOUS
  <2>4. S = {hd}
    BY <1>5, <2>1, <2>2, <2>3
  <2>. QED BY <1>6, <2>4
<1>. QED BY <1>2, <1>4, <1>5, <1>6, <1>7

\* The empty ring
LEMMA RingOfNone ==
  ASSUME NEW hd, NEW N, NEW P
  PROVE  Ring({}, hd, 0, N, P)
<1> DEFINE w == [i \in {} |-> hd]
<1>1. 0 .. 0 - 1 = {} /\ w \in [{} -> {}]
  OBVIOUS
<1>2. Order(w, {}, hd, 0, N)
  BY <1>1 DEF Order
<1>. QED BY <1>2 DEF Ring

\* The first node of a ring
LEMMA RingOfOne ==
  ASSUME NEW x, NEW N, NEW P, N[x] = x, P[x] = x
  PROVE  Ring({x}, x, 1, N, P)
<1> DEFINE w == [i \in 0 .. 0 |-> x]
<1>1. Order(w, {x}, x, 1, N)
  BY DEF Order
<1>. QED BY <1>1 DEF Ring

\* A node between the head of a ring and the last one, which is then the head
LEMMA RingInsert ==
  ASSUME NEW S, NEW hd, NEW cnt, NEW N, NEW P, Ring(S, hd, cnt, N, P), cnt > 0,
         NEW x, x \notin S, NEW M, NEW Q,
         M[x] = hd, M[P[hd]] = x, \A y \in S \ {P[hd]} : M[y] = N[y],
         Q[hd] = x, Q[x] = P[hd], \A y \in S \ {hd} : Q[y] = P[y]
  PROVE  Ring(S \cup {x}, x, cnt + 1, M, Q)
<1>1. PICK w : Order(w, S, hd, cnt, N)
  BY DEF Ring
<1>2. /\ cnt \in Nat /\ hd \in S
      /\ \A y \in S : N[y] \in S /\ P[y] \in S /\ N[P[y]] = y /\ P[N[y]] = y
  BY RingFacts
<1>3. /\ \A i \in 0 .. cnt - 1 : w[i] \in S /\ N[w[i]] = w[IF i = cnt - 1 THEN 0 ELSE i + 1]
      /\ \A i, j \in 0 .. cnt - 1 : w[i] = w[j] => i = j
      /\ \A y \in S : \E i \in 0 .. cnt - 1 : w[i] = y
      /\ w[0] = hd
  BY <1>1, <1>2 DEF Order
<1> DEFINE v == [i \in 0 .. cnt |-> IF i = 0 THEN x ELSE w[i - 1]]
<1>4. /\ v[0] = x /\ \A i \in 1 .. cnt : v[i] = w[i - 1] /\ i - 1 \in 0 .. cnt - 1
      /\ \A i \in 0 .. cnt : i = 0 \/ i \in 1 .. cnt
  BY <1>2
<1>5. v \in [0 .. cnt -> S \cup {x}]
  <2>1. \A i \in 0 .. cnt : (IF i = 0 THEN x ELSE w[i - 1]) \in S \cup {x}
    BY <1>2, <1>3
  <2>. QED BY <2>1
<1> HIDE DEF v
<1>6. \A i, j \in 0 .. cnt : v[i] = v[j] => i = j
  <2> TAKE i, j \in 0 .. cnt
  <2>1. CASE i = 0 \/ j = 0
    BY <1>3, <1>4, <2>1
  <2>2. CASE i # 0 /\ j # 0
    <3>1. v[i] = v[j] => i - 1 = j - 1
      BY <1>3, <1>4, <2>2
    <3>. QED BY <1>2, <3>1
  <2>. QED BY <2>1, <2>2
<1>7. \A y \in S \cup {x} : \E i \in 0 .. cnt : v[i] = y
  <2>1. ASSUME NEW y \in S
        PROVE  \E i \in 0 .. cnt : v[i] = y
    <3>1. PICK i \in 0 .. cnt - 1 : w[i] = y
      BY <1>3
    <3>2. i + 1 \in 1 .. cnt /\ i + 1 \in 0 .. cnt /\ (i + 1) - 1 = i
      BY <1>2
    <3>. QED BY <1>4, <3>1, <3>2
  <2>2. 0 \in 0 .. cnt
    BY <1>2
  <2>. QED BY <1>4, <2>1, <2>2
<1>8. P[hd] = w[cnt - 1]
  <2>1. cnt - 1 \in 0 .. cnt - 1
    BY <1>2
  <2>. QED BY <1>2, <1>3, <2>1
<1>9. ASSUME NEW i \in 0 .. cnt
      PROVE  M[v[i]] = v[IF i = cnt THEN 0 ELSE i + 1]
  <2>1. CASE i = 0
    <3>1. v[1] = hd
      BY <1>2, <1>3, <1>4
    <3>. QED BY <1>2, <1>4, <2>1, <3>1
  <2>2. CASE i = cnt /\ i # 0
    <3>1. v[i] = P[hd]
      BY <1>4, <1>8, <2>2
    <3>. QED BY <1>4, <2>2, <3>1
  <2>3. CASE i # cnt /\ i # 0
    <3>1. /\ i - 1 \in 0 .. cnt - 1 /\ i - 1 # cnt - 1 /\ (i - 1) + 1 = i /\ i + 1 \in 1 .. cnt
          /\ (i + 1) - 1 = i /\ cnt - 1 \in 0 .. cnt - 1
      BY <1>2, <2>3
    <3>2. v[i] = w[i - 1] /\ v[i + 1] = w[i] /\ N[w[i - 1]] = w[i]
      BY <1>3, <1>4, <2>3, <3>1
    <3>3. v[i] \in S /\ v[i] # P[hd]
      BY <1>3, <1>8, <3>1, <3>2
    <3>. QED BY <2>3, <3>2, <3>3
  <2>. QED BY <2>1, <2>2, <2>3
<1>10. (cnt + 1) - 1 = cnt /\ cnt + 1 \in Nat
  BY <1>2
<1>11. Order(v, S \cup {x}, x, cnt + 1, M)
  BY <1>4, <1>5, <1>6, <1>7, <1>9, <1>10 DEF Order
<1>12. ASSUME NEW y \in S \cup {x}
       PROVE  Q[M[y]] = y
  <2>1. CASE y = x
    BY <2>1
  <2>2. CASE y = P[hd]
    BY <2>2
  <2>3. CASE y \in S /\ y # P[hd]
    <3>1. N[y] # hd
      BY <1>2, <2>3
    <3>. QED BY <1>2, <2>3, <3>1
  <2>. QED BY <2>1, <2>2, <2>3
<1>. QED BY <1>10, <1>11, <1>12 DEF Ring

\* A node leaves a ring that has others.
LEMMA RingDelete ==
  ASSUME NEW S, NEW hd, NEW cnt, NEW N, NEW P, Ring(S, hd, cnt, N, P), cnt > 1,
         NEW x \in S, NEW M, NEW Q,
         M[P[x]] = N[x], \A y \in S \ {x, P[x]} : M[y] = N[y],
         Q[N[x]] = P[x], \A y \in S \ {x, N[x]} : Q[y] = P[y]
  PROVE  Ring(S \ {x}, IF hd = x THEN N[x] ELSE hd, cnt - 1, M, Q)
<1>1. PICK w : Order(w, S, hd, cnt, N)
  BY DEF Ring
<1>2. /\ cnt \in Nat /\ hd \in S
      /\ \A y \in S : /\ N[y] \in S /\ P[y] \in S /\ N[P[y]] = y /\ P[N[y]] = y
                      /\ N[y] # y /\ P[y] # y
  BY RingFacts
<1>3. /\ \A i \in 0 .. cnt - 1 : w[i] \in S /\ N[w[i]] = w[IF i = cnt - 1 THEN 0 ELSE i + 1]
      /\ \A i, j \in 0 .. cnt - 1 : w[i] = w[j] => i = j
      /\ \A y \in S : \E i \in 0 .. cnt - 1 : w[i] = y
      /\ w[0] = hd
  BY <1>1, <1>2 DEF Order
<1>4. PICK k \in 0 .. cnt - 1 : w[k] = x
  BY <1>3
<1> DEFINE v == [i \in 0 .. cnt - 2 |-> IF i < k THEN w[i] ELSE w[i + 1]]
           at(i) == IF i < k THEN i ELSE i + 1
<1>5. \A i \in 0 .. cnt - 2 : v[i] = w[at(i)] /\ at(i) \in 0 .. cnt - 1 /\ at(i) # k
  BY <1>2
<1>6. \A i \in 0 .. cnt - 2 : w[at(i)] \in S \ {x}
  BY <1>3, <1>4, <1>5
<1>7. v \in [0 .. cnt - 2 -> S \ {x}]
  <2>1. \A i \in 0 .. cnt - 2 : (IF i < k THEN w[i] ELSE w[i + 1]) \in S \ {x}
    BY <1>6
  <2>. QED BY <2>1
<1> HIDE DEF v
<1>8. \A i, j \in 0 .. cnt - 2 : v[i] = v[j] => i = j
  <2> TAKE i, j \in 0 .. cnt - 2
  <2>1. at(i) = at(j) => i = j
    BY <1>2
  <2> HIDE DEF at
  <2>. QED BY <1>3, <1>5, <2>1
<1>9. ASSUME NEW y \in S \ {x}
      PROVE  \E i \in 0 .. cnt - 2 : v[i] = y
  <2>1. PICK j \in 0 .. cnt - 1 : w[j] = y
    BY <1>3
  <2>2. j # k
    BY <1>4, <2>1
  <2>3. \E i \in 0 .. cnt - 2 : at(i) = j
    <3>1. CASE j < k
      <4>1. j \in 0 .. cnt - 2 /\ at(j) = j
        BY <1>2, <3>1
      <4>. QED BY <4>1
    <3>2. CASE j > k
      <4>1. j - 1 \in 0 .. cnt - 2 /\ at(j - 1) = j
        BY <1>2, <3>2
      <4>. QED BY <4>1
    <3>. QED BY <2>2, <3>1, <3>2
  <2> HIDE DEF at
  <2>. QED BY <1>5, <2>1, <2>3
<1> DEFINE before == IF k = 0 THEN cnt - 1 ELSE k - 1
           after == IF k = cnt - 1 THEN 0 ELSE k + 1
<1>10. P[x] = w[before] /\ N[x] = w[after] /\ before \in 0 .. cnt - 1 /\ after \in 0 .. cnt - 1
  <2>1. before \in 0 .. cnt - 1 /\ after \in 0 .. cnt - 1
    BY <1>2
  <2>2. (IF before = cnt - 1 THEN 0 ELSE before + 1) = k
    BY <1>2
  <2>3. N[w[before]] = w[k] /\ N[x] = w[after]
    <3> HIDE DEF before
    <3>. QED BY <1>3, <1>4, <2>1, <2>2
  <2> HIDE DEF before, after
  <2>. QED BY <1>2, <1>3, <1>4, <2>1, <2>3
<1>11. v[0] = IF hd = x THEN N[x] ELSE hd
  <2>1. 0 \in 0 .. cnt - 2 /\ 0 \in 0 .. cnt - 1
    BY <1>2
  <2>2. hd = x <=> k = 0
    BY <1>3, <1>4, <2>1
  <2>3. CASE k = 0
    <3>1. at(0) = 1 /\ after = 1
      BY <1>2, <2>3
    <3> HIDE DEF at, after
    <3>. QED BY <1>5, <1>10, <2>1, <2>2, <2>3, <3>1
  <2>4. CASE k # 0
    <3>1. at(0) = 0
      BY <2>4
    <3> HIDE DEF at, after
    <3>. QED BY <1>3, <1>5, <2>1, <2>2, <2>4, <3>1
  <2>. QED BY <2>3, <2>4
<1>12. ASSUME NEW i \in 0 .. cnt - 2
       PROVE  M[v[i]] = v[IF i = cnt - 2 THEN 0 ELSE i + 1]
  <2> DEFINE j == IF i = cnt - 2 THEN 0 ELSE i + 1
             a == at(i)
             b == IF a = cnt - 1 THEN 0 ELSE a + 1
  <2>1. j \in 0 .. cnt - 2 /\ a \in 0 .. cnt - 1 /\ a # k /\ v[i] = w[a] /\ v[j] = w[at(j)]
    <3>1. j \in 0 .. cnt - 2
      BY <1>2
    <3> HIDE DEF j, at
    <3>. QED BY <1>5, <3>1 DEF a
  <2>2. CASE a = before
    <3>1. at(j) = after
      BY <1>2, <2>2
    <3> HIDE DEF at, j, a, b, before, after
    <3>2. M[v[i]] = v[j]
      BY <1>10, <2>1, <2>2, <3>1
    <3>. QED BY <3>2 DEF j
  <2>3. CASE a # before
    <3>1. at(j) = b
      BY <1>2, <2>3
    <3> HIDE DEF at
    <3>2. N[w[a]] = w[b]
      BY <1>3, <2>1
    <3> HIDE DEF j, a, b, before, after
    <3>3. w[a] \in S /\ w[a] # x /\ w[a] # P[x]
      BY <1>3, <1>4, <1>10, <2>1, <2>3
    <3>4. M[v[i]] = v[j]
      BY <2>1, <3>1, <3>2, <3>3
    <3>. QED BY <3>4 DEF j
  <2>. QED BY <2>2, <2>3
<1>13. (cnt - 1) - 1 = cnt - 2 /\ cnt - 1 \in Nat /\ cnt - 1 > 0
  BY <1>2
<1> HIDE DEF at, before, after
<1>14. Order(v, S \ {x}, IF hd = x THEN N[x] ELSE hd, cnt - 1, M)
  BY <1>7, <1>8, <1>9, <1>11, <1>12, <1>13 DEF Order
<1>15. ASSUME NEW y \in S \ {x}
       PROVE  Q[M[y]] = y
  <2>1. CASE y = P[x]
    BY <2>1
  <2>2. CASE y # P[x]
    <3>1. N[y] # x /\ N[y] # N[x]
      BY <1>2, <2>2
    <3>. QED BY <1>2, <2>2, <3>1
  <2>. QED BY <2>1, <2>2
<1>. QED BY <1>13, <1>14, <1>15 DEF Ring

-----------------------------------------------------------------------------
(* Writing inside free blocks                                               *)

\* An assert that holds changes nothing.
LEMMA AssertHolds ==
  ASSUME NEW m \in MemType, m.ok, NEW c, c
  PROVE  Asserting(m, c) = m
<1>1. (m.ok /\ c) = m.ok
  OBVIOUS
<1>. QED BY <1>1 DEF Asserting, MemType

\* A word of a block is a tag of no other block.
LEMMA Inside ==
  ASSUME NEW T, NEW e, Tiles(T, e, e, e), NEW b \in DOMAIN T, NEW u \in Int, b <= u, u < End(T, b)
  PROVE  /\ u # e /\ u # get_prologue
         /\ \A h \in DOMAIN T : (u = h \/ u = End(T, h) - 4) => h = b
<1>1. /\ b \in HeaderAddresses /\ End(T, b) <= e /\ End(T, b) \in HeaderAddresses
      /\ e \in HeaderAddresses
  BY WordsOfBlock DEF Tiles
<1>2. b \in Nat /\ b >= 12 /\ End(T, b) \in Nat /\ e \in Nat
  BY <1>1, Headers8
<1>3. u # e /\ u # get_prologue
  BY <1>1, <1>2 DEF get_prologue
<1>4. ASSUME NEW h \in DOMAIN T, u = h \/ u = End(T, h) - 4
      PROVE  h = b
  <2>1. h \in HeaderAddresses /\ T[h].size \in Nat /\ T[h].size >= 8
    BY WordsOfBlock
  <2>2. h \in Nat
    BY <2>1, Headers8
  <2>3. h <= u /\ u < End(T, h)
    BY <1>4, <2>1, <2>2 DEF End
  <2>. QED BY <2>3, OneBlockPerWord
<1>. QED BY <1>3, <1>4

\* A layout depends on the tags only.
LEMMA WholeSame ==
  ASSUME NEW m, NEW T, Whole(m, T), NEW n \in MemType, n.end = m.end,
         n.word[get_prologue].a = m.word[get_prologue].a,
         \A y \in DOMAIN T \cup {get_epilogue(m)} :
             /\ n.word[y].a = m.word[y].a /\ n.word[y].p8 = m.word[y].p8,
         \A h \in DOMAIN T :
             /\ n.word[h].b8 = m.word[h].b8
             /\ T[h].size # 8 => /\ n.word[h].size = m.word[h].size
                                 /\ n.word[End(T, h) - 4].size = m.word[End(T, h) - 4].size
                                 /\ n.word[End(T, h) - 4].a = m.word[End(T, h) - 4].a
  PROVE  Whole(n, T)
<1> DEFINE e == get_epilogue(m)
<1>1. Tiles(T, e, e, e) /\ Tags(m, T, e, e) /\ m.end <= HeapMax
  BY DEF Whole, Layout
<1>2. get_epilogue(n) = e
  BY DEF get_epilogue
<1>3. Tags(n, T, e, e)
  BY <1>1, <1>2 DEF Tags, e
<1>. QED BY <1>1, <1>2, <1>3 DEF Whole, Layout

Free(T) == {h \in DOMAIN T : T[h].a = FREE}
FreeOf(T, size) == {h \in Free(T) : T[h].size = size}
FreeLarge(T) == {h \in Free(T) : T[h].size >= 24}

\* Nothing but words of the blocks B of T changed.
Elsewhere(m, n, T, B) ==
    \A v \in WordAddresses : (\A b \in B : v < b \/ End(T, b) <= v) => n.word[v] = m.word[v]

\* A step that changed words of the blocks B of T, and a list perhaps
Relinked(m, n, T, B) ==
    Whole(n, T) /\ n.end = m.end /\ n.rbt = m.rbt /\ n.ok /\ Elsewhere(m, n, T, B)

\* Two such steps are one.
LEMMA RelinkedTwice ==
  ASSUME NEW m, NEW n, NEW k, NEW T, NEW B, Relinked(m, n, T, B), Relinked(n, k, T, B)
  PROVE  Relinked(m, k, T, B)
BY DEF Relinked, Elsewhere

\* The pointers of the list of blocks of eight
Next8(m, T) == [h \in FreeOf(T, 8) |-> get_nextfree_block8(m, h)]
Prev8(m, T) == [h \in FreeOf(T, 8) |-> get_prevfree_block8(m, h)]
Links8(m, n, T, hd, cnt, N, P) ==
    /\ Relinked(m, n, T, FreeOf(T, 8)) /\ n.explicit_list = m.explicit_list
    /\ n.small_list = [head |-> hd, count |-> cnt] /\ Next8(n, T) = N /\ Prev8(n, T) = P

\* A write of one word of a free block that leaves the tags
LEMMA WriteInside ==
  ASSUME NEW m, NEW T, Whole(m, T), m.ok, NEW b \in DOMAIN T, NEW u \in WordAddresses,
         b <= u, u < End(T, b),
         NEW w \in WordType, NEW n, Writes(m, n, u, w),
         u = b => w.a = m.word[u].a /\ w.p8 = m.word[u].p8 /\ w.b8 = m.word[u].b8,
         T[b].size = 8 \/ (u # b /\ u # End(T, b) - 4),
         NEW B, b \in B
  PROVE  Relinked(m, n, T, B)
<1> DEFINE e == get_epilogue(m)
<1>1. Tiles(T, e, e, e)
  BY DEF Whole, Layout
<1>2. u \in Int
  BY DEF WordAddresses
<1>3. /\ u # e /\ u # get_prologue
      /\ \A h \in DOMAIN T : (u = h \/ u = End(T, h) - 4) => h = b
  BY <1>1, <1>2, Inside
<1>4. n \in MemType /\ n.end = m.end /\ n.rbt = m.rbt /\ n.ok /\ n.word[u] = w
  BY DEF Writes, SameButWords
<1>5. \A v \in WordAddresses : v # u => n.word[v] = m.word[v]
  BY DEF Writes
<1>6. get_prologue \in WordAddresses /\ e \in WordAddresses
  <2>1. e \in HeaderAddresses
    BY <1>1 DEF Tiles
  <2>. QED BY <2>1, Headers8 DEF HeaderAddresses, WordAddresses, get_prologue
<1>7. n.word[get_prologue] = m.word[get_prologue] /\ n.word[e] = m.word[e]
  BY <1>3, <1>5, <1>6
<1>8. ASSUME NEW h \in DOMAIN T
      PROVE  /\ n.word[h].a = m.word[h].a /\ n.word[h].p8 = m.word[h].p8
             /\ n.word[h].b8 = m.word[h].b8
             /\ T[h].size # 8 => /\ n.word[h].size = m.word[h].size
                                 /\ n.word[End(T, h) - 4] = m.word[End(T, h) - 4]
  <2>1. h \in WordAddresses /\ End(T, h) - 4 \in WordAddresses
    BY <1>1, WordsOfBlock
  <2>2. CASE h = b
    <3>1. /\ n.word[h].a = m.word[h].a /\ n.word[h].p8 = m.word[h].p8
          /\ n.word[h].b8 = m.word[h].b8
      BY <1>4, <1>5, <2>1, <2>2
    <3>. QED BY <1>5, <2>1, <2>2, <3>1
  <2>3. CASE h # b
    <3>1. n.word[h] = m.word[h] /\ n.word[End(T, h) - 4] = m.word[End(T, h) - 4]
      BY <1>3, <1>5, <2>1, <2>3
    <3>. QED BY <3>1
  <2>. QED BY <2>2, <2>3
<1>9. Whole(n, T)
  BY <1>4, <1>7, <1>8, WholeSame DEF e
<1>10. Elsewhere(m, n, T, B)
  <2> SUFFICES ASSUME NEW v \in WordAddresses, \A c \in B : v < c \/ End(T, c) <= v
               PROVE  n.word[v] = m.word[v]
    BY DEF Elsewhere
  <2>1. b \in Nat /\ End(T, b) \in Nat
    <3>1. b \in HeaderAddresses /\ End(T, b) \in HeaderAddresses
      BY <1>1, WordsOfBlock
    <3>. QED BY <3>1, Headers8
  <2>2. v # u
    BY <1>2, <2>1
  <2>. QED BY <1>5, <2>2
<1>. QED BY <1>4, <1>9, <1>10 DEF Relinked

-----------------------------------------------------------------------------
(* The list of blocks of eight                                              *)

\* A free block of eight, its two words and the pointers in them
LEMMA Free8Words ==
  ASSUME NEW m, NEW T, Whole(m, T), NEW h \in FreeOf(T, 8)
  PROVE  /\ h \in HeaderAddresses /\ h \in Nat /\ h % 8 = 4 /\ h >= 12
         /\ h \in WordAddresses /\ h + 4 \in WordAddresses /\ h \in DOMAIN T /\ End(T, h) = h + 8
         /\ get_prevfree_block8(m, h) = 4 + m.word[h].size
         /\ get_nextfree_block8(m, h) = 4 + m.word[h + 4].size
         /\ IsFreeHeader(m, h) /\ IsBlock(m, h) /\ get_blocksize(m, h) = 8
<1>1. h \in DOMAIN T /\ T[h].size = 8 /\ T[h].a = FREE
  BY DEF FreeOf, Free
<1>2. Tiles(T, get_epilogue(m), get_epilogue(m), get_epilogue(m))
  BY DEF Whole, Layout
<1>3. h \in HeaderAddresses /\ h \in WordAddresses /\ h + 4 \in WordAddresses /\ h < get_epilogue(m)
  BY <1>1, <1>2, WordsOfBlock
<1>4. h \in Nat /\ h % 8 = 4 /\ h >= 12
  BY <1>3, Headers8
<1>5. get_epilogue(m) # get_firstblock
  BY <1>3, <1>4 DEF HeaderAddresses, get_firstblock, get_prologue
<1>6. IsBlock(m, h) /\ is_header(h) /\ get_blocksize(m, h) = 8 /\ get_allocated(m, h) = FREE
  BY <1>1, <1>5, ReadLast, ReadBlock DEF Whole
<1>. QED BY <1>1, <1>3, <1>4, <1>6
         DEF End, Word, get_prevfree_block8, get_nextfree_block8, IsFreeHeader

\* Before any step
LEMMA Links8Start ==
  ASSUME NEW m, NEW T, Whole(m, T), m.ok
  PROVE  Links8(m, m, T, m.small_list.head, m.small_list.count, Next8(m, T), Prev8(m, T))
<1>1. m.small_list = [head |-> m.small_list.head, count |-> m.small_list.count]
  BY DEF Whole, Layout, MemType, ListType
<1>. QED BY <1>1 DEF Links8, Relinked, Elsewhere

\* One write of a pointer
LEMMA Write8 ==
  ASSUME NEW k, NEW m, NEW T, NEW hd, NEW cnt, NEW N, NEW P, Links8(k, m, T, hd, cnt, N, P),
         NEW v \in FreeOf(T, 8), NEW to \in HeaderAddresses
  PROVE  /\ Links8(k, set_prevfree_block8(m, v, to), T, hd, cnt, N, [P EXCEPT ![v] = to])
         /\ Links8(k, set_nextfree_block8(m, v, to), T, hd, cnt, [N EXCEPT ![v] = to], P)
<1>1. Whole(m, T) /\ m.ok /\ m \in MemType
  BY DEF Links8, Relinked, Whole, Layout
<1>2. \A h \in FreeOf(T, 8) :
        /\ h \in HeaderAddresses /\ h \in Nat /\ h % 8 = 4
        /\ h \in WordAddresses /\ h + 4 \in WordAddresses /\ h \in DOMAIN T /\ End(T, h) = h + 8
        /\ get_prevfree_block8(m, h) = 4 + m.word[h].size
        /\ get_nextfree_block8(m, h) = 4 + m.word[h + 4].size
        /\ IsFreeHeader(m, h)
  BY <1>1, Free8Words
<1>3. is_header(to) /\ to \in Nat /\ to >= 12 /\ to - 4 \in Nat /\ 4 + (to - 4) = to
  <2>1. to \in Nat /\ to >= 12
    BY Headers8
  <2>. QED BY <2>1 DEF HeaderAddresses
<1>4. Asserting(m, IsFreeHeader(m, v) /\ is_header(to)) = m
  BY <1>1, <1>2, <1>3, AssertHolds
<1>5. T[v].size = 8 /\ N = Next8(m, T) /\ P = Prev8(m, T)
  BY DEF FreeOf, Links8
<1>6. \A h \in FreeOf(T, 8) : h # v => h # v + 4 /\ h + 4 # v /\ h + 4 # v + 4
  BY <1>2
<1>7. v # v + 4
  BY <1>2
<1>8. Links8(k, set_prevfree_block8(m, v, to), T, hd, cnt, N, [P EXCEPT ![v] = to])
  <2> DEFINE n == set_prevfree_block8(m, v, to)
             w == [m.word[v] EXCEPT !.size = to - 4]
  <2>1. n = [m EXCEPT !.word[v].size = to - 4]
    BY <1>4 DEF set_prevfree_block8
  <2>2. Writes(m, n, v, w)
    <3>1. \A d \in Nat : Writes(m, [m EXCEPT !.word[v].size = d], v,
                                [m.word[v] EXCEPT !.size = d])
      BY <1>1, <1>2, WriteFields
    <3>. QED BY <1>3, <2>1, <3>1
  <2>3. m.word[v] \in WordType /\ w \in WordType /\ w.a = m.word[v].a /\ w.p8 = m.word[v].p8
        /\ w.b8 = m.word[v].b8 /\ w.size = to - 4
    BY <1>1, <1>2, <1>3 DEF MemType, WordType
  <2> HIDE DEF n, w
  <2>4. Relinked(m, n, T, FreeOf(T, 8))
    <3>1. v \in WordAddresses /\ v \in DOMAIN T /\ v <= v /\ v < End(T, v)
      BY <1>2
    <3>. QED BY <1>1, <1>5, <2>2, <2>3, <3>1, WriteInside
  <2>5. Whole(n, T)
    BY <2>4 DEF Relinked
  <2>6. \A h \in FreeOf(T, 8) : /\ get_prevfree_block8(n, h) = 4 + n.word[h].size
                                /\ get_nextfree_block8(n, h) = 4 + n.word[h + 4].size
    BY <2>5, Free8Words
  <2>7. n.word[v] = w /\ \A u \in WordAddresses : u # v => n.word[u] = m.word[u]
    BY <2>2 DEF Writes
  <2>8. Next8(n, T) = Next8(m, T)
    BY <1>2, <1>6, <1>7, <2>6, <2>7 DEF Next8
  <2>9. Prev8(n, T) = [Prev8(m, T) EXCEPT ![v] = to]
    <3>1. get_prevfree_block8(n, v) = to
      BY <1>3, <2>3, <2>6, <2>7
    <3>2. \A h \in FreeOf(T, 8) : h # v => get_prevfree_block8(n, h) = get_prevfree_block8(m, h)
      BY <1>2, <2>6, <2>7
    <3>. QED BY <3>1, <3>2 DEF Prev8
  <2>10. n.small_list = m.small_list /\ n.explicit_list = m.explicit_list
    BY <2>2 DEF Writes, SameButWords
  <2>11. Links8(k, n, T, hd, cnt, N, [P EXCEPT ![v] = to])
    BY <1>5, <2>4, <2>8, <2>9, <2>10, RelinkedTwice DEF Links8
  <2>. QED BY <2>11 DEF n
<1>9. Links8(k, set_nextfree_block8(m, v, to), T, hd, cnt, [N EXCEPT ![v] = to], P)
  <2> DEFINE n == set_nextfree_block8(m, v, to)
             x == v + 4
             w == [m.word[x] EXCEPT !.size = to - 4]
  <2>1. n = [m EXCEPT !.word[x].size = to - 4]
    BY <1>4 DEF set_nextfree_block8
  <2>2. Writes(m, n, x, w)
    <3>1. x \in WordAddresses
      BY <1>2
    <3>2. \A d \in Nat : Writes(m, [m EXCEPT !.word[x].size = d], x,
                                [m.word[x] EXCEPT !.size = d])
      <4> HIDE DEF x
      <4>. QED BY <1>1, <3>1, WriteFields
    <3> HIDE DEF x
    <3>. QED BY <1>3, <2>1, <3>2
  <2>3. m.word[x] \in WordType /\ w \in WordType /\ w.size = to - 4
    BY <1>1, <1>2, <1>3 DEF MemType, WordType
  <2> HIDE DEF n, w
  <2>4. Relinked(m, n, T, FreeOf(T, 8))
    <3>1. x \in WordAddresses /\ v \in DOMAIN T /\ v <= x /\ x < End(T, v) /\ x # v
      BY <1>2
    <3> HIDE DEF x
    <3>. QED BY <1>1, <1>5, <2>2, <2>3, <3>1, WriteInside
  <2>5. Whole(n, T)
    BY <2>4 DEF Relinked
  <2>6. \A h \in FreeOf(T, 8) : /\ get_prevfree_block8(n, h) = 4 + n.word[h].size
                                /\ get_nextfree_block8(n, h) = 4 + n.word[h + 4].size
    BY <2>5, Free8Words
  <2>7. n.word[x] = w /\ \A u \in WordAddresses : u # x => n.word[u] = m.word[u]
    BY <2>2 DEF Writes
  <2>8. Prev8(n, T) = Prev8(m, T)
    BY <1>2, <1>6, <1>7, <2>6, <2>7 DEF Prev8
  <2>9. Next8(n, T) = [Next8(m, T) EXCEPT ![v] = to]
    <3>1. get_nextfree_block8(n, v) = to
      BY <1>3, <2>3, <2>6, <2>7
    <3>2. \A h \in FreeOf(T, 8) : h # v => get_nextfree_block8(n, h) = get_nextfree_block8(m, h)
      BY <1>2, <1>6, <2>6, <2>7
    <3>. QED BY <3>1, <3>2 DEF Next8
  <2>10. n.small_list = m.small_list /\ n.explicit_list = m.explicit_list
    BY <2>2 DEF Writes, SameButWords
  <2>11. Links8(k, n, T, hd, cnt, [N EXCEPT ![v] = to], P)
    BY <1>5, <2>4, <2>8, <2>9, <2>10, RelinkedTwice DEF Links8
  <2>. QED BY <2>11 DEF n
<1>. QED BY <1>8, <1>9

\* Another head, another count
LEMMA List8 ==
  ASSUME NEW k, NEW m, NEW T, NEW hd, NEW cnt, NEW N, NEW P, Links8(k, m, T, hd, cnt, N, P),
         NEW v \in FreeOf(T, 8) \cup {NIL}, NEW number \in Nat
  PROVE  /\ Links8(k, update_small_head(m, v), T, v, cnt, N, P)
         /\ Links8(k, [m EXCEPT !.small_list.count = number], T, hd, number, N, P)
<1>1. Whole(m, T) /\ m.ok /\ m \in MemType
  BY DEF Links8, Relinked, Whole, Layout
<1>2. v = NIL \/ (IsBlock(m, v) /\ get_blocksize(m, v) = 8)
  BY <1>1, Free8Words
<1>3. update_small_head(m, v) = [m EXCEPT !.small_list.head = v]
  <2>1. Asserting(m, v = NIL \/ (IsBlock(m, v) /\ get_blocksize(m, v) = 8)) = m
    BY <1>1, <1>2, AssertHolds
  <2>. QED BY <2>1 DEF update_small_head
<1>4. v \in Nat
  BY <1>1, Free8Words DEF NIL
<1>5. ASSUME NEW n \in MemType, n.word = m.word, n.end = m.end, n.rbt = m.rbt, n.ok = m.ok,
             n.explicit_list = m.explicit_list
      PROVE  Links8(k, n, T, n.small_list.head, n.small_list.count, N, P)
  <2>1. Whole(n, T)
    BY <1>1, <1>5, WholeSame
  <2>2. Relinked(m, n, T, FreeOf(T, 8))
    BY <1>1, <1>5, <2>1 DEF Relinked, Elsewhere
  <2>3. Next8(n, T) = Next8(m, T) /\ Prev8(n, T) = Prev8(m, T)
    BY <1>5 DEF Next8, Prev8, get_nextfree_block8, get_prevfree_block8, Word
  <2>4. n.small_list = [head |-> n.small_list.head, count |-> n.small_list.count]
    BY DEF MemType, ListType
  <2>. QED BY <1>5, <2>2, <2>3, <2>4, RelinkedTwice DEF Links8
<1>6. m.small_list = [head |-> hd, count |-> cnt] /\ m.small_list \in ListType
  BY <1>1 DEF Links8, MemType
<1>7. hd \in Nat /\ cnt \in Nat
  BY <1>6 DEF ListType
<1>8. Links8(k, [m EXCEPT !.small_list.head = v], T, v, cnt, N, P)
  <2> DEFINE n == [m EXCEPT !.small_list.head = v]
  <2>1. /\ n \in MemType /\ n.word = m.word /\ n.end = m.end /\ n.rbt = m.rbt /\ n.ok = m.ok
        /\ n.explicit_list = m.explicit_list /\ n.small_list.head = v /\ n.small_list.count = cnt
    <3>1. n = [m EXCEPT !.small_list = [head |-> v, count |-> cnt]]
      BY <1>6
    <3> HIDE DEF n
    <3>2. [head |-> v, count |-> cnt] \in ListType
      BY <1>4, <1>7 DEF ListType
    <3>. QED BY <1>1, <3>1, <3>2 DEF MemType
  <2> HIDE DEF n
  <2>2. Links8(k, n, T, v, cnt, N, P)
    BY <1>5, <2>1
  <2>. QED BY <2>2 DEF n
<1>9. Links8(k, [m EXCEPT !.small_list.count = number], T, hd, number, N, P)
  <2> DEFINE n == [m EXCEPT !.small_list.count = number]
  <2>1. /\ n \in MemType /\ n.word = m.word /\ n.end = m.end /\ n.rbt = m.rbt /\ n.ok = m.ok
        /\ n.explicit_list = m.explicit_list /\ n.small_list.head = hd
        /\ n.small_list.count = number
    <3>1. n = [m EXCEPT !.small_list = [head |-> hd, count |-> number]]
      BY <1>6
    <3> HIDE DEF n
    <3>2. [head |-> hd, count |-> number] \in ListType
      BY <1>7 DEF ListType
    <3>. QED BY <1>1, <3>1, <3>2 DEF MemType
  <2> HIDE DEF n
  <2>2. Links8(k, n, T, hd, number, N, P)
    BY <1>5, <2>1
  <2>. QED BY <2>2 DEF n
<1>. QED BY <1>3, <1>8, <1>9

\* S is the ring of the blocks of eight that the list holds.
Index8(m, T, S) ==
    /\ S \subseteq FreeOf(T, 8)
    /\ Ring(S, m.small_list.head, m.small_list.count, Next8(m, T), Prev8(m, T))

\* The list of blocks of eight takes a block in.
LEMMA SmallInsert ==
  ASSUME NEW m, NEW T, Whole(m, T), m.ok, NEW S, Index8(m, T, S), NEW x \in FreeOf(T, 8), x \notin S
  PROVE  LET n == Small!insert(m, x)
         IN  /\ Relinked(m, n, T, FreeOf(T, 8)) /\ n.explicit_list = m.explicit_list
             /\ Index8(n, T, S \cup {x})
<1> DEFINE n == Small!insert(m, x)
           hd == m.small_list.head
           cnt == m.small_list.count
           N == Next8(m, T)
           P == Prev8(m, T)
           F == FreeOf(T, 8)
<1>1. Links8(m, m, T, hd, cnt, N, P)
  BY Links8Start
<1>2. Ring(S, hd, cnt, N, P) /\ S \subseteq F
  BY DEF Index8
<1>3. \A h \in F : h \in HeaderAddresses
  BY Free8Words
<1>4. \A h \in F : get_prevfree_block8(m, h) = P[h]
  BY DEF Prev8
<1>5. DOMAIN N = F /\ DOMAIN P = F
  BY DEF Next8, Prev8
<1>6. Small!head(m) = hd /\ Small!count(m) = cnt
  BY DEF Small!head, Small!count
<1> HIDE DEF hd, cnt, N, P, F
<1>7. ASSUME NEW M, NEW Q, NEW c, Links8(m, n, T, x, c, M, Q), Ring(S \cup {x}, x, c, M, Q)
      PROVE  /\ Relinked(m, n, T, FreeOf(T, 8)) /\ n.explicit_list = m.explicit_list
             /\ Index8(n, T, S \cup {x})
  <2> HIDE DEF n
  <2>1. n.small_list.head = x /\ n.small_list.count = c /\ Next8(n, T) = M /\ Prev8(n, T) = Q
    BY <1>7 DEF Links8
  <2>. QED BY <1>2, <1>7, <2>1 DEF Links8, Index8, F
<1>8. CASE cnt = 0
  <2> DEFINE m1 == update_small_head(m, x)
             m2 == [m1 EXCEPT !.small_list.count = 1]
             m3 == set_prevfree_block8(m2, x, x)
             m4 == set_nextfree_block8(m3, x, x)
             Q == [P EXCEPT ![x] = x]
             M == [N EXCEPT ![x] = x]
  <2>1. Links8(m, m1, T, x, cnt, N, P)
    BY <1>1, List8
  <2> HIDE DEF m1
  <2>2. Links8(m, m2, T, x, 1, N, P)
    BY <2>1, List8
  <2> HIDE DEF m2
  <2>3. Links8(m, m3, T, x, 1, N, Q)
    BY <1>3, <2>2, Write8 DEF F
  <2> HIDE DEF m3
  <2>4. Links8(m, m4, T, x, 1, M, Q)
    BY <1>3, <2>3, Write8 DEF F
  <2>5. n = m4
    BY <1>6, <1>8 DEF Small!insert, Small!Alone, m1, m2, m3
  <2>6. S = {}
    BY <1>2, <1>8, RingFacts
  <2>7. M[x] = x /\ Q[x] = x
    BY <1>5 DEF F
  <2> HIDE DEF M, Q, m4, n
  <2>8. Ring(S \cup {x}, x, 1, M, Q)
    <3>1. S \cup {x} = {x}
      BY <2>6
    <3>2. Ring({x}, x, 1, M, Q)
      BY <2>7, RingOfOne
    <3>. QED BY <3>1, <3>2
  <2>. QED BY <1>7, <2>4, <2>5, <2>8 DEF n
<1>9. CASE cnt # 0
  <2> DEFINE last == P[hd]
             m1 == set_nextfree_block8(m, x, hd)
             m2 == set_prevfree_block8(m1, hd, x)
             m3 == set_prevfree_block8(m2, x, last)
             m4 == set_nextfree_block8(m3, last, x)
             m5 == update_small_head(m4, x)
             m6 == [m5 EXCEPT !.small_list.count = cnt + 1]
             N1 == [N EXCEPT ![x] = hd]
             Q1 == [P EXCEPT ![hd] = x]
             Q == [Q1 EXCEPT ![x] = last]
             M == [N1 EXCEPT ![last] = x]
  <2>1. cnt \in Nat /\ cnt > 0 /\ hd \in S /\ last \in S
    BY <1>2, <1>9, RingFacts
  <2>2. hd \in F /\ last \in F /\ x \in F
    BY <1>2, <2>1 DEF F
  <2> HIDE DEF last
  <2>3. Links8(m, m1, T, hd, cnt, N1, P)
    BY <1>1, <1>3, <2>2, Write8 DEF F
  <2> HIDE DEF m1, N1
  <2>4. Links8(m, m2, T, hd, cnt, N1, Q1)
    BY <1>3, <2>2, <2>3, Write8 DEF F
  <2> HIDE DEF m2, Q1
  <2>5. Links8(m, m3, T, hd, cnt, N1, Q)
    BY <1>3, <2>2, <2>4, Write8 DEF F
  <2> HIDE DEF m3, Q
  <2>6. Links8(m, m4, T, hd, cnt, M, Q)
    BY <1>3, <2>2, <2>5, Write8 DEF F
  <2> HIDE DEF m4, M
  <2>7. Links8(m, m5, T, x, cnt, M, Q)
    BY <2>2, <2>6, List8 DEF F
  <2> HIDE DEF m5
  <2>8. Links8(m, m6, T, x, cnt + 1, M, Q)
    BY <2>1, <2>7, List8
  <2>9. n = m6
    <3>1. get_prevfree_block8(m, hd) = last
      BY <1>4, <2>2 DEF last
    <3>2. m5.small_list.count = cnt
      BY <2>7 DEF Links8
    <3>3. Small!InFront(m, hd, last, x) = m4
      BY DEF Small!InFront, m1, m2, m3, m4
    <3>4. n = Small!Longer(m5)
      BY <1>6, <1>9, <3>1, <3>3 DEF Small!insert, m5
    <3>. QED BY <3>2, <3>4 DEF Small!Longer, Small!count
  <2>10. /\ M[x] = hd /\ M[last] = x /\ \A y \in S \ {last} : M[y] = N[y]
         /\ Q[hd] = x /\ Q[x] = last /\ \A y \in S \ {hd} : Q[y] = P[y]
    BY <1>2, <1>5, <2>1, <2>2 DEF M, N1, Q, Q1
  <2> HIDE DEF m6, n
  <2>11. Ring(S \cup {x}, x, cnt + 1, M, Q)
    <3>1. last = P[hd]
      BY DEF last
    <3>2. /\ M[x] = hd /\ M[P[hd]] = x /\ \A y \in S \ {P[hd]} : M[y] = N[y]
          /\ Q[hd] = x /\ Q[x] = P[hd] /\ \A y \in S \ {hd} : Q[y] = P[y]
      BY <2>10, <3>1
    <3>. QED BY <1>2, <2>1, <3>2, RingInsert
  <2>. QED BY <1>7, <2>8, <2>9, <2>11 DEF n
<1>. QED BY <1>8, <1>9

\* The list of blocks of eight gives a block back.
LEMMA SmallDelete ==
  ASSUME NEW m, NEW T, Whole(m, T), m.ok, NEW S, Index8(m, T, S), NEW x \in S
  PROVE  LET n == Small!delete(m, x)
         IN  /\ Relinked(m, n, T, FreeOf(T, 8)) /\ n.explicit_list = m.explicit_list
             /\ Index8(n, T, S \ {x})
<1> DEFINE n == Small!delete(m, x)
           hd == m.small_list.head
           cnt == m.small_list.count
           N == Next8(m, T)
           P == Prev8(m, T)
           F == FreeOf(T, 8)
           prev == P[x]
           next == N[x]
           first == IF hd = x THEN next ELSE hd
           m1 == set_nextfree_block8(m, prev, next)
           m2 == set_prevfree_block8(m1, next, prev)
           m3 == IF hd = x THEN update_small_head(m2, next) ELSE m2
           m4 == [m3 EXCEPT !.small_list.count = cnt - 1]
           m5 == IF cnt = 1 THEN update_small_head(m4, NIL) ELSE m4
           M == [N EXCEPT ![prev] = next]
           Q == [P EXCEPT ![next] = prev]
<1>1. Links8(m, m, T, hd, cnt, N, P)
  BY Links8Start
<1>2. Ring(S, hd, cnt, N, P) /\ S \subseteq F
  BY DEF Index8
<1>3. \A h \in F : h \in HeaderAddresses
  BY Free8Words
<1>4. \A h \in F : get_prevfree_block8(m, h) = P[h] /\ get_nextfree_block8(m, h) = N[h]
  BY DEF Prev8, Next8
<1>5. DOMAIN N = F /\ DOMAIN P = F
  BY DEF Next8, Prev8
<1>6. Small!head(m) = hd /\ Small!count(m) = cnt
  BY DEF Small!head, Small!count
<1> HIDE DEF N, P, F, hd, cnt
<1>7. /\ cnt \in Nat /\ cnt > 0 /\ cnt - 1 \in Nat /\ prev \in S /\ next \in S /\ hd \in S
      /\ cnt = 1 => S = {hd}
      /\ cnt > 1 => next # x /\ prev # x
  <2>1. cnt \in Nat /\ cnt # 0
    BY <1>2, RingFacts
  <2>2. cnt > 0 /\ cnt - 1 \in Nat
    BY <2>1
  <2>. QED BY <1>2, <2>1, <2>2, RingFacts
<1>8. x \in F /\ prev \in F /\ next \in F /\ hd \in F
  BY <1>2, <1>7
<1> HIDE DEF prev, next
<1>9. Links8(m, m1, T, hd, cnt, M, P)
  BY <1>1, <1>3, <1>8, Write8 DEF F
<1> HIDE DEF m1, M
<1>10. Links8(m, m2, T, hd, cnt, M, Q)
  BY <1>3, <1>8, <1>9, Write8 DEF F
<1> HIDE DEF m2, Q
<1>11. Links8(m, m3, T, first, cnt, M, Q)
  <2>1. CASE hd = x
    BY <1>8, <1>10, <2>1, List8 DEF F
  <2>2. CASE hd # x
    BY <1>10, <2>2
  <2>. QED BY <2>1, <2>2
<1> HIDE DEF m3, first
<1>12. Links8(m, m4, T, first, cnt - 1, M, Q)
  BY <1>7, <1>11, List8
<1> HIDE DEF m4
<1>13. Links8(m, m5, T, IF cnt = 1 THEN NIL ELSE first, cnt - 1, M, Q)
  <2>1. CASE cnt = 1
    BY <1>12, <2>1, List8
  <2>2. CASE cnt # 1
    BY <1>12, <2>2
  <2>. QED BY <2>1, <2>2
<1>14. n = m5
  <2>1. Small!Unlink(m, x) = m2
    BY <1>4, <1>8 DEF Small!Unlink, m1, m2, prev, next
  <2>2. m4.small_list.count = cnt - 1
    BY <1>12 DEF Links8
  <2>3. cnt - 1 = 0 <=> cnt = 1
    BY <1>7
  <2>4. m3 = IF Small!head(m) = x THEN update_small_head(Small!Unlink(m, x), get_nextfree_block8(m, x))
             ELSE Small!Unlink(m, x)
    BY <1>4, <1>6, <1>8, <2>1 DEF m3, next
  <2> HIDE DEF m5
  <2>5. n = IF Small!count(m4) = 0 THEN update_small_head(m4, NIL) ELSE m4
    BY <1>6, <2>4 DEF Small!delete, m4
  <2>. QED BY <2>2, <2>3, <2>5 DEF Small!count, m5
<1> HIDE DEF m5, n
<1>15. /\ Relinked(m, n, T, FreeOf(T, 8)) /\ n.explicit_list = m.explicit_list
       /\ n.small_list.head = (IF cnt = 1 THEN NIL ELSE first) /\ n.small_list.count = cnt - 1
       /\ Next8(n, T) = M /\ Prev8(n, T) = Q
  BY <1>13, <1>14 DEF Links8
<1>16. Ring(S \ {x}, IF cnt = 1 THEN NIL ELSE first, cnt - 1, M, Q)
  <2>1. CASE cnt = 1
    <3>1. S \ {x} = {} /\ cnt - 1 = 0
      BY <1>7, <2>1
    <3>. QED BY <2>1, <3>1, RingOfNone
  <2>2. CASE cnt # 1
    <3>1. cnt > 1
      BY <1>7, <2>2
    <3>2. /\ M[prev] = next /\ \A y \in S \ {x, prev} : M[y] = N[y]
          /\ Q[next] = prev /\ \A y \in S \ {x, next} : Q[y] = P[y]
      BY <1>2, <1>5, <1>8 DEF M, Q
    <3>3. Ring(S \ {x}, first, cnt - 1, M, Q)
      BY <1>2, <3>1, <3>2, RingDelete DEF prev, next, first
    <3>. QED BY <2>2, <3>3
  <2>. QED BY <2>1, <2>2
<1>17. S \ {x} \subseteq FreeOf(T, 8)
  BY <1>2 DEF F
<1>. QED BY <1>15, <1>16, <1>17 DEF Index8, n

-----------------------------------------------------------------------------
(* The list of blocks of sixteen                                            *)

\* Its pointers
Next16(m, T) == [h \in FreeOf(T, 16) |-> get_nextfree(m, h)]
Prev16(m, T) == [h \in FreeOf(T, 16) |-> get_prevfree(m, h)]
Links16(m, n, T, hd, cnt, N, P) ==
    /\ Relinked(m, n, T, FreeOf(T, 16)) /\ n.small_list = m.small_list
    /\ n.explicit_list = [head |-> hd, count |-> cnt] /\ Next16(n, T) = N /\ Prev16(n, T) = P

\* A free block of sixteen, its words and the pointers in them
LEMMA Free16Words ==
  ASSUME NEW m, NEW T, Whole(m, T), NEW h \in FreeOf(T, 16)
  PROVE  /\ h \in HeaderAddresses /\ h \in Nat /\ h % 8 = 4 /\ h >= 12 /\ h # NIL
         /\ h \in WordAddresses /\ h + 4 \in WordAddresses /\ h + 8 \in WordAddresses
         /\ h \in DOMAIN T /\ End(T, h) = h + 16
         /\ get_prevfree(m, h) = Pointer(m.word[h + 4])
         /\ get_nextfree(m, h) = Pointer(m.word[h + 8])
         /\ Lists16(m, h) /\ get_allocated(m, h) = FREE /\ get_blocksize(m, h) = 16
         /\ IsBlock(m, h)
<1>1. h \in DOMAIN T /\ T[h].size = 16 /\ T[h].a = FREE
  BY DEF FreeOf, Free
<1>2. Tiles(T, get_epilogue(m), get_epilogue(m), get_epilogue(m))
  BY DEF Whole, Layout
<1>3. /\ h \in HeaderAddresses /\ h \in WordAddresses /\ h + 4 \in WordAddresses
      /\ h + 8 \in WordAddresses /\ h < get_epilogue(m)
  BY <1>1, <1>2, WordsOfBlock
<1>4. h \in Nat /\ h % 8 = 4 /\ h >= 12
  BY <1>3, Headers8
<1>5. get_epilogue(m) # get_firstblock
  BY <1>3, <1>4 DEF HeaderAddresses, get_firstblock, get_prologue
<1>6. IsBlock(m, h) /\ get_blocksize(m, h) = 16 /\ get_allocated(m, h) = FREE
  BY <1>1, <1>5, ReadLast, ReadBlock DEF Whole
<1>7. h # NIL
  BY <1>4 DEF NIL
<1>. QED BY <1>1, <1>3, <1>4, <1>6, <1>7
         DEF End, Word, get_prevfree, get_nextfree, Lists16

\* Before the first write, the links are what the words say.
LEMMA Links16Start ==
  ASSUME NEW m, NEW T, Whole(m, T), m.ok
  PROVE  Links16(m, m, T, m.explicit_list.head, m.explicit_list.count, Next16(m, T), Prev16(m, T))
<1>1. m.explicit_list = [head |-> m.explicit_list.head, count |-> m.explicit_list.count]
  BY DEF Whole, Layout, MemType, ListType
<1>. QED BY <1>1 DEF Links16, Relinked, Elsewhere

\* A pointer survives being cut into the fields of a word.
LEMMA PointerKept ==
  ASSUME NEW v \in HeaderAddresses \cup {NIL}
  PROVE  PointerWord(v) \in WordType /\ Pointer(PointerWord(v)) = v
<1>1. v = NIL \/ (v \in Nat /\ v >= 12)
  BY Headers8
<1>. QED BY <1>1 DEF PointerWord, Pointer, WordType, Marks, NIL

\* One pointer of a free block of sixteen is written.
LEMMA Write16 ==
  ASSUME NEW k, NEW m, NEW T, NEW hd, NEW cnt, NEW N, NEW P, Links16(k, m, T, hd, cnt, N, P),
         NEW v \in FreeOf(T, 16), NEW to \in FreeOf(T, 16) \cup {NIL}
  PROVE  /\ Links16(k, set_prevfree(m, v, to), T, hd, cnt, N, [P EXCEPT ![v] = to])
         /\ Links16(k, set_nextfree(m, v, to), T, hd, cnt, [N EXCEPT ![v] = to], P)
<1>1. Whole(m, T) /\ m.ok /\ m \in MemType
  BY DEF Links16, Relinked, Whole, Layout
<1>2. \A h \in FreeOf(T, 16) :
        /\ h \in HeaderAddresses /\ h \in Nat /\ h % 8 = 4
        /\ h + 4 \in WordAddresses /\ h + 8 \in WordAddresses /\ h \in DOMAIN T
        /\ End(T, h) = h + 16 /\ Lists16(m, h) /\ h # NIL
        /\ get_prevfree(m, h) = Pointer(m.word[h + 4])
        /\ get_nextfree(m, h) = Pointer(m.word[h + 8])
  BY <1>1, Free16Words
<1>3. Lists16(m, to) /\ PointerWord(to) \in WordType /\ Pointer(PointerWord(to)) = to
  <2>1. to \in HeaderAddresses \cup {NIL}
    BY <1>2
  <2>2. Lists16(m, to)
    BY <1>2 DEF Lists16
  <2>. QED BY <2>1, <2>2, PointerKept
<1>4. Asserting(m, Lists16(m, v) /\ Lists16(m, to)) = m
  BY <1>1, <1>2, <1>3, AssertHolds
<1>5. T[v].size = 16 /\ N = Next16(m, T) /\ P = Prev16(m, T)
  BY DEF FreeOf, Links16
<1>6. \A h \in FreeOf(T, 16) : /\ h # v => h + 4 # v + 4 /\ h + 8 # v + 8
                               /\ h + 4 # v + 8 /\ h + 8 # v + 4
  BY <1>2
<1>7. v + 4 # v /\ v + 8 # v
  BY <1>2
<1>8. ASSUME NEW u \in {v + 4, v + 8}, NEW n, n = [m EXCEPT !.word[u] = PointerWord(to)]
      PROVE  /\ Relinked(k, n, T, FreeOf(T, 16)) /\ n.small_list = k.small_list
             /\ n.explicit_list = [head |-> hd, count |-> cnt]
             /\ Pointer(n.word[u]) = to
             /\ \A z \in WordAddresses : z # u => n.word[z] = m.word[z]
             /\ \A h \in FreeOf(T, 16) : /\ get_prevfree(n, h) = Pointer(n.word[h + 4])
                                         /\ get_nextfree(n, h) = Pointer(n.word[h + 8])
  <2>1. u \in WordAddresses /\ v \in DOMAIN T /\ v <= u /\ u < End(T, v) /\ u # v
        /\ u # End(T, v) - 4
    BY <1>2
  <2>2. Writes(m, n, u, PointerWord(to))
    BY <1>1, <1>3, <1>8, <2>1, WriteWord
  <2>3. Relinked(m, n, T, FreeOf(T, 16))
    BY <1>1, <1>3, <2>1, <2>2, WriteInside
  <2>4. Whole(n, T)
    BY <2>3 DEF Relinked
  <2>5. \A h \in FreeOf(T, 16) : /\ get_prevfree(n, h) = Pointer(n.word[h + 4])
                                 /\ get_nextfree(n, h) = Pointer(n.word[h + 8])
    BY <2>4, Free16Words
  <2>6. Relinked(k, n, T, FreeOf(T, 16))
    BY <2>3, RelinkedTwice DEF Links16
  <2>. QED BY <1>3, <2>2, <2>5, <2>6 DEF Writes, SameButWords, Links16
<1>9. Links16(k, set_prevfree(m, v, to), T, hd, cnt, N, [P EXCEPT ![v] = to])
  <2> DEFINE n == set_prevfree(m, v, to)
             u == v + 4
  <2>1. n = [m EXCEPT !.word[u] = PointerWord(to)]
    BY <1>2, <1>4 DEF set_prevfree, set_field32_block_ptr
  <2> HIDE DEF n
  <2>2. /\ Relinked(k, n, T, FreeOf(T, 16)) /\ n.small_list = k.small_list
        /\ n.explicit_list = [head |-> hd, count |-> cnt]
        /\ Pointer(n.word[u]) = to
        /\ \A z \in WordAddresses : z # u => n.word[z] = m.word[z]
        /\ \A h \in FreeOf(T, 16) : /\ get_prevfree(n, h) = Pointer(n.word[h + 4])
                                    /\ get_nextfree(n, h) = Pointer(n.word[h + 8])
    BY <1>8, <2>1
  <2>3. Next16(n, T) = Next16(m, T)
    <3>1. \A h \in FreeOf(T, 16) : h + 8 # u
      BY <1>6, <1>2
    <3>2. \A h \in FreeOf(T, 16) : get_nextfree(n, h) = get_nextfree(m, h)
      BY <1>2, <2>2, <3>1
    <3>. QED BY <3>2 DEF Next16
  <2>4. Prev16(n, T) = [Prev16(m, T) EXCEPT ![v] = to]
    <3>1. get_prevfree(n, v) = to
      BY <2>2
    <3>2. \A h \in FreeOf(T, 16) : h # v => get_prevfree(n, h) = get_prevfree(m, h)
      BY <1>2, <1>6, <2>2
    <3>. QED BY <3>1, <3>2 DEF Prev16
  <2>5. Links16(k, n, T, hd, cnt, N, [P EXCEPT ![v] = to])
    BY <1>5, <2>2, <2>3, <2>4 DEF Links16
  <2>. QED BY <2>5 DEF n
<1>10. Links16(k, set_nextfree(m, v, to), T, hd, cnt, [N EXCEPT ![v] = to], P)
  <2> DEFINE n == set_nextfree(m, v, to)
             u == v + 8
  <2>1. n = [m EXCEPT !.word[u] = PointerWord(to)]
    BY <1>2, <1>4 DEF set_nextfree, set_field32_block_ptr
  <2> HIDE DEF n
  <2>2. /\ Relinked(k, n, T, FreeOf(T, 16)) /\ n.small_list = k.small_list
        /\ n.explicit_list = [head |-> hd, count |-> cnt]
        /\ Pointer(n.word[u]) = to
        /\ \A z \in WordAddresses : z # u => n.word[z] = m.word[z]
        /\ \A h \in FreeOf(T, 16) : /\ get_prevfree(n, h) = Pointer(n.word[h + 4])
                                    /\ get_nextfree(n, h) = Pointer(n.word[h + 8])
    BY <1>8, <2>1
  <2>3. Prev16(n, T) = Prev16(m, T)
    <3>1. \A h \in FreeOf(T, 16) : h + 4 # u
      BY <1>6, <1>2
    <3>2. \A h \in FreeOf(T, 16) : get_prevfree(n, h) = get_prevfree(m, h)
      BY <1>2, <2>2, <3>1
    <3>. QED BY <3>2 DEF Prev16
  <2>4. Next16(n, T) = [Next16(m, T) EXCEPT ![v] = to]
    <3>1. get_nextfree(n, v) = to
      BY <2>2
    <3>2. \A h \in FreeOf(T, 16) : h # v => get_nextfree(n, h) = get_nextfree(m, h)
      BY <1>2, <1>6, <2>2
    <3>. QED BY <3>1, <3>2 DEF Next16
  <2>5. Links16(k, n, T, hd, cnt, [N EXCEPT ![v] = to], P)
    BY <1>5, <2>2, <2>3, <2>4 DEF Links16
  <2>. QED BY <2>5 DEF n
<1>. QED BY <1>9, <1>10

\* Another head, another count
LEMMA List16 ==
  ASSUME NEW k, NEW m, NEW T, NEW hd, NEW cnt, NEW N, NEW P, Links16(k, m, T, hd, cnt, N, P),
         NEW v \in FreeOf(T, 16) \cup {NIL}, NEW number \in Nat
  PROVE  /\ Links16(k, update_explicit_head(m, v), T, v, cnt, N, P)
         /\ Links16(k, [m EXCEPT !.explicit_list.count = number], T, hd, number, N, P)
<1>1. Whole(m, T) /\ m.ok /\ m \in MemType
  BY DEF Links16, Relinked, Whole, Layout
<1>2. Lists16(m, v)
  BY <1>1, Free16Words DEF Lists16
<1>3. update_explicit_head(m, v) = [m EXCEPT !.explicit_list.head = v]
  <2>1. Asserting(m, Lists16(m, v)) = m
    BY <1>1, <1>2, AssertHolds
  <2>. QED BY <2>1 DEF update_explicit_head
<1>4. v \in Nat
  BY <1>1, Free16Words DEF NIL
<1>5. ASSUME NEW n \in MemType, n.word = m.word, n.end = m.end, n.rbt = m.rbt, n.ok = m.ok,
             n.small_list = m.small_list
      PROVE  Links16(k, n, T, n.explicit_list.head, n.explicit_list.count, N, P)
  <2>1. Whole(n, T)
    BY <1>1, <1>5, WholeSame
  <2>2. Relinked(m, n, T, FreeOf(T, 16))
    BY <1>1, <1>5, <2>1 DEF Relinked, Elsewhere
  <2>3. Next16(n, T) = Next16(m, T) /\ Prev16(n, T) = Prev16(m, T)
    BY <1>5 DEF Next16, Prev16, get_nextfree, get_prevfree, Word
  <2>4. n.explicit_list = [head |-> n.explicit_list.head, count |-> n.explicit_list.count]
    BY DEF MemType, ListType
  <2>. QED BY <1>5, <2>2, <2>3, <2>4, RelinkedTwice DEF Links16
<1>6. m.explicit_list = [head |-> hd, count |-> cnt] /\ m.explicit_list \in ListType
  BY <1>1 DEF Links16, MemType
<1>7. hd \in Nat /\ cnt \in Nat
  BY <1>6 DEF ListType
<1>8. Links16(k, [m EXCEPT !.explicit_list.head = v], T, v, cnt, N, P)
  <2> DEFINE n == [m EXCEPT !.explicit_list.head = v]
  <2>1. /\ n \in MemType /\ n.word = m.word /\ n.end = m.end /\ n.rbt = m.rbt /\ n.ok = m.ok
        /\ n.small_list = m.small_list /\ n.explicit_list.head = v /\ n.explicit_list.count = cnt
    <3>1. n = [m EXCEPT !.explicit_list = [head |-> v, count |-> cnt]]
      BY <1>6
    <3> HIDE DEF n
    <3>2. [head |-> v, count |-> cnt] \in ListType
      BY <1>4, <1>7 DEF ListType
    <3>. QED BY <1>1, <3>1, <3>2 DEF MemType
  <2> HIDE DEF n
  <2>2. Links16(k, n, T, v, cnt, N, P)
    BY <1>5, <2>1
  <2>. QED BY <2>2 DEF n
<1>9. Links16(k, [m EXCEPT !.explicit_list.count = number], T, hd, number, N, P)
  <2> DEFINE n == [m EXCEPT !.explicit_list.count = number]
  <2>1. /\ n \in MemType /\ n.word = m.word /\ n.end = m.end /\ n.rbt = m.rbt /\ n.ok = m.ok
        /\ n.small_list = m.small_list /\ n.explicit_list.head = hd
        /\ n.explicit_list.count = number
    <3>1. n = [m EXCEPT !.explicit_list = [head |-> hd, count |-> number]]
      BY <1>6
    <3> HIDE DEF n
    <3>2. [head |-> hd, count |-> number] \in ListType
      BY <1>7 DEF ListType
    <3>. QED BY <1>1, <3>1, <3>2 DEF MemType
  <2> HIDE DEF n
  <2>2. Links16(k, n, T, hd, number, N, P)
    BY <1>5, <2>1
  <2>. QED BY <2>2 DEF n
<1>. QED BY <1>3, <1>8, <1>9

\* S is the ring of the blocks of sixteen that the list holds.
Index16(m, T, S) ==
    /\ S \subseteq FreeOf(T, 16)
    /\ Ring(S, m.explicit_list.head, m.explicit_list.count, Next16(m, T), Prev16(m, T))

\* The list of blocks of sixteen takes a block in.
LEMMA ExplicitInsert ==
  ASSUME NEW m, NEW T, Whole(m, T), m.ok, NEW S, Index16(m, T, S), NEW x \in FreeOf(T, 16), x \notin S
  PROVE  LET n == Explicit!insert(m, x)
         IN  /\ Relinked(m, n, T, FreeOf(T, 16)) /\ n.small_list = m.small_list
             /\ Index16(n, T, S \cup {x})
<1> DEFINE n == Explicit!insert(m, x)
           hd == m.explicit_list.head
           cnt == m.explicit_list.count
           N == Next16(m, T)
           P == Prev16(m, T)
           F == FreeOf(T, 16)
<1>1. Links16(m, m, T, hd, cnt, N, P)
  BY Links16Start
<1>2. Ring(S, hd, cnt, N, P) /\ S \subseteq F
  BY DEF Index16
<1>3. \A h \in F : h \in HeaderAddresses
  BY Free16Words
<1>4. \A h \in F : get_prevfree(m, h) = P[h]
  BY DEF Prev16
<1>5. DOMAIN N = F /\ DOMAIN P = F
  BY DEF Next16, Prev16
<1>6. Explicit!head(m) = hd /\ Explicit!count(m) = cnt
  BY DEF Explicit!head, Explicit!count
<1> HIDE DEF hd, cnt, N, P, F
<1>7. ASSUME NEW M, NEW Q, NEW c, Links16(m, n, T, x, c, M, Q), Ring(S \cup {x}, x, c, M, Q)
      PROVE  /\ Relinked(m, n, T, FreeOf(T, 16)) /\ n.small_list = m.small_list
             /\ Index16(n, T, S \cup {x})
  <2> HIDE DEF n
  <2>1. n.explicit_list.head = x /\ n.explicit_list.count = c /\ Next16(n, T) = M /\ Prev16(n, T) = Q
    BY <1>7 DEF Links16
  <2>. QED BY <1>2, <1>7, <2>1 DEF Links16, Index16, F
<1>8. CASE cnt = 0
  <2> DEFINE m1 == update_explicit_head(m, x)
             m2 == [m1 EXCEPT !.explicit_list.count = 1]
             m3 == set_prevfree(m2, x, x)
             m4 == set_nextfree(m3, x, x)
             Q == [P EXCEPT ![x] = x]
             M == [N EXCEPT ![x] = x]
  <2>1. Links16(m, m1, T, x, cnt, N, P)
    BY <1>1, List16
  <2> HIDE DEF m1
  <2>2. Links16(m, m2, T, x, 1, N, P)
    BY <2>1, List16
  <2> HIDE DEF m2
  <2>3. Links16(m, m3, T, x, 1, N, Q)
    BY <1>3, <2>2, Write16 DEF F
  <2> HIDE DEF m3
  <2>4. Links16(m, m4, T, x, 1, M, Q)
    BY <1>3, <2>3, Write16 DEF F
  <2>5. n = m4
    BY <1>6, <1>8 DEF Explicit!insert, Explicit!Alone, m1, m2, m3
  <2>6. S = {}
    BY <1>2, <1>8, RingFacts
  <2>7. M[x] = x /\ Q[x] = x
    BY <1>5 DEF F
  <2> HIDE DEF M, Q, m4, n
  <2>8. Ring(S \cup {x}, x, 1, M, Q)
    <3>1. S \cup {x} = {x}
      BY <2>6
    <3>2. Ring({x}, x, 1, M, Q)
      BY <2>7, RingOfOne
    <3>. QED BY <3>1, <3>2
  <2>. QED BY <1>7, <2>4, <2>5, <2>8 DEF n
<1>9. CASE cnt # 0
  <2> DEFINE last == P[hd]
             m1 == set_nextfree(m, x, hd)
             m2 == set_prevfree(m1, hd, x)
             m3 == set_prevfree(m2, x, last)
             m4 == set_nextfree(m3, last, x)
             m5 == update_explicit_head(m4, x)
             m6 == [m5 EXCEPT !.explicit_list.count = cnt + 1]
             N1 == [N EXCEPT ![x] = hd]
             Q1 == [P EXCEPT ![hd] = x]
             Q == [Q1 EXCEPT ![x] = last]
             M == [N1 EXCEPT ![last] = x]
  <2>1. cnt \in Nat /\ cnt > 0 /\ hd \in S /\ last \in S
    BY <1>2, <1>9, RingFacts
  <2>2. hd \in F /\ last \in F /\ x \in F
    BY <1>2, <2>1 DEF F
  <2> HIDE DEF last
  <2>3. Links16(m, m1, T, hd, cnt, N1, P)
    BY <1>1, <1>3, <2>2, Write16 DEF F
  <2> HIDE DEF m1, N1
  <2>4. Links16(m, m2, T, hd, cnt, N1, Q1)
    BY <1>3, <2>2, <2>3, Write16 DEF F
  <2> HIDE DEF m2, Q1
  <2>5. Links16(m, m3, T, hd, cnt, N1, Q)
    BY <1>3, <2>2, <2>4, Write16 DEF F
  <2> HIDE DEF m3, Q
  <2>6. Links16(m, m4, T, hd, cnt, M, Q)
    BY <1>3, <2>2, <2>5, Write16 DEF F
  <2> HIDE DEF m4, M
  <2>7. Links16(m, m5, T, x, cnt, M, Q)
    BY <2>2, <2>6, List16 DEF F
  <2> HIDE DEF m5
  <2>8. Links16(m, m6, T, x, cnt + 1, M, Q)
    BY <2>1, <2>7, List16
  <2>9. n = m6
    <3>1. get_prevfree(m, hd) = last
      BY <1>4, <2>2 DEF last
    <3>2. m5.explicit_list.count = cnt
      BY <2>7 DEF Links16
    <3>3. Explicit!InFront(m, hd, last, x) = m4
      BY DEF Explicit!InFront, m1, m2, m3, m4
    <3>4. n = Explicit!Longer(m5)
      BY <1>6, <1>9, <3>1, <3>3 DEF Explicit!insert, m5
    <3>. QED BY <3>2, <3>4 DEF Explicit!Longer, Explicit!count
  <2>10. /\ M[x] = hd /\ M[last] = x /\ \A y \in S \ {last} : M[y] = N[y]
         /\ Q[hd] = x /\ Q[x] = last /\ \A y \in S \ {hd} : Q[y] = P[y]
    BY <1>2, <1>5, <2>1, <2>2 DEF M, N1, Q, Q1
  <2> HIDE DEF m6, n
  <2>11. Ring(S \cup {x}, x, cnt + 1, M, Q)
    <3>1. last = P[hd]
      BY DEF last
    <3>2. /\ M[x] = hd /\ M[P[hd]] = x /\ \A y \in S \ {P[hd]} : M[y] = N[y]
          /\ Q[hd] = x /\ Q[x] = P[hd] /\ \A y \in S \ {hd} : Q[y] = P[y]
      BY <2>10, <3>1
    <3>. QED BY <1>2, <2>1, <3>2, RingInsert
  <2>. QED BY <1>7, <2>8, <2>9, <2>11 DEF n
<1>. QED BY <1>8, <1>9

\* linkedlist_internal_delete on that list
LEMMA ExplicitDelete ==
  ASSUME NEW m, NEW T, Whole(m, T), m.ok, NEW S, Index16(m, T, S), NEW x \in S
  PROVE  LET n == Explicit!delete(m, x)
         IN  /\ Relinked(m, n, T, FreeOf(T, 16)) /\ n.small_list = m.small_list
             /\ Index16(n, T, S \ {x})
<1> DEFINE n == Explicit!delete(m, x)
           hd == m.explicit_list.head
           cnt == m.explicit_list.count
           N == Next16(m, T)
           P == Prev16(m, T)
           F == FreeOf(T, 16)
           prev == P[x]
           next == N[x]
           first == IF hd = x THEN next ELSE hd
           m1 == set_nextfree(m, prev, next)
           m2 == set_prevfree(m1, next, prev)
           m3 == IF hd = x THEN update_explicit_head(m2, next) ELSE m2
           m4 == [m3 EXCEPT !.explicit_list.count = cnt - 1]
           m5 == IF cnt = 1 THEN update_explicit_head(m4, NIL) ELSE m4
           M == [N EXCEPT ![prev] = next]
           Q == [P EXCEPT ![next] = prev]
<1>1. Links16(m, m, T, hd, cnt, N, P)
  BY Links16Start
<1>2. Ring(S, hd, cnt, N, P) /\ S \subseteq F
  BY DEF Index16
<1>3. \A h \in F : h \in HeaderAddresses
  BY Free16Words
<1>4. \A h \in F : get_prevfree(m, h) = P[h] /\ get_nextfree(m, h) = N[h]
  BY DEF Prev16, Next16
<1>5. DOMAIN N = F /\ DOMAIN P = F
  BY DEF Next16, Prev16
<1>6. Explicit!head(m) = hd /\ Explicit!count(m) = cnt
  BY DEF Explicit!head, Explicit!count
<1> HIDE DEF N, P, F, hd, cnt
<1>7. /\ cnt \in Nat /\ cnt > 0 /\ cnt - 1 \in Nat /\ prev \in S /\ next \in S /\ hd \in S
      /\ cnt = 1 => S = {hd}
      /\ cnt > 1 => next # x /\ prev # x
  <2>1. cnt \in Nat /\ cnt # 0
    BY <1>2, RingFacts
  <2>2. cnt > 0 /\ cnt - 1 \in Nat
    BY <2>1
  <2>. QED BY <1>2, <2>1, <2>2, RingFacts
<1>8. x \in F /\ prev \in F /\ next \in F /\ hd \in F
  BY <1>2, <1>7
<1> HIDE DEF prev, next
<1>9. Links16(m, m1, T, hd, cnt, M, P)
  BY <1>1, <1>3, <1>8, Write16 DEF F
<1> HIDE DEF m1, M
<1>10. Links16(m, m2, T, hd, cnt, M, Q)
  BY <1>3, <1>8, <1>9, Write16 DEF F
<1> HIDE DEF m2, Q
<1>11. Links16(m, m3, T, first, cnt, M, Q)
  <2>1. CASE hd = x
    BY <1>8, <1>10, <2>1, List16 DEF F
  <2>2. CASE hd # x
    BY <1>10, <2>2
  <2>. QED BY <2>1, <2>2
<1> HIDE DEF m3, first
<1>12. Links16(m, m4, T, first, cnt - 1, M, Q)
  BY <1>7, <1>11, List16
<1> HIDE DEF m4
<1>13. Links16(m, m5, T, IF cnt = 1 THEN NIL ELSE first, cnt - 1, M, Q)
  <2>1. CASE cnt = 1
    BY <1>12, <2>1, List16
  <2>2. CASE cnt # 1
    BY <1>12, <2>2
  <2>. QED BY <2>1, <2>2
<1>14. n = m5
  <2>1. Explicit!Unlink(m, x) = m2
    BY <1>4, <1>8 DEF Explicit!Unlink, m1, m2, prev, next
  <2>2. m4.explicit_list.count = cnt - 1
    BY <1>12 DEF Links16
  <2>3. cnt - 1 = 0 <=> cnt = 1
    BY <1>7
  <2>4. m3 = IF Explicit!head(m) = x THEN update_explicit_head(Explicit!Unlink(m, x), get_nextfree(m, x))
             ELSE Explicit!Unlink(m, x)
    BY <1>4, <1>6, <1>8, <2>1 DEF m3, next
  <2> HIDE DEF m5
  <2>5. n = IF Explicit!count(m4) = 0 THEN update_explicit_head(m4, NIL) ELSE m4
    BY <1>6, <2>4 DEF Explicit!delete, m4
  <2>. QED BY <2>2, <2>3, <2>5 DEF Explicit!count, m5
<1> HIDE DEF m5, n
<1>15. /\ Relinked(m, n, T, FreeOf(T, 16)) /\ n.small_list = m.small_list
       /\ n.explicit_list.head = (IF cnt = 1 THEN NIL ELSE first) /\ n.explicit_list.count = cnt - 1
       /\ Next16(n, T) = M /\ Prev16(n, T) = Q
  BY <1>13, <1>14 DEF Links16
<1>16. Ring(S \ {x}, IF cnt = 1 THEN NIL ELSE first, cnt - 1, M, Q)
  <2>1. CASE cnt = 1
    <3>1. S \ {x} = {} /\ cnt - 1 = 0
      BY <1>7, <2>1
    <3>. QED BY <2>1, <3>1, RingOfNone
  <2>2. CASE cnt # 1
    <3>1. cnt > 1
      BY <1>7, <2>2
    <3>2. /\ M[prev] = next /\ \A y \in S \ {x, prev} : M[y] = N[y]
          /\ Q[next] = prev /\ \A y \in S \ {x, next} : Q[y] = P[y]
      BY <1>2, <1>5, <1>8 DEF M, Q
    <3>3. Ring(S \ {x}, first, cnt - 1, M, Q)
      BY <1>2, <3>1, <3>2, RingDelete DEF prev, next, first
    <3>. QED BY <2>2, <3>3
  <2>. QED BY <2>1, <2>2
<1>17. S \ {x} \subseteq FreeOf(T, 16)
  BY <1>2 DEF F
<1>. QED BY <1>15, <1>16, <1>17 DEF Index16, n

\* explicit_list_delete also clears the pointers of the block that leaves.
LEMMA ExplicitListDelete ==
  ASSUME NEW m, NEW T, Whole(m, T), m.ok, NEW S, Index16(m, T, S), NEW x \in S
  PROVE  LET n == explicit_list_delete(m, x)
         IN  /\ Relinked(m, n, T, FreeOf(T, 16)) /\ n.small_list = m.small_list
             /\ Index16(n, T, S \ {x})
<1> DEFINE k == Explicit!delete(m, x)
           k1 == set_prevfree(k, x, NIL)
           n == explicit_list_delete(m, x)
           hd == k.explicit_list.head
           cnt == k.explicit_list.count
           N == Next16(k, T)
           P == Prev16(k, T)
<1>1. /\ Relinked(m, k, T, FreeOf(T, 16)) /\ k.small_list = m.small_list
      /\ Index16(k, T, S \ {x})
  BY ExplicitDelete
<1>2. n = set_nextfree(k1, x, NIL)
  BY DEF explicit_list_delete
<1> HIDE DEF k, n
<1>3. x \in FreeOf(T, 16) /\ S \ {x} \subseteq FreeOf(T, 16)
  BY DEF Index16
<1>4. Links16(k, k, T, hd, cnt, N, P)
  BY <1>1, Links16Start DEF Relinked
<1>5. DOMAIN N = FreeOf(T, 16) /\ DOMAIN P = FreeOf(T, 16)
  BY DEF Next16, Prev16
<1>6. Ring(S \ {x}, hd, cnt, N, P)
  BY <1>1 DEF Index16
<1> HIDE DEF hd, cnt, N, P
<1>7. Links16(k, k1, T, hd, cnt, N, [P EXCEPT ![x] = NIL])
  BY <1>3, <1>4, Write16
<1> HIDE DEF k1
<1>8. Links16(k, n, T, hd, cnt, [N EXCEPT ![x] = NIL], [P EXCEPT ![x] = NIL])
  BY <1>2, <1>3, <1>7, Write16
<1>9. Relinked(m, n, T, FreeOf(T, 16)) /\ n.small_list = m.small_list
  BY <1>1, <1>8, RelinkedTwice DEF Links16
<1>10. Ring(S \ {x}, hd, cnt, [N EXCEPT ![x] = NIL], [P EXCEPT ![x] = NIL])
  <2>1. \A y \in S \ {x} : /\ [N EXCEPT ![x] = NIL][y] = N[y]
                           /\ [P EXCEPT ![x] = NIL][y] = P[y]
    BY <1>3, <1>5
  <2>. QED BY <1>6, <2>1, RingSame
<1>11. Index16(n, T, S \ {x})
  BY <1>3, <1>8, <1>10 DEF Index16, Links16
<1>. QED BY <1>9, <1>11 DEF n

-----------------------------------------------------------------------------
(* The three indexes together                                               *)

\* The indexes hold the free blocks I of T, each in the index of its size.
Indexed(m, T, I) ==
    /\ I \subseteq Free(T)
    /\ Index8(m, T, I \cap FreeOf(T, 8)) /\ Index16(m, T, I \cap FreeOf(T, 16))
    /\ m.rbt = I \cap FreeLarge(T)

\* The list of blocks of eight depends on the pointers of its own blocks only.
LEMMA Index8Moves ==
  ASSUME NEW m, NEW n, NEW T, NEW U, NEW S, Index8(m, T, S), S \subseteq FreeOf(U, 8),
         n.small_list = m.small_list,
         \A h \in S : /\ Word(n, h).size = Word(m, h).size
                      /\ Word(n, h + 4).size = Word(m, h + 4).size
  PROVE  Index8(n, U, S)
<1>1. S \subseteq FreeOf(T, 8) /\ Ring(S, m.small_list.head, m.small_list.count, Next8(m, T), Prev8(m, T))
  BY DEF Index8
<1>2. \A h \in S : Next8(n, U)[h] = Next8(m, T)[h] /\ Prev8(n, U)[h] = Prev8(m, T)[h]
  BY <1>1 DEF Next8, Prev8, get_nextfree_block8, get_prevfree_block8
<1>3. Ring(S, m.small_list.head, m.small_list.count, Next8(n, U), Prev8(n, U))
  BY <1>1, <1>2, RingSame
<1>. QED BY <1>3 DEF Index8

\* So does the list of blocks of sixteen.
LEMMA Index16Moves ==
  ASSUME NEW m, NEW n, NEW T, NEW U, NEW S, Index16(m, T, S), S \subseteq FreeOf(U, 16),
         n.explicit_list = m.explicit_list,
         \A h \in S : Word(n, h + 4) = Word(m, h + 4) /\ Word(n, h + 8) = Word(m, h + 8)
  PROVE  Index16(n, U, S)
<1>1. /\ S \subseteq FreeOf(T, 16)
      /\ Ring(S, m.explicit_list.head, m.explicit_list.count, Next16(m, T), Prev16(m, T))
  BY DEF Index16
<1>2. \A h \in S : Next16(n, U)[h] = Next16(m, T)[h] /\ Prev16(n, U)[h] = Prev16(m, T)[h]
  BY <1>1 DEF Next16, Prev16, get_nextfree, get_prevfree
<1>3. Ring(S, m.explicit_list.head, m.explicit_list.count, Next16(n, U), Prev16(n, U))
  BY <1>1, <1>2, RingSame
<1>. QED BY <1>3 DEF Index16

\* The indexes of the same blocks, in a layout and words that are the same there
LEMMA IndexedMoves ==
  ASSUME NEW m, NEW n, NEW T, NEW U, NEW I, Indexed(m, T, I),
         I \subseteq DOMAIN U, \A h \in I : U[h] = T[h],
         n.small_list = m.small_list, n.explicit_list = m.explicit_list, n.rbt = m.rbt,
         \A h \in I : /\ Word(n, h).size = Word(m, h).size
                      /\ Word(n, h + 4) = Word(m, h + 4)
                      /\ T[h].size = 16 => Word(n, h + 8) = Word(m, h + 8)
  PROVE  Indexed(n, U, I)
<1>1. I \subseteq Free(U)
  BY DEF Indexed, Free
<1>2. /\ I \cap FreeOf(U, 8) = I \cap FreeOf(T, 8)
      /\ I \cap FreeOf(U, 16) = I \cap FreeOf(T, 16)
      /\ I \cap FreeLarge(U) = I \cap FreeLarge(T)
  BY DEF Indexed, Free, FreeOf, FreeLarge
<1>3. Index8(n, U, I \cap FreeOf(T, 8))
  <2>1. \A h \in I \cap FreeOf(T, 8) : /\ Word(n, h).size = Word(m, h).size
                                       /\ Word(n, h + 4).size = Word(m, h + 4).size
    OBVIOUS
  <2>. QED BY <1>2, <2>1, Index8Moves DEF Indexed
<1>4. Index16(n, U, I \cap FreeOf(T, 16))
  <2>1. \A h \in I \cap FreeOf(T, 16) : /\ Word(n, h + 4) = Word(m, h + 4)
                                        /\ Word(n, h + 8) = Word(m, h + 8)
    BY DEF FreeOf
  <2>. QED BY <1>2, <2>1, Index16Moves DEF Indexed
<1>. QED BY <1>1, <1>2, <1>3, <1>4 DEF Indexed

\* A heap without a hole, in which no assert has failed and the indexes hold I
Stage(m, T, I) == Whole(m, T) /\ m.ok /\ Indexed(m, T, I)

\* What the indexes do not disturb
Undisturbed(m, n, T) == n.end = m.end /\ Elsewhere(m, n, T, Free(T))

\* The words of a block in a list, and whose they are
LEMMA ElsewhereOthers ==
  ASSUME NEW m, NEW n, NEW T, Whole(m, T), NEW B \in SUBSET DOMAIN T, Elsewhere(m, n, T, B)
  PROVE  \A h \in DOMAIN T \ B :
            /\ Word(n, h) = Word(m, h) /\ Word(n, h + 4) = Word(m, h + 4)
            /\ T[h].size = 16 => Word(n, h + 8) = Word(m, h + 8)
<1> DEFINE e == get_epilogue(m)
<1>1. Tiles(T, e, e, e)
  BY DEF Whole, Layout
<1>2. SUFFICES ASSUME NEW h \in DOMAIN T \ B, NEW v \in WordAddresses, h <= v, v < End(T, h)
               PROVE  n.word[v] = m.word[v]
  <2>1. \A h \in DOMAIN T : /\ h \in Nat /\ End(T, h) = h + T[h].size /\ T[h].size \in Nat
                            /\ T[h].size >= 8
    <3> TAKE h \in DOMAIN T
    <3>1. h \in HeaderAddresses /\ T[h].size \in Nat /\ T[h].size >= 8
      BY <1>1, WordsOfBlock
    <3>. QED BY <3>1, Headers8 DEF End
  <2>2. ASSUME NEW h \in DOMAIN T \ B, NEW d \in {0, 4, 8}, d = 8 => T[h].size = 16
        PROVE  Word(n, h + d) = Word(m, h + d)
    <3>1. h + d \in WordAddresses => n.word[h + d] = m.word[h + d]
      <4>1. h <= h + d /\ h + d < End(T, h)
        BY <2>1, <2>2
      <4>. QED BY <1>2, <4>1
    <3>. QED BY <3>1 DEF Word
  <2>3. \A h \in DOMAIN T : h + 0 = h
    BY <2>1
  <2>. QED BY <2>2, <2>3
<1>3. \A b \in B : v < b \/ End(T, b) <= v
  <2> TAKE b \in B
  <2>1. b \in Nat /\ End(T, b) \in Nat /\ v \in Int
    <3>1. b \in HeaderAddresses /\ End(T, b) \in HeaderAddresses
      BY <1>1, WordsOfBlock
    <3>. QED BY <3>1, Headers8 DEF WordAddresses
  <2>2. b <= v /\ v < End(T, b) => b = h
    BY <1>1, <1>2, <2>1, OneBlockPerWord
  <2>. QED BY <2>1, <2>2
<1>. QED BY <1>2, <1>3 DEF Elsewhere

\* The sizes that a free block can have
LEMMA FreeSizes ==
  ASSUME NEW m, NEW T, Whole(m, T), NEW x \in Free(T)
  PROVE  /\ x \in FreeOf(T, 8) \/ x \in FreeOf(T, 16) \/ x \in FreeLarge(T)
         /\ x \in DOMAIN T /\ get_blocksize(m, x) = T[x].size /\ get_allocated(m, x) = FREE
         /\ IsBlock(m, x) /\ get_footer(m, x) = End(T, x) - 4
<1>1. x \in DOMAIN T /\ T[x].a = FREE
  BY DEF Free
<1>2. Tiles(T, get_epilogue(m), get_epilogue(m), get_epilogue(m))
  BY DEF Whole, Layout
<1>3. /\ x \in HeaderAddresses /\ x < get_epilogue(m)
      /\ T[x].size \in Nat /\ T[x].size >= 8 /\ T[x].size % 8 = 0
  BY <1>1, <1>2, WordsOfBlock
<1>4. T[x].size = 8 \/ T[x].size = 16 \/ T[x].size >= 24
  BY <1>3
<1>5. get_epilogue(m) # get_firstblock
  BY <1>3, Headers8 DEF HeaderAddresses, get_firstblock, get_prologue
<1>6. IsBlock(m, x)
  BY <1>1, <1>5, ReadLast
<1>. QED BY <1>1, <1>4, <1>6, ReadBlock DEF Whole, FreeOf, FreeLarge

\* A free block has its place in one index only.
LEMMA IndexSetsApart ==
  ASSUME NEW T
  PROVE  /\ FreeOf(T, 8) \subseteq Free(T) /\ FreeOf(T, 16) \subseteq Free(T)
         /\ FreeLarge(T) \subseteq Free(T) /\ Free(T) \subseteq DOMAIN T
         /\ FreeOf(T, 8) \cap FreeOf(T, 16) = {} /\ FreeOf(T, 8) \cap FreeLarge(T) = {}
         /\ FreeOf(T, 16) \cap FreeLarge(T) = {}
         /\ \A h \in FreeOf(T, 8) : T[h].size = 8
         /\ \A h \in FreeOf(T, 16) : T[h].size = 16
         /\ \A h \in FreeLarge(T) : T[h].size >= 24
BY DEF Free, FreeOf, FreeLarge

\* A change of one list leaves the other indexes.
OthersKept(m, n, T, I, B) ==
    /\ B \cap FreeOf(T, 8) = {} /\ n.small_list = m.small_list
           => Index8(n, T, I \cap FreeOf(T, 8))
    /\ B \cap FreeOf(T, 16) = {} /\ n.explicit_list = m.explicit_list
           => Index16(n, T, I \cap FreeOf(T, 16))
    /\ Undisturbed(m, n, T) /\ n.rbt = I \cap FreeLarge(T)

\* A list that changed leaves the two other indexes as they are.
LEMMA OtherIndexes ==
  ASSUME NEW m, NEW n, NEW T, Whole(m, T), NEW I, Indexed(m, T, I), NEW B \in SUBSET Free(T),
         Relinked(m, n, T, B)
  PROVE  OthersKept(m, n, T, I, B)
<1>1. B \in SUBSET DOMAIN T
  BY IndexSetsApart
<1>2. \A h \in DOMAIN T \ B :
            /\ Word(n, h) = Word(m, h) /\ Word(n, h + 4) = Word(m, h + 4)
            /\ T[h].size = 16 => Word(n, h + 8) = Word(m, h + 8)
  BY <1>1, ElsewhereOthers DEF Relinked
<1>3. ASSUME B \cap FreeOf(T, 8) = {}, n.small_list = m.small_list
      PROVE  Index8(n, T, I \cap FreeOf(T, 8))
  <2>1. \A h \in I \cap FreeOf(T, 8) : /\ Word(n, h).size = Word(m, h).size
                                       /\ Word(n, h + 4).size = Word(m, h + 4).size
    BY <1>2, <1>3, IndexSetsApart
  <2>. QED BY <1>3, <2>1, Index8Moves DEF Indexed
<1>4. ASSUME B \cap FreeOf(T, 16) = {}, n.explicit_list = m.explicit_list
      PROVE  Index16(n, T, I \cap FreeOf(T, 16))
  <2>1. \A h \in I \cap FreeOf(T, 16) : /\ Word(n, h + 4) = Word(m, h + 4)
                                        /\ Word(n, h + 8) = Word(m, h + 8)
    BY <1>2, <1>4, IndexSetsApart
  <2>. QED BY <1>4, <2>1, Index16Moves DEF Indexed
<1>5. Undisturbed(m, n, T) /\ n.rbt = I \cap FreeLarge(T)
  <2>1. n.end = m.end /\ n.rbt = m.rbt /\ Elsewhere(m, n, T, B)
    BY DEF Relinked
  <2>2. Elsewhere(m, n, T, Free(T))
    BY <2>1 DEF Elsewhere
  <2>. QED BY <2>1, <2>2 DEF Undisturbed, Indexed
<1>. QED BY <1>3, <1>4, <1>5 DEF OthersKept

\* The indexes after a step of the list of blocks of eight
LEMMA SmallMoved ==
  ASSUME NEW m, NEW n, NEW T, Whole(m, T), NEW I, Indexed(m, T, I),
         Relinked(m, n, T, FreeOf(T, 8)), n.explicit_list = m.explicit_list
  PROVE  Index16(n, T, I \cap FreeOf(T, 16)) /\ Undisturbed(m, n, T) /\ n.rbt = I \cap FreeLarge(T)
<1>1. FreeOf(T, 8) \in SUBSET Free(T) /\ FreeOf(T, 8) \cap FreeOf(T, 16) = {}
  BY IndexSetsApart
<1>2. OthersKept(m, n, T, I, FreeOf(T, 8))
  BY <1>1, OtherIndexes
<1>. QED BY <1>1, <1>2 DEF OthersKept

\* The indexes after a step of the list of blocks of sixteen
LEMMA ExplicitMoved ==
  ASSUME NEW m, NEW n, NEW T, Whole(m, T), NEW I, Indexed(m, T, I),
         Relinked(m, n, T, FreeOf(T, 16)), n.small_list = m.small_list
  PROVE  Index8(n, T, I \cap FreeOf(T, 8)) /\ Undisturbed(m, n, T) /\ n.rbt = I \cap FreeLarge(T)
<1>1. FreeOf(T, 16) \in SUBSET Free(T) /\ FreeOf(T, 16) \cap FreeOf(T, 8) = {}
  BY IndexSetsApart
<1>2. OthersKept(m, n, T, I, FreeOf(T, 16))
  BY <1>1, OtherIndexes
<1>. QED BY <1>1, <1>2 DEF OthersKept

\* insert_free_block puts a free block into the index of its size.
LEMMA InsertFree ==
  ASSUME NEW m, NEW T, NEW I, Stage(m, T, I), NEW x \in Free(T), x \notin I
  PROVE  /\ Stage(insert_free_block(m, x), T, I \cup {x})
         /\ Undisturbed(m, insert_free_block(m, x), T)
<1> DEFINE n == insert_free_block(m, x)
           F8 == FreeOf(T, 8)
           F16 == FreeOf(T, 16)
           F24 == FreeLarge(T)
<1>1. Whole(m, T) /\ m.ok /\ m \in MemType /\ Indexed(m, T, I)
  BY DEF Stage, Whole, Layout
<1>2. /\ x \in F8 \/ x \in F16 \/ x \in F24
      /\ x \in DOMAIN T /\ get_blocksize(m, x) = T[x].size /\ get_allocated(m, x) = FREE
      /\ IsBlock(m, x) /\ get_footer(m, x) = End(T, x) - 4
  BY <1>1, FreeSizes
<1>3. Asserting(m, IsBlock(m, x) /\ get_allocated(m, x) = FREE) = m
  BY <1>1, <1>2, AssertHolds
<1>4. /\ F8 \subseteq Free(T) /\ F16 \subseteq Free(T) /\ F24 \subseteq Free(T)
      /\ Free(T) \subseteq DOMAIN T
      /\ F8 \cap F16 = {} /\ F8 \cap F24 = {} /\ F16 \cap F24 = {}
      /\ \A h \in F8 : T[h].size = 8
      /\ \A h \in F16 : T[h].size = 16
      /\ \A h \in F24 : T[h].size >= 24
  BY IndexSetsApart
<1> HIDE DEF F8, F16, F24
<1>5. /\ I \subseteq Free(T) /\ m.rbt = I \cap F24
      /\ Index8(m, T, I \cap F8) /\ Index16(m, T, I \cap F16)
  BY <1>1 DEF Indexed, F8, F16, F24
<1>6. CASE x \in F8
  <2>1. n = Small!insert(m, x)
    BY <1>2, <1>3, <1>4, <1>6 DEF insert_free_block
  <2>2. /\ Relinked(m, n, T, F8) /\ n.explicit_list = m.explicit_list
        /\ Index8(n, T, (I \cap F8) \cup {x})
    <3>1. x \notin I \cap F8
      OBVIOUS
    <3>. QED BY <1>1, <1>5, <1>6, <2>1, <3>1, SmallInsert DEF F8
  <2> HIDE DEF n
  <2>3. Index16(n, T, I \cap F16) /\ Undisturbed(m, n, T) /\ n.rbt = I \cap F24
    BY <1>1, <2>2, SmallMoved DEF F8, F16, F24
  <2>4. /\ (I \cup {x}) \cap F8 = (I \cap F8) \cup {x}
        /\ (I \cup {x}) \cap F16 = I \cap F16
        /\ (I \cup {x}) \cap F24 = I \cap F24
        /\ I \cup {x} \subseteq Free(T)
    BY <1>4, <1>5, <1>6
  <2>5. Indexed(n, T, I \cup {x})
    BY <2>2, <2>3, <2>4 DEF Indexed, F8, F16, F24
  <2>. QED BY <2>2, <2>3, <2>5 DEF Stage, Relinked, n
<1>7. CASE x \in F16
  <2>1. n = Explicit!insert(m, x)
    BY <1>2, <1>3, <1>4, <1>7 DEF insert_free_block
  <2>2. /\ Relinked(m, n, T, F16) /\ n.small_list = m.small_list
        /\ Index16(n, T, (I \cap F16) \cup {x})
    BY <1>1, <1>5, <1>7, <2>1, ExplicitInsert DEF F16
  <2> HIDE DEF n
  <2>3. Index8(n, T, I \cap F8) /\ Undisturbed(m, n, T) /\ n.rbt = I \cap F24
    BY <1>1, <2>2, ExplicitMoved DEF F8, F16, F24
  <2>4. /\ (I \cup {x}) \cap F8 = I \cap F8
        /\ (I \cup {x}) \cap F16 = (I \cap F16) \cup {x}
        /\ (I \cup {x}) \cap F24 = I \cap F24
        /\ I \cup {x} \subseteq Free(T)
    BY <1>4, <1>5, <1>7
  <2>5. Indexed(n, T, I \cup {x})
    BY <2>2, <2>3, <2>4 DEF Indexed, F8, F16, F24
  <2>. QED BY <2>2, <2>3, <2>5 DEF Stage, Relinked, n
<1>8. CASE x \in F24
  <2> DEFINE f == get_footer(m, x)
             k == [m EXCEPT !.word[f].p8 = Stale]
  <2>1. T[x].size >= 24 /\ T[x].size # 8 /\ T[x].size # 16 /\ T[x].size \in Nat
    <3>1. T[x].size \in Nat
      BY <1>1, <1>2, WordsOfBlock DEF Whole, Layout
    <3>. QED BY <1>4, <1>8, <3>1
  <2>2. n = [m EXCEPT !.rbt = @ \cup {x}, !.word[f].p8 = Stale]
    <3>1. Asserting(m, T[x].size >= 24) = m
      BY <1>1, <2>1, AssertHolds
    <3>. QED BY <1>2, <1>3, <2>1, <3>1 DEF insert_free_block
  <2>3. Tiles(T, get_epilogue(m), get_epilogue(m), get_epilogue(m))
    BY <1>1 DEF Whole, Layout
  <2>4. /\ f \in WordAddresses /\ f \notin HeaderAddresses /\ f = End(T, x) - 4
        /\ x \in Nat /\ f \in Nat /\ End(T, x) = x + T[x].size /\ x <= f /\ f < End(T, x)
    <3>1. x \in HeaderAddresses /\ f \in WordAddresses /\ f \notin HeaderAddresses
      BY <1>2, <2>3, WordsOfBlock
    <3>2. x \in Nat
      BY <3>1, Headers8
    <3> DEFINE s == T[x].size
    <3>3. s \in Nat /\ s >= 24 /\ End(T, x) = x + s /\ f = End(T, x) - 4
      BY <1>2, <2>1 DEF End
    <3> HIDE DEF s
    <3>. QED BY <3>1, <3>2, <3>3 DEF s
  <2> HIDE DEF f
  <2>5. Writes(m, k, f, [m.word[f] EXCEPT !.p8 = Stale]) /\ m.word[f] \in WordType
    BY <1>1, <2>4, WriteFields DEF Marks, MemType
  <2>6. n = [k EXCEPT !.rbt = @ \cup {x}]
    BY <1>1, <2>2 DEF MemType
  <2> HIDE DEF k
  <2>7. k \in MemType
    BY <2>5 DEF Writes, SameButWords
  <2>8. /\ n \in MemType /\ n.word = k.word /\ n.end = k.end /\ n.ok = k.ok
        /\ n.small_list = k.small_list /\ n.explicit_list = k.explicit_list
        /\ n.rbt = k.rbt \cup {x}
    BY <2>4, <2>6, <2>7 DEF MemType
  <2>9. /\ n.end = m.end /\ n.ok = m.ok /\ n.small_list = m.small_list
        /\ n.explicit_list = m.explicit_list /\ n.rbt = m.rbt \cup {x}
        /\ n.word[f].a = m.word[f].a /\ n.word[f].size = m.word[f].size
        /\ \A v \in WordAddresses : v # f => n.word[v] = m.word[v]
    BY <2>5, <2>8 DEF Writes, SameButWords, WordType
  <2> HIDE DEF n
  <2>10. Whole(n, T)
    <3>1. get_epilogue(m) \in HeaderAddresses /\ DOMAIN T \subseteq HeaderAddresses
      BY <2>3 DEF Tiles
    <3>2. /\ HeaderAddresses \subseteq WordAddresses
          /\ get_prologue \in WordAddresses /\ get_prologue # f
      <4>1. x >= 12 /\ x < HeapMax /\ HeapMax \in Nat
        BY <1>2, <3>1, Headers8
      <4>. QED BY <2>4, <4>1 DEF HeaderAddresses, WordAddresses, get_prologue
    <3>3. /\ n.word[get_prologue] = m.word[get_prologue]
          /\ \A y \in DOMAIN T \cup {get_epilogue(m)} : n.word[y] = m.word[y]
      BY <2>4, <2>9, <3>1, <3>2
    <3>4. \A h \in DOMAIN T : /\ n.word[End(T, h) - 4].size = m.word[End(T, h) - 4].size
                              /\ n.word[End(T, h) - 4].a = m.word[End(T, h) - 4].a
      <4>1. \A h \in DOMAIN T : End(T, h) - 4 \in WordAddresses
        BY <2>3, WordsOfBlock
      <4>. QED BY <2>9, <4>1
    <3>. QED BY <1>1, <2>8, <2>9, <3>3, <3>4, WholeSame
  <2>11. Elsewhere(m, n, T, {x})
    <3> SUFFICES ASSUME NEW v \in WordAddresses, v < x \/ End(T, x) <= v
                 PROVE  n.word[v] = m.word[v]
      BY DEF Elsewhere
    <3>1. v # f
      BY <2>1, <2>4 DEF WordAddresses
    <3>. QED BY <2>9, <3>1
  <2>12. \A h \in I : /\ Word(n, h) = Word(m, h) /\ Word(n, h + 4) = Word(m, h + 4)
                      /\ T[h].size = 16 => Word(n, h + 8) = Word(m, h + 8)
    BY <1>1, <1>2, <1>4, <1>5, <2>11, ElsewhereOthers
  <2>13. Index8(n, T, I \cap F8) /\ Index16(n, T, I \cap F16)
    <3>1. \A h \in I \cap F16 : T[h].size = 16
      BY <1>4
    <3>2. I \cap F8 \subseteq F8 /\ I \cap F16 \subseteq F16
      OBVIOUS
    <3>3. Index8(n, T, I \cap F8)
      BY <1>5, <2>9, <2>12, <3>2, Index8Moves DEF F8
    <3>4. Index16(n, T, I \cap F16)
      BY <1>5, <2>9, <2>12, <3>1, <3>2, Index16Moves DEF F16
    <3>. QED BY <3>3, <3>4
  <2>14. /\ (I \cup {x}) \cap F8 = I \cap F8
         /\ (I \cup {x}) \cap F16 = I \cap F16
         /\ (I \cup {x}) \cap F24 = (I \cap F24) \cup {x}
         /\ I \cup {x} \subseteq Free(T)
    BY <1>4, <1>5, <1>8
  <2>15. Indexed(n, T, I \cup {x})
    BY <1>5, <2>9, <2>13, <2>14 DEF Indexed, F8, F16, F24
  <2>16. Undisturbed(m, n, T)
    BY <2>9, <2>11 DEF Undisturbed, Elsewhere
  <2>. QED BY <1>1, <2>9, <2>10, <2>15, <2>16 DEF Stage, n
<1>. QED BY <1>2, <1>6, <1>7, <1>8

\* delete_free_block takes it out of there.
LEMMA DeleteFree ==
  ASSUME NEW m, NEW T, NEW I, Stage(m, T, I), NEW x \in I
  PROVE  /\ Stage(delete_free_block(m, x), T, I \ {x})
         /\ Undisturbed(m, delete_free_block(m, x), T)
<1> DEFINE n == delete_free_block(m, x)
           F8 == FreeOf(T, 8)
           F16 == FreeOf(T, 16)
           F24 == FreeLarge(T)
<1>1. Whole(m, T) /\ m.ok /\ m \in MemType /\ Indexed(m, T, I) /\ x \in Free(T)
  BY DEF Stage, Whole, Layout, Indexed
<1>2. /\ x \in F8 \/ x \in F16 \/ x \in F24
      /\ x \in DOMAIN T /\ get_blocksize(m, x) = T[x].size /\ get_allocated(m, x) = FREE
      /\ IsBlock(m, x)
  BY <1>1, FreeSizes
<1>3. Asserting(m, IsBlock(m, x) /\ get_allocated(m, x) = FREE) = m
  BY <1>1, <1>2, AssertHolds
<1>4. /\ F8 \subseteq Free(T) /\ F16 \subseteq Free(T) /\ F24 \subseteq Free(T)
      /\ Free(T) \subseteq DOMAIN T
      /\ F8 \cap F16 = {} /\ F8 \cap F24 = {} /\ F16 \cap F24 = {}
      /\ \A h \in F8 : T[h].size = 8
      /\ \A h \in F16 : T[h].size = 16
      /\ \A h \in F24 : T[h].size >= 24
  BY IndexSetsApart
<1> HIDE DEF F8, F16, F24
<1>5. /\ I \subseteq Free(T) /\ m.rbt = I \cap F24
      /\ Index8(m, T, I \cap F8) /\ Index16(m, T, I \cap F16)
  BY <1>1 DEF Indexed, F8, F16, F24
<1>6. CASE x \in F8
  <2>1. n = Small!delete(m, x)
    BY <1>2, <1>3, <1>4, <1>6 DEF delete_free_block
  <2>2. /\ Relinked(m, n, T, F8) /\ n.explicit_list = m.explicit_list
        /\ Index8(n, T, (I \cap F8) \ {x})
    BY <1>1, <1>5, <1>6, <2>1, SmallDelete DEF F8
  <2> HIDE DEF n
  <2>3. Index16(n, T, I \cap F16) /\ Undisturbed(m, n, T) /\ n.rbt = I \cap F24
    <3>1. Relinked(m, n, T, F8) /\ n.explicit_list = m.explicit_list
      BY <2>2
    <3>. QED BY <1>1, <3>1, SmallMoved DEF F8, F16, F24
  <2>4. /\ (I \ {x}) \cap F8 = (I \cap F8) \ {x}
        /\ (I \ {x}) \cap F16 = I \cap F16
        /\ (I \ {x}) \cap F24 = I \cap F24
        /\ I \ {x} \subseteq Free(T)
    BY <1>4, <1>5, <1>6
  <2>5. Indexed(n, T, I \ {x})
    BY <2>2, <2>3, <2>4 DEF Indexed, F8, F16, F24
  <2>. QED BY <2>2, <2>3, <2>5 DEF Stage, Relinked, n
<1>7. CASE x \in F16
  <2>1. n = explicit_list_delete(m, x)
    BY <1>2, <1>3, <1>4, <1>7 DEF delete_free_block
  <2>2. /\ Relinked(m, n, T, F16) /\ n.small_list = m.small_list
        /\ Index16(n, T, (I \cap F16) \ {x})
    BY <1>1, <1>5, <1>7, <2>1, ExplicitListDelete DEF F16
  <2> HIDE DEF n
  <2>3. Index8(n, T, I \cap F8) /\ Undisturbed(m, n, T) /\ n.rbt = I \cap F24
    BY <1>1, <2>2, ExplicitMoved DEF F8, F16, F24
  <2>4. /\ (I \ {x}) \cap F8 = I \cap F8
        /\ (I \ {x}) \cap F16 = (I \cap F16) \ {x}
        /\ (I \ {x}) \cap F24 = I \cap F24
        /\ I \ {x} \subseteq Free(T)
    BY <1>4, <1>5, <1>7
  <2>5. Indexed(n, T, I \ {x})
    BY <2>2, <2>3, <2>4 DEF Indexed, F8, F16, F24
  <2>. QED BY <2>2, <2>3, <2>5 DEF Stage, Relinked, n
<1>8. CASE x \in F24
  <2>1. T[x].size # 8 /\ T[x].size # 16
    <3>1. T[x].size \in Nat
      BY <1>1, <1>2, WordsOfBlock DEF Whole, Layout
    <3>. QED BY <1>4, <1>8, <3>1
  <2>2. n = [m EXCEPT !.rbt = @ \ {x}]
    BY <1>2, <1>3, <2>1 DEF delete_free_block
  <2>3. /\ n \in MemType /\ n.word = m.word /\ n.end = m.end /\ n.ok = m.ok
        /\ n.small_list = m.small_list /\ n.explicit_list = m.explicit_list
        /\ n.rbt = m.rbt \ {x}
    BY <1>1, <2>2 DEF MemType
  <2> HIDE DEF n
  <2>4. Whole(n, T)
    BY <1>1, <2>3, WholeSame
  <2>5. \A v : Word(n, v) = Word(m, v)
    BY <2>3 DEF Word
  <2>6. Index8(n, T, I \cap F8) /\ Index16(n, T, I \cap F16)
    <3>1. I \cap F8 \subseteq F8 /\ I \cap F16 \subseteq F16
      OBVIOUS
    <3>2. Index8(n, T, I \cap F8)
      BY <1>5, <2>3, <2>5, <3>1, Index8Moves DEF F8
    <3>3. Index16(n, T, I \cap F16)
      BY <1>5, <2>3, <2>5, <3>1, Index16Moves DEF F16
    <3>. QED BY <3>2, <3>3
  <2>7. /\ (I \ {x}) \cap F8 = I \cap F8
        /\ (I \ {x}) \cap F16 = I \cap F16
        /\ (I \ {x}) \cap F24 = (I \cap F24) \ {x}
        /\ I \ {x} \subseteq Free(T)
    BY <1>4, <1>5, <1>8
  <2>8. Indexed(n, T, I \ {x})
    BY <1>5, <2>3, <2>6, <2>7 DEF Indexed, F8, F16, F24
  <2>9. Undisturbed(m, n, T)
    BY <2>3 DEF Undisturbed, Elsewhere
  <2>. QED BY <1>1, <2>3, <2>4, <2>8, <2>9 DEF Stage, n
<1>. QED BY <1>2, <1>6, <1>7, <1>8

-----------------------------------------------------------------------------
(* Payloads, and the operations of mem_alloc.c on layouts                   *)

\* The words of a block that its holder may write
PayloadEnd(T, h) == IF T[h].size = 8 THEN End(T, h) ELSE End(T, h) - 4
Payloads(T) ==
    {v \in WordAddresses :
        \E h \in DOMAIN T : T[h].a = ALLOCATED /\ h < v /\ v < PayloadEnd(T, h)}

\* Nothing was written to the words K, which belong to payloads.
Holds(m, T, K) == K \subseteq Payloads(T) /\ \A v \in K : m.word[v] = StaleWord

\* A heap with a hole, and one without
Working(m, T, lo, hi, I, K) ==
    Layout(m, T, lo, hi) /\ m.ok /\ Indexed(m, T, I) /\ Holds(m, T, K)
Settled(m, T, I, K) == Stage(m, T, I) /\ Holds(m, T, K)

\* A word of a payload is inside of an allocated block.
LEMMA PayloadWord ==
  ASSUME NEW T, NEW lo, NEW hi, NEW e, Tiles(T, lo, hi, e), NEW v \in Payloads(T)
  PROVE  /\ v \in WordAddresses /\ v \in Nat
         /\ \E h \in DOMAIN T : /\ T[h].a = ALLOCATED /\ h < v /\ v < End(T, h)
                                /\ v < PayloadEnd(T, h)
         /\ v < lo \/ hi < v
<1>1. PICK h \in DOMAIN T : T[h].a = ALLOCATED /\ h < v /\ v < PayloadEnd(T, h)
  BY DEF Payloads
<1>2. v \in WordAddresses /\ v \in Nat
  BY HeapAssumption DEF Payloads, WordAddresses
<1>3. /\ h \in HeaderAddresses /\ End(T, h) \in HeaderAddresses
      /\ (h < lo /\ End(T, h) <= lo) \/ hi <= h
      /\ lo \in HeaderAddresses /\ hi \in HeaderAddresses
  BY WordsOfBlock DEF Tiles
<1>4. h \in Nat /\ End(T, h) \in Nat /\ lo \in Nat /\ hi \in Nat
  BY <1>3, Headers8
<1>5. v < End(T, h)
  BY <1>1, <1>2, <1>4 DEF PayloadEnd
<1>. QED BY <1>1, <1>2, <1>3, <1>4, <1>5

\* The indexes have their words in free blocks.
LEMMA HoldsUndisturbed ==
  ASSUME NEW m, NEW n, NEW T, Whole(m, T), NEW K, Holds(m, T, K), Undisturbed(m, n, T)
  PROVE  Holds(n, T, K)
<1> DEFINE e == get_epilogue(m)
<1>1. Tiles(T, e, e, e)
  BY DEF Whole, Layout
<1>2. ASSUME NEW v \in K
      PROVE  n.word[v] = StaleWord
  <2>1. v \in Payloads(T) /\ m.word[v] = StaleWord
    BY DEF Holds
  <2>2. v \in WordAddresses /\ v \in Nat
    BY <1>1, <2>1, PayloadWord
  <2>3. PICK h \in DOMAIN T : T[h].a = ALLOCATED /\ h < v /\ v < End(T, h)
    BY <1>1, <2>1, PayloadWord
  <2>4. ASSUME NEW b \in Free(T)
        PROVE  v < b \/ End(T, b) <= v
    <3>1. b \in DOMAIN T /\ b # h
      BY <2>3, <2>4 DEF Free, FREE, ALLOCATED
    <3>2. h \in Nat /\ b \in Nat /\ End(T, b) \in Nat
      BY <1>1, <3>1, WordsOfBlock, Headers8
    <3>3. ~(b <= v /\ v < End(T, b))
      BY <1>1, <2>2, <2>3, <3>1, <3>2, OneBlockPerWord
    <3>. QED BY <2>2, <3>2, <3>3
  <2>. QED BY <2>1, <2>2, <2>4 DEF Undisturbed, Elsewhere
<1>. QED BY <1>2 DEF Holds

\* A free block enters the indexes, or leaves them.
LEMMA InsertSettled ==
  ASSUME NEW m, NEW T, NEW I, NEW K, Settled(m, T, I, K), NEW x \in Free(T), x \notin I
  PROVE  /\ Settled(insert_free_block(m, x), T, I \cup {x}, K)
         /\ insert_free_block(m, x).end = m.end
<1>1. Stage(m, T, I) /\ Whole(m, T) /\ Holds(m, T, K)
  BY DEF Settled, Stage
<1>2. /\ Stage(insert_free_block(m, x), T, I \cup {x})
      /\ Undisturbed(m, insert_free_block(m, x), T)
  BY <1>1, InsertFree
<1>3. Holds(insert_free_block(m, x), T, K)
  BY <1>1, <1>2, HoldsUndisturbed
<1>. QED BY <1>2, <1>3 DEF Settled, Undisturbed

\* The same of a block that leaves
LEMMA DeleteSettled ==
  ASSUME NEW m, NEW T, NEW I, NEW K, Settled(m, T, I, K), NEW x \in I
  PROVE  /\ Settled(delete_free_block(m, x), T, I \ {x}, K)
         /\ delete_free_block(m, x).end = m.end
<1>1. Stage(m, T, I) /\ Whole(m, T) /\ Holds(m, T, K)
  BY DEF Settled, Stage
<1>2. /\ Stage(delete_free_block(m, x), T, I \ {x})
      /\ Undisturbed(m, delete_free_block(m, x), T)
  BY <1>1, DeleteFree
<1>3. Holds(delete_free_block(m, x), T, K)
  BY <1>1, <1>2, HoldsUndisturbed
<1>. QED BY <1>2, <1>3 DEF Settled, Undisturbed

\* Blocks that no index holds and nobody's payload is in make a hole.
LEMMA OpenHole ==
  ASSUME NEW m, NEW T, NEW I, NEW K, Settled(m, T, I, K),
         NEW lo \in DOMAIN T \cup {get_epilogue(m)}, NEW hi \in DOMAIN T \cup {get_epilogue(m)},
         lo <= hi, I \cap Between(T, lo, hi) = {},
         K \subseteq Payloads(Without(T, Between(T, lo, hi)))
  PROVE  Working(m, Without(T, Between(T, lo, hi)), lo, hi, I, K)
<1> DEFINE U == Without(T, Between(T, lo, hi))
<1>1. Whole(m, T) /\ m.ok /\ Indexed(m, T, I) /\ Holds(m, T, K)
  BY DEF Settled, Stage
<1>2. Layout(m, U, lo, hi)
  BY <1>1, LayoutWithout
<1>3. Indexed(m, U, I)
  <2>1. I \subseteq DOMAIN T
    BY <1>1 DEF Indexed, Free
  <2>2. I \subseteq DOMAIN U /\ \A h \in I : U[h] = T[h]
    BY <2>1 DEF Without
  <2> HIDE DEF U
  <2>. QED BY <1>1, <2>2, IndexedMoves
<1>. QED BY <1>1, <1>2, <1>3 DEF Working, Holds

\* A block with its tags fills the low end of a hole.
LEMMA FillStep ==
  ASSUME NEW m, NEW T, NEW lo, NEW hi, NEW I, NEW K, Working(m, T, lo, hi, I, K),
         NEW a \in {FREE, ALLOCATED}, NEW size \in Nat, size >= 8, size % 8 = 0,
         lo + size <= hi, NEW n, Tagged(m, n, lo, a, size)
  PROVE  /\ Working(n, With(T, lo, size, a), lo + size, hi, I, K)
         /\ n.end = m.end
<1> DEFINE U == With(T, lo, size, a)
           e == get_epilogue(m)
<1>1. Layout(m, T, lo, hi) /\ m.ok /\ Indexed(m, T, I) /\ Holds(m, T, K) /\ Tiles(T, lo, hi, e)
  BY DEF Working, Layout
<1>2. Layout(n, U, lo + size, hi)
  BY <1>1, FillHole
<1>3. /\ n.end = m.end /\ n.ok = m.ok /\ n.small_list = m.small_list
      /\ n.explicit_list = m.explicit_list /\ n.rbt = m.rbt
      /\ \A v \in WordAddresses : v < lo \/ lo + size < v => n.word[v] = m.word[v]
  BY DEF Tagged, SameButWords
<1>4. n.word[lo + size].size = m.word[lo + size].size
  <2>1. lo + size \in WordAddresses
    BY <1>1, TilesWith DEF HeaderAddresses
  <2>2. m.word[lo + size] \in WordType
    BY <1>1, <2>1 DEF Layout, MemType
  <2>. QED BY <2>2 DEF Tagged, WordType
<1>5. lo \notin DOMAIN T /\ lo \in Nat /\ hi \in Nat /\ lo + size \in Nat
  BY <1>1, TilesWith, Headers8 DEF Tiles
<1>6. /\ DOMAIN U = DOMAIN T \cup {lo}
      /\ \A h \in DOMAIN T : U[h] = T[h] /\ End(U, h) = End(T, h)
  BY <1>5 DEF With, End
<1> HIDE DEF U
<1>7. Indexed(n, U, I)
  <2>1. I \subseteq DOMAIN T
    BY <1>1 DEF Indexed, Free
  <2>2. ASSUME NEW h \in I
        PROVE  /\ Word(n, h).size = Word(m, h).size
               /\ Word(n, h + 4) = Word(m, h + 4)
               /\ T[h].size = 16 => Word(n, h + 8) = Word(m, h + 8)
    <3>1. /\ h \in Nat /\ T[h].size \in Nat /\ T[h].size >= 8
          /\ (h < lo /\ h + T[h].size <= lo) \/ hi <= h
      BY <1>1, <2>1, WordsOfBlock, Headers8 DEF End
    <3>2. ASSUME NEW d \in {0, 4, 8}, d = 8 => T[h].size = 16
          PROVE  h + d < lo \/ lo + size < h + d \/ (d = 0 /\ h = lo + size)
      BY <1>5, <3>1, <3>2
    <3>3. ASSUME NEW d \in {0, 4, 8}, d = 8 => T[h].size = 16, d # 0 \/ h # lo + size
          PROVE  Word(n, h + d) = Word(m, h + d)
      BY <1>3, <3>2, <3>3 DEF Word
    <3>4. h + 0 = h
      BY <3>1
    <3>5. Word(n, h).size = Word(m, h).size
      <4>1. CASE h = lo + size
        BY <1>4, <4>1 DEF Word
      <4>. QED BY <3>3, <3>4, <4>1
    <3>. QED BY <3>3, <3>5
  <2>3. I \subseteq DOMAIN U /\ \A h \in I : U[h] = T[h]
    BY <1>6, <2>1
  <2>. QED BY <1>1, <1>3, <2>2, <2>3, IndexedMoves
<1>8. Holds(n, U, K)
  <2>1. ASSUME NEW v \in K
        PROVE  v \in Payloads(U) /\ n.word[v] = StaleWord
    <3>1. v \in Payloads(T) /\ m.word[v] = StaleWord
      BY <1>1 DEF Holds
    <3>2. v \in WordAddresses /\ v \in Nat /\ (v < lo \/ hi < v)
      BY <1>1, <3>1, PayloadWord
    <3>3. v \in Payloads(U)
      BY <1>6, <3>1 DEF Payloads, PayloadEnd
    <3>. QED BY <1>3, <1>5, <3>1, <3>2, <3>3
  <2>. QED BY <2>1 DEF Holds
<1>. QED BY <1>1, <1>2, <1>3, <1>7, <1>8 DEF Working, U

\* The hole is full.
LEMMA CloseHole ==
  ASSUME NEW m, NEW T, NEW hi, NEW I, NEW K, Working(m, T, hi, hi, I, K)
  PROVE  Settled(m, T, I, K)
BY LayoutClose DEF Working, Settled, Stage

\* The same with the tags that TagBlock writes
LEMMA FillTag ==
  ASSUME NEW m, NEW T, NEW lo, NEW hi, NEW I, NEW K, Working(m, T, lo, hi, I, K),
         NEW a \in {FREE, ALLOCATED}, NEW size \in Nat, size >= 8, size % 8 = 0,
         lo + size <= hi
  PROVE  /\ Working(TagBlock(m, lo, a, size), With(T, lo, size, a), lo + size, hi, I, K)
         /\ TagBlock(m, lo, a, size).end = m.end
<1>1. /\ Tiles(T, lo, hi, get_epilogue(m)) /\ m \in MemType
      /\ lo \in HeaderAddresses /\ hi \in HeaderAddresses /\ get_epilogue(m) \in HeaderAddresses
      /\ hi <= get_epilogue(m)
  BY DEF Working, Layout, Tiles
<1>2. lo + size \in HeaderAddresses
  BY <1>1, TilesWith
<1>3. lo + size <= get_epilogue(m)
  BY <1>1, <1>2, Headers8
<1>4. Tagged(m, TagBlock(m, lo, a, size), lo, a, size)
  BY <1>1, <1>2, <1>3, TagBlockTags
<1>. QED BY <1>4, FillStep

\* No payload is in a free block.
LEMMA PayloadsWithout ==
  ASSUME NEW T, NEW B, \A h \in B : h \in DOMAIN T => T[h].a = FREE
  PROVE  Payloads(T) \subseteq Payloads(Without(T, B))
<1>1. ASSUME NEW h \in DOMAIN T, T[h].a = ALLOCATED
      PROVE  /\ h \in DOMAIN Without(T, B) /\ Without(T, B)[h] = T[h]
             /\ PayloadEnd(Without(T, B), h) = PayloadEnd(T, h)
  <2>1. h \in DOMAIN Without(T, B) /\ Without(T, B)[h] = T[h]
    BY <1>1 DEF Without, FREE, ALLOCATED
  <2>. QED BY <2>1 DEF PayloadEnd, End
<1>. QED BY <1>1 DEF Payloads

\* One block, or two neighbours
LEMMA BetweenOne ==
  ASSUME NEW T, NEW e, Tiles(T, e, e, e), NEW x \in DOMAIN T
  PROVE  /\ Between(T, x, End(T, x)) = {x} /\ x <= End(T, x) /\ x < End(T, x)
         /\ End(T, x) \in DOMAIN T \cup {e}
         /\ x \in Nat /\ End(T, x) \in Nat
<1>1. /\ \A h \in DOMAIN T : h \in Nat /\ T[h].size \in Nat /\ T[h].size >= 8 /\ End(T, h) \in Nat
  BY Headers8 DEF Tiles, End
<1>2. x < End(T, x)
  BY <1>1 DEF End
<1>3. \A h \in DOMAIN T : x <= h /\ h < End(T, x) => h = x
  <2>1. \A h \in DOMAIN T : x < h => End(T, x) <= h
    BY DEF Tiles
  <2>. QED BY <1>1, <2>1
<1>. QED BY <1>1, <1>2, <1>3 DEF Between, Tiles

\* Two neighbours
LEMMA BetweenTwo ==
  ASSUME NEW T, NEW e, Tiles(T, e, e, e), NEW x \in DOMAIN T, NEW y \in DOMAIN T, End(T, x) = y
  PROVE  Between(T, x, End(T, y)) = {x, y} /\ x <= End(T, y) /\ x < y /\ y < End(T, y)
<1>1. /\ \A h \in DOMAIN T : h \in Nat /\ T[h].size \in Nat /\ T[h].size >= 8 /\ End(T, h) \in Nat
  BY Headers8 DEF Tiles, End
<1>2. x < End(T, x) /\ y < End(T, y)
  BY <1>1 DEF End
<1>3. \A h \in DOMAIN T : x <= h /\ h < End(T, y) => h = x \/ h = y
  <2>1. \A h \in DOMAIN T : (x < h => End(T, x) <= h) /\ (y < h => End(T, y) <= h)
    BY DEF Tiles
  <2>. QED BY <1>1, <2>1
<1>. QED BY <1>1, <1>2, <1>3 DEF Between

\* The layout after a part of the free block "x" was taken
Taken(T, x, size) == With(Without(T, {x}), x, size, ALLOCATED)
SplitLayout(T, x, size) ==
    IF T[x].size - size >= 8
    THEN With(Taken(T, x, size), x + size, T[x].size - size, FREE)
    ELSE Taken(T, x, size)

\* try_alloc_with_splitting leaves a whole heap, whose free blocks are all indexed.
LEMMA SplitSettled ==
  ASSUME NEW m, NEW T, NEW K, Settled(m, T, Free(T), K), NEW x \in Free(T),
         NEW size \in Nat, size >= 8, size % 8 = 0, size <= T[x].size
  PROVE  /\ Settled(try_alloc_with_splitting(m, x, size), SplitLayout(T, x, size),
                    Free(SplitLayout(T, x, size)), K)
         /\ try_alloc_with_splitting(m, x, size).end = m.end
<1> DEFINE e == get_epilogue(m)
           I == Free(T) \ {x}
           hi == End(T, x)
           left == T[x].size - size
           W == Without(T, {x})
           V == Taken(T, x, size)
           p == delete_free_block(m, x)
           q == TagBlock(p, x, ALLOCATED, size)
           rest == get_nextheader(q, x)
           r == TagBlock(q, rest, FREE, left)
<1>1. Whole(m, T) /\ Tiles(T, e, e, e) /\ Layout(m, T, e, e) /\ x \in DOMAIN T
  BY DEF Settled, Stage, Whole, Layout, Free
<1>2. get_blocksize(m, x) = T[x].size /\ T[x].size \in Nat /\ T[x].size % 8 = 0
  BY <1>1, ReadBlock, WordsOfBlock
<1>3. /\ left \in Nat /\ left % 8 = 0 /\ (left >= 8 \/ left = 0) /\ hi = x + T[x].size
      /\ x \in Nat /\ hi \in Nat /\ x + size <= hi /\ (x + size) + left = hi
      /\ hi \in DOMAIN T \cup {e} /\ Between(T, x, hi) = {x} /\ x <= hi /\ x < hi
  <2>1. x \in Nat /\ hi \in Nat /\ hi \in DOMAIN T \cup {e} /\ Between(T, x, hi) = {x}
        /\ x <= hi /\ x < hi
    BY <1>1, BetweenOne
  <2>2. hi = x + T[x].size
    BY DEF End
  <2> DEFINE s == T[x].size
  <2> HIDE DEF hi, s
  <2>3. left = s - size /\ s \in Nat /\ s % 8 = 0 /\ size <= s /\ hi = x + s
    BY <1>2, <2>2 DEF s
  <2> HIDE DEF left
  <2>. QED BY <2>1, <2>2, <2>3
<1> HIDE DEF hi
<1>4. Settled(p, T, I, K) /\ p.end = m.end
  BY DeleteSettled
<1>5. get_epilogue(p) = e
  BY <1>4 DEF get_epilogue
<1> HIDE DEF p
<1>6. Working(p, W, x, hi, I, K)
  <2>1. K \subseteq Payloads(W)
    <3>1. \A h \in {x} : h \in DOMAIN T => T[h].a = FREE
      BY DEF Free
    <3>2. Payloads(T) \subseteq Payloads(W)
      BY <3>1, PayloadsWithout
    <3>. QED BY <3>2 DEF Settled, Holds
  <2>2. I \cap Between(T, x, hi) = {}
    BY <1>3
  <2>. QED BY <1>1, <1>3, <1>4, <1>5, <2>1, <2>2, OpenHole
<1>7. Working(q, V, x + size, hi, I, K) /\ q.end = m.end
  <2> HIDE DEF W, I
  <2>1. ALLOCATED \in {FREE, ALLOCATED} /\ x + size <= hi
    BY <1>3
  <2> HIDE DEF q, rest, r, left
  <2>2. /\ Working(TagBlock(p, x, ALLOCATED, size), With(W, x, size, ALLOCATED), x + size, hi, I, K)
        /\ TagBlock(p, x, ALLOCATED, size).end = p.end
    BY <1>6, <2>1, FillTag
  <2>. QED BY <1>4, <2>2 DEF q, W, Taken
<1> HIDE DEF q
<1>8. rest = x + size
  <2>1. Layout(q, V, x + size, hi)
    BY <1>7 DEF Working
  <2>2. x \in DOMAIN V /\ End(V, x) = x + size
    BY DEF Taken, With, End
  <2> HIDE DEF V
  <2>. QED BY <2>1, <2>2, ReadBlock
<1>9. /\ DOMAIN V = DOMAIN T /\ V[x].a = ALLOCATED
      /\ \A h \in DOMAIN T : h # x => V[h] = T[h]
  BY <1>1 DEF Taken, With, Without
<1>10. Free(V) = I
  BY <1>1, <1>9 DEF Free, FREE, ALLOCATED
<1>11. CASE left >= 8
  <2> DEFINE U == With(V, x + size, left, FREE)
  <2>1. Working(r, U, hi, hi, I, K) /\ r.end = m.end
    <3>1. Working(r, U, (x + size) + left, hi, I, K) /\ r.end = q.end
      <4> HIDE DEF V, left, rest
      <4>1. FREE \in {FREE, ALLOCATED}
        OBVIOUS
      <4>2. (x + size) + left <= hi
        BY <1>3
      <4>. QED BY <1>3, <1>7, <1>8, <1>11, <4>1, <4>2, FillTag
    <3>. QED BY <1>3, <1>7, <3>1
  <2>2. x + size \notin DOMAIN V
    <3>1. Tiles(V, x + size, hi, get_epilogue(q))
      BY <1>7 DEF Working, Layout
    <3> HIDE DEF V
    <3>2. (x + size) + left <= hi /\ left \in Nat /\ left % 8 = 0 /\ left >= 8
      BY <1>3, <1>11
    <3>. QED BY <3>1, <3>2, TilesWith
  <2>3. Free(U) = I \cup {x + size} /\ x + size \in Free(U) /\ x + size \notin I
    <3> HIDE DEF V
    <3>1. /\ DOMAIN U = DOMAIN V \cup {x + size} /\ U[x + size].a = FREE
          /\ \A h \in DOMAIN V : U[h] = V[h]
      BY <2>2 DEF With
    <3> HIDE DEF U
    <3>2. x + size \notin I
      BY <1>9, <2>2 DEF Free
    <3>3. Free(U) = Free(V) \cup {x + size}
      BY <3>1 DEF Free
    <3>. QED BY <1>10, <3>2, <3>3
  <2> HIDE DEF r
  <2>4. Settled(r, U, I, K)
    BY <2>1, CloseHole
  <2>5. /\ Settled(insert_free_block(r, x + size), U, I \cup {x + size}, K)
        /\ insert_free_block(r, x + size).end = r.end
    <3> HIDE DEF U
    <3>. QED BY <2>3, <2>4, InsertSettled
  <2>6. try_alloc_with_splitting(m, x, size) = insert_free_block(r, x + size)
    BY <1>2, <1>8, <1>11 DEF try_alloc_with_splitting, IndexRest, p, q, r
  <2>7. SplitLayout(T, x, size) = U
    BY <1>11 DEF SplitLayout
  <2>. QED BY <2>1, <2>3, <2>5, <2>6, <2>7
<1>12. CASE left = 0
  <2>1. x + size = hi
    <3> HIDE DEF left
    <3>. QED BY <1>3, <1>12
  <2>2. Settled(q, V, I, K)
    BY <1>7, <2>1, CloseHole
  <2>3. try_alloc_with_splitting(m, x, size) = q
    BY <1>2, <1>12 DEF try_alloc_with_splitting, p, q
  <2>4. SplitLayout(T, x, size) = V
    BY <1>12 DEF SplitLayout
  <2>. QED BY <1>7, <1>10, <2>2, <2>3, <2>4
<1>. QED BY <1>3, <1>11, <1>12

\* The layout after two neighbours became one free block
Merged(T, low, high) ==
    With(Without(T, {low, high}), low, T[low].size + T[high].size, FREE)

\* merge_blocks_as_free makes one free block of two neighbours.
LEMMA MergeSettled ==
  ASSUME NEW m, NEW T, NEW I, NEW K, Settled(m, T, I, K),
         NEW low \in DOMAIN T, NEW high \in DOMAIN T, End(T, low) = high,
         low \notin I, high \notin I, K \subseteq Payloads(Without(T, {low, high}))
  PROVE  /\ Settled(merge_blocks_as_free(m, low, high), Merged(T, low, high), I, K)
         /\ merge_blocks_as_free(m, low, high).end = m.end
<1> DEFINE e == get_epilogue(m)
           W == Without(T, {low, high})
           hi == End(T, high)
           size == T[low].size + T[high].size
<1>1. Whole(m, T) /\ m.ok /\ m \in MemType /\ Tiles(T, e, e, e) /\ Layout(m, T, e, e)
  BY DEF Settled, Stage, Whole, Layout
<1>2. /\ get_blocksize(m, low) = T[low].size /\ get_blocksize(m, high) = T[high].size
      /\ get_nextheader(m, low) = high
  BY <1>1, ReadBlock
<1>3. get_prevheader(m, high) = low
  BY <1>1, ReadPrevious
<1>4. merge_blocks_as_free(m, low, high) = TagBlock(m, low, FREE, size)
  <2>1. Asserting(m, get_nextheader(m, low) = high /\ get_prevheader(m, high) = low) = m
    BY <1>1, <1>2, <1>3, AssertHolds
  <2>. QED BY <1>2, <2>1 DEF merge_blocks_as_free
<1>5. /\ Between(T, low, hi) = {low, high} /\ low <= hi /\ hi \in DOMAIN T \cup {e}
  BY <1>1, BetweenTwo, BetweenOne
<1>6. size \in Nat /\ size >= 8 /\ size % 8 = 0 /\ low + size = hi /\ hi \in Nat
  <2>1. /\ low \in Nat /\ high = low + T[low].size /\ hi = high + T[high].size
    BY <1>1, BetweenOne DEF End
  <2>2. /\ T[low].size \in Nat /\ T[low].size >= 8 /\ T[low].size % 8 = 0
        /\ T[high].size \in Nat /\ T[high].size >= 8 /\ T[high].size % 8 = 0
    BY <1>1, WordsOfBlock
  <2> DEFINE s == T[low].size
             t == T[high].size
  <2>3. /\ low \in Nat /\ high = low + s /\ hi = high + t /\ size = s + t
        /\ s \in Nat /\ s >= 8 /\ s % 8 = 0 /\ t \in Nat /\ t >= 8 /\ t % 8 = 0
    BY <2>1, <2>2
  <2> HIDE DEF s, t, hi, size
  <2>. QED BY <2>3
<1> HIDE DEF hi, size
<1>7. Working(m, W, low, hi, I, K)
  BY <1>5, OpenHole
<1>8. /\ Working(TagBlock(m, low, FREE, size), With(W, low, size, FREE), low + size, hi, I, K)
      /\ TagBlock(m, low, FREE, size).end = m.end
  <2> HIDE DEF W
  <2>1. FREE \in {FREE, ALLOCATED} /\ low + size <= hi
    BY <1>6
  <2>. QED BY <1>6, <1>7, <2>1, FillTag
<1>9. With(W, low, size, FREE) = Merged(T, low, high)
  BY DEF Merged, size
<1>. QED BY <1>4, <1>6, <1>8, <1>9, CloseHole

\* P8 behind a block
LEMMA FollowsEnd ==
  ASSUME NEW T, NEW e, Tiles(T, e, e, e), NEW b \in DOMAIN T
  PROVE  Follows8(T, End(T, b)) = IF T[b].size = 8 THEN 1 ELSE 0
<1> DEFINE s == T[b].size
<1>1. /\ b \in Nat /\ b >= 12 /\ s \in Nat /\ s >= 8 /\ s % 8 = 0 /\ End(T, b) = b + s
  <2>1. b \in HeaderAddresses /\ s \in Nat /\ s >= 8 /\ s % 8 = 0
    BY WordsOfBlock
  <2>. QED BY <2>1, Headers8 DEF End
<1>2. End(T, b) # get_firstblock
  <2> HIDE DEF s
  <2>. QED BY <1>1 DEF get_firstblock, get_prologue
<1>3. CASE s = 8
  <2>1. End(T, b) - 8 = b
    <3> HIDE DEF s
    <3>. QED BY <1>1, <1>3
  <2>. QED BY <1>3, <2>1 DEF Follows8, FollowsBlock8
<1>4. CASE s # 8
  <2> DEFINE g == End(T, b) - 8
  <2>1. g \in Nat /\ b <= g /\ g < End(T, b) /\ g # b
    <3> HIDE DEF s
    <3>. QED BY <1>1, <1>4
  <2>2. g \in DOMAIN T => g < End(T, g)
    BY BetweenOne
  <2>3. g \notin DOMAIN T
    <3> HIDE DEF g
    <3>. QED BY <2>1, <2>2, OneBlockPerWord
  <2>. QED BY <1>2, <1>4, <2>3 DEF Follows8, FollowsBlock8
<1>. QED BY <1>3, <1>4

\* The layout after a block alone was marked as free
FreedAlone(T, b) == With(Without(T, {b}), b, T[b].size, FREE)

\* mem_free without a free neighbour sets two allocated bits.
LEMMA AloneSettled ==
  ASSUME NEW m, NEW T, NEW I, NEW K, Settled(m, T, I, K),
         NEW b \in DOMAIN T, b \notin I, K \subseteq Payloads(Without(T, {b}))
  PROVE  LET n == set_allocated(set_allocated(m, b, FREE), get_footer(m, b), FREE)
         IN  Settled(n, FreedAlone(T, b), I, K) /\ n.end = m.end
<1> DEFINE e == get_epilogue(m)
           s == T[b].size
           f == get_footer(m, b)
           hi == End(T, b)
           k == set_allocated(m, b, FREE)
           n == set_allocated(k, f, FREE)
           W == Without(T, {b})
<1>1. Whole(m, T) /\ m.ok /\ m \in MemType /\ Tiles(T, e, e, e) /\ Layout(m, T, e, e) /\ Tags(m, T, e, e)
  BY DEF Settled, Stage, Whole, Layout
<1>2. is_header(b) /\ get_footer(m, b) = hi - 4
  BY <1>1, ReadBlock
<1>3. /\ b \in Nat /\ b % 8 = 4 /\ s \in Nat /\ s >= 8 /\ s % 8 = 0 /\ hi = b + s /\ hi \in Nat
      /\ b \in WordAddresses /\ hi - 4 \in WordAddresses /\ hi \in WordAddresses
      /\ hi \in DOMAIN T \cup {e} /\ Between(T, b, hi) = {b} /\ b <= hi
      /\ ~is_header(hi - 4)
  <2>1. /\ b \in HeaderAddresses /\ hi \in HeaderAddresses /\ s \in Nat /\ s >= 8 /\ s % 8 = 0
        /\ hi - 4 \in WordAddresses
    BY <1>1, WordsOfBlock
  <2>2. b \in Nat /\ b % 8 = 4 /\ hi \in Nat /\ hi % 8 = 4
    BY <2>1, Headers8
  <2>3. hi \in DOMAIN T \cup {e} /\ Between(T, b, hi) = {b} /\ b <= hi
    BY <1>1, BetweenOne
  <2>4. hi = b + s
    BY DEF End
  <2>5. ~is_header(hi - 4)
    <3> HIDE DEF hi
    <3>. QED BY <2>2 DEF is_header
  <2>. QED BY <2>1, <2>2, <2>3, <2>4, <2>5 DEF HeaderAddresses
<1>4. /\ m.word[b].b8 = (IF s = 8 THEN 1 ELSE 0)
      /\ s # 8 => m.word[b].size = s /\ m.word[hi - 4].size = s
      /\ m.word[hi].p8 = (IF s = 8 THEN 1 ELSE 0)
  <2>1. Follows8(T, hi) = IF s = 8 THEN 1 ELSE 0
    BY <1>1, FollowsEnd
  <2>. QED BY <1>1, <1>3, <2>1 DEF Tags
<1>5. \A v \in WordAddresses : m.word[v] \in WordType
  BY <1>1 DEF MemType
<1> HIDE DEF hi, s
<1>6. /\ hi - 4 + 4 = hi /\ hi # b /\ hi # hi - 4 /\ hi - 4 # b
      /\ s = 8 => hi - 4 - 4 = b
  BY <1>3
<1>7. Writes(m, k, b, [m.word[b] EXCEPT !.a = FREE])
  <2>1. TagWord(m, b) = b
    BY <1>2 DEF TagWord
  <2>. QED BY <1>1, <1>3, <2>1, WriteFields DEF set_allocated, Marks, FREE
<1> HIDE DEF k
<1>8. /\ k \in MemType /\ SameButWords(m, k) /\ k.word[b] = [m.word[b] EXCEPT !.a = FREE]
      /\ \A u \in WordAddresses : u # b => k.word[u] = m.word[u]
  BY <1>7 DEF Writes, SameButWords
<1>9. TagWord(k, f) = IF s = 8 THEN b ELSE hi - 4
  <2>1. Word(k, f + 4).p8 = (IF s = 8 THEN 1 ELSE 0)
    BY <1>2, <1>3, <1>4, <1>6, <1>8 DEF Word
  <2>2. f = hi - 4
    BY <1>2
  <2> HIDE DEF f
  <2>3. ~is_header(f)
    BY <1>3, <2>2
  <2>4. s = 8 => f - 4 = b
    BY <1>6, <2>2
  <2>. QED BY <2>1, <2>2, <2>3, <2>4 DEF TagWord
<1>10. /\ n \in MemType /\ SameButWords(k, n)
       /\ s = 8 => /\ n.word[b] = [k.word[b] EXCEPT !.a = FREE]
                   /\ \A u \in WordAddresses : u # b => n.word[u] = k.word[u]
       /\ s # 8 => /\ n.word[hi - 4] = [k.word[hi - 4] EXCEPT !.a = FREE]
                   /\ \A u \in WordAddresses : u # hi - 4 => n.word[u] = k.word[u]
  <2>1. TagWord(k, f) \in WordAddresses
    BY <1>3, <1>9
  <2>2. Writes(k, n, TagWord(k, f), [k.word[TagWord(k, f)] EXCEPT !.a = FREE])
    BY <1>8, <2>1, WriteFields DEF set_allocated, Marks, FREE
  <2> HIDE DEF n
  <2>. QED BY <1>9, <2>2 DEF Writes, SameButWords
<1> HIDE DEF n, f
<1>11. Tagged(m, n, b, FREE, s)
  <2>1. SameButWords(m, n)
    BY <1>8, <1>10 DEF SameButWords
  <2>2. b + s = hi /\ b + s - 4 = hi - 4
    BY <1>3
  <2>3. /\ n.word[b].a = FREE /\ n.word[b].p8 = m.word[b].p8 /\ n.word[b].b8 = m.word[b].b8
        /\ n.word[b].size = m.word[b].size
    <3>1. k.word[b].a = FREE /\ k.word[b].p8 = m.word[b].p8 /\ k.word[b].b8 = m.word[b].b8
          /\ k.word[b].size = m.word[b].size /\ k.word[b] \in WordType
      BY <1>3, <1>5, <1>8 DEF WordType, MemType
    <3>2. CASE s = 8
      BY <1>10, <3>1, <3>2 DEF WordType
    <3>3. CASE s # 8
      BY <1>3, <1>6, <1>10, <3>1, <3>3
    <3>. QED BY <3>2, <3>3
  <2>4. s # 8 => n.word[hi - 4].a = FREE /\ n.word[hi - 4].size = m.word[hi - 4].size
    <3>1. k.word[hi - 4] = m.word[hi - 4] /\ m.word[hi - 4] \in WordType
      BY <1>3, <1>5, <1>6, <1>8
    <3>. QED BY <1>10, <3>1 DEF WordType
  <2>5. \A u \in WordAddresses : u # b /\ u # hi - 4 => n.word[u] = m.word[u]
    BY <1>8, <1>10
  <2>6. n.word[hi] = [m.word[hi] EXCEPT !.p8 = IF s = 8 THEN 1 ELSE 0]
    <3>1. n.word[hi] = m.word[hi]
      BY <1>3, <1>6, <2>5
    <3>2. m.word[hi] \in WordType
      BY <1>3, <1>5
    <3>. QED BY <1>4, <3>1, <3>2 DEF WordType
  <2>7. \A v \in WordAddresses : v < b \/ hi < v => n.word[v] = m.word[v]
    <3>1. \A v \in WordAddresses : v < b \/ hi < v => v # b /\ v # hi - 4
      BY <1>3 DEF WordAddresses
    <3>. QED BY <2>5, <3>1
  <2>. QED BY <1>4, <2>1, <2>2, <2>3, <2>4, <2>6, <2>7 DEF Tagged
<1>12. Working(m, W, b, hi, I, K)
  BY <1>3, OpenHole DEF hi
<1>13. /\ Working(n, With(W, b, s, FREE), b + s, hi, I, K) /\ n.end = m.end
  <2>1. FREE \in {FREE, ALLOCATED} /\ b + s <= hi
    BY <1>3
  <2> HIDE DEF W
  <2>. QED BY <1>3, <1>11, <1>12, <2>1, FillStep
<1>14. With(W, b, s, FREE) = FreedAlone(T, b)
  BY DEF FreedAlone, s
<1>15. Settled(n, FreedAlone(T, b), I, K)
  BY <1>3, <1>13, <1>14, CloseHole
<1>. QED BY <1>13, <1>15 DEF n, k, f

\* The blocks in use, and what the two ends of a block border on
Busy(T) == {h \in DOMAIN T : T[h].a = ALLOCATED}
NoTwoFree(T) == \A g, h \in DOMAIN T : End(T, g) = h => g \in Busy(T) \/ h \in Busy(T)

\* A block is in use or free.
LEMMA BusyOrFree ==
  ASSUME NEW T, NEW lo, NEW hi, NEW e, Tiles(T, lo, hi, e)
  PROVE  /\ \A h \in DOMAIN T : h \in Busy(T) <=> h \notin Free(T)
         /\ Busy(T) \subseteq DOMAIN T /\ Free(T) \subseteq DOMAIN T
BY DEF Tiles, Busy, Free, FREE, ALLOCATED

\* Payloads stay where the blocks in use stay.
LEMMA PayloadsBusy ==
  ASSUME NEW T, NEW U, NEW A, \A h \in Busy(T) \ A : h \in DOMAIN U /\ U[h] = T[h]
  PROVE  Payloads(Without(T, A)) \subseteq Payloads(U)
<1> DEFINE W == Without(T, A)
<1>1. ASSUME NEW h \in DOMAIN W, W[h].a = ALLOCATED
      PROVE  h \in DOMAIN U /\ U[h].a = ALLOCATED /\ PayloadEnd(U, h) = PayloadEnd(W, h)
  <2>1. h \in DOMAIN T /\ h \notin A /\ W[h] = T[h]
    BY DEF Without
  <2>2. h \in DOMAIN U /\ U[h] = W[h]
    BY <1>1, <2>1 DEF Busy
  <2> HIDE DEF W
  <2>. QED BY <1>1, <2>2 DEF PayloadEnd, End
<1> HIDE DEF W
<1>2. Payloads(W) \subseteq Payloads(U)
  BY <1>1 DEF Payloads
<1>. QED BY <1>2 DEF W

\* Only one block ends where a block begins.
LEMMA OneBefore ==
  ASSUME NEW T, NEW e, Tiles(T, e, e, e), NEW g \in DOMAIN T, NEW h \in DOMAIN T,
         End(T, g) = End(T, h)
  PROVE  g = h
<1>1. /\ g \in Nat /\ h \in Nat /\ End(T, g) \in Nat /\ g < End(T, g) /\ h < End(T, h)
  BY BetweenOne
<1>2. (g < h => End(T, g) <= h) /\ (h < g => End(T, h) <= g)
  BY DEF Tiles
<1>. QED BY <1>1, <1>2

\* The blocks after a merge
LEMMA MergedShape ==
  ASSUME NEW T, NEW e, Tiles(T, e, e, e), NEW low \in DOMAIN T, NEW high \in DOMAIN T,
         End(T, low) = high, NEW U, U = Merged(T, low, high)
  PROVE  /\ DOMAIN U = DOMAIN T \ {high} /\ low # high /\ high # End(T, high) /\ low # End(T, high)
         /\ low \in Free(U) /\ low \notin Busy(U) /\ End(U, low) = End(T, high)
         /\ \A h \in DOMAIN T \ {low, high} : U[h] = T[h] /\ End(U, h) = End(T, h)
         /\ Busy(U) = Busy(T) \ {low, high} /\ Free(U) = (Free(T) \ {high}) \cup {low}
<1>1. /\ low \in Nat /\ high \in Nat /\ End(T, high) \in Nat /\ low < high /\ high < End(T, high)
  BY BetweenOne
<1>2. /\ DOMAIN U = DOMAIN T \ {high} /\ U[low].a = FREE
      /\ U[low].size = T[low].size + T[high].size
      /\ \A h \in DOMAIN T \ {low, high} : U[h] = T[h]
  BY <1>1 DEF Merged, With, Without
<1>3. low # high /\ high # End(T, high) /\ low # End(T, high)
  BY <1>1
<1>4. End(U, low) = End(T, high)
  <2>1. T[low].size \in Nat /\ T[high].size \in Nat
    BY WordsOfBlock
  <2>. QED BY <1>1, <1>2, <2>1 DEF End
<1>5. low \in Free(U) /\ low \notin Busy(U)
  BY <1>2, <1>3 DEF Free, Busy, FREE, ALLOCATED
<1>6. \A h \in DOMAIN T \ {low, high} : U[h] = T[h] /\ End(U, h) = End(T, h)
  BY <1>2 DEF End
<1>7. Busy(U) = Busy(T) \ {low, high} /\ Free(U) = (Free(T) \ {high}) \cup {low}
  BY <1>2, <1>3, <1>5 DEF Busy, Free
<1>. QED BY <1>2, <1>3, <1>4, <1>5, <1>6, <1>7

\* The blocks after one was marked as free
LEMMA FreedAloneShape ==
  ASSUME NEW T, NEW b \in DOMAIN T, NEW U, U = FreedAlone(T, b)
  PROVE  /\ DOMAIN U = DOMAIN T /\ b \in Free(U) /\ b \notin Busy(U)
         /\ \A h \in DOMAIN T : End(U, h) = End(T, h)
         /\ \A h \in DOMAIN T \ {b} : U[h] = T[h]
         /\ Busy(U) = Busy(T) \ {b} /\ Free(U) = Free(T) \cup {b}
<1>1. /\ DOMAIN U = DOMAIN T /\ U[b].a = FREE /\ U[b].size = T[b].size
      /\ \A h \in DOMAIN T \ {b} : U[h] = T[h]
  BY DEF FreedAlone, With, Without
<1>2. \A h \in DOMAIN T : End(U, h) = End(T, h)
  BY <1>1 DEF End
<1>3. b \in Free(U) /\ b \notin Busy(U)
  BY <1>1 DEF Free, Busy, FREE, ALLOCATED
<1>4. Busy(U) = Busy(T) \ {b} /\ Free(U) = Free(T) \cup {b}
  BY <1>1, <1>3 DEF Busy, Free
<1>. QED BY <1>1, <1>2, <1>3, <1>4

\* What the tags say of the neighbours of a block
LEMMA ReadNeighbours ==
  ASSUME NEW m, NEW T, Whole(m, T), NEW b \in DOMAIN T
  PROVE  /\ get_nextheader(m, b) = End(T, b)
         /\ End(T, b) \in DOMAIN T \cup {get_epilogue(m)}
         /\ get_allocated(m, End(T, b)) = FREE <=> End(T, b) \in Free(T)
         /\ \A g \in DOMAIN T : End(T, g) = b => get_prevheader(m, b) = g
         /\ get_allocated(m, get_prevheader(m, b)) = FREE
               <=> \E g \in Free(T) : End(T, g) = b
         /\ get_allocated(m, get_prevheader(m, b)) = FREE
               => get_prevheader(m, b) \in Free(T) /\ End(T, get_prevheader(m, b)) = b
<1> DEFINE e == get_epilogue(m)
           prev == get_prevheader(m, b)
<1>1. Layout(m, T, e, e) /\ Tiles(T, e, e, e)
  BY DEF Whole, Layout
<1>2. get_nextheader(m, b) = End(T, b) /\ End(T, b) \in DOMAIN T \cup {e}
  BY <1>1, ReadBlock, BetweenOne
<1>3. \A h \in DOMAIN T : get_allocated(m, h) = T[h].a /\ h # e
  BY <1>1, ReadBlock
<1>4. get_allocated(m, e) = ALLOCATED /\ get_allocated(m, get_prologue) = ALLOCATED
  BY <1>1, ReadFences
<1>5. get_allocated(m, End(T, b)) = FREE <=> End(T, b) \in Free(T)
  BY <1>2, <1>3, <1>4 DEF Free, FREE, ALLOCATED
<1>6. \A g \in DOMAIN T : End(T, g) = b => prev = g
  BY ReadPrevious
<1>7. \A g \in Free(T) : End(T, g) = b => get_allocated(m, prev) = FREE
  BY <1>3, <1>6 DEF Free
<1>8. ASSUME get_allocated(m, prev) = FREE
      PROVE  prev \in Free(T) /\ End(T, prev) = b
  <2>1. b # get_firstblock
    BY <1>4, <1>8, ReadPrevious DEF FREE, ALLOCATED
  <2>2. PICK g \in DOMAIN T : End(T, g) = b
    BY <2>1, ReadLast
  <2>3. prev = g
    BY <1>6, <2>2
  <2>. QED BY <1>3, <1>8, <2>2, <2>3 DEF Free
<1>. QED BY <1>2, <1>5, <1>6, <1>7, <1>8

\* A heap that an operation left: all free blocks are in the indexes, and no two of them
\* are neighbours.
Rested(n, U, K, end) ==
    Settled(n, U, Free(U), K) /\ NoTwoFree(U) /\ n.end = end

\* What mem_free writes
LEMMA FreedRested ==
  ASSUME NEW m, NEW T, NEW K, Settled(m, T, Free(T), K), NoTwoFree(T), NEW b \in Busy(T),
         K \subseteq Payloads(Without(T, {b}))
  PROVE  \E U : /\ Rested(Freed(m, b), U, K, m.end)
                /\ Busy(U) = Busy(T) \ {b} /\ \A h \in Busy(U) : U[h] = T[h]
<1> DEFINE e == get_epilogue(m)
           next == get_nextheader(m, b)
           prev == get_prevheader(m, b)
           nextFree == get_allocated(m, next) = FREE
           prevFree == get_allocated(m, prev) = FREE
           Goal(U) == /\ Rested(Freed(m, b), U, K, m.end)
                      /\ Busy(U) = Busy(T) \ {b} /\ \A h \in Busy(U) : U[h] = T[h]
<1>1. Whole(m, T) /\ Tiles(T, e, e, e) /\ b \in DOMAIN T /\ b \notin Free(T)
  BY DEF Settled, Stage, Whole, Layout, Busy, Free, FREE, ALLOCATED
<1>2. /\ next = End(T, b)
      /\ nextFree <=> next \in Free(T)
      /\ \A g \in DOMAIN T : End(T, g) = b => prev = g
      /\ prevFree <=> \E g \in Free(T) : End(T, g) = b
      /\ prevFree => prev \in Free(T) /\ End(T, prev) = b
  BY <1>1, ReadNeighbours
<1>3. /\ \A h \in DOMAIN T : h \in Busy(T) <=> h \notin Free(T)
      /\ Busy(T) \subseteq DOMAIN T /\ Free(T) \subseteq DOMAIN T
  BY <1>1, BusyOrFree
<1>4. /\ \A h \in DOMAIN T : h \in Nat /\ End(T, h) \in Nat /\ h < End(T, h)
      /\ b \in Nat /\ next \in Nat /\ b < next
  <2>1. \A h \in DOMAIN T : h \in Nat /\ End(T, h) \in Nat /\ h < End(T, h)
    BY <1>1, BetweenOne
  <2>. QED BY <1>1, <1>2, <2>1
<1> HIDE DEF e, next, prev, nextFree, prevFree, Goal
<1>5. CASE ~prevFree /\ ~nextFree
  <2> DEFINE U == FreedAlone(T, b)
             n == set_allocated(set_allocated(m, b, FREE), get_footer(m, b), FREE)
  <2>1. Settled(n, U, Free(T), K) /\ n.end = m.end
    BY <1>1, AloneSettled
  <2>2. /\ DOMAIN U = DOMAIN T /\ b \in Free(U) /\ b \notin Busy(U)
        /\ \A h \in DOMAIN T : End(U, h) = End(T, h)
        /\ \A h \in DOMAIN T \ {b} : U[h] = T[h]
        /\ Busy(U) = Busy(T) \ {b} /\ Free(U) = Free(T) \cup {b}
    BY <1>1, FreedAloneShape
  <2> HIDE DEF U, n
  <2>3. Settled(insert_free_block(n, b), U, Free(U), K) /\ insert_free_block(n, b).end = m.end
    BY <1>1, <2>1, <2>2, InsertSettled
  <2>4. NoTwoFree(U)
    <3> SUFFICES ASSUME NEW g \in DOMAIN T, NEW h \in DOMAIN T, End(T, g) = h
                 PROVE  g \in Busy(U) \/ h \in Busy(U)
      BY <2>2 DEF NoTwoFree
    <3>1. g \in Busy(T) \/ h \in Busy(T)
      BY DEF NoTwoFree
    <3>2. CASE g = b
      BY <1>2, <1>3, <1>4, <1>5, <2>2, <3>2
    <3>3. CASE h = b
      BY <1>2, <1>3, <1>4, <1>5, <2>2, <3>3
    <3>. QED BY <2>2, <3>1, <3>2, <3>3
  <2>5. Freed(m, b) = insert_free_block(n, b)
    BY <1>5 DEF Freed, n, prevFree, nextFree, next, prev
  <2>6. Goal(U)
    BY <1>3, <2>2, <2>3, <2>4, <2>5 DEF Goal, Rested
  <2>. QED BY <2>6 DEF Goal
<1>6. CASE prevFree /\ ~nextFree
  <2> DEFINE U == Merged(T, prev, b)
             p == delete_free_block(m, prev)
             n == merge_blocks_as_free(p, prev, b)
  <2>1. prev \in Free(T) /\ prev \in DOMAIN T /\ End(T, prev) = b
    BY <1>2, <1>3, <1>6
  <2>2. Settled(p, T, Free(T) \ {prev}, K) /\ p.end = m.end
    BY <2>1, DeleteSettled
  <2>3. /\ DOMAIN U = DOMAIN T \ {b} /\ prev # b /\ b # End(T, b) /\ prev # End(T, b)
        /\ prev \in Free(U) /\ prev \notin Busy(U) /\ End(U, prev) = End(T, b)
        /\ \A h \in DOMAIN T \ {prev, b} : U[h] = T[h] /\ End(U, h) = End(T, h)
        /\ Busy(U) = Busy(T) \ {prev, b} /\ Free(U) = (Free(T) \ {b}) \cup {prev}
    BY <1>1, <2>1, MergedShape
  <2>4. K \subseteq Payloads(Without(T, {prev, b}))
    <3>1. \A h \in Busy(T) \ {b} : h \in DOMAIN Without(T, {prev, b}) /\ Without(T, {prev, b})[h] = T[h]
      BY <1>3, <2>1 DEF Without
    <3>2. Payloads(Without(T, {b})) \subseteq Payloads(Without(T, {prev, b}))
      BY <3>1, PayloadsBusy
    <3>. QED BY <3>2
  <2> HIDE DEF U, p
  <2>5. Settled(n, U, Free(T) \ {prev}, K) /\ n.end = m.end
    BY <1>1, <2>1, <2>2, <2>4, MergeSettled DEF U
  <2> HIDE DEF n
  <2>6. Settled(insert_free_block(n, prev), U, Free(U), K) /\ insert_free_block(n, prev).end = m.end
    <3>1. Free(U) = (Free(T) \ {prev}) \cup {prev}
      BY <1>1, <2>1, <2>3
    <3>. QED BY <2>3, <2>5, <3>1, InsertSettled
  <2>7. NoTwoFree(U)
    <3> SUFFICES ASSUME NEW g \in DOMAIN T \ {b}, NEW h \in DOMAIN T \ {b}, End(U, g) = h
                 PROVE  g \in Busy(U) \/ h \in Busy(U)
      BY <2>3 DEF NoTwoFree
    <3>1. CASE g = prev
      BY <1>2, <1>3, <1>6, <2>3, <3>1
    <3>2. CASE h = prev /\ g # prev
      BY <1>3, <2>1, <2>3, <3>2 DEF NoTwoFree
    <3>3. CASE h # prev /\ g # prev
      BY <2>3, <3>3 DEF NoTwoFree
    <3>. QED BY <3>1, <3>2, <3>3
  <2>8. Freed(m, b) = insert_free_block(n, prev)
    BY <1>6 DEF Freed, n, p, prevFree, nextFree, next, prev
  <2>9. Goal(U)
    BY <1>3, <2>1, <2>3, <2>6, <2>7, <2>8 DEF Goal, Rested
  <2>. QED BY <2>9 DEF Goal
<1>7. CASE ~prevFree /\ nextFree
  <2> DEFINE U == Merged(T, b, next)
             p == delete_free_block(m, next)
             n == merge_blocks_as_free(p, b, next)
  <2>1. next \in Free(T) /\ next \in DOMAIN T /\ End(T, b) = next
    BY <1>2, <1>3, <1>7
  <2>2. Settled(p, T, Free(T) \ {next}, K) /\ p.end = m.end
    BY <2>1, DeleteSettled
  <2>3. /\ DOMAIN U = DOMAIN T \ {next} /\ b # next /\ next # End(T, next) /\ b # End(T, next)
        /\ b \in Free(U) /\ b \notin Busy(U) /\ End(U, b) = End(T, next)
        /\ \A h \in DOMAIN T \ {b, next} : U[h] = T[h] /\ End(U, h) = End(T, h)
        /\ Busy(U) = Busy(T) \ {b, next} /\ Free(U) = (Free(T) \ {next}) \cup {b}
    BY <1>1, <2>1, MergedShape
  <2>4. K \subseteq Payloads(Without(T, {b, next}))
    <3>1. \A h \in Busy(T) \ {b} : h \in DOMAIN Without(T, {b, next}) /\ Without(T, {b, next})[h] = T[h]
      BY <1>3, <2>1 DEF Without
    <3>2. Payloads(Without(T, {b})) \subseteq Payloads(Without(T, {b, next}))
      BY <3>1, PayloadsBusy
    <3>. QED BY <3>2
  <2> HIDE DEF U, p
  <2>5. Settled(n, U, Free(T) \ {next}, K) /\ n.end = m.end
    BY <1>1, <2>1, <2>2, <2>4, MergeSettled DEF U
  <2> HIDE DEF n
  <2>6. Settled(insert_free_block(n, b), U, Free(U), K) /\ insert_free_block(n, b).end = m.end
    BY <1>1, <2>3, <2>5, InsertSettled
  <2>7. NoTwoFree(U)
    <3> SUFFICES ASSUME NEW g \in DOMAIN T \ {next}, NEW h \in DOMAIN T \ {next}, End(U, g) = h
                 PROVE  g \in Busy(U) \/ h \in Busy(U)
      BY <2>3 DEF NoTwoFree
    <3>1. CASE g = b
      <4>1. h = End(T, next) /\ h # b /\ h # next
        BY <2>3, <3>1
      <4>2. h \in Busy(T)
        BY <1>3, <2>1, <4>1 DEF NoTwoFree
      <4>. QED BY <2>3, <4>1, <4>2
    <3>2. CASE h = b /\ g # b
      <4>1. End(T, g) = b /\ g \notin Free(T)
        BY <1>2, <1>7, <2>3, <3>2
      <4>. QED BY <1>3, <2>3, <3>2, <4>1
    <3>3. CASE h # b /\ g # b
      BY <2>3, <3>3 DEF NoTwoFree
    <3>. QED BY <3>1, <3>2, <3>3
  <2>8. Freed(m, b) = insert_free_block(n, b)
    BY <1>7 DEF Freed, n, p, prevFree, nextFree, next, prev
  <2>9. Goal(U)
    BY <1>3, <2>1, <2>3, <2>6, <2>7, <2>8 DEF Goal, Rested
  <2>. QED BY <2>9 DEF Goal
<1>8. CASE prevFree /\ nextFree
  <2> DEFINE V == Merged(T, prev, b)
             U == Merged(V, prev, next)
             I == (Free(T) \ {prev}) \ {next}
             p == delete_free_block(m, prev)
             q == delete_free_block(p, next)
             r == merge_blocks_as_free(q, prev, b)
             n == merge_blocks_as_free(r, prev, next)
  <2>1. /\ prev \in Free(T) /\ prev \in DOMAIN T /\ End(T, prev) = b
        /\ next \in Free(T) /\ next \in DOMAIN T /\ End(T, b) = next
    BY <1>2, <1>3, <1>8
  <2>2. Settled(p, T, Free(T) \ {prev}, K) /\ p.end = m.end
    BY <2>1, DeleteSettled
  <2>3. /\ DOMAIN V = DOMAIN T \ {b} /\ prev # b /\ b # next /\ prev # next
        /\ prev \in Free(V) /\ prev \notin Busy(V) /\ End(V, prev) = next
        /\ \A h \in DOMAIN T \ {prev, b} : V[h] = T[h] /\ End(V, h) = End(T, h)
        /\ Busy(V) = Busy(T) \ {prev, b} /\ Free(V) = (Free(T) \ {b}) \cup {prev}
    BY <1>1, <2>1, MergedShape
  <2> HIDE DEF V, p
  <2>4. Settled(q, T, I, K) /\ q.end = m.end
    BY <2>1, <2>2, <2>3, DeleteSettled
  <2> HIDE DEF q, I
  <2>5. K \subseteq Payloads(Without(T, {prev, b})) /\ K \subseteq Payloads(Without(V, {prev, next}))
    <3>1. \A h \in Busy(T) \ {b} : h \in DOMAIN Without(T, {prev, b}) /\ Without(T, {prev, b})[h] = T[h]
      BY <1>3, <2>1 DEF Without
    <3>2. \A h \in Busy(T) \ {b} : h \in DOMAIN Without(V, {prev, next}) /\ Without(V, {prev, next})[h] = T[h]
      BY <1>3, <2>1, <2>3 DEF Without
    <3>3. Payloads(Without(T, {b})) \subseteq Payloads(Without(T, {prev, b}))
      BY <3>1, PayloadsBusy
    <3>4. Payloads(Without(T, {b})) \subseteq Payloads(Without(V, {prev, next}))
      BY <3>2, PayloadsBusy
    <3>. QED BY <3>3, <3>4
  <2>6. Settled(r, V, I, K) /\ r.end = m.end
    <3>1. prev \notin I /\ b \notin I
      BY <1>1 DEF I
    <3>. QED BY <1>1, <2>1, <2>4, <2>5, <3>1, MergeSettled DEF V
  <2> HIDE DEF r
  <2>7. Tiles(V, e, e, e)
    <3>1. get_epilogue(r) = e
      BY <2>6 DEF get_epilogue, e
    <3>2. Tiles(V, get_epilogue(r), get_epilogue(r), get_epilogue(r))
      BY <2>6 DEF Settled, Stage, Whole, Layout
    <3>. QED BY <3>1, <3>2
  <2>8. /\ DOMAIN U = DOMAIN V \ {next} /\ prev # End(V, next) /\ next # End(V, next)
        /\ prev \in Free(U) /\ prev \notin Busy(U) /\ End(U, prev) = End(V, next)
        /\ \A h \in DOMAIN V \ {prev, next} : U[h] = V[h] /\ End(U, h) = End(V, h)
        /\ Busy(U) = Busy(V) \ {prev, next} /\ Free(U) = (Free(V) \ {next}) \cup {prev}
    BY <2>1, <2>3, <2>7, MergedShape
  <2>9. Settled(n, U, I, K) /\ n.end = m.end
    <3>1. prev \notin I /\ next \notin I
      BY DEF I
    <3>2. prev \in DOMAIN V /\ next \in DOMAIN V
      BY <2>1, <2>3
    <3>. QED BY <2>3, <2>5, <2>6, <3>1, <3>2, MergeSettled DEF U
  <2> HIDE DEF U, n
  <2>10. Settled(insert_free_block(n, prev), U, Free(U), K) /\ insert_free_block(n, prev).end = m.end
    <3>1. Free(U) = I \cup {prev} /\ prev \notin I
      BY <1>1, <2>1, <2>3, <2>8 DEF I
    <3>. QED BY <2>8, <2>9, <3>1, InsertSettled
  <2>11. NoTwoFree(U)
    <3>1. /\ DOMAIN U = DOMAIN T \ {b, next} /\ End(U, prev) = End(T, next)
          /\ \A h \in DOMAIN T \ {prev, b, next} : End(U, h) = End(T, h)
          /\ Busy(U) = Busy(T) \ {prev, b, next} /\ prev # End(T, next) /\ next # End(T, next)
      BY <2>1, <2>3, <2>8
    <3> SUFFICES ASSUME NEW g \in DOMAIN U, NEW h \in DOMAIN U, End(U, g) = h
                 PROVE  g \in Busy(U) \/ h \in Busy(U)
      BY DEF NoTwoFree
    <3>2. CASE g = prev
      <4>1. h = End(T, next) /\ h # prev /\ h # next /\ h # b /\ h \in DOMAIN T
        BY <3>1, <3>2
      <4>2. h \in Busy(T)
        BY <1>3, <2>1, <4>1 DEF NoTwoFree
      <4>. QED BY <3>1, <4>1, <4>2
    <3>3. CASE h = prev /\ g # prev
      <4>1. End(T, g) = prev /\ g \in DOMAIN T /\ g # b /\ g # next
        BY <3>1, <3>3
      <4>2. g \in Busy(T)
        BY <1>3, <2>1, <4>1 DEF NoTwoFree
      <4>. QED BY <3>1, <3>3, <4>1, <4>2
    <3>4. CASE h # prev /\ g # prev
      <4>1. End(T, g) = h /\ g \in DOMAIN T /\ g # b /\ g # next /\ h \in DOMAIN T /\ h # b /\ h # next
        BY <3>1, <3>4
      <4>2. g \in Busy(T) \/ h \in Busy(T)
        BY <4>1 DEF NoTwoFree
      <4>. QED BY <3>1, <3>4, <4>1, <4>2
    <3>. QED BY <3>2, <3>3, <3>4
  <2>12. Freed(m, b) = insert_free_block(n, prev)
    BY <1>8 DEF Freed, n, p, q, r, prevFree, nextFree, next, prev
  <2>13. Goal(U)
    BY <1>3, <2>1, <2>3, <2>8, <2>10, <2>11, <2>12 DEF Goal, Rested
  <2>. QED BY <2>13 DEF Goal
<1>. QED BY <1>5, <1>6, <1>7, <1>8

-----------------------------------------------------------------------------
(* Growing the heap                                                         *)

\* Sizes are rounded up to pages.
LEMMA RoundUp ==
  ASSUME NEW x \in Nat
  PROVE  /\ round_up(x, PageSize) \in Nat /\ round_up(x, PageSize) % 8 = 0
         /\ x <= round_up(x, PageSize)
         /\ x = 0 => round_up(x, PageSize) = 0
         /\ x > 0 => round_up(x, PageSize) >= 8
         /\ x <= HeapMax => round_up(x, PageSize) <= HeapMax
         /\ x = Width - 8 => round_up(x, PageSize) = Width
<1> DEFINE q == (x + PageSize - 1) \div PageSize
           r == PageSize * q
<1>1. PageSize \in Nat /\ PageSize >= 40 /\ HeapMax \in Nat /\ Width \in Nat
  BY HeapAssumption
<1>2. PICK k \in Nat : PageSize = 8 * k
  <2>1. PageSize = 8 * (PageSize \div 8) /\ PageSize \div 8 \in Nat
    BY HeapAssumption
  <2>. QED BY <2>1
<1>3. PICK c \in Nat : HeapMax = PageSize * c
  <2>1. HeapMax = PageSize * (HeapMax \div PageSize) /\ HeapMax \div PageSize \in Nat
    BY HeapAssumption
  <2>. QED BY <2>1
<1>4. PICK w \in Nat : Width = PageSize * w
  <2>1. Width = PageSize * (Width \div PageSize) /\ Width \div PageSize \in Nat
    BY HeapAssumption
  <2>. QED BY <2>1
<1>5. q \in Nat /\ r <= x + PageSize - 1 /\ x + PageSize - 1 < r + PageSize /\ r \in Nat
  BY <1>1
<1>6. r = round_up(x, PageSize)
  BY <1>1 DEF round_up
<1> HIDE DEF q
<1>7. r % 8 = 0
  <2>1. r = 8 * (k * q) /\ k * q \in Nat
    BY <1>2, <1>5
  <2> DEFINE y == k * q
  <2> HIDE DEF y, r
  <2>2. r = 8 * y /\ y \in Nat
    BY <2>1 DEF y
  <2>. QED BY <2>2
<1>8. \A y \in Nat : q >= y + 1 => r >= PageSize * y + PageSize
  BY <1>1, <1>5
<1>9. \A y \in Nat : q + 1 <= y => r + PageSize <= PageSize * y
  BY <1>1, <1>5
<1>10. x <= HeapMax => r <= HeapMax
  <2>1. q >= c + 1 => r >= HeapMax + PageSize
    BY <1>3, <1>8
  <2>2. x <= HeapMax => q <= c
    BY <1>1, <1>5, <2>1
  <2>3. q <= c => r <= HeapMax
    <3>1. q + 1 <= c => r + PageSize <= HeapMax
      BY <1>3, <1>9
    <3>2. q = c => r = HeapMax
      BY <1>3
    <3>. QED BY <1>1, <1>5, <3>1, <3>2
  <2>. QED BY <2>2, <2>3
<1>11. x = Width - 8 => r = Width
  <2>1. q >= w + 1 => r >= Width + PageSize
    BY <1>4, <1>8
  <2>2. q + 1 <= w => r + PageSize <= Width
    BY <1>4, <1>9
  <2>3. q = w => r = Width
    BY <1>4
  <2> HIDE DEF r
  <2>. QED BY <1>1, <1>5, <2>1, <2>2, <2>3
<1>12. /\ x <= r /\ (x > 0 => r >= 8)
  <2> HIDE DEF r
  <2>. QED BY <1>1, <1>5, <1>7
<1>13. x = 0 => r = 0
  <2>1. q >= 1 => r >= PageSize
    BY <1>1, <1>5
  <2>2. q = 0 => r = 0
    BY <1>1
  <2> HIDE DEF r
  <2>. QED BY <1>1, <1>5, <2>1, <2>2
<1>. QED BY <1>5, <1>6, <1>7, <1>10, <1>11, <1>12, <1>13

\* What is asked for when the free last block has "last" bytes: it wraps only where a
\* block of eight is wanted and the last one has sixteen, and then nothing is added.
LEMMA Requested ==
  ASSUME NEW last \in Nat, NEW size \in Nat, size <= HeapMax,
         last <= size \/ last = size + 8
  PROVE  LET request == (size + Width - last) % Width
         IN  /\ request \in Nat
             /\ last < size =>
                   /\ request = size - last
                   /\ RoundedRequest(request) = round_up(size - last, PageSize)
                   /\ RoundedRequest(request) \in Nat /\ RoundedRequest(request) % 8 = 0
                   /\ size - last <= RoundedRequest(request) /\ RoundedRequest(request) >= 8
             /\ last >= size => RoundedRequest(request) = 0
<1> DEFINE request == (size + Width - last) % Width
           rounded == round_up(request, PageSize)
<1>1. Width \in Nat /\ Width > HeapMax /\ Width >= 8 /\ HeapMax \in Nat
  BY HeapAssumption
<1>2. CASE last < size
  <2> DEFINE d == size - last
  <2>1. d \in Nat /\ d > 0 /\ d <= HeapMax /\ d < Width /\ size + Width - last = d + Width
    BY <1>1, <1>2
  <2> HIDE DEF d
  <2>2. (d + Width) % Width = d
    BY <1>1, <2>1
  <2>3. request = d
    BY <2>1, <2>2
  <2> HIDE DEF request
  <2>4. /\ rounded \in Nat /\ rounded % 8 = 0 /\ d <= rounded /\ rounded >= 8 /\ rounded <= HeapMax
    BY <2>1, <2>3, RoundUp
  <2> HIDE DEF rounded
  <2>5. rounded % Width = rounded
    BY <1>1, <2>4
  <2>6. RoundedRequest(request) = rounded
    BY <2>5 DEF RoundedRequest, rounded
  <2>. QED BY <1>2, <2>1, <2>3, <2>4, <2>6 DEF d, request, rounded
<1>3. CASE last = size
  <2>1. request = 0
    <3>1. size + Width - last = Width
      BY <1>1, <1>3
    <3>. QED BY <1>1, <3>1
  <2>2. rounded = 0
    <3> HIDE DEF request
    <3>. QED BY <2>1, RoundUp
  <2>3. RoundedRequest(request) = 0
    BY <1>1, <2>2 DEF RoundedRequest
  <2>. QED BY <1>3, <2>1, <2>3
<1>4. CASE last = size + 8
  <2>1. request = Width - 8 /\ Width - 8 \in Nat
    <3>1. size + Width - last = Width - 8
      BY <1>1, <1>4
    <3>2. Width - 8 \in Nat /\ Width - 8 < Width
      BY <1>1
    <3> DEFINE u == Width - 8
    <3> HIDE DEF u
    <3>3. u % Width = u
      BY <1>1, <3>2 DEF u
    <3>. QED BY <3>1, <3>2, <3>3 DEF u
  <2>2. rounded = Width
    <3> HIDE DEF request
    <3>. QED BY <2>1, RoundUp
  <2>3. RoundedRequest(request) = 0
    <3>1. Width % Width = 0
      BY <1>1
    <3>. QED BY <2>2, <3>1 DEF RoundedRequest
  <2>. QED BY <1>4, <2>1, <2>3
<1>. QED BY <1>2, <1>3, <1>4

\* The tag that marks the end of the heap
LEMMA EpilogueTag ==
  ASSUME NEW m \in MemType, NEW v \in WordAddresses, is_header(v), v = get_epilogue(m)
  PROVE  \E w \in WordType : /\ Writes(m, Tag(m, v, ALLOCATED, 0), v, w)
                             /\ w.a = ALLOCATED /\ w.p8 = 0
<1> DEFINE k == set_allocated(m, v, ALLOCATED)
           s == [k EXCEPT !.word[v].b8 = 0, !.word[v].size = 0]
           n == [s EXCEPT !.word[v].p8 = 0]
<1>1. v \in Nat /\ v + 0 = v /\ m.word[v] \in WordType
  BY HeapAssumption DEF WordAddresses, MemType
<1>2. Writes(m, k, v, [m.word[v] EXCEPT !.a = ALLOCATED])
  <2>1. TagWord(m, v) = v
    BY DEF TagWord
  <2>. QED BY <2>1, WriteFields DEF set_allocated, Marks, ALLOCATED
<1>3. Tag(m, v, ALLOCATED, 0) = n
  <2>1. get_epilogue(k) = v
    BY <1>2 DEF Writes, SameButWords, get_epilogue
  <2> HIDE DEF k
  <2>2. set_blocksize(k, v, 0) = set_blocksize_ordinary(k, v, 0)
    BY DEF set_blocksize
  <2>3. set_blocksize_ordinary(k, v, 0) = n
    <3>1. (IF is_header(v) THEN v + 0 ELSE v + 4) = v
      BY <1>1
    <3>2. v <= get_epilogue(k)
      BY <1>1, <2>1
    <3> HIDE DEF n
    <3>3. set_blocksize_ordinary(k, v, 0) = IF v <= get_epilogue(k) THEN n ELSE s
      BY <3>1 DEF set_blocksize_ordinary, n
    <3>. QED BY <3>2, <3>3
  <2>. QED BY <2>2, <2>3 DEF Tag, k
<1> HIDE DEF k
<1>4. k \in MemType /\ SameButWords(m, k)
  BY <1>2 DEF Writes, SameButWords
<1>5. Writes(k, s, v, [k.word[v] EXCEPT !.b8 = 0, !.size = 0])
  BY <1>4, WriteFields DEF Marks
<1> HIDE DEF s
<1>6. s \in MemType /\ SameButWords(k, s)
  BY <1>5 DEF Writes, SameButWords
<1>7. Writes(s, n, v, [s.word[v] EXCEPT !.p8 = 0])
  BY <1>6, WriteFields DEF Marks
<1> HIDE DEF n
<1>8. n.word[v].a = ALLOCATED /\ n.word[v].p8 = 0 /\ n.word[v] \in WordType
  <2>1. k.word[v].a = ALLOCATED /\ k.word[v] \in WordType
    BY <1>1, <1>2, <1>4 DEF Writes, WordType, MemType
  <2>2. s.word[v].a = ALLOCATED /\ s.word[v] \in WordType
    BY <1>5, <1>6, <2>1 DEF Writes, WordType, MemType
  <2>3. n.word[v].a = ALLOCATED /\ n.word[v].p8 = 0
    BY <1>7, <2>2 DEF Writes, WordType
  <2>4. n.word[v] \in WordType
    BY <1>7 DEF Writes, SameButWords, MemType
  <2>. QED BY <2>3, <2>4
<1>9. Writes(m, n, v, n.word[v])
  BY <1>2, <1>5, <1>7 DEF Writes, SameButWords
<1>. QED BY <1>3, <1>8, <1>9

\* What is added joins the hole at the end of the heap.
LEMMA GrowStep ==
  ASSUME NEW m, NEW T, NEW lo, NEW I, NEW K, Working(m, T, lo, get_epilogue(m), I, K),
         NEW request, MayGrow(m, request), RoundedRequest(request) \in Nat,
         RoundedRequest(request) % 8 = 0, RoundedRequest(request) >= 8,
         NEW n, n = extend_heap(m, request)
  PROVE  /\ Working(n, T, lo, get_epilogue(n), I, K)
         /\ n.end = m.end + RoundedRequest(request)
<1> DEFINE e == get_epilogue(m)
           r == RoundedRequest(request)
           g == [m EXCEPT !.end = @ + r]
           f == get_epilogue(g)
<1>1. /\ m \in MemType /\ Tiles(T, lo, e, e) /\ Tags(m, T, lo, e) /\ m.ok /\ Indexed(m, T, I)
      /\ Holds(m, T, K)
  BY DEF Working, Layout
<1>2. n = Tag(g, f, ALLOCATED, 0)
  BY Zenon DEF extend_heap
<1> HIDE DEF r
<1>3. /\ g \in MemType /\ g.word = m.word /\ g.end = m.end + r /\ g.small_list = m.small_list
      /\ g.explicit_list = m.explicit_list /\ g.rbt = m.rbt /\ g.ok = m.ok
  <2>1. m.end \in Nat /\ r \in Nat
    BY <1>1 DEF MemType, r
  <2>2. m.end + r \in Nat
    BY <2>1
  <2>. QED BY <1>1, <2>2 DEF MemType
<1> HIDE DEF g
<1>4. /\ r \in Nat /\ r % 8 = 0 /\ r >= 8 /\ m.end + r <= HeapMax
  BY DEF r, MayGrow
<1>5. /\ e \in HeaderAddresses /\ e \in Nat /\ e % 8 = 4 /\ e >= 12 /\ lo \in HeaderAddresses
      /\ lo \in Nat /\ HeapMax \in Nat /\ lo <= e
  BY <1>1, Headers8 DEF Tiles
<1>6. m.end \in Nat /\ m.end = e + 4
  BY <1>1 DEF MemType, get_epilogue
<1>7. f = e + r /\ f \in Nat /\ f % 8 = 4 /\ e < f /\ f < HeapMax
  <2>1. f = (m.end + r) - 4
    BY <1>3 DEF get_epilogue
  <2>. QED BY <1>4, <1>5, <1>6, <2>1
<1>8. f \in HeaderAddresses /\ f \in WordAddresses /\ is_header(f)
  BY <1>5, <1>7 DEF HeaderAddresses, WordAddresses, is_header, get_firstblock, get_prologue
<1> HIDE DEF e
<1>9. PICK w \in WordType : /\ Writes(g, n, f, w) /\ w.a = ALLOCATED /\ w.p8 = 0
  BY <1>2, <1>3, <1>8, EpilogueTag
<1>10. /\ n \in MemType /\ n.end = m.end + r /\ n.small_list = m.small_list
       /\ n.explicit_list = m.explicit_list /\ n.rbt = m.rbt /\ n.ok = m.ok
       /\ n.word[f].a = ALLOCATED
       /\ \A v \in WordAddresses : v # f => n.word[v] = m.word[v]
  BY <1>3, <1>9 DEF Writes, SameButWords
<1>11. get_epilogue(n) = f
  BY <1>3, <1>10 DEF get_epilogue
<1> HIDE DEF f
<1>12. Tiles(T, lo, f, f)
  BY <1>1, <1>7, <1>8, TilesGrow
<1>13. \A h \in DOMAIN T : /\ h \in WordAddresses /\ h + 4 \in WordAddresses
                           /\ T[h].size # 8 => h + 8 \in WordAddresses
                           /\ End(T, h) - 4 \in WordAddresses
                           /\ h # f /\ h + 4 # f /\ End(T, h) - 4 # f
                           /\ T[h].size # 8 => h + 8 # f
                           /\ h \in Nat /\ End(T, h) \in Nat /\ End(T, h) < f
  <2> TAKE h \in DOMAIN T
  <2> DEFINE s == T[h].size
  <2>1. /\ h \in HeaderAddresses /\ h \in WordAddresses /\ h + 4 \in WordAddresses
        /\ s # 8 => h + 8 \in WordAddresses /\ s >= 16
        /\ End(T, h) - 4 \in WordAddresses /\ End(T, h) <= e
        /\ s \in Nat /\ s >= 8 /\ End(T, h) = h + s
    BY <1>1, WordsOfBlock DEF End
  <2>2. h \in Nat
    BY <2>1, Headers8
  <2> HIDE DEF s
  <2>3. /\ h # f /\ h + 4 # f /\ End(T, h) - 4 # f /\ (s # 8 => h + 8 # f) /\ End(T, h) \in Nat
        /\ End(T, h) < f
    BY <1>5, <1>7, <2>1, <2>2
  <2>. QED BY <2>1, <2>2, <2>3 DEF s
<1>14. Tags(n, T, lo, f)
  <2>1. n.word[get_prologue] = m.word[get_prologue]
    <3>1. get_prologue \in WordAddresses /\ get_prologue # f
      BY <1>5, <1>7 DEF WordAddresses, get_prologue
    <3>. QED BY <1>10, <3>1
  <2>2. \A h \in DOMAIN T : n.word[h] = m.word[h] /\ n.word[End(T, h) - 4] = m.word[End(T, h) - 4]
    BY <1>10, <1>13
  <2>3. ASSUME NEW x \in DOMAIN T \cup {lo, f}, x # f
        PROVE  n.word[x].p8 = Follows8(T, x)
    <3>1. x \in WordAddresses
      BY <1>5, <1>13, <2>3 DEF HeaderAddresses
    <3>2. n.word[x] = m.word[x]
      BY <1>10, <2>3, <3>1
    <3>3. x # e \/ lo = e
      <4>1. \A h \in DOMAIN T : h # e
        <5> TAKE h \in DOMAIN T
        <5>1. h < e
          BY <1>1, WordsOfBlock
        <5>. QED BY <1>5, <5>1
      <4>. QED BY <2>3, <4>1
    <3>. QED BY <1>1, <2>3, <3>2, <3>3 DEF Tags, e
  <2>4. lo # f
    BY <1>5, <1>7
  <2>5. \A h \in DOMAIN T :
          /\ n.word[h].a = T[h].a
          /\ n.word[h].b8 = (IF T[h].size = 8 THEN 1 ELSE 0)
          /\ T[h].size # 8 =>
                /\ n.word[h].size = T[h].size
                /\ n.word[End(T, h) - 4].size = T[h].size
                /\ n.word[End(T, h) - 4].a = T[h].a
    BY <1>1, <2>2 DEF Tags
  <2>6. n.word[get_prologue].a = ALLOCATED /\ n.word[f].a = ALLOCATED
    BY <1>1, <1>10, <2>1 DEF Tags
  <2>. QED BY <1>11, <2>3, <2>4, <2>5, <2>6 DEF Tags
<1>15. Layout(n, T, lo, f)
  BY <1>4, <1>10, <1>11, <1>12, <1>14 DEF Layout
<1>16. Indexed(n, T, I)
  <2>1. I \subseteq DOMAIN T
    BY <1>1 DEF Indexed, Free
  <2>2. \A h \in I : /\ Word(n, h).size = Word(m, h).size
                     /\ Word(n, h + 4) = Word(m, h + 4)
                     /\ T[h].size = 16 => Word(n, h + 8) = Word(m, h + 8)
    BY <1>10, <1>13, <2>1 DEF Word
  <2>. QED BY <1>1, <1>10, <2>1, <2>2, IndexedMoves
<1>17. Holds(n, T, K)
  <2>1. ASSUME NEW v \in K
        PROVE  v \in Payloads(T) /\ n.word[v] = StaleWord
    <3>1. v \in Payloads(T) /\ m.word[v] = StaleWord
      BY <1>1 DEF Holds
    <3>2. PICK h \in DOMAIN T : v < End(T, h)
      BY <1>1, <3>1, PayloadWord
    <3>3. v \in WordAddresses /\ v \in Nat
      BY <1>1, <3>1, PayloadWord
    <3>4. v # f
      BY <1>7, <1>13, <3>2, <3>3
    <3>. QED BY <1>10, <3>1, <3>3, <3>4
  <2>. QED BY <2>1 DEF Holds
<1>. QED BY <1>1, <1>10, <1>11, <1>15, <1>16, <1>17 DEF Working, r

\* The last block
LEMMA LastBlock ==
  ASSUME NEW m, NEW T, Whole(m, T), get_epilogue(m) # get_firstblock
  PROVE  /\ get_lastblock(m) \in DOMAIN T /\ End(T, get_lastblock(m)) = get_epilogue(m)
         /\ LastIsFree(m) <=> get_lastblock(m) \in Free(T)
         /\ LastFreeSize(m) = IF get_lastblock(m) \in Free(T) THEN T[get_lastblock(m)].size ELSE 0
         /\ LastFreeSize(m) \in Nat /\ LastFreeSize(m) % 8 = 0
         /\ GrowingBlock(m) + LastFreeSize(m) = get_epilogue(m) /\ GrowingBlock(m) \in Nat
         /\ GrowingBlock(m) = IF get_lastblock(m) \in Free(T) THEN get_lastblock(m) ELSE get_epilogue(m)
<1> DEFINE last == get_lastblock(m)
           e == get_epilogue(m)
<1>1. last \in DOMAIN T /\ End(T, last) = e
  BY ReadLast
<1>2. Tiles(T, e, e, e) /\ Layout(m, T, e, e)
  BY DEF Whole, Layout
<1>3. get_allocated(m, last) = T[last].a /\ get_blocksize(m, last) = T[last].size
  BY <1>1, <1>2, ReadBlock
<1>4. /\ last \in Nat /\ e \in Nat /\ T[last].size \in Nat /\ T[last].size % 8 = 0
  BY <1>1, <1>2, WordsOfBlock, BetweenOne
<1>5. LastIsFree(m) <=> last \in Free(T)
  BY <1>1, <1>3 DEF LastIsFree, Free
<1>6. LastFreeSize(m) = IF last \in Free(T) THEN T[last].size ELSE 0
  BY <1>3, <1>5 DEF LastFreeSize
<1>7. GrowingBlock(m) = IF last \in Free(T) THEN last ELSE e
  BY <1>5 DEF GrowingBlock
<1>8. last + T[last].size = e
  BY <1>1 DEF End
<1> HIDE DEF last, e
<1>9. LastFreeSize(m) \in Nat /\ LastFreeSize(m) % 8 = 0
  BY <1>4, <1>6
<1>10. GrowingBlock(m) + LastFreeSize(m) = e /\ GrowingBlock(m) \in Nat
  BY <1>4, <1>6, <1>7, <1>8
<1>. QED BY <1>1, <1>5, <1>6, <1>7, <1>9, <1>10 DEF last, e

\* The heap grows: the free last block does, or a new one begins at the old end.
LEMMA GrownRested ==
  ASSUME NEW m, NEW T, NEW K, Settled(m, T, Free(T), K), NoTwoFree(T),
         get_epilogue(m) # get_firstblock,
         NEW size \in Nat, size <= HeapMax,
         LastFreeSize(m) <= size \/ LastFreeSize(m) = size + 8,
         Grown(m, to_request_from_OS(m, size)) # 0
  PROVE  \E U, end : /\ Rested(try_extend_heap(m, size), U, K, end)
                     /\ end \in Nat /\ m.end <= end
                     /\ Busy(U) = Busy(T) /\ \A h \in Busy(U) : U[h] = T[h]
                     /\ GrowingBlock(m) \in Free(U) /\ size <= U[GrowingBlock(m)].size
<1> DEFINE e == get_epilogue(m)
           request == to_request_from_OS(m, size)
           added == RoundedRequest(request)
           spare == LastFreeSize(m)
           block == GrowingBlock(m)
           last == get_lastblock(m)
           B == IF last \in Free(T) THEN {last} ELSE {}
           I == Free(T) \ B
           W == Without(T, B)
           U == With(W, block, spare + added, FREE)
           p == WithoutFreeLast(m)
           q == extend_heap(p, request)
           r == TagBlock(q, block, FREE, spare + added)
<1>1. /\ Whole(m, T) /\ Tiles(T, e, e, e) /\ m.end \in Nat
  BY DEF Settled, Stage, Whole, Layout, MemType
<1>2. /\ last \in DOMAIN T /\ End(T, last) = e
      /\ LastIsFree(m) <=> last \in Free(T)
      /\ spare = IF last \in Free(T) THEN T[last].size ELSE 0
      /\ spare \in Nat /\ spare % 8 = 0
      /\ block + spare = e /\ block \in Nat
      /\ block = IF last \in Free(T) THEN last ELSE e
  BY <1>1, LastBlock
<1>3. /\ \A h \in DOMAIN T : h \in Nat /\ End(T, h) \in Nat /\ h < End(T, h) /\ h < e
      /\ e \in Nat /\ last < e
  <2>1. \A h \in DOMAIN T : h \in Nat /\ End(T, h) \in Nat /\ h < End(T, h) /\ h < e
    BY <1>1, BetweenOne, WordsOfBlock
  <2>2. e \in Nat
    BY <1>1, Headers8 DEF Tiles
  <2>. QED BY <1>2, <2>1, <2>2
<1>4. MayGrow(m, request) /\ Grown(m, request) = added /\ added # 0
  BY DEF Grown
<1> HIDE DEF e, spare, block, last
<1>5. /\ added \in Nat /\ added % 8 = 0 /\ added >= 8 /\ size <= spare + added
  <2>1. request = (size + Width - spare) % Width
    BY DEF to_request_from_OS, spare
  <2>2. spare <= size \/ spare = size + 8
    BY DEF spare
  <2>3. spare < size => /\ added \in Nat /\ added % 8 = 0
                        /\ size - spare <= added /\ added >= 8
    BY <1>2, <2>1, <2>2, Requested
  <2>4. spare >= size => added = 0
    BY <1>2, <2>1, <2>2, Requested
  <2> HIDE DEF added
  <2>. QED BY <1>2, <1>4, <2>3, <2>4
<1> HIDE DEF added, request
<1>6. \A h \in B : h \in Free(T)
  OBVIOUS
<1>7. Settled(p, T, I, K) /\ p.end = m.end
  <2>1. CASE last \in Free(T)
    <3>1. p = delete_free_block(m, last)
      BY <1>2, <2>1 DEF WithoutFreeLast, last
    <3>2. I = Free(T) \ {last}
      BY <2>1
    <3> HIDE DEF p, I
    <3>. QED BY <2>1, <3>1, <3>2, DeleteSettled
  <2>2. CASE last \notin Free(T)
    <3>1. p = m
      BY <1>2, <2>2 DEF WithoutFreeLast
    <3>2. I = Free(T)
      BY <2>2
    <3> HIDE DEF p, I
    <3>. QED BY <3>1, <3>2
  <2>. QED BY <2>1, <2>2
<1>8. Between(T, block, e) = B /\ block \in DOMAIN T \cup {e} /\ block <= e
  <2>1. CASE last \in Free(T)
    <3>1. Between(T, last, e) = {last}
      BY <1>1, <1>2, BetweenOne
    <3>. QED BY <1>2, <1>3, <2>1, <3>1
  <2>2. CASE last \notin Free(T)
    <3>1. Between(T, e, e) = {}
      BY <1>3 DEF Between
    <3>. QED BY <1>2, <1>3, <2>2, <3>1
  <2>. QED BY <2>1, <2>2
<1>9. get_epilogue(p) = e
  BY <1>7 DEF get_epilogue, e
<1> HIDE DEF p, B
<1>10. Working(p, W, block, e, I, K)
  <2>1. K \subseteq Payloads(W)
    <3>1. Payloads(T) \subseteq Payloads(W)
      <4>1. \A h \in B : h \in DOMAIN T => T[h].a = FREE
        BY <1>6 DEF Free
      <4>. QED BY <4>1, PayloadsWithout
    <3>. QED BY <3>1 DEF Settled, Holds
  <2>2. I \cap B = {}
    OBVIOUS
  <2>. QED BY <1>3, <1>7, <1>8, <1>9, <2>1, <2>2, OpenHole
<1>11. Working(q, W, block, get_epilogue(q), I, K) /\ q.end = m.end + added
  <2>1. MayGrow(p, request)
    BY <1>4, <1>7 DEF MayGrow
  <2> HIDE DEF W, I
  <2>. QED BY <1>5, <1>7, <1>9, <1>10, <2>1, GrowStep DEF added
<1> HIDE DEF q
<1>12. block + (spare + added) = get_epilogue(q)
  <2>1. e = m.end - 4 /\ get_epilogue(q) = (m.end + added) - 4
    BY <1>11 DEF get_epilogue, e
  <2>. QED BY <1>1, <1>2, <1>3, <1>5, <2>1
<1>13. Settled(r, U, I, K) /\ r.end = m.end + added
  <2> HIDE DEF W, I
  <2>1. /\ FREE \in {FREE, ALLOCATED} /\ spare + added \in Nat /\ spare + added >= 8
        /\ (spare + added) % 8 = 0
    BY <1>2, <1>5
  <2>2. block + (spare + added) <= get_epilogue(q)
    <3>1. get_epilogue(q) \in Nat
      BY <1>2, <1>5, <1>12
    <3>. QED BY <1>12, <3>1
  <2> DEFINE s == spare + added
  <2> HIDE DEF s
  <2>3. /\ Working(TagBlock(q, block, FREE, s), With(W, block, s, FREE), block + s, get_epilogue(q), I, K)
        /\ TagBlock(q, block, FREE, s).end = q.end
    BY <1>11, <2>1, <2>2, FillTag DEF s
  <2>4. block + s = get_epilogue(q)
    BY <1>12 DEF s
  <2>5. Settled(TagBlock(q, block, FREE, s), With(W, block, s, FREE), I, K)
    BY <2>3, <2>4, CloseHole
  <2>. QED BY <1>11, <2>3, <2>5 DEF s
<1> HIDE DEF r
<1>14. /\ DOMAIN U = (DOMAIN T \ B) \cup {block} /\ U[block].a = FREE
       /\ U[block].size = spare + added
       /\ \A h \in DOMAIN T \ B : h # block => U[h] = T[h]
  BY DEF With, Without
<1>15. block \notin DOMAIN T \ B
  BY <1>2, <1>3, <1>8 DEF B
<1>16. \A h \in DOMAIN T \ B : U[h] = T[h] /\ End(U, h) = End(T, h)
  BY <1>14, <1>15 DEF End
<1>17. End(U, block) = get_epilogue(q)
  BY <1>12, <1>14 DEF End
<1> HIDE DEF U
<1>18. /\ Free(U) = I \cup {block} /\ block \notin I /\ block \in Free(U)
       /\ Busy(U) = Busy(T) /\ \A h \in Busy(U) : U[h] = T[h]
  <2>1. Free(U) = I \cup {block} /\ block \notin I
    BY <1>14, <1>15, <1>16 DEF Free
  <2>2. Busy(U) = Busy(T) /\ \A h \in Busy(U) : U[h] = T[h]
    BY <1>6, <1>14, <1>15, <1>16 DEF Free, Busy, FREE, ALLOCATED
  <2>. QED BY <2>1, <2>2
<1>19. Settled(insert_free_block(r, block), U, Free(U), K) /\ insert_free_block(r, block).end = m.end + added
  <2> HIDE DEF I
  <2>. QED BY <1>13, <1>18, InsertSettled
<1>20. NoTwoFree(U)
  <2> SUFFICES ASSUME NEW g \in DOMAIN U, NEW h \in DOMAIN U, End(U, g) = h
               PROVE  g \in Busy(U) \/ h \in Busy(U)
    BY DEF NoTwoFree
  <2>1. CASE g = block
    <3>1. e < get_epilogue(q) /\ get_epilogue(q) \in Nat
      BY <1>2, <1>3, <1>5, <1>12
    <3>2. h <= e /\ h \in Nat
      BY <1>2, <1>3, <1>14
    <3>. QED BY <1>3, <1>17, <2>1, <3>1, <3>2
  <2>2. CASE g # block /\ h = block
    <3>1. g \in DOMAIN T /\ g \notin B /\ End(T, g) = block
      BY <1>14, <1>16, <2>2
    <3>2. CASE last \in Free(T)
      <4>1. block = last /\ last \notin Busy(T)
        BY <1>2, <3>2 DEF Busy, Free, FREE, ALLOCATED
      <4>. QED BY <1>2, <1>18, <3>1, <4>1 DEF NoTwoFree
    <3>3. CASE last \notin Free(T)
      <4>1. g = last
        BY <1>1, <1>2, <3>1, <3>3, OneBefore
      <4>2. last \in Busy(T)
        BY <1>1, <1>2, <3>3, BusyOrFree
      <4>. QED BY <1>18, <4>1, <4>2
    <3>. QED BY <3>2, <3>3
  <2>3. CASE g # block /\ h # block
    BY <1>14, <1>16, <1>18, <2>3 DEF NoTwoFree
  <2>. QED BY <2>1, <2>2, <2>3
<1>21. try_extend_heap(m, size) = insert_free_block(r, block)
  BY <1>4 DEF try_extend_heap, p, q, r, request, spare, block, added
<1>22. m.end + added \in Nat /\ m.end <= m.end + added
  BY <1>1, <1>5
<1>23. block \in Free(U) /\ size <= U[block].size
  BY <1>5, <1>14, <1>18
<1>24. Rested(try_extend_heap(m, size), U, K, m.end + added)
  BY <1>19, <1>20, <1>21 DEF Rested
<1>. QED BY <1>18, <1>22, <1>23, <1>24 DEF block

\* Marking the end of the heap again changes nothing when no block of eight is the last.
LEMMA EpilogueAgain ==
  ASSUME NEW m, NEW T, NEW I, NEW K, Settled(m, T, I, K), m.word[get_epilogue(m)].p8 = 0,
         NEW n, n = Tag(m, get_epilogue(m), ALLOCATED, 0)
  PROVE  Settled(n, T, I, K) /\ n.end = m.end
<1> DEFINE e == get_epilogue(m)
<1>1. /\ Whole(m, T) /\ Tiles(T, e, e, e) /\ Tags(m, T, e, e) /\ m \in MemType /\ m.ok
      /\ Indexed(m, T, I) /\ Holds(m, T, K)
  BY DEF Settled, Stage, Whole, Layout
<1>2. e \in HeaderAddresses /\ e \in WordAddresses /\ is_header(e) /\ e \in Nat /\ e >= 12
  BY <1>1, Headers8 DEF Tiles, HeaderAddresses
<1>3. PICK w \in WordType : Writes(m, n, e, w) /\ w.a = ALLOCATED /\ w.p8 = 0
  <2> HIDE DEF e
  <2>. QED BY <1>1, <1>2, EpilogueTag DEF e
<1>4. /\ n \in MemType /\ n.end = m.end /\ n.small_list = m.small_list /\ n.ok = m.ok
      /\ n.explicit_list = m.explicit_list /\ n.rbt = m.rbt /\ n.word[e] = w
      /\ \A v \in WordAddresses : v # e => n.word[v] = m.word[v]
  BY <1>3 DEF Writes, SameButWords
<1>5. m.word[e].a = ALLOCATED
  BY <1>1 DEF Tags
<1> HIDE DEF e
<1>6. \A h \in DOMAIN T : /\ h \in WordAddresses /\ h + 4 \in WordAddresses
                          /\ T[h].size # 8 => h + 8 \in WordAddresses
                          /\ End(T, h) - 4 \in WordAddresses
                          /\ h # e /\ h + 4 # e /\ End(T, h) - 4 # e
                          /\ T[h].size # 8 => h + 8 # e
                          /\ End(T, h) \in Nat /\ End(T, h) <= e
  <2> TAKE h \in DOMAIN T
  <2> DEFINE s == T[h].size
  <2>1. /\ h \in HeaderAddresses /\ h \in WordAddresses /\ h + 4 \in WordAddresses
        /\ s # 8 => h + 8 \in WordAddresses /\ s >= 16
        /\ End(T, h) - 4 \in WordAddresses /\ End(T, h) <= e
        /\ s \in Nat /\ s >= 8 /\ End(T, h) = h + s
    BY <1>1, WordsOfBlock DEF End
  <2>2. h \in Nat
    BY <2>1, Headers8
  <2> HIDE DEF s
  <2>3. /\ h # e /\ h + 4 # e /\ End(T, h) - 4 # e /\ (s # 8 => h + 8 # e) /\ End(T, h) \in Nat
    BY <1>2, <2>1, <2>2
  <2>. QED BY <2>1, <2>2, <2>3 DEF s
<1>7. Whole(n, T)
  <2>1. n.word[get_prologue] = m.word[get_prologue]
    <3>1. get_prologue \in WordAddresses /\ get_prologue # e
      BY <1>2, HeapAssumption DEF WordAddresses, get_prologue
    <3>. QED BY <1>4, <3>1
  <2>2. \A y \in DOMAIN T \cup {get_epilogue(m)} :
            n.word[y].a = m.word[y].a /\ n.word[y].p8 = m.word[y].p8
    BY <1>3, <1>4, <1>5, <1>6 DEF e
  <2>3. \A h \in DOMAIN T :
              /\ n.word[h].b8 = m.word[h].b8
              /\ T[h].size # 8 => /\ n.word[h].size = m.word[h].size
                                  /\ n.word[End(T, h) - 4].size = m.word[End(T, h) - 4].size
                                  /\ n.word[End(T, h) - 4].a = m.word[End(T, h) - 4].a
    BY <1>4, <1>6
  <2>. QED BY <1>1, <1>4, <2>1, <2>2, <2>3, WholeSame
<1>8. Indexed(n, T, I)
  <2>1. I \subseteq DOMAIN T
    BY <1>1 DEF Indexed, Free
  <2>2. \A h \in I : /\ Word(n, h).size = Word(m, h).size
                     /\ Word(n, h + 4) = Word(m, h + 4)
                     /\ T[h].size = 16 => Word(n, h + 8) = Word(m, h + 8)
    BY <1>4, <1>6, <2>1 DEF Word
  <2>. QED BY <1>1, <1>4, <2>1, <2>2, IndexedMoves
<1>9. Holds(n, T, K)
  <2>1. ASSUME NEW v \in K
        PROVE  v \in Payloads(T) /\ n.word[v] = StaleWord
    <3>1. v \in Payloads(T) /\ m.word[v] = StaleWord
      BY <1>1 DEF Holds
    <3>2. PICK h \in DOMAIN T : v < End(T, h)
      BY <1>1, <3>1, PayloadWord
    <3>3. v \in WordAddresses /\ v \in Nat
      BY <1>1, <3>1, PayloadWord
    <3>4. v # e
      BY <1>2, <1>6, <3>2, <3>3
    <3>. QED BY <1>4, <3>1, <3>3, <3>4
  <2>. QED BY <2>1 DEF Holds
<1>. QED BY <1>1, <1>4, <1>7, <1>8, <1>9 DEF Settled, Stage

\* Nothing was added: the free last block, if there is one, goes back to its index.
LEMMA RefusedRested ==
  ASSUME NEW m, NEW T, NEW K, Settled(m, T, Free(T), K), NoTwoFree(T),
         get_epilogue(m) # get_firstblock,
         NEW size \in Nat, size <= HeapMax,
         LastFreeSize(m) <= size \/ LastFreeSize(m) = size + 8,
         LastFreeSize(m) # 8 \/ 8 < size, size > 0,
         Grown(m, to_request_from_OS(m, size)) = 0
  PROVE  Rested(try_extend_heap(m, size), T, K, m.end)
<1> DEFINE e == get_epilogue(m)
           request == to_request_from_OS(m, size)
           added == RoundedRequest(request)
           spare == LastFreeSize(m)
           block == GrowingBlock(m)
           last == get_lastblock(m)
           B == IF last \in Free(T) THEN {last} ELSE {}
           I == Free(T) \ B
           p == WithoutFreeLast(m)
           q == extend_heap(p, request)
<1>1. /\ Whole(m, T) /\ Tiles(T, e, e, e) /\ m.end \in Nat
  BY DEF Settled, Stage, Whole, Layout, MemType
<1>2. /\ last \in DOMAIN T /\ End(T, last) = e
      /\ LastIsFree(m) <=> last \in Free(T)
      /\ spare = IF last \in Free(T) THEN T[last].size ELSE 0
      /\ spare \in Nat
      /\ block = IF last \in Free(T) THEN last ELSE e
  BY <1>1, LastBlock
<1> HIDE DEF spare, block, last
<1>3. MayGrow(m, request) => added = 0 /\ spare # 8 /\ last \in Free(T)
  <2>1. request = (size + Width - spare) % Width
    BY DEF to_request_from_OS, spare
  <2>2. spare <= size \/ spare = size + 8
    BY DEF spare
  <2>3. spare < size => added \in Nat /\ added >= 8
    BY <1>2, <2>1, <2>2, Requested
  <2>4. MayGrow(m, request) => added = 0
    BY DEF Grown
  <2> HIDE DEF added
  <2>5. MayGrow(m, request) => spare >= size
    BY <1>2, <2>3, <2>4
  <2>6. spare >= size => last \in Free(T)
    BY <1>2
  <2>7. spare # 8 \/ 8 < size
    BY DEF spare
  <2>8. spare >= size => spare # 8
    BY <1>2, <2>7
  <2>. QED BY <2>4, <2>5, <2>6, <2>8
<1>4. Settled(p, T, I, K) /\ p.end = m.end
  <2>1. CASE last \in Free(T)
    <3>1. p = delete_free_block(m, last)
      BY <1>2, <2>1 DEF WithoutFreeLast, last
    <3>2. I = Free(T) \ {last}
      BY <2>1
    <3> HIDE DEF p, I
    <3>. QED BY <2>1, <3>1, <3>2, DeleteSettled
  <2>2. CASE last \notin Free(T)
    <3>1. p = m
      BY <1>2, <2>2 DEF WithoutFreeLast
    <3>2. I = Free(T)
      BY <2>2
    <3> HIDE DEF p, I
    <3>. QED BY <3>1, <3>2
  <2>. QED BY <2>1, <2>2
<1>5. get_epilogue(p) = e
  BY <1>4 DEF get_epilogue
<1> HIDE DEF p, request, e
<1>6. Settled(q, T, I, K) /\ q.end = m.end
  <2>1. CASE ~MayGrow(m, request)
    <3>1. q = p
      BY <1>4, <2>1 DEF extend_heap, MayGrow
    <3>. QED BY <1>4, <3>1
  <2>2. CASE MayGrow(m, request)
    <3>1. MayGrow(p, request) /\ added = 0
      BY <1>3, <1>4, <2>2 DEF MayGrow
    <3>2. [p EXCEPT !.end = @ + added] = p
      <4>1. p \in MemType /\ p.end + 0 = p.end
        BY <1>1, <1>4 DEF Settled, Stage, Whole, Layout
      <4>. QED BY <3>1, <4>1 DEF MemType
    <3>3. q = Tag(p, e, ALLOCATED, 0)
      BY <1>5, <3>1, <3>2 DEF extend_heap
    <3>4. p.word[e].p8 = 0
      <4>1. Tags(p, T, e, e)
        BY <1>4, <1>5 DEF Settled, Stage, Whole, Layout
      <4>2. p.word[e].p8 = Follows8(T, e)
        BY <1>5, <4>1 DEF Tags
      <4>3. Follows8(T, End(T, last)) = 0
        <5>1. T[last].size # 8
          BY <1>2, <1>3, <2>2
        <5>. QED BY <1>1, <1>2, <5>1, FollowsEnd
      <4>. QED BY <1>2, <4>2, <4>3
    <3> HIDE DEF q, I
    <3>. QED BY <1>4, <1>5, <3>3, <3>4, EpilogueAgain
  <2>. QED BY <2>1, <2>2
<1> HIDE DEF q
<1>7. try_extend_heap(m, size) = IF last \in Free(T) THEN insert_free_block(q, last) ELSE q
  <2>1. try_extend_heap(m, size) = IF LastIsFree(m) THEN insert_free_block(q, block) ELSE q
    BY DEF try_extend_heap, p, q, request, block
  <2>. QED BY <1>2, <2>1
<1>8. CASE last \in Free(T)
  <2>1. last \notin I /\ I \cup {last} = Free(T)
    BY <1>8
  <2> HIDE DEF I
  <2>2. Settled(insert_free_block(q, last), T, Free(T), K) /\ insert_free_block(q, last).end = m.end
    BY <1>6, <1>8, <2>1, InsertSettled
  <2>. QED BY <1>7, <1>8, <2>2 DEF Rested
<1>9. CASE last \notin Free(T)
  <2>1. I = Free(T)
    BY <1>9
  <2>. QED BY <1>6, <1>7, <1>9, <2>1 DEF Rested
<1>. QED BY <1>8, <1>9

\* The free block "x" is split or taken whole.
LEMMA SplitShape ==
  ASSUME NEW T, NEW e, Tiles(T, e, e, e), NoTwoFree(T), NEW x \in Free(T),
         NEW size \in Nat, size >= 8, size % 8 = 0, size <= T[x].size,
         NEW U, U = SplitLayout(T, x, size)
  PROVE  /\ NoTwoFree(U) /\ Busy(U) = Busy(T) \cup {x} /\ U[x].size >= size
         /\ \A h \in Busy(T) : U[h] = T[h]
<1> DEFINE s == T[x].size
           left == s - size
           rest == x + size
           V == Taken(T, x, size)
<1>1. /\ x \in DOMAIN T /\ x \notin Busy(T) /\ x \in Nat /\ s \in Nat /\ s % 8 = 0
      /\ End(T, x) \in Nat /\ End(T, x) = x + s /\ End(T, x) <= e
  <2>1. x \in DOMAIN T /\ x \notin Busy(T)
    BY DEF Free, Busy, FREE, ALLOCATED
  <2>. QED BY <2>1, WordsOfBlock, BetweenOne DEF End
<1>2. /\ \A h \in DOMAIN T : h \in Nat /\ End(T, h) \in Nat /\ h < End(T, h)
      /\ \A h \in DOMAIN T : x < h => End(T, x) <= h
      /\ \A h \in DOMAIN T : End(T, h) \in DOMAIN T \cup {e}
      /\ \A h \in DOMAIN T : h \in Busy(T) <=> h \notin Free(T)
      /\ Free(T) \subseteq DOMAIN T /\ Busy(T) \subseteq DOMAIN T /\ e \in Nat
  <2>1. e \in Nat
    BY Headers8 DEF Tiles
  <2>2. \A h \in DOMAIN T : x < h => End(T, x) <= h
    BY <1>1 DEF Tiles
  <2>3. \A h \in DOMAIN T : End(T, h) \in DOMAIN T \cup {e}
    BY DEF Tiles
  <2>. QED BY <2>1, <2>2, <2>3, BetweenOne, BusyOrFree
<1>3. /\ DOMAIN V = DOMAIN T /\ V[x].a = ALLOCATED /\ V[x].size = size
      /\ \A h \in DOMAIN T : h # x => V[h] = T[h] /\ End(V, h) = End(T, h)
  BY <1>1 DEF Taken, With, Without, End
<1> HIDE DEF V
<1>4. CASE left >= 8
  <2>1. U = With(V, rest, left, FREE)
    BY <1>4 DEF SplitLayout, V
  <2> HIDE DEF s
  <2>2. rest \in Nat /\ x < rest /\ rest < End(T, x) /\ rest # e /\ rest # x
    BY <1>1, <1>2, <1>4
  <2>3. rest \notin DOMAIN T
    BY <1>1, <1>2, <2>2
  <2>4. /\ DOMAIN U = DOMAIN T \cup {rest} /\ U[x].a = ALLOCATED /\ U[x].size = size
        /\ U[rest].a = FREE /\ U[rest].size = left
        /\ \A h \in DOMAIN T : h # x => U[h] = T[h]
    BY <1>1, <1>3, <2>1, <2>3 DEF With
  <2>5. End(U, rest) = End(T, x)
    BY <1>1, <1>4, <2>2, <2>4 DEF End
  <2>6. \A h \in DOMAIN T : h # x => End(U, h) = End(T, h)
    BY <2>4 DEF End
  <2>7. Busy(U) = Busy(T) \cup {x} /\ rest \notin Busy(U)
    BY <1>1, <2>3, <2>4 DEF Busy, FREE, ALLOCATED
  <2> HIDE DEF rest, left
  <2>8. NoTwoFree(U)
    <3> SUFFICES ASSUME NEW g \in DOMAIN U, NEW h \in DOMAIN U, End(U, g) = h
                 PROVE  g \in Busy(U) \/ h \in Busy(U)
      BY DEF NoTwoFree
    <3>1. CASE g = x \/ h = x
      BY <2>7, <3>1
    <3>2. CASE g = rest
      <4>1. h = End(T, x) /\ h # rest /\ h \in DOMAIN T
        BY <1>1, <2>2, <2>4, <2>5, <3>2
      <4>2. h \in Busy(T)
        BY <1>1, <4>1 DEF NoTwoFree
      <4>. QED BY <2>7, <4>2
    <3>3. CASE h = rest /\ g # x /\ g # rest
      <4>1. g \in DOMAIN T /\ End(T, g) = rest
        BY <2>4, <2>6, <3>3
      <4>. QED BY <1>2, <2>2, <2>3, <4>1
    <3>4. CASE g # x /\ g # rest /\ h # x /\ h # rest
      <4>1. g \in DOMAIN T /\ h \in DOMAIN T /\ End(T, g) = h
        BY <2>4, <2>6, <3>4
      <4>. QED BY <2>7, <4>1 DEF NoTwoFree
    <3>. QED BY <3>1, <3>2, <3>3, <3>4
  <2>9. \A h \in Busy(T) : U[h] = T[h]
    BY <1>1, <1>2, <2>4
  <2>. QED BY <2>4, <2>7, <2>8, <2>9
<1>5. CASE ~(left >= 8)
  <2>1. U = V
    BY <1>5 DEF SplitLayout, V
  <2>2. size = s
    <3> HIDE DEF s
    <3>. QED BY <1>1, <1>5 DEF s
  <2>3. Busy(U) = Busy(T) \cup {x}
    BY <1>1, <1>3, <2>1 DEF Busy, FREE, ALLOCATED
  <2>4. \A h \in DOMAIN T : End(U, h) = End(T, h)
    BY <1>1, <1>3, <2>1, <2>2 DEF End
  <2>5. NoTwoFree(U)
    BY <1>3, <2>1, <2>3, <2>4 DEF NoTwoFree
  <2>6. \A h \in Busy(T) : U[h] = T[h]
    BY <1>1, <1>2, <1>3, <2>1
  <2>. QED BY <1>3, <2>1, <2>3, <2>5, <2>6
<1>. QED BY <1>4, <1>5

\* What try_alloc_with_splitting leaves of a heap at rest
LEMMA SplitRested ==
  ASSUME NEW m, NEW T, NEW K, NEW end, Rested(m, T, K, end), NEW x \in Free(T),
         NEW size \in Nat, size >= 8, size % 8 = 0, size <= T[x].size
  PROVE  \E U : /\ Rested(try_alloc_with_splitting(m, x, size), U, K, end)
                /\ Busy(U) = Busy(T) \cup {x} /\ U[x].size >= size
                /\ \A h \in Busy(T) : U[h] = T[h]
<1> DEFINE U == SplitLayout(T, x, size)
           n == try_alloc_with_splitting(m, x, size)
<1>1. Settled(m, T, Free(T), K) /\ NoTwoFree(T) /\ m.end = end
  BY DEF Rested
<1>2. Tiles(T, get_epilogue(m), get_epilogue(m), get_epilogue(m))
  BY <1>1 DEF Settled, Stage, Whole, Layout
<1>3. Settled(n, U, Free(U), K) /\ n.end = m.end
  BY <1>1, SplitSettled
<1>4. /\ NoTwoFree(U) /\ Busy(U) = Busy(T) \cup {x} /\ U[x].size >= size
      /\ \A h \in Busy(T) : U[h] = T[h]
  BY <1>1, <1>2, SplitShape
<1> HIDE DEF U, n
<1>5. Rested(n, U, K, end)
  BY <1>1, <1>3, <1>4 DEF Rested
<1>. QED BY <1>4, <1>5 DEF n

-----------------------------------------------------------------------------
(* Walks along the lists, and the search for a free block                   *)

\* A walk along a ring, once around
Lap(w, cnt, i) == w[IF i = cnt THEN 0 ELSE i]

\* Each step of the walk follows N.
LEMMA LapStep ==
  ASSUME NEW w, NEW S, NEW hd, NEW cnt \in Nat, NEW N, Order(w, S, hd, cnt, N), cnt > 0
  PROVE  /\ Lap(w, cnt, 0) = hd /\ hd \in S
         /\ \A j \in 0 .. cnt : Lap(w, cnt, j) \in S
         /\ \A j \in 1 .. cnt : N[Lap(w, cnt, j - 1)] = Lap(w, cnt, j)
<1>1. /\ w \in [0 .. cnt - 1 -> S] /\ w[0] = hd /\ 0 \in 0 .. cnt - 1
      /\ \A i \in 0 .. cnt - 1 : N[w[i]] = w[IF i = cnt - 1 THEN 0 ELSE i + 1]
  BY DEF Order
<1>2. Lap(w, cnt, 0) = hd /\ hd \in S
  BY <1>1 DEF Lap
<1>3. ASSUME NEW j \in 0 .. cnt
      PROVE  Lap(w, cnt, j) \in S
  <2>1. (IF j = cnt THEN 0 ELSE j) \in 0 .. cnt - 1
    OBVIOUS
  <2>. QED BY <1>1, <2>1 DEF Lap
<1>4. ASSUME NEW j \in 1 .. cnt
      PROVE  N[Lap(w, cnt, j - 1)] = Lap(w, cnt, j)
  <2>1. j - 1 \in 0 .. cnt - 1 /\ j - 1 # cnt /\ (j - 1 = cnt - 1 <=> j = cnt) /\ (j - 1) + 1 = j
    OBVIOUS
  <2>2. N[w[j - 1]] = w[IF j - 1 = cnt - 1 THEN 0 ELSE (j - 1) + 1]
    BY <1>1, <2>1
  <2>. QED BY <2>1, <2>2 DEF Lap
<1>. QED BY <1>2, <1>3, <1>4

Laid16(m, T, S, w, cnt) ==
    /\ S \subseteq FreeOf(T, 16) /\ cnt \in Nat /\ cnt > 0
    /\ Order(w, S, m.explicit_list.head, cnt, Next16(m, T))
Laps16(m, w, cnt) == \A i \in 0 .. cnt : Explicit!Walk(m, i) = Lap(w, cnt, i)

\* A walk along the list of blocks of sixteen goes once around.
LEMMA Round16 ==
  ASSUME NEW m, NEW T, NEW S, NEW w, NEW cnt, Laid16(m, T, S, w, cnt)
  PROVE  Laps16(m, w, cnt)
<1> SUFFICES ASSUME NEW i \in 0 .. cnt PROVE Explicit!Walk(m, i) = Lap(w, cnt, i)
  BY DEF Laps16
<1>0. /\ S \subseteq FreeOf(T, 16) /\ cnt \in Nat /\ cnt > 0
      /\ Order(w, S, m.explicit_list.head, cnt, Next16(m, T))
  BY DEF Laid16
<1> DEFINE hd == m.explicit_list.head
           walk[j \in 0 .. i] == IF j = 0 THEN hd ELSE get_nextfree(m, walk[j - 1])
           g == [j \in 0 .. i |-> Lap(w, cnt, j)]
<1>1. /\ Lap(w, cnt, 0) = hd
      /\ \A j \in 1 .. i : get_nextfree(m, Lap(w, cnt, j - 1)) = Lap(w, cnt, j)
  <2>1. /\ Lap(w, cnt, 0) = hd
        /\ \A j \in 0 .. cnt : Lap(w, cnt, j) \in S
        /\ \A j \in 1 .. cnt : Next16(m, T)[Lap(w, cnt, j - 1)] = Lap(w, cnt, j)
    BY <1>0, LapStep
  <2>2. ASSUME NEW j \in 1 .. i
        PROVE  get_nextfree(m, Lap(w, cnt, j - 1)) = Lap(w, cnt, j)
    <3>1. j \in 1 .. cnt /\ j - 1 \in 0 .. cnt
      BY <1>0
    <3>2. Lap(w, cnt, j - 1) \in FreeOf(T, 16)
      BY <1>0, <2>1, <3>1
    <3>. QED BY <1>0, <2>1, <3>1, <3>2 DEF Next16
  <2>. QED BY <2>1, <2>2
<1>2. g = [j \in 0 .. i |-> IF j = 0 THEN hd ELSE get_nextfree(m, g[j - 1])]
  <2> HIDE DEF walk, hd
  <2>1. \A j \in 0 .. i : j # 0 => j \in 1 .. i /\ j - 1 \in 0 .. i
    BY <1>0
  <2>. QED BY <1>1, <2>1
<1>3. walk = [j \in 0 .. i |-> IF j = 0 THEN hd ELSE get_nextfree(m, walk[j - 1])]
  <2> HIDE DEF hd
  <2>. QED BY <1>2 DEF walk
<1>4. Explicit!Walk(m, i) = walk[i]
  BY DEF Explicit!Walk, Explicit!head
<1> HIDE DEF walk, hd
<1>5. walk[0] = hd /\ \A j \in 1 .. i : walk[j] = get_nextfree(m, walk[j - 1])
  <2>1. \A j \in 0 .. i : walk[j] = IF j = 0 THEN hd ELSE get_nextfree(m, walk[j - 1])
    BY <1>3, Zenon
  <2>2. 0 \in 0 .. i /\ \A j \in 1 .. i : j \in 0 .. i /\ j # 0
    BY <1>0
  <2>. QED BY <2>1, <2>2
<1>6. 0 .. i \subseteq {j \in 0 .. i : walk[j] = Lap(w, cnt, j)}
  <2> DEFINE P == {j \in 0 .. i : walk[j] = Lap(w, cnt, j)}
  <2>1. 0 \in P
    BY <1>1, <1>5
  <2>2. \A j \in 1 .. i : j - 1 \in P => j \in P
    BY <1>1, <1>5
  <2> HIDE DEF P
  <2>3. i \in Nat
    BY <1>0
  <2>4. 0 .. i \subseteq P
    BY <2>1, <2>2, <2>3, InductionUpTo
  <2>. QED BY <2>4 DEF P
<1>. QED BY <1>4, <1>6

Laid8(m, T, S, w, cnt) ==
    /\ S \subseteq FreeOf(T, 8) /\ cnt \in Nat /\ cnt > 0
    /\ Order(w, S, m.small_list.head, cnt, Next8(m, T))
Laps8(m, w, cnt) == \A i \in 0 .. cnt : Small!Walk(m, i) = Lap(w, cnt, i)

\* A walk along the list of blocks of eight does.
LEMMA Round8 ==
  ASSUME NEW m, NEW T, NEW S, NEW w, NEW cnt, Laid8(m, T, S, w, cnt)
  PROVE  Laps8(m, w, cnt)
<1> SUFFICES ASSUME NEW i \in 0 .. cnt PROVE Small!Walk(m, i) = Lap(w, cnt, i)
  BY DEF Laps8
<1>0. /\ S \subseteq FreeOf(T, 8) /\ cnt \in Nat /\ cnt > 0
      /\ Order(w, S, m.small_list.head, cnt, Next8(m, T))
  BY DEF Laid8
<1> DEFINE hd == m.small_list.head
           walk[j \in 0 .. i] == IF j = 0 THEN hd ELSE get_nextfree_block8(m, walk[j - 1])
           g == [j \in 0 .. i |-> Lap(w, cnt, j)]
<1>1. /\ Lap(w, cnt, 0) = hd
      /\ \A j \in 1 .. i : get_nextfree_block8(m, Lap(w, cnt, j - 1)) = Lap(w, cnt, j)
  <2>1. /\ Lap(w, cnt, 0) = hd
        /\ \A j \in 0 .. cnt : Lap(w, cnt, j) \in S
        /\ \A j \in 1 .. cnt : Next8(m, T)[Lap(w, cnt, j - 1)] = Lap(w, cnt, j)
    <3> DEFINE N == Next8(m, T)
    <3> HIDE DEF N
    <3>1. Order(w, S, m.small_list.head, cnt, N)
      BY <1>0 DEF N
    <3>2. /\ Lap(w, cnt, 0) = m.small_list.head
          /\ \A j \in 0 .. cnt : Lap(w, cnt, j) \in S
          /\ \A j \in 1 .. cnt : N[Lap(w, cnt, j - 1)] = Lap(w, cnt, j)
      BY <1>0, <3>1, LapStep
    <3>. QED BY <3>2 DEF N
  <2>2. ASSUME NEW j \in 1 .. i
        PROVE  get_nextfree_block8(m, Lap(w, cnt, j - 1)) = Lap(w, cnt, j)
    <3>1. j \in 1 .. cnt /\ j - 1 \in 0 .. cnt
      BY <1>0
    <3>2. Lap(w, cnt, j - 1) \in FreeOf(T, 8)
      BY <1>0, <2>1, <3>1
    <3>. QED BY <1>0, <2>1, <3>1, <3>2 DEF Next8
  <2>. QED BY <2>1, <2>2
<1>2. g = [j \in 0 .. i |-> IF j = 0 THEN hd ELSE get_nextfree_block8(m, g[j - 1])]
  <2> HIDE DEF walk, hd
  <2>1. \A j \in 0 .. i : j # 0 => j \in 1 .. i /\ j - 1 \in 0 .. i
    BY <1>0
  <2>. QED BY <1>1, <2>1
<1>3. walk = [j \in 0 .. i |-> IF j = 0 THEN hd ELSE get_nextfree_block8(m, walk[j - 1])]
  <2> HIDE DEF hd
  <2>. QED BY <1>2 DEF walk
<1>4. Small!Walk(m, i) = walk[i]
  BY DEF Small!Walk, Small!head
<1> HIDE DEF walk, hd
<1>5. walk[0] = hd /\ \A j \in 1 .. i : walk[j] = get_nextfree_block8(m, walk[j - 1])
  <2>1. \A j \in 0 .. i : walk[j] = IF j = 0 THEN hd ELSE get_nextfree_block8(m, walk[j - 1])
    BY <1>3, Zenon
  <2>2. 0 \in 0 .. i /\ \A j \in 1 .. i : j \in 0 .. i /\ j # 0
    BY <1>0
  <2>. QED BY <2>1, <2>2
<1>6. 0 .. i \subseteq {j \in 0 .. i : walk[j] = Lap(w, cnt, j)}
  <2> DEFINE P == {j \in 0 .. i : walk[j] = Lap(w, cnt, j)}
  <2>1. 0 \in P
    BY <1>1, <1>5
  <2>2. \A j \in 1 .. i : j - 1 \in P => j \in P
    BY <1>1, <1>5
  <2> HIDE DEF P
  <2>3. i \in Nat
    BY <1>0
  <2>4. 0 .. i \subseteq P
    BY <2>1, <2>2, <2>3, InductionUpTo
  <2>. QED BY <2>4 DEF P
<1>. QED BY <1>4, <1>6

\* A ring is what a walk meets, and it closes.
LEMMA LapRound ==
  ASSUME NEW w, NEW S, NEW hd, NEW cnt \in Nat, NEW N, Order(w, S, hd, cnt, N), cnt > 0
  PROVE  /\ {Lap(w, cnt, i) : i \in {j \in 0 .. cnt : j < cnt}} = S
         /\ Lap(w, cnt, cnt) = hd
         /\ \A i, j \in 0 .. cnt - 1 : Lap(w, cnt, i) = Lap(w, cnt, j) => i = j
<1>1. /\ \A i, j \in 0 .. cnt - 1 : w[i] = w[j] => i = j
      /\ \A x \in S : \E i \in 0 .. cnt - 1 : w[i] = x
      /\ w[0] = hd /\ w \in [0 .. cnt - 1 -> S]
  BY DEF Order
<1>2. \A i \in 0 .. cnt - 1 : Lap(w, cnt, i) = w[i] /\ i \in {j \in 0 .. cnt : j < cnt}
  BY DEF Lap
<1>3. \A i \in {j \in 0 .. cnt : j < cnt} : i \in 0 .. cnt - 1
  OBVIOUS
<1>4. Lap(w, cnt, cnt) = hd
  BY <1>1 DEF Lap
<1>5. {Lap(w, cnt, i) : i \in {j \in 0 .. cnt : j < cnt}} = S
  BY <1>1, <1>2, <1>3
<1>. QED BY <1>1, <1>2, <1>4, <1>5

\* What IndexesAreExact says of a list
LEMMA Members16 ==
  ASSUME NEW m, NEW T, NEW S, Index16(m, T, S)
  PROVE  Explicit!Members(m) = S /\ Explicit!IsRing(m)
<1> DEFINE cnt == m.explicit_list.count
           hd == m.explicit_list.head
           N == Next16(m, T)
           P == Prev16(m, T)
<1>1. S \subseteq FreeOf(T, 16) /\ Ring(S, hd, cnt, N, P)
  BY DEF Index16
<1>2. cnt \in Nat /\ (cnt = 0 <=> S = {}) /\ \A x \in S : N[x] \in S /\ P[N[x]] = x
  BY <1>1, RingFacts
<1>3. Explicit!count(m) = cnt /\ Explicit!head(m) = hd
  BY DEF Explicit!count, Explicit!head
<1>4. CASE cnt = 0
  BY <1>2, <1>3, <1>4 DEF Explicit!Members, Explicit!IsRing
<1>5. CASE cnt # 0
  <2>1. PICK w : Order(w, S, hd, cnt, N)
    BY <1>1 DEF Ring
  <2>2. cnt > 0 /\ cnt \in 0 .. cnt
    BY <1>2, <1>5
  <2> HIDE DEF cnt
  <2>3. \A i \in 0 .. cnt : Explicit!Walk(m, i) = Lap(w, cnt, i)
    <3> HIDE DEF hd, N
    <3>1. Order(w, S, hd, cnt, N)
      BY <2>1
    <3>2. Order(w, S, m.explicit_list.head, cnt, Next16(m, T))
      BY <3>1 DEF hd, N
    <3>3. S \subseteq FreeOf(T, 16) /\ cnt \in Nat /\ cnt > 0
      BY <1>1, <1>2, <2>2
    <3>4. Laid16(m, T, S, w, cnt)
      BY <3>2, <3>3 DEF Laid16
    <3>5. Laps16(m, w, cnt)
      BY <3>4, Round16
    <3>. QED BY <3>5 DEF Laps16
  <2> HIDE DEF hd, N, P
  <2>4. /\ {Lap(w, cnt, i) : i \in {j \in 0 .. cnt : j < cnt}} = S
        /\ Lap(w, cnt, cnt) = hd
        /\ \A i, j \in 0 .. cnt - 1 : Lap(w, cnt, i) = Lap(w, cnt, j) => i = j
    BY <1>2, <2>1, <2>2, LapRound
  <2>5. Explicit!Members(m) = S
    <3>1. Explicit!Members(m) = {Explicit!Walk(m, i) : i \in {j \in 0 .. cnt : j < cnt}}
      BY <1>3 DEF Explicit!Members
    <3>. QED BY <2>3, <2>4, <3>1
  <2>6. \A i, j \in 0 .. cnt - 1 : Explicit!Walk(m, i) = Explicit!Walk(m, j) => i = j
    <3>1. \A i \in 0 .. cnt - 1 : i \in 0 .. cnt
      BY <1>2
    <3>. QED BY <2>3, <2>4, <3>1
  <2>7. Explicit!Walk(m, cnt) = hd
    BY <2>2, <2>3, <2>4
  <2>8. \A x \in S : get_prevfree(m, get_nextfree(m, x)) = x
    BY <1>1, <1>2 DEF N, P, Next16, Prev16
  <2>. QED BY <1>3, <2>5, <2>6, <2>7, <2>8 DEF Explicit!IsRing
<1>. QED BY <1>4, <1>5

\* The same of the blocks of eight
LEMMA Members8 ==
  ASSUME NEW m, NEW T, NEW S, Index8(m, T, S)
  PROVE  Small!Members(m) = S /\ Small!IsRing(m)
<1> DEFINE cnt == m.small_list.count
           hd == m.small_list.head
           N == Next8(m, T)
           P == Prev8(m, T)
<1>1. S \subseteq FreeOf(T, 8) /\ Ring(S, hd, cnt, N, P)
  BY DEF Index8
<1>2. cnt \in Nat /\ (cnt = 0 <=> S = {}) /\ \A x \in S : N[x] \in S /\ P[N[x]] = x
  BY <1>1, RingFacts
<1>3. Small!count(m) = cnt /\ Small!head(m) = hd
  BY DEF Small!count, Small!head
<1>4. CASE cnt = 0
  BY <1>2, <1>3, <1>4 DEF Small!Members, Small!IsRing
<1>5. CASE cnt # 0
  <2>1. PICK w : Order(w, S, hd, cnt, N)
    BY <1>1 DEF Ring
  <2>2. cnt > 0 /\ cnt \in 0 .. cnt
    BY <1>2, <1>5
  <2> HIDE DEF cnt
  <2>3. \A i \in 0 .. cnt : Small!Walk(m, i) = Lap(w, cnt, i)
    <3> HIDE DEF hd, N
    <3>1. Order(w, S, hd, cnt, N)
      BY <2>1
    <3>2. Order(w, S, m.small_list.head, cnt, Next8(m, T))
      BY <3>1 DEF hd, N
    <3>3. S \subseteq FreeOf(T, 8) /\ cnt \in Nat /\ cnt > 0
      BY <1>1, <1>2, <2>2
    <3>4. Laid8(m, T, S, w, cnt)
      BY <3>2, <3>3 DEF Laid8
    <3>5. Laps8(m, w, cnt)
      BY <3>4, Round8
    <3>. QED BY <3>5 DEF Laps8
  <2> HIDE DEF hd, N, P
  <2>4. /\ {Lap(w, cnt, i) : i \in {j \in 0 .. cnt : j < cnt}} = S
        /\ Lap(w, cnt, cnt) = hd
        /\ \A i, j \in 0 .. cnt - 1 : Lap(w, cnt, i) = Lap(w, cnt, j) => i = j
    BY <1>2, <2>1, <2>2, LapRound
  <2>5. Small!Members(m) = S
    <3>1. Small!Members(m) = {Small!Walk(m, i) : i \in {j \in 0 .. cnt : j < cnt}}
      BY <1>3 DEF Small!Members
    <3>. QED BY <2>3, <2>4, <3>1
  <2>6. \A i, j \in 0 .. cnt - 1 : Small!Walk(m, i) = Small!Walk(m, j) => i = j
    <3>1. \A i \in 0 .. cnt - 1 : i \in 0 .. cnt
      BY <1>2
    <3>. QED BY <2>3, <2>4, <3>1
  <2>7. Small!Walk(m, cnt) = hd
    BY <2>2, <2>3, <2>4
  <2>8. \A x \in S : get_prevfree_block8(m, get_nextfree_block8(m, x)) = x
    BY <1>1, <1>2 DEF N, P, Next8, Prev8
  <2>. QED BY <1>3, <2>5, <2>6, <2>7, <2>8 DEF Small!IsRing
<1>. QED BY <1>4, <1>5

\* The first free block of sixteen is the head of the list: every block of it fits.
LEMMA Search16 ==
  ASSUME NEW m, NEW T, Settled(m, T, Free(T), {})
  PROVE  /\ explicit_list_search(m, 16) \subseteq FreeOf(T, 16)
         /\ FreeOf(T, 16) # {} => explicit_list_search(m, 16) # {}
<1> DEFINE cnt == m.explicit_list.count
           hd == m.explicit_list.head
           N == Next16(m, T)
           S == FreeOf(T, 16)
           Fits(i) == LET b == Explicit!Walk(m, i)
                      IN  get_allocated(m, b) = FREE /\ 16 <= get_blocksize(m, b)
           J == {j \in 0 .. cnt - 1 : Fits(j) /\ \A k \in 0 .. j - 1 : ~Fits(k)}
<1>1. Ring(S, hd, cnt, N, Prev16(m, T)) /\ Whole(m, T)
  <2>1. Free(T) \cap S = S
    BY IndexSetsApart
  <2>. QED BY <2>1 DEF Settled, Stage, Indexed, Index16
<1>2. cnt \in Nat /\ (cnt = 0 <=> S = {})
  BY <1>1, RingFacts
<1>3. explicit_list_search(m, 16) = {Explicit!Walk(m, i) : i \in J}
  BY DEF explicit_list_search
<1>4. CASE cnt = 0
  <2> HIDE DEF cnt, Fits
  <2>1. J = {}
    BY <1>4
  <2> HIDE DEF J
  <2>. QED BY <1>2, <1>3, <1>4, <2>1
<1>5. CASE cnt # 0
  <2>1. PICK w : Order(w, S, hd, cnt, N)
    BY <1>1 DEF Ring
  <2>2. cnt > 0
    BY <1>2, <1>5
  <2> HIDE DEF cnt, S
  <2>3. \A i \in 0 .. cnt : Explicit!Walk(m, i) = Lap(w, cnt, i)
    <3> HIDE DEF hd, N
    <3>1. Order(w, S, hd, cnt, N)
      BY <2>1
    <3>2. Order(w, S, m.explicit_list.head, cnt, Next16(m, T))
      BY <3>1 DEF hd, N
    <3>3. S \subseteq FreeOf(T, 16) /\ cnt \in Nat /\ cnt > 0
      BY <1>2, <2>2 DEF S
    <3>4. Laid16(m, T, S, w, cnt)
      BY <3>2, <3>3 DEF Laid16
    <3>5. Laps16(m, w, cnt)
      BY <3>4, Round16
    <3>. QED BY <3>5 DEF Laps16
  <2> HIDE DEF hd, N
  <2>4. \A i \in 0 .. cnt : Lap(w, cnt, i) \in S
    BY <1>2, <2>1, <2>2, LapStep
  <2>5. \A i \in 0 .. cnt - 1 : Explicit!Walk(m, i) \in S
    <3>1. \A i \in 0 .. cnt - 1 : i \in 0 .. cnt
      BY <1>2
    <3>. QED BY <2>3, <2>4, <3>1
  <2>6. explicit_list_search(m, 16) \subseteq S
    <3>1. \A i \in J : i \in 0 .. cnt - 1
      OBVIOUS
    <3> HIDE DEF J
    <3>. QED BY <1>3, <2>5, <3>1
  <2>7. 0 \in J
    <3>1. Fits(0)
      <4>1. Explicit!Walk(m, 0) \in S
        BY <1>2, <2>2, <2>5
      <4>. QED BY <1>1, <4>1, Free16Words DEF S
    <3> HIDE DEF Fits
    <3>2. 0 .. 0 - 1 = {} /\ 0 \in 0 .. cnt - 1
      BY <1>2, <2>2
    <3>. QED BY <3>1, <3>2
  <2> HIDE DEF J
  <2>8. explicit_list_search(m, 16) # {}
    BY <1>3, <2>7
  <2>. QED BY <2>6, <2>8 DEF S
<1>. QED BY <1>4, <1>5

\* The search finds free blocks that are large enough, and misses only this: a block of
\* sixteen is never given for one of eight.
LEMMA Searched ==
  ASSUME NEW m, NEW T, NEW K, Settled(m, T, Free(T), K), NEW size \in Nat, size >= 8, size % 8 = 0
  PROVE  /\ \A x \in search_free_block(m, size) : x \in Free(T) /\ size <= T[x].size
         /\ search_free_block(m, size) = {} =>
               \A x \in Free(T) : T[x].size < size \/ (size = 8 /\ T[x].size = 16)
<1> DEFINE fitting == {h \in m.rbt : get_blocksize(m, h) >= size}
<1>1. /\ Whole(m, T) /\ Layout(m, T, get_epilogue(m), get_epilogue(m))
      /\ m.rbt = FreeLarge(T) /\ Index8(m, T, FreeOf(T, 8)) /\ Settled(m, T, Free(T), {})
  <2>1. Free(T) \cap FreeOf(T, 8) = FreeOf(T, 8) /\ Free(T) \cap FreeLarge(T) = FreeLarge(T)
    BY IndexSetsApart
  <2>. QED BY <2>1 DEF Settled, Stage, Indexed, Holds, Whole
<1>2. \A h \in Free(T) : /\ get_blocksize(m, h) = T[h].size /\ T[h].size \in Nat
                         /\ T[h].size = 8 \/ T[h].size = 16 \/ T[h].size >= 24
  <2> TAKE h \in Free(T)
  <2>1. h \in DOMAIN T
    BY DEF Free
  <2>2. /\ get_blocksize(m, h) = T[h].size /\ T[h].size \in Nat
        /\ T[h].size >= 8 /\ T[h].size % 8 = 0
    BY <1>1, <2>1, ReadBlock, WordsOfBlock DEF Layout
  <2>. QED BY <2>2
<1>3. \A h \in m.rbt : h \in Free(T)
  BY <1>1 DEF FreeLarge
<1>4. /\ m.small_list.count # 0 => m.small_list.head \in FreeOf(T, 8)
      /\ m.small_list.count = 0 => FreeOf(T, 8) = {}
  <2>1. Ring(FreeOf(T, 8), m.small_list.head, m.small_list.count, Next8(m, T), Prev8(m, T))
    BY <1>1 DEF Index8
  <2> DEFINE c == m.small_list.count
  <2>2. c \in Nat /\ (c = 0 <=> FreeOf(T, 8) = {}) /\ (c > 0 => m.small_list.head \in FreeOf(T, 8))
    BY <2>1, RingFacts
  <2> HIDE DEF c
  <2>3. c # 0 => c > 0
    BY <2>2
  <2>. QED BY <2>2, <2>3 DEF c
<1>5. /\ explicit_list_search(m, 16) \subseteq FreeOf(T, 16)
      /\ FreeOf(T, 16) # {} => explicit_list_search(m, 16) # {}
  BY <1>1, Search16
<1>6. /\ \A x \in find_succ(m, size) : x \in Free(T) /\ size <= T[x].size
      /\ find_succ(m, size) = {} => \A x \in FreeLarge(T) : T[x].size < size
  <2>1. \A x \in fitting : x \in Free(T) /\ size <= T[x].size /\ get_blocksize(m, x) = T[x].size
                           /\ T[x].size \in Nat
    BY <1>2, <1>3
  <2>2. find_succ(m, size) =
            {h \in fitting : \A other \in fitting : get_blocksize(m, h) <= get_blocksize(m, other)}
    BY DEF find_succ
  <2>3. \A x \in FreeLarge(T) : T[x].size >= size => x \in fitting
    BY <1>1, <1>2, <1>3
  <2> HIDE DEF fitting
  <2>4. ASSUME fitting # {} PROVE find_succ(m, size) # {}
    <3> DEFINE L == {T[h].size : h \in fitting}
    <3>1. L \in SUBSET Nat /\ L # {}
      BY <2>1, <2>4
    <3>2. PICK l \in L : \A k \in L : l <= k
      <4> HIDE DEF L
      <4>. QED BY <3>1, LeastOfNaturals
    <3>3. PICK h \in fitting : l = T[h].size
      OBVIOUS
    <3>4. \A other \in fitting : get_blocksize(m, h) <= get_blocksize(m, other)
      BY <2>1, <3>2, <3>3
    <3>. QED BY <2>2, <3>3, <3>4
  <2>5. \A x \in FreeLarge(T) : T[x].size \in Nat
    BY <1>1, <1>2, <1>3
  <2>. QED BY <2>1, <2>2, <2>3, <2>4, <2>5
<1> HIDE DEF fitting
<1>7. \A x \in FreeOf(T, 8) \cup FreeOf(T, 16) : x \in Free(T)
  BY IndexSetsApart
<1>8. \A x \in Free(T) : /\ T[x].size = 8 => x \in FreeOf(T, 8)
                         /\ T[x].size = 16 => x \in FreeOf(T, 16)
                         /\ T[x].size >= 24 => x \in FreeLarge(T)
  BY DEF FreeOf, FreeLarge
<1>9. (\A x \in FreeOf(T, 8) : T[x].size = 8) /\ (\A x \in FreeOf(T, 16) : T[x].size = 16)
  BY IndexSetsApart
<1>10. CASE size = 8 /\ m.small_list.count # 0
  <2>1. search_free_block(m, size) = {m.small_list.head}
    BY <1>10 DEF search_free_block
  <2>. QED BY <1>4, <1>7, <1>9, <1>10, <2>1
<1>11. CASE size = 16 /\ explicit_list_search(m, 16) # {}
  <2>1. search_free_block(m, size) = explicit_list_search(m, 16)
    BY <1>11 DEF search_free_block
  <2>. QED BY <1>5, <1>7, <1>9, <1>11, <2>1
<1>12. CASE ~(size = 8 /\ m.small_list.count # 0) /\ ~(size = 16 /\ explicit_list_search(m, 16) # {})
  <2>1. search_free_block(m, size) = find_succ(m, size)
    BY <1>12 DEF search_free_block
  <2>2. ASSUME find_succ(m, size) = {}, NEW x \in Free(T), ~(T[x].size < size)
        PROVE  size = 8 /\ T[x].size = 16
    <3>1. T[x].size \in Nat /\ (T[x].size = 8 \/ T[x].size = 16 \/ T[x].size >= 24) /\ size <= T[x].size
      BY <1>2, <2>2
    <3>2. ~(T[x].size >= 24)
      BY <1>6, <1>8, <2>2
    <3>3. T[x].size = 8 => size = 8
      BY <3>1
    <3>4. T[x].size # 8
      BY <1>4, <1>8, <1>12, <3>3
    <3>5. T[x].size = 16 /\ (size = 16 \/ size = 8)
      BY <3>1, <3>2, <3>4
    <3>6. size # 16
      BY <1>5, <1>8, <1>12, <3>5
    <3>. QED BY <3>5, <3>6
  <2>. QED BY <1>6, <2>1, <2>2
<1>. QED BY <1>10, <1>11, <1>12

-----------------------------------------------------------------------------
(* What the properties say, in terms of a layout                            *)

\* A recursion along the addresses has a solution: what the closed sets share.
Stays(A, out, good, nx) == \A h \in A : h \in good => nx[h] \in A /\ h \notin out
Solves(F, A, out, good, nx) ==
    F = [h \in A |-> IF h \in out THEN {} ELSE IF h \in good THEN {h} \cup F[nx[h]] ELSE {h}]

\* The recursion along "nx" has a solution.
LEMMA WalkUp ==
  ASSUME NEW A, NEW out, NEW good, NEW nx, Stays(A, out, good, nx)
  PROVE  \E F : Solves(F, A, out, good, nx)
<1>0. \A h \in A : h \in good => nx[h] \in A /\ h \notin out
  BY DEF Stays
<1> DEFINE Closed(C) == \A c \in C : c \in good => nx[c] \in C
           F == [h \in A |-> {x \in A : x \notin out /\ \A C \in SUBSET A : h \in C /\ Closed(C) => x \in C}]
<1>1. ASSUME NEW h \in A, h \in out PROVE F[h] = {}
  <2>1. {h} \in SUBSET A /\ Closed({h})
    BY <1>0, <1>1
  <2>2. ASSUME NEW x \in F[h] PROVE FALSE
    <3>1. x \notin out /\ \A C \in SUBSET A : h \in C /\ Closed(C) => x \in C
      BY <2>2
    <3> HIDE DEF Closed, F
    <3>2. x = h
      BY <2>1, <3>1
    <3>. QED BY <1>1, <3>1, <3>2
  <2>. QED BY <2>2
<1>2. ASSUME NEW h \in A, h \notin out PROVE h \in F[h]
  BY <1>2
<1>3. ASSUME NEW h \in A, h \notin out, h \notin good PROVE F[h] = {h}
  <2>1. {h} \in SUBSET A /\ Closed({h})
    BY <1>3
  <2>2. ASSUME NEW x \in F[h] PROVE x = h
    <3>1. \A C \in SUBSET A : h \in C /\ Closed(C) => x \in C
      BY <2>2
    <3> HIDE DEF Closed, F
    <3>. QED BY <2>1, <3>1
  <2>3. h \in F[h]
    BY <1>2, <1>3
  <2> HIDE DEF F
  <2>. QED BY <2>2, <2>3
<1>4. ASSUME NEW h \in A, h \notin out, h \in good PROVE F[h] = {h} \cup F[nx[h]]
  <2>1. nx[h] \in A
    BY <1>0, <1>4
  <2>2. ASSUME NEW x \in F[nx[h]] PROVE x \in F[h]
    <3>1. x \in A /\ x \notin out /\ \A C \in SUBSET A : nx[h] \in C /\ Closed(C) => x \in C
      BY <2>1, <2>2
    <3>2. \A C \in SUBSET A : h \in C /\ Closed(C) => nx[h] \in C
      BY <1>4
    <3>3. \A C \in SUBSET A : h \in C /\ Closed(C) => x \in C
      BY <3>1, <3>2
    <3>. QED BY <3>1, <3>3
  <2>3. ASSUME NEW x \in F[h], x # h PROVE x \in F[nx[h]]
    <3>1. x \in A /\ x \notin out /\ \A C \in SUBSET A : h \in C /\ Closed(C) => x \in C
      BY <2>3
    <3>2. ASSUME NEW C \in SUBSET A, nx[h] \in C, Closed(C) PROVE x \in C
      <4>1. C \cup {h} \in SUBSET A /\ h \in C \cup {h}
        OBVIOUS
      <4>2. Closed(C \cup {h})
        BY <3>2
      <4> HIDE DEF Closed, F
      <4>3. x \in C \cup {h}
        BY <3>1, <4>1, <4>2
      <4>. QED BY <2>3, <4>3
    <3>. QED BY <2>1, <3>1, <3>2
  <2>4. h \in F[h]
    BY <1>2, <1>4
  <2> HIDE DEF F
  <2>. QED BY <2>2, <2>3, <2>4
<1> HIDE DEF F
<1>5. \A h \in A : F[h] = IF h \in out THEN {} ELSE IF h \in good THEN {h} \cup F[nx[h]] ELSE {h}
  BY <1>1, <1>3, <1>4
<1>6. F = [h \in A |-> F[h]]
  BY DEF F
<1>7. F = [h \in A |-> IF h \in out THEN {} ELSE IF h \in good THEN {h} \cup F[nx[h]] ELSE {h}]
  BY <1>5, <1>6
<1>. QED BY <1>7 DEF Solves

\* A walk over the headers meets the blocks.
LEMMA HeadersOfLayout ==
  ASSUME NEW m, NEW T, Whole(m, T)
  PROVE  Headers(m) = DOMAIN T
<1> DEFINE e == get_epilogue(m)
           A == {v \in WordAddresses : is_header(v)}
           out == {h \in A : h >= e}
           nx == [h \in A |-> get_nextheader(m, h)]
           good == {h \in A : h < e /\ is_header(nx[h]) /\ h < nx[h] /\ nx[h] <= e}
           from[h \in A] ==
               LET next == get_nextheader(m, h)
               IN  IF h >= e THEN {}
                   ELSE IF is_header(next) /\ h < next /\ next <= e THEN {h} \cup from[next]
                   ELSE {h}
<1>1. /\ Tiles(T, e, e, e) /\ m \in MemType /\ e \in HeaderAddresses /\ e \in Nat
      /\ HeaderAddresses \subseteq A
  <2>1. Tiles(T, e, e, e) /\ m \in MemType /\ e \in HeaderAddresses
    BY DEF Whole, Layout, Tiles
  <2>. QED BY <2>1, Headers8 DEF HeaderAddresses
<1>2. \A h \in A : nx[h] \in Int /\ h \in Nat
  <2> TAKE h \in A
  <2>1. h \in Nat /\ h \in WordAddresses /\ HeapMax \in Nat
    BY HeapAssumption DEF WordAddresses
  <2>2. m.word[h] \in WordType
    BY <1>1, <2>1 DEF MemType
  <2>3. get_blocksize(m, h) \in Nat
    BY <2>1, <2>2 DEF get_blocksize, Word, WordType
  <2>. QED BY <2>1, <2>3 DEF get_nextheader
<1>3. \A h \in A : h \in good => nx[h] \in A /\ h \notin out
  <2> TAKE h \in A
  <2> HAVE h \in good
  <2>1. nx[h] \in Int /\ h \in Nat /\ h < e /\ is_header(nx[h]) /\ h < nx[h] /\ nx[h] <= e
    BY <1>2
  <2>2. e \in 0 .. HeapMax - 1 /\ HeapMax \in Nat
    BY <1>1, HeapAssumption DEF HeaderAddresses, WordAddresses
  <2> HIDE DEF e, nx
  <2>3. nx[h] \in WordAddresses
    BY <2>1, <2>2 DEF WordAddresses, is_header
  <2>. QED BY <1>1, <2>1, <2>3
<1>4. PICK F : F = [h \in A |-> IF h \in out THEN {} ELSE IF h \in good THEN {h} \cup F[nx[h]] ELSE {h}]
  <2> HIDE DEF A, out, good, nx
  <2>1. PICK F : Solves(F, A, out, good, nx)
    BY <1>3, WalkUp DEF Stays
  <2>. QED BY <2>1 DEF Solves
<1>5. F = [h \in A |-> LET next == get_nextheader(m, h)
                       IN  IF h >= e THEN {}
                           ELSE IF is_header(next) /\ h < next /\ next <= e THEN {h} \cup F[next]
                           ELSE {h}]
  <2>1. \A h \in A : /\ h \in out <=> h >= e
                     /\ nx[h] = get_nextheader(m, h)
                     /\ ~(h >= e) => (h \in good <=> is_header(nx[h]) /\ h < nx[h] /\ nx[h] <= e)
    BY <1>1, <1>2
  <2> HIDE DEF out, good, nx, A, e
  <2>. QED BY <1>4, <2>1
<1>6. from = [h \in A |-> LET next == get_nextheader(m, h)
                          IN  IF h >= e THEN {}
                              ELSE IF is_header(next) /\ h < next /\ next <= e THEN {h} \cup from[next]
                              ELSE {h}]
  <2> HIDE DEF A, e
  <2>. QED BY <1>5 DEF from
<1>7. Headers(m) = from[get_firstblock]
  BY DEF Headers
<1> HIDE DEF from
<1>8. /\ from[e] = {}
      /\ \A h \in DOMAIN T : from[h] = {h} \cup from[End(T, h)]
  <2>1. \A h \in A : h >= e => from[h] = {}
    <3> HIDE DEF A, e
    <3>. QED BY <1>6
  <2>2. from[e] = {}
    BY <1>1, <2>1
  <2>3. ASSUME NEW h \in DOMAIN T PROVE from[h] = {h} \cup from[End(T, h)]
    <3>1. /\ h \in HeaderAddresses /\ h < e /\ End(T, h) \in HeaderAddresses /\ End(T, h) <= e
          /\ T[h].size \in Nat /\ T[h].size >= 8
      BY <1>1, <2>3, WordsOfBlock
    <3>2. get_nextheader(m, h) = End(T, h)
      BY <2>3, ReadBlock DEF Whole
    <3>3. h \in Nat /\ is_header(End(T, h)) /\ h \in A /\ End(T, h) \in A
      BY <1>1, <3>1, Headers8 DEF is_header
    <3>4. h < End(T, h) /\ ~(h >= e)
      <4> HIDE DEF e
      <4>. QED BY <1>1, <3>1, <3>3 DEF End
    <3> HIDE DEF A, e
    <3>. QED BY <1>6, <3>1, <3>2, <3>3, <3>4
  <2>. QED BY <2>2, <2>3
<1> HIDE DEF out, nx, good
<1> DEFINE bad == {h \in DOMAIN T \cup {e} : from[h] # {g \in DOMAIN T : h <= g}}
<1>9. bad = {}
  <2> SUFFICES ASSUME bad # {} PROVE FALSE
    OBVIOUS
  <2>1. \A h \in DOMAIN T : /\ h \in Nat /\ h < e /\ End(T, h) \in Nat /\ h < End(T, h)
                            /\ End(T, h) \in DOMAIN T \cup {e}
    <3> TAKE h \in DOMAIN T
    <3>1. /\ h \in HeaderAddresses /\ h < e /\ T[h].size \in Nat /\ T[h].size >= 8
      BY <1>1, WordsOfBlock
    <3>2. h \in Nat
      BY <3>1, Headers8
    <3>3. End(T, h) \in DOMAIN T \cup {e}
      BY <1>1 DEF Tiles
    <3> HIDE DEF e
    <3>. QED BY <3>1, <3>2, <3>3 DEF End
  <2>2. bad \in SUBSET Nat /\ \A x \in bad : x <= e
    BY <1>1, <2>1
  <2>3. PICK h \in bad : \A x \in bad : x <= h
    <3> HIDE DEF bad, e
    <3>. QED BY <1>1, <2>2, GreatestOfBounded
  <2>4. CASE h = e
    <3>1. {g \in DOMAIN T : e <= g} = {}
      BY <1>1, <2>1
    <3>. QED BY <1>8, <2>3, <2>4, <3>1
  <2>5. CASE h # e
    <3>1. h \in DOMAIN T
      BY <2>3, <2>5
    <3>2. End(T, h) \notin bad
      BY <2>1, <2>2, <2>3, <3>1
    <3>3. from[End(T, h)] = {g \in DOMAIN T : End(T, h) <= g}
      BY <2>1, <3>1, <3>2
    <3>4. \A g \in DOMAIN T : h <= g <=> g = h \/ End(T, h) <= g
      <4>1. \A g \in DOMAIN T : h < g => End(T, h) <= g
        BY <1>1, <3>1 DEF Tiles
      <4>. QED BY <2>1, <3>1, <4>1
    <3>5. from[h] = {g \in DOMAIN T : h <= g}
      BY <1>8, <3>1, <3>3, <3>4
    <3>. QED BY <2>3, <3>5
  <2>. QED BY <2>4, <2>5
<1>10. get_firstblock \in DOMAIN T \cup {e} /\ \A g \in DOMAIN T : get_firstblock <= g
  <2>1. get_firstblock \in DOMAIN T \cup {e} /\ DOMAIN T \subseteq HeaderAddresses
    BY <1>1 DEF Tiles
  <2>. QED BY <2>1 DEF HeaderAddresses
<1>11. from[get_firstblock] = {g \in DOMAIN T : get_firstblock <= g}
  BY <1>9, <1>10
<1>. QED BY <1>7, <1>10, <1>11

\* What an operation leaves behind: the tags and the pointers stay, and every word of a
\* payload is as nobody wrote it.
ForgetCell(m, T, kept, v) ==
    CASE v \in DOMAIN T \cup {get_epilogue(m)} \cup kept \/ {v - 4, v - 8} \cap FreeOf(T, 16) # {}
            -> m.word[v]
      [] v - 4 \in FreeOf(T, 8) -> [StaleWord EXCEPT !.size = m.word[v].size]
      [] v \in {End(T, h) - 4 : h \in {g \in DOMAIN T : T[g].size # 8}}
            -> [m.word[v] EXCEPT !.p8 = Stale]
      [] OTHER -> StaleWord

\* Forget by cells
LEMMA ForgetCells ==
  ASSUME NEW m, NEW T, Whole(m, T), NEW kept
  PROVE  Forget(m, kept) =
            [m EXCEPT !.word = [v \in WordAddresses |-> ForgetCell(m, T, kept, v)]]
<1>1. Headers(m) = DOMAIN T
  BY HeadersOfLayout
<1>2. \A h \in DOMAIN T : /\ get_blocksize(m, h) = T[h].size /\ get_allocated(m, h) = T[h].a
                          /\ get_footer(m, h) = End(T, h) - 4
  BY ReadBlock DEF Whole
<1> DEFINE footers == {get_footer(m, h) : h \in {g \in Headers(m) : get_blocksize(m, g) # 8}}
           free(size) == {h \in Headers(m) : get_allocated(m, h) = FREE /\ get_blocksize(m, h) = size}
<1>3. footers = {End(T, h) - 4 : h \in {g \in DOMAIN T : T[g].size # 8}}
  BY <1>1, <1>2
<1>4. free(8) = FreeOf(T, 8) /\ free(16) = FreeOf(T, 16)
  BY <1>1, <1>2 DEF FreeOf, Free
<1>5. \A v \in WordAddresses :
         (CASE v \in Headers(m) \cup {get_epilogue(m)} \cup kept \/ {v - 4, v - 8} \cap free(16) # {} -> m.word[v]
            [] v - 4 \in free(8) -> [StaleWord EXCEPT !.size = m.word[v].size]
            [] v \in footers -> [m.word[v] EXCEPT !.p8 = Stale]
            [] OTHER -> StaleWord) = ForgetCell(m, T, kept, v)
  <2> HIDE DEF footers, free
  <2>. QED BY <1>1, <1>3, <1>4 DEF ForgetCell
<1>. QED BY <1>5 DEF Forget

\* Which words Forget keeps, and which it makes stale
LEMMA ForgetWords ==
  ASSUME NEW m, NEW T, Whole(m, T), NEW K, K \subseteq Payloads(T),
         NEW n, n = Forget(m, K \cup {get_prologue})
  PROVE  /\ SameButWords(m, n)
         /\ \A v \in DOMAIN T \cup {get_epilogue(m), get_prologue} : n.word[v] = m.word[v]
         /\ \A h \in FreeOf(T, 16) : n.word[h + 4] = m.word[h + 4] /\ n.word[h + 8] = m.word[h + 8]
         /\ \A h \in FreeOf(T, 8) : n.word[h + 4].size = m.word[h + 4].size
         /\ \A h \in DOMAIN T : T[h].size # 8 =>
               /\ n.word[End(T, h) - 4].size = m.word[End(T, h) - 4].size
               /\ n.word[End(T, h) - 4].a = m.word[End(T, h) - 4].a
         /\ \A v \in K : n.word[v] = m.word[v]
         /\ \A v \in Payloads(T) \ K : n.word[v] = StaleWord
<1> DEFINE e == get_epilogue(m)
           kept == K \cup {get_prologue}
           cell(v) == ForgetCell(m, T, kept, v)
           foot == {End(T, h) - 4 : h \in {g \in DOMAIN T : T[g].size # 8}}
<1>1. /\ m \in MemType /\ Tiles(T, e, e, e) /\ e \in WordAddresses /\ get_prologue \in WordAddresses
      /\ e \in Nat /\ e \in HeaderAddresses
  <2>1. m \in MemType /\ Tiles(T, e, e, e) /\ e \in HeaderAddresses
    BY DEF Whole, Layout, Tiles
  <2>2. 4 \in WordAddresses
    BY HeapAssumption DEF WordAddresses
  <2>. QED BY <2>1, <2>2, Headers8 DEF HeaderAddresses, get_prologue
<1>2. n = [m EXCEPT !.word = [v \in WordAddresses |-> cell(v)]]
  <2> HIDE DEF kept
  <2>1. n = Forget(m, kept)
    BY DEF kept
  <2>2. Forget(m, kept) = [m EXCEPT !.word = [v \in WordAddresses |-> ForgetCell(m, T, kept, v)]]
    BY ForgetCells
  <2>. QED BY <2>1, <2>2
<1>3. \A v \in WordAddresses : m.word[v] \in WordType /\ v \in Nat
  BY <1>1 DEF MemType, WordAddresses
<1>4. \A v \in WordAddresses : cell(v) \in WordType
  <2> TAKE v \in WordAddresses
  <2>1. StaleWord \in WordType /\ [StaleWord EXCEPT !.size = m.word[v].size] \in WordType
        /\ [m.word[v] EXCEPT !.p8 = Stale] \in WordType
    BY <1>3 DEF WordType, StaleWord, Marks, Stale
  <2>. QED BY <1>3, <2>1 DEF ForgetCell
<1>5. n.word = [v \in WordAddresses |-> cell(v)] /\ SameButWords(m, n)
  <2> HIDE DEF cell
  <2>. QED BY <1>1, <1>2, <1>4 DEF MemType, SameButWords
<1>6. \A h \in DOMAIN T : /\ h \in WordAddresses /\ h + 4 \in WordAddresses
                          /\ End(T, h) - 4 \in WordAddresses
                          /\ T[h].size # 8 => h + 8 \in WordAddresses /\ T[h].size >= 16
                          /\ h \in Nat /\ T[h].size \in Nat /\ T[h].size >= 8
                          /\ End(T, h) = h + T[h].size /\ End(T, h) <= e /\ h >= 12
                          /\ h \in HeaderAddresses
  <2> TAKE h \in DOMAIN T
  <2>1. h \in HeaderAddresses
    BY <1>1, WordsOfBlock
  <2>. QED BY <1>1, <2>1, WordsOfBlock, Headers8 DEF End
<1> HIDE DEF e
<1>inside. ASSUME NEW v \in Nat, NEW b \in DOMAIN T, b <= v, v < End(T, b)
           PROVE  \A h \in DOMAIN T : h <= v /\ v < End(T, h) => h = b
  <2> TAKE h \in DOMAIN T
  <2>. QED BY <1>1, <1>6, <1>inside, OneBlockPerWord
<1>foot. ASSUME NEW v \in foot
         PROVE  \E h \in DOMAIN T : /\ T[h].size # 8 /\ v = End(T, h) - 4 /\ v \in Nat
                                    /\ h <= v /\ v < End(T, h) /\ ~is_header(v)
  <2>1. PICK h \in DOMAIN T : T[h].size # 8 /\ v = End(T, h) - 4
    OBVIOUS
  <2>2. End(T, h) \in HeaderAddresses
    BY <1>1, WordsOfBlock
  <2>3. ~is_header(v)
    BY <2>1, <2>2, Headers8 DEF is_header
  <2>4. v \in Nat /\ h <= v /\ v < End(T, h)
    BY <1>6, <2>1
  <2>. QED BY <2>1, <2>3, <2>4
<1>eight. ASSUME NEW v \in Nat, v - 4 \in FreeOf(T, 8)
          PROVE  /\ v - 4 \in DOMAIN T /\ T[v - 4].size = 8 /\ v - 4 <= v /\ v < End(T, v - 4)
                 /\ ~is_header(v)
  <2>1. v - 4 \in DOMAIN T /\ T[v - 4].size = 8
    BY <1>eight DEF FreeOf, Free
  <2>2. v < End(T, v - 4) /\ v - 4 <= v
    BY <1>6, <2>1
  <2>3. v - 4 \in HeaderAddresses
    BY <1>6, <2>1
  <2>4. ~is_header(v)
    BY <2>3, Headers8 DEF is_header
  <2>. QED BY <2>1, <2>2, <2>4
<1> HIDE DEF foot
<1>apart. ASSUME NEW v \in WordAddresses, v - 4 \notin FreeOf(T, 8), v \notin foot,
                 \/ v \in DOMAIN T \cup {e} \cup kept
                 \/ {v - 4, v - 8} \cap FreeOf(T, 16) # {}
          PROVE  n.word[v] = m.word[v]
  <2>1. cell(v) = m.word[v]
    BY <1>apart DEF ForgetCell, e, foot
  <2> HIDE DEF cell
  <2>. QED BY <1>5, <2>1
<1>payload. ASSUME NEW v \in Payloads(T)
            PROVE  /\ v \in WordAddresses /\ v \notin DOMAIN T /\ v # e /\ v # get_prologue
                   /\ v - 4 \notin FreeOf(T, 8) /\ v - 4 \notin FreeOf(T, 16)
                   /\ v - 8 \notin FreeOf(T, 16) /\ v \notin foot
  <2>1. v \in WordAddresses /\ v \in Nat
    BY <1>1, PayloadWord
  <2>2. PICK b \in DOMAIN T : T[b].a = ALLOCATED /\ b < v /\ v < End(T, b) /\ v < PayloadEnd(T, b)
    BY <1>1, PayloadWord
  <2>3. \A h \in DOMAIN T : h <= v /\ v < End(T, h) => h = b
    <3>1. b <= v
      BY <1>6, <2>1, <2>2
    <3>. QED BY <1>inside, <2>1, <2>2, <3>1
  <2>4. v \notin DOMAIN T /\ v # e /\ v # get_prologue
    <3>1. v \notin DOMAIN T
      BY <1>6, <2>1, <2>2, <2>3
    <3>2. v < e /\ v > 12
      BY <1>1, <1>6, <2>1, <2>2
    <3>. QED BY <1>1, <2>1, <3>1, <3>2 DEF get_prologue
  <2>5. \A h \in Free(T) : h \in DOMAIN T /\ h # b
    BY <2>2 DEF Free, FREE, ALLOCATED
  <2>6. v - 4 \notin FreeOf(T, 8) /\ v - 4 \notin FreeOf(T, 16) /\ v - 8 \notin FreeOf(T, 16)
    <3>1. \A h \in Free(T) : ~(h <= v /\ v < h + T[h].size)
      BY <1>6, <2>3, <2>5
    <3>2. \A h \in Free(T), d \in {4, 8} : v - d = h => v = h + d
      BY <1>6, <2>1, <2>5
    <3>3. \A h \in Free(T) : h \in Nat
      BY <1>6, <2>5
    <3>. QED BY <2>1, <3>1, <3>2, <3>3 DEF FreeOf
  <2>7. v \notin foot
    <3> SUFFICES ASSUME v \in foot PROVE FALSE
      OBVIOUS
    <3>1. PICK h \in DOMAIN T : T[h].size # 8 /\ v = End(T, h) - 4 /\ h <= v /\ v < End(T, h)
      BY <1>foot
    <3>2. h = b
      BY <2>3, <3>1
    <3>. QED BY <1>6, <2>1, <2>2, <3>1, <3>2 DEF PayloadEnd
  <2>. QED BY <2>1, <2>4, <2>6, <2>7
<1>7. ASSUME NEW v \in DOMAIN T \cup {e, get_prologue} \cup K
      PROVE  n.word[v] = m.word[v]
  <2>1. v \in WordAddresses /\ v \in Nat
    BY <1>1, <1>3, <1>6 DEF Payloads
  <2>2. CASE v \in K
    <3>1. v - 4 \notin FreeOf(T, 8) /\ v \notin foot
      BY <1>payload, <2>2
    <3>. QED BY <1>apart, <2>1, <2>2, <3>1
  <2>3. CASE v \in DOMAIN T \cup {e, get_prologue}
    <3>1. is_header(v)
      <4>1. \A x \in HeaderAddresses : is_header(x)
        BY DEF HeaderAddresses
      <4>2. is_header(get_prologue)
        BY DEF is_header, get_prologue
      <4>. QED BY <1>1, <1>6, <2>3, <4>1, <4>2
    <3>2. v - 4 \notin FreeOf(T, 8) /\ v \notin foot
      BY <1>eight, <1>foot, <2>1, <3>1
    <3>3. v \in DOMAIN T \cup {e} \cup kept
      BY <2>3
    <3>. QED BY <1>apart, <2>1, <3>2, <3>3
  <2>. QED BY <2>2, <2>3
<1>8. ASSUME NEW h \in FreeOf(T, 16), NEW d \in {4, 8}
      PROVE  n.word[h + d] = m.word[h + d]
  <2>1. h \in DOMAIN T /\ T[h].size = 16
    BY DEF FreeOf, Free
  <2>2. /\ h + d \in WordAddresses /\ (h + d) - d = h /\ h + d \in Nat /\ h <= h + d
        /\ h + d < End(T, h) /\ h + d # End(T, h) - 4
    BY <1>6, <2>1
  <2>3. {(h + d) - 4, (h + d) - 8} \cap FreeOf(T, 16) # {}
    BY <1>8, <2>2
  <2> DEFINE v == h + d
  <2> HIDE DEF v
  <2>4. \A g \in DOMAIN T : g <= v /\ v < End(T, g) => g = h
    BY <1>inside, <2>1, <2>2 DEF v
  <2>5. v - 4 \notin FreeOf(T, 8)
    BY <1>eight, <2>1, <2>2, <2>4 DEF v
  <2>6. v \notin foot
    BY <1>foot, <2>1, <2>2, <2>4 DEF v
  <2>. QED BY <1>apart, <2>2, <2>3, <2>5, <2>6 DEF v
<1>9. ASSUME NEW h \in FreeOf(T, 8)
      PROVE  n.word[h + 4].size = m.word[h + 4].size
  <2>1. h \in DOMAIN T /\ T[h].size = 8
    BY DEF FreeOf, Free
  <2>2. /\ h + 4 \in WordAddresses /\ (h + 4) - 4 = h /\ h + 4 \in Nat /\ h <= h + 4
        /\ h + 4 < End(T, h)
    BY <1>6, <2>1
  <2> DEFINE v == h + 4
  <2> HIDE DEF v
  <2>3. v \in WordAddresses /\ v - 4 \in FreeOf(T, 8)
    BY <2>2 DEF v
  <2>4. \A g \in DOMAIN T : g <= v /\ v < End(T, g) => g = h
    BY <1>inside, <2>1, <2>2 DEF v
  <2>5. v \notin foot
    BY <1>foot, <2>1, <2>4
  <2>6. v \notin DOMAIN T \cup {e} \cup kept
    <3>1. v \notin K
      BY <1>payload, <2>3
    <3>2. ~is_header(v)
      BY <1>eight, <2>2, <2>3 DEF v
    <3>3. \A x \in HeaderAddresses : is_header(x)
      BY DEF HeaderAddresses
    <3>4. is_header(get_prologue)
      BY DEF is_header, get_prologue
    <3>. QED BY <1>1, <1>6, <3>1, <3>2, <3>3, <3>4
  <2>7. {v - 4, v - 8} \cap FreeOf(T, 16) = {}
    <3>1. v - 4 \notin FreeOf(T, 16)
      BY <2>1, <2>2 DEF FreeOf, v
    <3>2. v - 8 \notin FreeOf(T, 16)
      <4> SUFFICES ASSUME v - 8 \in FreeOf(T, 16) PROVE FALSE
        OBVIOUS
      <4>1. v - 8 \in DOMAIN T /\ T[v - 8].size = 16
        BY DEF FreeOf, Free
      <4>2. v - 8 <= v /\ v < End(T, v - 8) /\ v - 8 # h
        BY <1>6, <2>2, <4>1 DEF v
      <4>. QED BY <2>4, <4>1, <4>2
    <3>. QED BY <3>1, <3>2
  <2>8. cell(v) = [StaleWord EXCEPT !.size = m.word[v].size]
    BY <2>3, <2>5, <2>6, <2>7 DEF ForgetCell, foot, e
  <2>9. cell(v).size = m.word[v].size
    <3> HIDE DEF cell
    <3>. QED BY <2>8 DEF StaleWord
  <2>. QED BY <1>5, <2>3, <2>9 DEF v
<1>10. ASSUME NEW h \in DOMAIN T, T[h].size # 8
       PROVE  /\ n.word[End(T, h) - 4].size = m.word[End(T, h) - 4].size
              /\ n.word[End(T, h) - 4].a = m.word[End(T, h) - 4].a
  <2> DEFINE v == End(T, h) - 4
  <2>1. v \in WordAddresses /\ v \in foot /\ v \in Nat /\ h <= v /\ v < End(T, h)
    BY <1>3, <1>6, <1>10 DEF foot
  <2> HIDE DEF v
  <2>2. v - 4 \notin FreeOf(T, 8)
    BY <1>eight, <1>inside, <1>10, <2>1
  <2>3. cell(v) = m.word[v] \/ cell(v) = [m.word[v] EXCEPT !.p8 = Stale]
    BY <2>1, <2>2 DEF ForgetCell, foot
  <2>4. cell(v).size = m.word[v].size /\ cell(v).a = m.word[v].a
    <3> HIDE DEF cell
    <3>. QED BY <1>3, <2>1, <2>3 DEF WordType
  <2>. QED BY <1>5, <2>1, <2>4 DEF v
<1>11. ASSUME NEW v \in Payloads(T) \ K
       PROVE  n.word[v] = StaleWord
  <2>1. cell(v) = StaleWord
    BY <1>payload DEF ForgetCell, e, foot
  <2>. QED BY <1>5, <1>payload, <2>1
<1>12. \A h \in FreeOf(T, 16) : n.word[h + 4] = m.word[h + 4] /\ n.word[h + 8] = m.word[h + 8]
  BY <1>8
<1> HIDE DEF cell, kept
<1>. QED BY <1>5, <1>7, <1>9, <1>10, <1>11, <1>12 DEF e

\* An operation, with what it forgets at its end, leaves a heap at rest.
LEMMA ForgetRested ==
  ASSUME NEW m, NEW T, NEW K, NEW end, Rested(m, T, K, end)
  PROVE  Rested(Forget(m, K \cup {get_prologue}), T, Payloads(T), end)
<1> DEFINE n == Forget(m, K \cup {get_prologue})
<1>1. /\ Whole(m, T) /\ m.ok /\ Indexed(m, T, Free(T)) /\ K \subseteq Payloads(T)
      /\ \A v \in K : m.word[v] = StaleWord
      /\ NoTwoFree(T) /\ m.end = end
  BY DEF Rested, Settled, Stage, Holds
<1>2. /\ SameButWords(m, n)
      /\ \A v \in DOMAIN T \cup {get_epilogue(m), get_prologue} : n.word[v] = m.word[v]
      /\ \A h \in FreeOf(T, 16) : n.word[h + 4] = m.word[h + 4] /\ n.word[h + 8] = m.word[h + 8]
      /\ \A h \in FreeOf(T, 8) : n.word[h + 4].size = m.word[h + 4].size
      /\ \A h \in DOMAIN T : T[h].size # 8 =>
            /\ n.word[End(T, h) - 4].size = m.word[End(T, h) - 4].size
            /\ n.word[End(T, h) - 4].a = m.word[End(T, h) - 4].a
      /\ \A v \in K : n.word[v] = m.word[v]
      /\ \A v \in Payloads(T) \ K : n.word[v] = StaleWord
  BY <1>1, ForgetWords
<1> HIDE DEF n
<1>3. /\ n \in MemType /\ n.end = m.end /\ n.small_list = m.small_list
      /\ n.explicit_list = m.explicit_list /\ n.rbt = m.rbt /\ n.ok = m.ok
  BY <1>2 DEF SameButWords
<1>4. Whole(n, T)
  BY <1>1, <1>2, <1>3, WholeSame
<1>5. \A h \in FreeOf(T, 8) \cup FreeOf(T, 16) : h \in DOMAIN T
  BY DEF FreeOf, Free
<1>6. Index8(n, T, Free(T) \cap FreeOf(T, 8))
  <2> DEFINE S == Free(T) \cap FreeOf(T, 8)
  <2>1. Index8(m, T, S) /\ S \subseteq FreeOf(T, 8)
    BY <1>1 DEF Indexed
  <2>2. \A h \in S : /\ Word(n, h).size = Word(m, h).size
                     /\ Word(n, h + 4).size = Word(m, h + 4).size
    BY <1>2, <1>5 DEF Word
  <2> HIDE DEF S
  <2>3. Index8(n, T, S)
    BY <1>3, <2>1, <2>2, Index8Moves
  <2>. QED BY <2>3 DEF S
<1>7. Index16(n, T, Free(T) \cap FreeOf(T, 16))
  <2> DEFINE S == Free(T) \cap FreeOf(T, 16)
  <2>1. Index16(m, T, S) /\ S \subseteq FreeOf(T, 16)
    BY <1>1 DEF Indexed
  <2>2. \A h \in S : Word(n, h + 4) = Word(m, h + 4) /\ Word(n, h + 8) = Word(m, h + 8)
    BY <1>2, <1>5 DEF Word
  <2> HIDE DEF S
  <2>3. Index16(n, T, S)
    BY <1>3, <2>1, <2>2, Index16Moves
  <2>. QED BY <2>3 DEF S
<1>8. Indexed(n, T, Free(T))
  BY <1>1, <1>3, <1>6, <1>7 DEF Indexed
<1>9. Holds(n, T, Payloads(T))
  <2>1. \A v \in Payloads(T) : n.word[v] = StaleWord
    BY <1>1, <1>2
  <2>. QED BY <2>1 DEF Holds
<1>10. Rested(n, T, Payloads(T), end)
  BY <1>1, <1>3, <1>4, <1>8, <1>9 DEF Rested, Settled, Stage
<1>. QED BY <1>10 DEF n

\* Fewer words are held: a part of what is held may be counted on.
LEMMA HoldsLess ==
  ASSUME NEW m, NEW T, NEW I, NEW K, NEW L, Settled(m, T, I, K), L \subseteq K
  PROVE  Settled(m, T, I, L)
BY DEF Settled, Holds

-----------------------------------------------------------------------------
(* The sizes that are asked for                                             *)

\* A block has room for its payload, and its size is a multiple of eight.
LEMMA BlockSizes ==
  ASSUME NEW size \in Requests
  PROVE  /\ size \in Nat /\ size > 0 /\ size <= HeapMax
         /\ alloc_blocksize(size) \in Nat /\ alloc_blocksize(size) % 8 = 0
         /\ alloc_blocksize(size) >= 8 /\ alloc_blocksize(size) <= HeapMax
         /\ size <= 4 => alloc_blocksize(size) = 8
         /\ size > 4 => alloc_blocksize(size) >= 16 /\ size + 8 <= alloc_blocksize(size)
<1>1. size \in Nat /\ size > 0 /\ size <= HeapMax - 17 /\ HeapMax \in Nat /\ HeapMax >= 40
  BY HeapAssumption
<1> DEFINE q == (size + 8 - 1) \div 8
<1>2. q \in Int /\ 8 * q <= size + 8 - 1 /\ size <= 8 * q
  BY <1>1
<1>3. round_up(size, 8) = 8 * q
  BY DEF round_up
<1> HIDE DEF q
<1>4. 8 * q \in Nat /\ (8 * q + 8) % 8 = 0 /\ 8 * q + 8 <= HeapMax
  BY <1>1, <1>2
<1>5. CASE size <= 4
  <2>1. alloc_blocksize(size) = 8
    BY <1>5 DEF alloc_blocksize
  <2>. QED BY <1>1, <1>5, <2>1
<1>6. CASE size > 4
  <2>1. alloc_blocksize(size) = 8 * q + 8
    BY <1>1, <1>3, <1>6 DEF alloc_blocksize
  <2>. QED BY <1>1, <1>2, <1>4, <1>6, <2>1
<1>. QED BY <1>1, <1>5, <1>6

-----------------------------------------------------------------------------
(* The invariant                                                            *)

\* The blocks in use are those of the payloads held, and each has room for its size.
HeldOn(T, holders) ==
    /\ DOMAIN holders = {get_payload(h) : h \in Busy(T)}
    /\ \A h \in Busy(T) : /\ holders[get_payload(h)] \in Requests
                          /\ alloc_blocksize(holders[get_payload(h)]) <= T[h].size

\* A heap between two operations
Sound(m, holders, T) ==
    /\ Rested(m, T, Payloads(T), m.end)
    /\ HeldOn(T, holders)
    /\ m.end >= PageSize
HeapInv == \E T : Sound(mem, held, T)

\* Sizes and headers are numbers.
Sized(T) == \A h \in DOMAIN T : /\ h \in Nat /\ T[h].size \in Nat
                                /\ T[h].size >= 8 /\ T[h].size % 8 = 0

\* The blocks of a layout are sized.
LEMMA TilesSized ==
  ASSUME NEW T, NEW lo, NEW hi, NEW e, Tiles(T, lo, hi, e)
  PROVE  Sized(T)
<1>1. ASSUME NEW h \in DOMAIN T
      PROVE  h \in Nat /\ T[h].size \in Nat /\ T[h].size >= 8 /\ T[h].size % 8 = 0
  BY <1>1, WordsOfBlock, Headers8
<1>. QED BY <1>1 DEF Sized

\* A payload fits into its block, below the footer if there is one.
LEMMA PayloadRoom ==
  ASSUME NEW T, Sized(T), NEW holders, HeldOn(T, holders), NEW h \in Busy(T)
  PROVE  /\ h + 4 + holders[h + 4] <= PayloadEnd(T, h) /\ PayloadEnd(T, h) <= End(T, h)
         /\ holders[h + 4] \in Nat /\ holders[h + 4] > 0 /\ h + 4 \in DOMAIN holders
<1>1. h \in Nat /\ T[h].size \in Nat /\ T[h].size >= 8 /\ T[h].size % 8 = 0
  BY DEF Sized, Busy
<1>2. holders[h + 4] \in Requests /\ alloc_blocksize(holders[h + 4]) <= T[h].size
      /\ h + 4 \in DOMAIN holders
  BY DEF HeldOn, get_payload
<1> DEFINE size == holders[h + 4]
           bs == alloc_blocksize(size)
<1>3. /\ size \in Nat /\ size > 0 /\ bs \in Nat
      /\ size <= 4 => bs = 8
      /\ size > 4 => bs >= 16 /\ size + 8 <= bs
  BY <1>2, BlockSizes
<1> HIDE DEF size, bs
<1>4. bs <= T[h].size
  BY <1>2 DEF bs, size
<1>5. h + 4 + size <= PayloadEnd(T, h) /\ PayloadEnd(T, h) <= End(T, h)
  <2>1. CASE T[h].size = 8
    <3>1. size <= 4
      BY <1>3, <1>4, <2>1
    <3>. QED BY <1>1, <1>3, <2>1, <3>1 DEF PayloadEnd, End
  <2>2. CASE T[h].size # 8
    <3>1. T[h].size >= 16
      BY <1>1, <2>2
    <3>2. size + 8 <= T[h].size
      BY <1>1, <1>3, <1>4, <3>1
    <3>. QED BY <1>1, <1>3, <2>2, <3>2 DEF PayloadEnd, End
  <2>. QED BY <2>1, <2>2
<1>. QED BY <1>2, <1>3, <1>5 DEF size

\* What is kept for the holders are words of their payloads.
LEMMA KeptInPayloads ==
  ASSUME NEW T, Sized(T), NEW holders, HeldOn(T, holders)
  PROVE  KeptWords(holders) \subseteq Payloads(T)
<1> SUFFICES ASSUME NEW p \in DOMAIN holders, NEW v \in PayloadWords(p, holders[p])
             PROVE  v \in Payloads(T)
  BY DEF KeptWords
<1>1. PICK h \in Busy(T) : p = h + 4
  BY DEF HeldOn, get_payload
<1>2. v \in WordAddresses /\ p <= v /\ v < p + holders[p]
  BY DEF PayloadWords
<1>3. /\ h + 4 + holders[h + 4] <= PayloadEnd(T, h) /\ PayloadEnd(T, h) <= End(T, h)
      /\ holders[h + 4] \in Nat
  BY PayloadRoom
<1>4. h \in DOMAIN T /\ T[h].a = ALLOCATED /\ h \in Nat /\ T[h].size \in Nat /\ v \in Nat
  BY <1>2 DEF Busy, Sized, WordAddresses
<1>5. PayloadEnd(T, h) \in Int
  BY <1>4 DEF PayloadEnd, End
<1>6. h < v /\ v < PayloadEnd(T, h)
  BY <1>1, <1>2, <1>3, <1>4, <1>5
<1>. QED BY <1>2, <1>4, <1>6 DEF Payloads

\* What a step may count on
LEMMA SoundFacts ==
  ASSUME NEW m, NEW holders, NEW T, Sound(m, holders, T)
  PROVE  /\ Settled(m, T, Free(T), KeptWords(holders)) /\ NoTwoFree(T)
         /\ Rested(m, T, KeptWords(holders), m.end)
         /\ get_epilogue(m) # get_firstblock /\ m.end \in Nat
         /\ Whole(m, T) /\ Tiles(T, get_epilogue(m), get_epilogue(m), get_epilogue(m)) /\ Sized(T)
         /\ KeptWords(holders) \subseteq Payloads(T)
<1>1. /\ Settled(m, T, Free(T), Payloads(T)) /\ NoTwoFree(T) /\ HeldOn(T, holders)
      /\ m.end >= PageSize
  BY DEF Sound, Rested
<1>2. Whole(m, T) /\ Tiles(T, get_epilogue(m), get_epilogue(m), get_epilogue(m)) /\ m \in MemType
  BY <1>1 DEF Settled, Stage, Whole, Layout
<1>3. Sized(T)
  BY <1>2, TilesSized
<1>4. KeptWords(holders) \subseteq Payloads(T)
  BY <1>1, <1>3, KeptInPayloads
<1>5. Settled(m, T, Free(T), KeptWords(holders))
  BY <1>1, <1>4, HoldsLess
<1>6. m.end \in Nat
  BY <1>2 DEF MemType
<1>7. get_epilogue(m) # get_firstblock
  BY <1>1, <1>6, HeapAssumption DEF get_epilogue, get_firstblock, get_prologue
<1>. QED BY <1>1, <1>2, <1>3, <1>4, <1>5, <1>6, <1>7 DEF Rested

\* The search that finds nothing leaves little at the end of the heap.
LEMMA NothingFits ==
  ASSUME NEW m, NEW T, NEW K, Settled(m, T, Free(T), K), get_epilogue(m) # get_firstblock,
         NEW size \in Nat, size >= 8, size % 8 = 0, search_free_block(m, size) = {}
  PROVE  /\ LastFreeSize(m) \in Nat
         /\ LastFreeSize(m) < size \/ (size = 8 /\ LastFreeSize(m) = 16)
         /\ LastFreeSize(m) <= size \/ LastFreeSize(m) = size + 8
         /\ LastFreeSize(m) # 8 \/ 8 < size
<1>1. \A x \in Free(T) : T[x].size < size \/ (size = 8 /\ T[x].size = 16)
  BY Searched
<1>2. /\ LastFreeSize(m) = IF get_lastblock(m) \in Free(T) THEN T[get_lastblock(m)].size ELSE 0
      /\ LastFreeSize(m) \in Nat
  BY LastBlock DEF Settled, Stage
<1>3. LastFreeSize(m) < size \/ (size = 8 /\ LastFreeSize(m) = 16)
  BY <1>1, <1>2
<1>. QED BY <1>2, <1>3

\* A block that was free is handed out.
Granted(size) ==
    \E p : /\ p \notin DOMAIN held
           /\ held' = [q \in DOMAIN held \cup {p} |-> IF q = p THEN size ELSE held[q]]

\* Handing out a block of a heap at rest keeps the invariant.
LEMMA Given ==
  ASSUME NEW T, Sound(mem, held, T), NEW m, NEW U, NEW end \in Nat, mem.end <= end,
         Rested(m, U, KeptWords(held), end),
         NEW x, Busy(U) = Busy(T) \cup {x}, x \notin Busy(T),
         NEW size \in Requests, alloc_blocksize(size) <= U[x].size,
         \A h \in Busy(T) : U[h] = T[h],
         Give(m, x, size)
  PROVE  HeapInv' /\ Granted(size)
<1>1. /\ held' = [p \in DOMAIN held \cup {get_payload(x)} |->
                     IF p = get_payload(x) THEN size ELSE held[p]]
      /\ mem' = Forget(m, KeptWords(held) \cup {get_prologue})
  BY DEF Give
<1>2. Rested(mem', U, Payloads(U), end)
  BY <1>1, ForgetRested
<1>3. Sized(U)
  <2>1. Tiles(U, get_epilogue(m), get_epilogue(m), get_epilogue(m))
    BY DEF Rested, Settled, Stage, Whole, Layout
  <2>. QED BY <2>1, TilesSized
<1>4. \A h \in Busy(T) : h # x /\ get_payload(h) # get_payload(x)
  <2> TAKE h \in Busy(T)
  <2>1. h \in Nat /\ x \in Nat /\ h # x
    BY <1>3 DEF Sized, Busy
  <2>. QED BY <2>1 DEF get_payload
<1>5. HeldOn(T, held)
  BY DEF Sound
<1>6. get_payload(x) \notin DOMAIN held
  BY <1>4, <1>5 DEF HeldOn
<1>7. HeldOn(U, held')
  <2>1. DOMAIN held' = {get_payload(h) : h \in Busy(U)}
    BY <1>1, <1>5 DEF HeldOn
  <2>2. ASSUME NEW h \in Busy(T)
        PROVE  /\ held'[get_payload(h)] \in Requests
               /\ alloc_blocksize(held'[get_payload(h)]) <= U[h].size
    <3>1. held'[get_payload(h)] = held[get_payload(h)]
      BY <1>1, <1>4, <1>5 DEF HeldOn
    <3>. QED BY <1>5, <3>1 DEF HeldOn
  <2>3. held'[get_payload(x)] = size
    BY <1>1
  <2>. QED BY <2>1, <2>2, <2>3 DEF HeldOn
<1>8. mem'.end = end
  BY <1>2 DEF Rested
<1>9. mem'.end >= PageSize
  <2>1. mem.end \in Nat
    BY SoundFacts
  <2>2. mem.end >= PageSize /\ PageSize \in Nat
    BY HeapAssumption DEF Sound
  <2>. QED BY <1>8, <2>1, <2>2
<1>10. Sound(mem', held', U)
  BY <1>2, <1>7, <1>8, <1>9 DEF Sound
<1>11. HeapInv'
  BY <1>10 DEF HeapInv
<1>12. Granted(size)
  BY <1>1, <1>6 DEF Granted
<1>. QED BY <1>11, <1>12

\* A free block is nobody's.
LEMMA FreeIsNotBusy ==
  ASSUME NEW T, NEW x \in Free(T)
  PROVE  x \notin Busy(T)
BY DEF Free, Busy, FREE, ALLOCATED

\* mem_alloc that finds a free block
LEMMA AllocFreeStep ==
  ASSUME NEW T, Sound(mem, held, T), NEW size \in Requests, AllocFree(size)
  PROVE  HeapInv' /\ Granted(size)
<1> DEFINE bs == alloc_blocksize(size)
<1>1. bs \in Nat /\ bs >= 8 /\ bs % 8 = 0
  BY BlockSizes
<1> HIDE DEF bs
<1>2. PICK x \in search_free_block(mem, bs) : Give(try_alloc_with_splitting(mem, x, bs), x, size)
  BY DEF AllocFree, bs
<1>3. /\ Settled(mem, T, Free(T), KeptWords(held)) /\ Rested(mem, T, KeptWords(held), mem.end)
      /\ mem.end \in Nat
  BY SoundFacts
<1>4. x \in Free(T) /\ bs <= T[x].size
  BY <1>1, <1>2, <1>3, Searched
<1>5. PICK U : /\ Rested(try_alloc_with_splitting(mem, x, bs), U, KeptWords(held), mem.end)
               /\ Busy(U) = Busy(T) \cup {x} /\ U[x].size >= bs
               /\ \A h \in Busy(T) : U[h] = T[h]
  BY <1>1, <1>3, <1>4, SplitRested
<1>6. x \notin Busy(T)
  BY <1>4, FreeIsNotBusy
<1>7. bs <= U[x].size /\ mem.end <= mem.end
  <2>1. U[x].size \in Nat
    <3> DEFINE m == try_alloc_with_splitting(mem, x, bs)
    <3>1. Tiles(U, get_epilogue(m), get_epilogue(m), get_epilogue(m))
      <4> HIDE DEF m
      <4>1. Rested(m, U, KeptWords(held), mem.end)
        BY <1>5 DEF m
      <4>. QED BY <4>1 DEF Rested, Settled, Stage, Whole, Layout
    <3> HIDE DEF m
    <3>2. Sized(U)
      BY <3>1, TilesSized
    <3>. QED BY <1>5, <3>2 DEF Sized, Busy
  <2>. QED BY <1>1, <1>3, <1>5, <2>1
<1>. QED BY <1>2, <1>3, <1>5, <1>6, <1>7, Given DEF bs

\* mem_alloc that lets the heap grow
LEMMA AllocGrownStep ==
  ASSUME NEW T, Sound(mem, held, T), NEW size \in Requests, AllocGrown(size)
  PROVE  HeapInv' /\ Granted(size)
<1> DEFINE bs == alloc_blocksize(size)
           x == GrowingBlock(mem)
           K == KeptWords(held)
<1>1. bs \in Nat /\ bs >= 8 /\ bs % 8 = 0 /\ bs <= HeapMax
  BY BlockSizes
<1>2. /\ search_free_block(mem, bs) = {}
      /\ Grown(mem, to_request_from_OS(mem, bs)) # 0
      /\ Give(try_alloc_with_splitting(try_extend_heap(mem, bs), x, bs), x, size)
  BY DEF AllocGrown
<1> HIDE DEF bs, K
<1>3. /\ Settled(mem, T, Free(T), K) /\ NoTwoFree(T) /\ get_epilogue(mem) # get_firstblock
      /\ mem.end \in Nat
  BY SoundFacts DEF K
<1>4. LastFreeSize(mem) <= bs \/ LastFreeSize(mem) = bs + 8
  BY <1>1, <1>2, <1>3, NothingFits
<1>5. PICK V, end : /\ Rested(try_extend_heap(mem, bs), V, K, end)
                    /\ end \in Nat /\ mem.end <= end
                    /\ Busy(V) = Busy(T) /\ \A h \in Busy(V) : V[h] = T[h]
                    /\ GrowingBlock(mem) \in Free(V) /\ bs <= V[GrowingBlock(mem)].size
  BY <1>1, <1>2, <1>3, <1>4, GrownRested
<1> DEFINE g == try_extend_heap(mem, bs)
<1> HIDE DEF x, g
<1>6. Rested(g, V, K, end) /\ x \in Free(V) /\ bs <= V[x].size
  BY <1>5 DEF g, x
<1>7. PICK U : /\ Rested(try_alloc_with_splitting(g, x, bs), U, K, end)
               /\ Busy(U) = Busy(V) \cup {x} /\ U[x].size >= bs
               /\ \A h \in Busy(V) : U[h] = V[h]
  BY <1>1, <1>6, SplitRested
<1> DEFINE m == try_alloc_with_splitting(g, x, bs)
<1> HIDE DEF m
<1>8. Rested(m, U, K, end) /\ Give(m, x, size)
  BY <1>2, <1>7 DEF m, g
<1>9. x \notin Busy(T)
  BY <1>5, <1>6, FreeIsNotBusy
<1>10. bs <= U[x].size
  <2>1. Tiles(U, get_epilogue(m), get_epilogue(m), get_epilogue(m))
    BY <1>8 DEF Rested, Settled, Stage, Whole, Layout
  <2>2. Sized(U)
    BY <2>1, TilesSized
  <2>3. U[x].size \in Nat
    BY <1>7, <2>2 DEF Sized, Busy
  <2>. QED BY <1>1, <1>7, <2>3
<1>11. Busy(U) = Busy(T) \cup {x} /\ \A h \in Busy(T) : U[h] = T[h]
  BY <1>5, <1>7
<1>. QED BY <1>5, <1>8, <1>9, <1>10, <1>11, Given DEF bs, K

\* mem_alloc that fails: the heap stays as it was.
LEMMA AllocRefusedStep ==
  ASSUME NEW T, Sound(mem, held, T), NEW size \in Requests, AllocRefused(size)
  PROVE  HeapInv' /\ UNCHANGED held
<1> DEFINE bs == alloc_blocksize(size)
           K == KeptWords(held)
<1>1. bs \in Nat /\ bs >= 8 /\ bs % 8 = 0 /\ bs <= HeapMax
  BY BlockSizes
<1>2. /\ search_free_block(mem, bs) = {}
      /\ Grown(mem, to_request_from_OS(mem, bs)) = 0
      /\ mem' = Forget(try_extend_heap(mem, bs), K \cup {get_prologue})
      /\ held' = held
  BY DEF AllocRefused, Refused
<1> HIDE DEF bs, K
<1>3. /\ Settled(mem, T, Free(T), K) /\ NoTwoFree(T) /\ get_epilogue(mem) # get_firstblock
      /\ mem.end \in Nat
  BY SoundFacts DEF K
<1>4. /\ LastFreeSize(mem) <= bs \/ LastFreeSize(mem) = bs + 8
      /\ LastFreeSize(mem) # 8 \/ 8 < bs
  BY <1>1, <1>2, <1>3, NothingFits
<1>5. Rested(try_extend_heap(mem, bs), T, K, mem.end)
  BY <1>1, <1>2, <1>3, <1>4, RefusedRested
<1>6. Rested(mem', T, Payloads(T), mem.end)
  BY <1>2, <1>5, ForgetRested
<1>7. mem'.end = mem.end
  BY <1>6 DEF Rested
<1>8. Sound(mem', held', T)
  BY <1>2, <1>6, <1>7 DEF Sound
<1>. QED BY <1>2, <1>8 DEF HeapInv

\* mem_free, whichever neighbours are free
LEMMA FreeStep ==
  ASSUME NEW T, Sound(mem, held, T), NEW p \in DOMAIN held, mem_free(p)
  PROVE  HeapInv' /\ held' = Restrict(held, DOMAIN held \ {p})
<1> DEFINE left == Restrict(held, DOMAIN held \ {p})
           L == KeptWords(left)
<1>1. /\ Settled(mem, T, Free(T), KeptWords(held)) /\ NoTwoFree(T) /\ Whole(mem, T)
      /\ mem.end \in Nat /\ Sized(T) /\ HeldOn(T, held)
      /\ Settled(mem, T, Free(T), Payloads(T))
  BY SoundFacts DEF Sound, Rested
<1>2. PICK b \in Busy(T) : p = get_payload(b)
  BY <1>1 DEF HeldOn
<1>3. b \in Nat /\ b \in DOMAIN T /\ get_header(p) = b /\ T[b].a = ALLOCATED
  BY <1>1, <1>2 DEF Sized, Busy, get_payload, get_header
<1>4. Asserting(mem, get_allocated(mem, b) = ALLOCATED) = mem
  <2>1. get_allocated(mem, b) = ALLOCATED
    BY <1>1, <1>3, ReadBlock DEF Whole
  <2>2. mem \in MemType /\ mem.ok
    BY <1>1 DEF Settled, Stage, Whole, Layout
  <2>. QED BY <2>1, <2>2, AssertHolds
<1>5. held' = left /\ mem' = Forget(Freed(mem, b), L \cup {get_prologue})
  BY <1>3, <1>4 DEF mem_free
<1> DEFINE W == Without(T, {b})
<1>6. /\ Busy(W) = Busy(T) \ {b} /\ \A h \in Busy(W) : W[h] = T[h]
      /\ \A h \in DOMAIN W : h \in DOMAIN T /\ W[h] = T[h]
  BY DEF Busy, Without
<1>7. Sized(W)
  BY <1>1, <1>6 DEF Sized
<1>8. \A h \in Busy(T) : h # b => get_payload(h) # p
  BY <1>1, <1>2, <1>3 DEF Sized, Busy, get_payload
<1>9. /\ DOMAIN left = {get_payload(h) : h \in Busy(T) \ {b}}
      /\ \A h \in Busy(T) \ {b} : left[get_payload(h)] = held[get_payload(h)]
  BY <1>1, <1>2, <1>8 DEF HeldOn, Restrict
<1> HIDE DEF left, L, W
<1>10. HeldOn(W, left)
  BY <1>1, <1>6, <1>9 DEF HeldOn
<1>11. L \subseteq Payloads(W)
  BY <1>7, <1>10, KeptInPayloads DEF L
<1>12. L \subseteq Payloads(T)
  <2>1. Payloads(W) \subseteq Payloads(T)
    BY <1>6 DEF Payloads, PayloadEnd, End
  <2>. QED BY <1>11, <2>1
<1>13. Settled(mem, T, Free(T), L)
  BY <1>1, <1>12, HoldsLess
<1>14. PICK U : /\ Rested(Freed(mem, b), U, L, mem.end)
                /\ Busy(U) = Busy(T) \ {b} /\ \A h \in Busy(U) : U[h] = T[h]
  BY <1>1, <1>11, <1>13, FreedRested DEF W
<1>15. Rested(mem', U, Payloads(U), mem.end)
  BY <1>5, <1>14, ForgetRested
<1>16. mem'.end = mem.end
  BY <1>15 DEF Rested
<1>17. HeldOn(U, left)
  BY <1>1, <1>9, <1>14 DEF HeldOn
<1>18. Sound(mem', held', U)
  BY <1>5, <1>15, <1>16, <1>17 DEF Sound
<1>. QED BY <1>5, <1>18 DEF HeapInv, left

-----------------------------------------------------------------------------
(* The first heap                                                           *)

\* No block, and a hole from the first block to the epilogue
NoBlocks == [x \in {} |-> 0]

\* heap_init makes a heap of one free block.
LEMMA InitSound ==
  ASSUME Init
  PROVE  HeapInv
<1> DEFINE zero == [a |-> 0, p8 |-> 0, b8 |-> 0, size |-> 0]
           blank == [word |-> [v \in WordAddresses |-> IF v < PageSize THEN zero ELSE StaleWord],
                     end |-> PageSize, small_list |-> [head |-> NIL, count |-> 0],
                     explicit_list |-> [head |-> NIL, count |-> 0],
                     rbt |-> {}, ok |-> TRUE]
           one == Tag(blank, 4, ALLOCATED, 8)
           two == Tag(one, 8, ALLOCATED, 8)
           e == PageSize - 4
           fenced == Tag(two, e, ALLOCATED, 0)
           all == PageSize - 16
           U == With(NoBlocks, 12, all, FREE)
           tagged == TagBlock(fenced, 12, FREE, all)
           first == insert_free_block(tagged, 12)
<1>1. /\ PageSize \in Nat /\ PageSize >= 40 /\ PageSize % 8 = 0 /\ PageSize <= HeapMax /\ HeapMax \in Nat
      /\ all \in Nat /\ all >= 24 /\ all % 8 = 0 /\ 12 + all = e /\ e \in Nat /\ e >= 36 /\ e % 8 = 4
  BY HeapAssumption
<1>2. heap_init = first
  <2>1. get_epilogue(blank) = e
    BY DEF get_epilogue
  <2>2. 4 + 8 - 4 = 8 /\ get_prologue = 4 /\ get_firstblock = 12
    BY DEF get_prologue, get_firstblock
  <2>3. TagBlock(blank, get_prologue, ALLOCATED, 8) = two
    BY <2>2 DEF TagBlock
  <2> HIDE DEF one, two, tagged
  <2>4. heap_init = insert_free_block(TagBlock(Tag(two, e, ALLOCATED, 0), 12, FREE, all), 12)
    BY <2>1, <2>2, <2>3 DEF heap_init
  <2>. QED BY <2>4 DEF tagged
<1>3. /\ 4 \in WordAddresses /\ 8 \in WordAddresses /\ 12 \in WordAddresses /\ e \in WordAddresses
      /\ 12 \in HeaderAddresses /\ e \in HeaderAddresses
  BY <1>1 DEF WordAddresses, HeaderAddresses, is_header, get_firstblock, get_prologue
<1>4. /\ blank \in MemType /\ blank.end = PageSize /\ blank.ok /\ blank.rbt = {}
      /\ blank.small_list = [head |-> 0, count |-> 0]
      /\ blank.explicit_list = [head |-> 0, count |-> 0]
  <2>1. zero \in WordType /\ StaleWord \in WordType
    BY DEF WordType, Marks, StaleWord, Stale
  <2> HIDE DEF zero
  <2>2. [v \in WordAddresses |-> IF v < PageSize THEN zero ELSE StaleWord] \in [WordAddresses -> WordType]
    BY <2>1
  <2>. QED BY <1>1, <2>2 DEF MemType, ListType, NIL
<1> HIDE DEF blank
<1>5. TaggedEight(blank, one, 4, ALLOCATED)
  <2>1. TagWord(blank, 4) = 4 /\ is_header(4)
    BY DEF TagWord, is_header
  <2>. QED BY <1>3, <1>4, <2>1, OneTagEight
<1> HIDE DEF one
<1>6. one \in MemType /\ one.word[12].p8 = 1
  <2>1. blank.word[12] \in WordType
    BY <1>3, <1>4 DEF MemType
  <2>2. one.word[4 + 8] = [blank.word[4 + 8] EXCEPT !.p8 = 1] /\ one \in MemType
    BY <1>5 DEF TaggedEight, SameButWords
  <2>. QED BY <2>1, <2>2 DEF WordType
<1>7. TaggedEight(one, two, 4, ALLOCATED)
  <2>1. ~is_header(8) /\ Word(one, 8 + 4).p8 = 1
    BY <1>3, <1>6 DEF is_header, Word
  <2>2. TagWord(one, 8) = 4
    BY <2>1 DEF TagWord
  <2>3. 4 = (IF is_header(8) THEN 8 ELSE 8 - 4) /\ 8 \in {4, 4 + 4} /\ 4 + 8 \in WordAddresses
    BY <1>3, <2>1
  <2>4. two = Tag(one, 8, ALLOCATED, 8) /\ ALLOCATED \in {FREE, ALLOCATED}
    OBVIOUS
  <2> HIDE DEF two
  <2>. QED BY <1>3, <1>6, <2>2, <2>3, <2>4, OneTagEight
<1> HIDE DEF two
<1>8. /\ two \in MemType /\ two.word[12].p8 = 1 /\ two.word[4].a = ALLOCATED
      /\ two.end = PageSize /\ two.ok /\ two.rbt = {}
      /\ two.small_list = [head |-> 0, count |-> 0] /\ two.explicit_list = [head |-> 0, count |-> 0]
  <2>1. one.word[12] \in WordType
    BY <1>3, <1>6 DEF MemType
  <2>2. two.word[4 + 8] = [one.word[4 + 8] EXCEPT !.p8 = 1] /\ two.word[4].a = ALLOCATED
        /\ SameButWords(one, two) /\ SameButWords(blank, one)
    BY <1>5, <1>7 DEF TaggedEight
  <2>. QED BY <1>4, <2>1, <2>2 DEF WordType, SameButWords
<1>9. PICK w \in WordType : Writes(two, fenced, e, w) /\ w.a = ALLOCATED /\ w.p8 = 0
  <2>1. e = get_epilogue(two) /\ is_header(e)
    BY <1>1, <1>8 DEF get_epilogue, is_header
  <2> HIDE DEF e
  <2>. QED BY <1>3, <1>8, <2>1, EpilogueTag
<1> HIDE DEF fenced
<1>10. /\ fenced \in MemType /\ fenced.word[12].p8 = 1 /\ fenced.word[4].a = ALLOCATED
       /\ fenced.word[e].a = ALLOCATED
       /\ fenced.end = PageSize /\ fenced.ok /\ fenced.rbt = {}
       /\ fenced.small_list = [head |-> 0, count |-> 0]
       /\ fenced.explicit_list = [head |-> 0, count |-> 0]
  <2>1. e # 12 /\ e # 4
    BY <1>1
  <2> HIDE DEF e
  <2>. QED BY <1>3, <1>8, <1>9, <2>1 DEF Writes, SameButWords
<1>11. get_epilogue(fenced) = e
  BY <1>10 DEF get_epilogue
<1> HIDE DEF e, all
<1>12. Layout(fenced, NoBlocks, 12, e)
  <2>1. DOMAIN NoBlocks = {}
    BY DEF NoBlocks
  <2>2. get_firstblock = 12 /\ get_prologue = 4
    BY DEF get_firstblock, get_prologue
  <2>3. Tiles(NoBlocks, 12, e, e)
    BY <1>1, <1>3, <2>1, <2>2 DEF Tiles
  <2>4. Follows8(NoBlocks, 12) = 1
    BY <2>2 DEF Follows8, FollowsBlock8
  <2>5. Tags(fenced, NoBlocks, 12, e)
    BY <1>1, <1>10, <1>11, <2>1, <2>2, <2>4 DEF Tags
  <2>. QED BY <1>1, <1>10, <1>11, <2>3, <2>5 DEF Layout
<1>13. Working(fenced, NoBlocks, 12, e, {}, {})
  <2>1. Index8(fenced, NoBlocks, {})
    <3>1. fenced.small_list.head = 0 /\ fenced.small_list.count = 0
      BY <1>10
    <3>2. Ring({}, 0, 0, Next8(fenced, NoBlocks), Prev8(fenced, NoBlocks))
      BY RingOfNone
    <3>. QED BY <3>1, <3>2 DEF Index8
  <2>2. Index16(fenced, NoBlocks, {})
    <3>1. fenced.explicit_list.head = 0 /\ fenced.explicit_list.count = 0
      BY <1>10
    <3>2. Ring({}, 0, 0, Next16(fenced, NoBlocks), Prev16(fenced, NoBlocks))
      BY RingOfNone
    <3>. QED BY <3>1, <3>2 DEF Index16
  <2>3. {} \cap FreeOf(NoBlocks, 8) = {} /\ {} \cap FreeOf(NoBlocks, 16) = {}
        /\ {} \cap FreeLarge(NoBlocks) = {}
    OBVIOUS
  <2>4. Indexed(fenced, NoBlocks, {})
    BY <1>10, <2>1, <2>2, <2>3 DEF Indexed
  <2>5. Holds(fenced, NoBlocks, {})
    BY DEF Holds
  <2>. QED BY <1>10, <1>12, <2>4, <2>5 DEF Working
<1>14. /\ Working(tagged, U, e, e, {}, {}) /\ tagged.end = fenced.end
  <2>1. FREE \in {FREE, ALLOCATED} /\ 12 + all <= e /\ all >= 8
    BY <1>1
  <2>2. /\ Working(TagBlock(fenced, 12, FREE, all), With(NoBlocks, 12, all, FREE), 12 + all, e, {}, {})
        /\ TagBlock(fenced, 12, FREE, all).end = fenced.end
    BY <1>1, <1>13, <2>1, FillTag
  <2>. QED BY <1>1, <2>2
<1> HIDE DEF tagged
<1>15. /\ DOMAIN U = {12} /\ U[12].a = FREE /\ U[12].size = all /\ Free(U) = {12} /\ Busy(U) = {}
       /\ End(U, 12) = e
  <2>1. DOMAIN U = {12} /\ U[12] = [size |-> all, a |-> FREE]
    BY DEF With, NoBlocks
  <2> HIDE DEF U
  <2>. QED BY <1>1, <2>1 DEF Free, Busy, End, FREE, ALLOCATED
<1> HIDE DEF U
<1>16. Settled(tagged, U, {}, {})
  BY <1>14, CloseHole
<1>17. Settled(first, U, Free(U), {}) /\ first.end = PageSize
  <2>1. 12 \in Free(U) /\ 12 \notin {} /\ {} \cup {12} = Free(U)
    BY <1>15
  <2>2. /\ Settled(insert_free_block(tagged, 12), U, {} \cup {12}, {})
        /\ insert_free_block(tagged, 12).end = tagged.end
    BY <1>16, <2>1, InsertSettled
  <2>. QED BY <1>10, <1>14, <2>1, <2>2
<1> HIDE DEF first
<1>18. NoTwoFree(U)
  <2>1. e # 12
    BY <1>1
  <2>. QED BY <1>15, <2>1 DEF NoTwoFree
<1>19. Rested(first, U, {}, PageSize)
  BY <1>17, <1>18 DEF Rested
<1>20. mem = Forget(first, {} \cup {get_prologue})
  <2>1. {} \cup {get_prologue} = {get_prologue}
    OBVIOUS
  <2>. QED BY <1>2, <2>1 DEF Init
<1>21. Rested(mem, U, Payloads(U), PageSize)
  BY <1>19, <1>20, ForgetRested
<1>22. mem.end = PageSize /\ mem.end >= PageSize
  BY <1>1, <1>21 DEF Rested
<1>23. HeldOn(U, held)
  BY <1>15 DEF HeldOn, Init
<1>24. Sound(mem, held, U)
  BY <1>21, <1>22, <1>23 DEF Sound
<1>. QED BY <1>24 DEF HeapInv

-----------------------------------------------------------------------------
(* The theorems                                                             *)

\* Every operation keeps the invariant; what it does to "held" is granting one payload,
\* giving one back, or nothing.
LEMMA HeapStep ==
  ASSUME HeapInv, Next
  PROVE  /\ HeapInv'
         /\ \/ \E size \in Requests : Granted(size)
            \/ \E p \in DOMAIN held : held' = Restrict(held, DOMAIN held \ {p})
            \/ UNCHANGED held
<1>1. PICK T : Sound(mem, held, T)
  BY DEF HeapInv
<1>2. CASE \E size \in Requests : AllocFree(size)
  <2>1. PICK size \in Requests : AllocFree(size)
    BY <1>2
  <2>2. HeapInv' /\ Granted(size)
    BY <1>1, <2>1, AllocFreeStep
  <2>. QED BY <2>2
<1>3. CASE \E size \in Requests : AllocGrown(size)
  <2>1. PICK size \in Requests : AllocGrown(size)
    BY <1>3
  <2>2. HeapInv' /\ Granted(size)
    BY <1>1, <2>1, AllocGrownStep
  <2>. QED BY <2>2
<1>4. CASE \E size \in Requests : AllocRefused(size)
  <2>1. PICK size \in Requests : AllocRefused(size)
    BY <1>4
  <2>2. HeapInv' /\ UNCHANGED held
    BY <1>1, <2>1, AllocRefusedStep
  <2>. QED BY <2>2
<1>5. CASE \E p \in DOMAIN held : mem_free(p)
  <2>1. PICK p \in DOMAIN held : mem_free(p)
    BY <1>5
  <2>2. HeapInv' /\ held' = Restrict(held, DOMAIN held \ {p})
    BY <1>1, <2>1, FreeStep
  <2>. QED BY <2>2
<1>. QED BY <1>2, <1>3, <1>4, <1>5 DEF Next

\* The invariant: the words are those of a layout, with room for each payload.
THEOREM HeapInvariant == Spec => []HeapInv
<1>1. Init => HeapInv
  BY InitSound
<1>2. HeapInv /\ [Next]_vars => HeapInv'
  <2> SUFFICES ASSUME HeapInv, [Next]_vars PROVE HeapInv'
    OBVIOUS
  <2>1. CASE Next
    BY <2>1, HeapStep
  <2>2. CASE UNCHANGED vars
    BY <2>2 DEF vars, HeapInv
  <2>. QED BY <2>1, <2>2
<1>. QED BY <1>1, <1>2, PTL DEF Spec

\* What the tags of a sound heap say
LEMMA SoundTags ==
  ASSUME HeapInv
  PROVE  TagsTileTheHeap
<1>1. PICK T : Sound(mem, held, T)
  BY DEF HeapInv
<1> DEFINE e == get_epilogue(mem)
<1>2. /\ Whole(mem, T) /\ Tiles(T, e, e, e) /\ NoTwoFree(T) /\ mem.ok
      /\ Layout(mem, T, e, e) /\ Tags(mem, T, e, e)
  BY <1>1, SoundFacts DEF Sound, Rested, Settled, Stage, Whole, Layout
<1>3. Headers(mem) = DOMAIN T
  BY <1>2, HeadersOfLayout
<1>4. get_allocated(mem, e) = ALLOCATED
  BY <1>2, ReadFences
<1>5. ASSUME NEW h \in DOMAIN T
      PROVE  LET size == get_blocksize(mem, h)
                 next == get_nextheader(mem, h)
             IN  /\ next \in DOMAIN T \cup {e}
                 /\ get_allocated(mem, h) \in {FREE, ALLOCATED}
                 /\ get_prevheader(mem, next) = h
                 /\ Word(mem, h).b8 = Word(mem, next).p8
                 /\ Word(mem, h).b8 = (IF size = 8 THEN 1 ELSE 0)
                 /\ size # 8 => /\ Word(mem, next - 4).size = size
                                /\ Word(mem, next - 4).a = get_allocated(mem, h)
                 /\ get_allocated(mem, h) = FREE => get_allocated(mem, next) = ALLOCATED
  <2>1. /\ get_blocksize(mem, h) = T[h].size /\ get_allocated(mem, h) = T[h].a
        /\ get_nextheader(mem, h) = End(T, h)
    BY <1>2, ReadBlock
  <2>2. /\ h \in WordAddresses /\ End(T, h) \in HeaderAddresses /\ End(T, h) - 4 \in WordAddresses
    BY <1>2, WordsOfBlock
  <2>3. End(T, h) \in WordAddresses
    BY <2>2 DEF HeaderAddresses
  <2>4. End(T, h) \in DOMAIN T \cup {e} /\ T[h].a \in {FREE, ALLOCATED}
    BY <1>2 DEF Tiles
  <2>5. get_prevheader(mem, End(T, h)) = h
    BY <1>2, ReadPrevious
  <2>6. /\ mem.word[h].b8 = (IF T[h].size = 8 THEN 1 ELSE 0)
        /\ T[h].size # 8 => /\ mem.word[End(T, h) - 4].size = T[h].size
                            /\ mem.word[End(T, h) - 4].a = T[h].a
        /\ mem.word[End(T, h)].p8 = Follows8(T, End(T, h))
    BY <1>2, <2>4 DEF Tags
  <2>7. Follows8(T, End(T, h)) = IF T[h].size = 8 THEN 1 ELSE 0
    BY <1>2, FollowsEnd
  <2>8. T[h].a = FREE => get_allocated(mem, End(T, h)) = ALLOCATED
    <3> SUFFICES ASSUME T[h].a = FREE PROVE get_allocated(mem, End(T, h)) = ALLOCATED
      OBVIOUS
    <3>1. CASE End(T, h) = e
      BY <1>4, <3>1
    <3>2. CASE End(T, h) \in DOMAIN T
      <4>1. h \notin Busy(T)
        BY DEF Busy, FREE, ALLOCATED
      <4>2. T[End(T, h)].a = ALLOCATED
        BY <1>2, <3>2, <4>1 DEF NoTwoFree, Busy
      <4>. QED BY <1>2, <3>2, <4>2, ReadBlock
    <3>. QED BY <2>4, <3>1, <3>2
  <2> HIDE DEF e
  <2>. QED BY <2>1, <2>2, <2>3, <2>4, <2>5, <2>6, <2>7, <2>8 DEF Word
<1>. QED BY <1>2, <1>3, <1>4, <1>5 DEF TagsTileTheHeap

\* The tags tile the heap after any sequence of mem_alloc and mem_free, whatever the
\* sizes: headers, footers and the bits of block.c agree, and no two free blocks touch.
THEOREM HeapTagsTile == Spec => []TagsTileTheHeap
<1>1. HeapInv => TagsTileTheHeap
  BY SoundTags
<1>. QED BY <1>1, HeapInvariant, PTL

\* What the indexes of a sound heap hold
LEMMA SoundIndexes ==
  ASSUME HeapInv
  PROVE  IndexesAreExact
<1>1. PICK T : Sound(mem, held, T)
  BY DEF HeapInv
<1> DEFINE e == get_epilogue(mem)
           free(sizes) == {h \in Headers(mem) : /\ get_allocated(mem, h) = FREE
                                                /\ get_blocksize(mem, h) \in sizes}
<1>2. Whole(mem, T) /\ Tiles(T, e, e, e) /\ Layout(mem, T, e, e) /\ Indexed(mem, T, Free(T))
  BY <1>1, SoundFacts DEF Sound, Rested, Settled, Stage, Whole
<1>3. Headers(mem) = DOMAIN T
  BY <1>2, HeadersOfLayout
<1>4. \A h \in DOMAIN T : get_blocksize(mem, h) = T[h].size /\ get_allocated(mem, h) = T[h].a
  BY <1>2, ReadBlock
<1>5. \A sizes : free(sizes) = {h \in Free(T) : T[h].size \in sizes}
  BY <1>3, <1>4 DEF Free
<1>6. /\ Index8(mem, T, FreeOf(T, 8)) /\ Index16(mem, T, FreeOf(T, 16)) /\ mem.rbt = FreeLarge(T)
  <2>1. /\ Free(T) \cap FreeOf(T, 8) = FreeOf(T, 8) /\ Free(T) \cap FreeOf(T, 16) = FreeOf(T, 16)
        /\ Free(T) \cap FreeLarge(T) = FreeLarge(T)
    BY IndexSetsApart
  <2>. QED BY <1>2, <2>1 DEF Indexed
<1>7. Small!Members(mem) = FreeOf(T, 8) /\ Small!IsRing(mem)
  BY <1>6, Members8
<1>8. Explicit!Members(mem) = FreeOf(T, 16) /\ Explicit!IsRing(mem)
  BY <1>6, Members16
<1>9. /\ {h \in Free(T) : T[h].size \in {8}} = FreeOf(T, 8)
      /\ {h \in Free(T) : T[h].size \in {16}} = FreeOf(T, 16)
  BY DEF FreeOf
<1>10. {h \in Free(T) : T[h].size \in 24 .. HeapMax} = FreeLarge(T)
  <2>1. ASSUME NEW h \in Free(T)
        PROVE  T[h].size \in 24 .. HeapMax <=> T[h].size >= 24
    <3>1. h \in DOMAIN T
      BY DEF Free
    <3>2. /\ h \in HeaderAddresses /\ End(T, h) \in HeaderAddresses /\ T[h].size \in Nat
      BY <1>2, <3>1, WordsOfBlock
    <3>3. h \in Nat /\ End(T, h) < HeapMax /\ HeapMax \in Nat
      BY <3>2, Headers8
    <3>. QED BY <3>2, <3>3 DEF End
  <2>. QED BY <2>1 DEF FreeLarge
<1>11. free({8}) = FreeOf(T, 8) /\ free({16}) = FreeOf(T, 16) /\ free(24 .. HeapMax) = FreeLarge(T)
  BY <1>5, <1>9, <1>10
<1> HIDE DEF free
<1>. QED BY <1>6, <1>7, <1>8, <1>11 DEF IndexesAreExact, free

\* The two lists and the tree hold the free blocks, each once and where its size belongs,
\* and the pointers in the words of free blocks are rings both ways.
THEOREM HeapIndexesExact == Spec => []IndexesAreExact
<1>1. HeapInv => IndexesAreExact
  BY SoundIndexes
<1>. QED BY <1>1, HeapInvariant, PTL

\* Payloads lie in the heap, apart from each other, at addresses aligned to eight.
LEMMA HeldApart ==
  ASSUME NEW m, NEW holders, NEW T, Sound(m, holders, T), NEW p \in DOMAIN holders
  PROVE  /\ p \in Nat /\ p >= 8 /\ p % 8 = 0 /\ holders[p] \in Nat /\ p + holders[p] <= HeapMax
         /\ p + holders[p] <= get_header(p) + get_blocksize(m, get_header(p))
         /\ \A q \in DOMAIN holders :
               q # p => (p .. (p + holders[p] - 1)) \cap (q .. (q + holders[q] - 1)) = {}
<1> DEFINE e == get_epilogue(m)
<1>1. Whole(m, T) /\ Tiles(T, e, e, e) /\ Layout(m, T, e, e) /\ Sized(T) /\ HeldOn(T, holders)
  BY SoundFacts DEF Sound, Whole
<1> HIDE DEF e
<1>2. ASSUME NEW q \in DOMAIN holders
      PROVE  \E h \in DOMAIN T : /\ h \in Busy(T) /\ q = h + 4 /\ h \in Nat /\ End(T, h) \in Nat
                                 /\ h \in HeaderAddresses /\ End(T, h) < HeapMax /\ q \in Nat
                                 /\ holders[q] \in Nat /\ q + holders[q] <= End(T, h)
                                 /\ End(T, h) = h + T[h].size
  <2>1. PICK h \in Busy(T) : q = h + 4
    BY <1>1 DEF HeldOn, get_payload
  <2>2. h \in DOMAIN T
    BY DEF Busy
  <2>3. h \in HeaderAddresses /\ End(T, h) \in HeaderAddresses
    BY <1>1, <2>2, WordsOfBlock
  <2>4. h \in Nat /\ End(T, h) \in Nat /\ End(T, h) < HeapMax
    BY <2>3, Headers8
  <2>5. /\ h + 4 + holders[h + 4] <= PayloadEnd(T, h) /\ PayloadEnd(T, h) <= End(T, h)
        /\ holders[h + 4] \in Nat
    BY <1>1, PayloadRoom
  <2>6. PayloadEnd(T, h) \in Int
    BY <2>4 DEF PayloadEnd
  <2>7. q + holders[q] <= End(T, h) /\ holders[q] \in Nat /\ q \in Nat
    BY <2>1, <2>4, <2>5, <2>6
  <2>. QED BY <2>1, <2>2, <2>3, <2>4, <2>7 DEF End
<1>3. PICK h \in DOMAIN T : /\ h \in Busy(T) /\ p = h + 4 /\ h \in Nat /\ End(T, h) \in Nat
                            /\ h \in HeaderAddresses /\ End(T, h) < HeapMax /\ p \in Nat
                            /\ holders[p] \in Nat /\ p + holders[p] <= End(T, h)
                            /\ End(T, h) = h + T[h].size
  BY <1>2
<1>4. p >= 8 /\ p % 8 = 0
  BY <1>3, Headers8
<1>5. p + holders[p] <= HeapMax
  BY <1>3, HeapAssumption
<1>6. get_header(p) = h /\ get_blocksize(m, h) = T[h].size
  BY <1>1, <1>3, ReadBlock DEF get_header
<1>7. ASSUME NEW q \in DOMAIN holders, q # p,
             NEW x \in (p .. (p + holders[p] - 1)) \cap (q .. (q + holders[q] - 1))
      PROVE  FALSE
  <2>1. PICK g \in DOMAIN T : /\ g \in Busy(T) /\ q = g + 4 /\ g \in Nat /\ End(T, g) \in Nat
                              /\ q \in Nat /\ holders[q] \in Nat /\ q + holders[q] <= End(T, g)
    BY <1>2
  <2>2. x \in Int /\ h <= x /\ x < End(T, h)
    BY <1>3
  <2>3. g <= x /\ x < End(T, g)
    BY <2>1
  <2>4. g = h
    BY <1>1, <2>2, <2>3, OneBlockPerWord
  <2>. QED BY <1>3, <1>7, <2>1, <2>4
<1>. QED BY <1>3, <1>4, <1>5, <1>6, <1>7

\* What a sound heap holds for the callers
LEMMA SoundPayloads ==
  ASSUME HeapInv
  PROVE  HeldPayloadsIntact
<1>1. PICK T : Sound(mem, held, T)
  BY DEF HeapInv
<1> DEFINE e == get_epilogue(mem)
<1>2. /\ Whole(mem, T) /\ Layout(mem, T, e, e) /\ HeldOn(T, held)
      /\ KeptWords(held) \subseteq Payloads(T)
  BY <1>1, SoundFacts DEF Sound, Whole
<1>3. \A v \in Payloads(T) : mem.word[v] = StaleWord
  BY <1>1 DEF Sound, Rested, Settled, Holds
<1>4. Headers(mem) = DOMAIN T
  BY <1>2, HeadersOfLayout
<1>5. \A h \in DOMAIN T : get_allocated(mem, h) = T[h].a
  BY <1>2, ReadBlock
<1>6. {g \in Headers(mem) : get_allocated(mem, g) = ALLOCATED} = Busy(T)
  BY <1>4, <1>5 DEF Busy
<1>7. {get_payload(h) : h \in {g \in Headers(mem) : get_allocated(mem, g) = ALLOCATED}} = DOMAIN held
  BY <1>2, <1>6 DEF HeldOn
<1>8. ASSUME NEW p \in DOMAIN held
      PROVE  /\ p % 8 = 0
             /\ p + held[p] <= get_header(p) + get_blocksize(mem, get_header(p))
             /\ \A v \in PayloadWords(p, held[p]) : mem.word[v] = StaleWord
  <2>1. PayloadWords(p, held[p]) \subseteq KeptWords(held)
    BY DEF KeptWords
  <2>. QED BY <1>1, <1>2, <1>3, <2>1, HeldApart
<1>. QED BY <1>7, <1>8 DEF HeldPayloadsIntact

\* Nothing that mem_alloc and mem_free do to tags, lists and tree reaches the words of a
\* payload, and exactly the blocks of the payloads held are allocated.
THEOREM HeapPayloadsIntact == Spec => []HeldPayloadsIntact
<1>1. HeapInv => HeldPayloadsIntact
  BY SoundPayloads
<1>. QED BY <1>1, HeapInvariant, PTL

\* When a sound heap refuses
LEMMA SoundRefusals ==
  ASSUME HeapInv
  PROVE  OrdinaryRefusedOnlyWithoutRoom
<1>1. SUFFICES ASSUME NEW size \in Requests, size > 4, Refused(mem, size)
               PROVE  NoRoomFor(mem, size)
  BY DEF OrdinaryRefusedOnlyWithoutRoom
<1>2. PICK T : Sound(mem, held, T)
  BY DEF HeapInv
<1> DEFINE bs == alloc_blocksize(size)
           spare == LastFreeSize(mem)
           request == to_request_from_OS(mem, bs)
<1>3. bs \in Nat /\ bs % 8 = 0 /\ bs >= 16 /\ bs >= 8 /\ bs <= HeapMax
  BY <1>1, BlockSizes
<1>4. search_free_block(mem, bs) = {} /\ Grown(mem, request) = 0
  BY <1>1 DEF Refused
<1>5. request = (bs + Width - spare) % Width
  BY DEF to_request_from_OS
<1> HIDE DEF bs, spare, request
<1>6. /\ Settled(mem, T, Free(T), KeptWords(held)) /\ Whole(mem, T)
      /\ get_epilogue(mem) # get_firstblock /\ mem.end \in Nat
  BY <1>2, SoundFacts
<1>7. spare \in Nat /\ spare < bs
  <2>1. LastFreeSize(mem) \in Nat /\ (LastFreeSize(mem) < bs \/ (bs = 8 /\ LastFreeSize(mem) = 16))
    BY <1>3, <1>4, <1>6, NothingFits
  <2>. QED BY <1>3, <2>1 DEF spare
<1>8. /\ RoundedRequest(request) = round_up(bs - spare, PageSize)
      /\ RoundedRequest(request) \in Nat /\ RoundedRequest(request) >= 8
  <2>1. spare <= bs \/ spare = bs + 8
    BY <1>3, <1>7
  <2>. QED BY <1>3, <1>5, <1>7, <2>1, Requested
<1>9. ~MayGrow(mem, request)
  BY <1>4, <1>8 DEF Grown
<1>10. mem.end + round_up(bs - spare, PageSize) > HeapMax
  BY <1>6, <1>8, <1>9, HeapAssumption DEF MayGrow
<1>11. ASSUME NEW h \in Headers(mem)
       PROVE  get_allocated(mem, h) = ALLOCATED \/ get_blocksize(mem, h) < bs
  <2>1. h \in DOMAIN T
    BY <1>6, HeadersOfLayout
  <2>2. get_allocated(mem, h) = T[h].a /\ get_blocksize(mem, h) = T[h].size
        /\ T[h].a \in {FREE, ALLOCATED}
    BY <1>6, <2>1, ReadBlock DEF Whole, Layout, Tiles
  <2>3. \A x \in Free(T) : T[x].size < bs \/ (bs = 8 /\ T[x].size = 16)
    BY <1>3, <1>4, <1>6, Searched
  <2>4. T[h].a = FREE => h \in Free(T)
    BY <2>1 DEF Free
  <2>. QED BY <1>3, <2>2, <2>3, <2>4
<1>. QED BY <1>10, <1>11 DEF NoRoomFor, bs, spare

\* No request that needs a footer is refused while a free block fits or the heap may grow.
THEOREM HeapRefusesOnlyWithoutRoom == Spec => []OrdinaryRefusedOnlyWithoutRoom
<1>1. HeapInv => OrdinaryRefusedOnlyWithoutRoom
  BY SoundRefusals
<1>. QED BY <1>1, HeapInvariant, PTL

\* Granting one payload is a step of the abstract allocator.
LEMMA GrantIsAlloc ==
  ASSUME NEW T, Sound(mem', held', T), NEW size \in Requests, Granted(size)
  PROVE  Promise!Alloc(size)
<1>1. PICK p : /\ p \notin DOMAIN held
               /\ held' = [q \in DOMAIN held \cup {p} |-> IF q = p THEN size ELSE held[q]]
  BY DEF Granted
<1>2. p \in DOMAIN held' /\ held'[p] = size
  BY <1>1
<1>3. /\ p \in Nat /\ p >= 8 /\ p % 8 = 0 /\ held'[p] \in Nat /\ p + held'[p] <= HeapMax
      /\ \A q \in DOMAIN held' :
            q # p => (p .. (p + held'[p] - 1)) \cap (q .. (q + held'[q] - 1)) = {}
  BY <1>2, HeldApart
<1>4. p \in 8 .. HeapMax
  BY <1>2, <1>3, HeapAssumption
<1>5. ASSUME NEW q \in DOMAIN held
      PROVE  Promise!Bytes(p, size) \cap Promise!Bytes(q, held[q]) = {}
  <2>1. q \in DOMAIN held' /\ q # p /\ held'[q] = held[q]
    BY <1>1
  <2>2. (p .. (p + size - 1)) \cap (q .. (q + held[q] - 1)) = {}
    BY <1>2, <1>3, <2>1
  <2>. QED BY <2>2 DEF Promise!Bytes
<1>. QED BY <1>1, <1>2, <1>3, <1>4, <1>5 DEF Promise!Alloc

\* The callers of mem_alloc get bytes of their own, aligned and inside of the heap, until
\* they give them back: the tags, lists and tree implement the abstract allocator.
THEOREM HeapImplementsAllocator == Spec => ImplementsAllocator
<1>1. Init => Promise!Init
  BY DEF Init, Promise!Init
<1>2. HeapInv /\ HeapInv' /\ [Next]_vars => [Promise!Next]_held
  <2> SUFFICES ASSUME HeapInv, HeapInv', [Next]_vars
               PROVE  [Promise!Next]_held
    OBVIOUS
  <2>1. CASE Next
    <3>1. PICK T : Sound(mem', held', T)
      BY DEF HeapInv
    <3>2. \/ \E size \in Requests : Granted(size)
          \/ \E p \in DOMAIN held : held' = Restrict(held, DOMAIN held \ {p})
          \/ UNCHANGED held
      BY <2>1, HeapStep
    <3>3. CASE \E size \in Requests : Granted(size)
      <4>1. PICK size \in Requests : Granted(size)
        BY <3>3
      <4>2. Promise!Alloc(size)
        BY <3>1, <4>1, GrantIsAlloc
      <4>. QED BY <4>2 DEF Promise!Next
    <3>4. CASE \E p \in DOMAIN held : held' = Restrict(held, DOMAIN held \ {p})
      BY <3>4 DEF Promise!Next, Promise!Free, Restrict, Promise!Restrict
    <3>. QED BY <3>2, <3>3, <3>4
  <2>2. CASE UNCHANGED vars
    BY <2>2 DEF vars
  <2>. QED BY <2>1, <2>2
<1>. QED BY <1>1, <1>2, HeapInvariant, PTL DEF Spec, ImplementsAllocator, Promise!Spec
=============================================================================
