------------------------------ MODULE HashTable ------------------------------
(***************************************************************************)
(* The extendible hash table of src/src/algorithm/hashtable.c, as          *)
(* operators on a record: "bucket" is the sequence of buckets allocated so *)
(* far, and "directory" maps the low "globaldepth" bits of a hash value to *)
(* the number of one of them.  Entries of the directory share a bucket     *)
(* whose "localdepth" is lower.  A definition named after a fault is not   *)
(* part of the model.                                                      *)
(***************************************************************************)
EXTENDS Integers, SequencesExt

CONSTANTS Keys,     \* the keys in use
          Hash,     \* hash_function, one number for each key
          Size      \* pairs a bucket has room for

ASSUME HashTableAssumption == Hash \in [Keys -> Nat] /\ Size \in Nat \ {0}

lowbits_n(num, length) == num % 2 ^ length
BitOf(num, i) == (num \div 2 ^ i) % 2

hashtable_construct ==
    [globaldepth |-> 1,
     bucket |-> [b \in 1 .. 2 |-> [localdepth |-> 1, pairs |-> << >>]],
     directory |-> [i \in 0 .. 1 |-> i + 1]]

BucketOf(tab, key) == tab.directory[lowbits_n(Hash[key], tab.globaldepth)]

(***************************************************************************)
(* hashtable_get: the first pair of the bucket that has the key; 0 is the  *)
(* return value "not found".                                               *)
(***************************************************************************)
PairOf(tab, key) ==
    SelectInSeq(tab.bucket[BucketOf(tab, key)].pairs, LAMBDA pair : pair.key = key)
HasKey(tab, key) == PairOf(tab, key) # 0
ValueOf(tab, key) == tab.bucket[BucketOf(tab, key)].pairs[PairOf(tab, key)].val

Full(tab, b) == Len(tab.bucket[b].pairs) >= Size

\* The directory of twice the size; its upper half repeats the lower one.
Doubled(tab) ==
    LET g == tab.globaldepth
    IN  [tab EXCEPT !.globaldepth = g + 1,
                    !.directory = [i \in 0 .. 2 ^ (g + 1) - 1 |->
                                        tab.directory[lowbits_n(i, g)]]]

\* The entries that lead to a bucket of this depth which holds this key
LowestTwoOnly(tab, key, depth) == {i \in DOMAIN tab.directory :
                                    i - lowbits_n(Hash[key], depth) \in {0, 2 ^ depth}}
EntriesOf(tab, key, depth) ==
    {lowbits_n(Hash[key], depth) + high * 2 ^ depth :
        high \in 0 .. 2 ^ (tab.globaldepth - depth) - 1}

\* The next bit of their hash values tells the pairs of b apart; those that
\* have it move to a new bucket.
split_bucket_full(tab, b) ==
    LET depth == tab.bucket[b].localdepth
        pairs == tab.bucket[b].pairs
        Side(bit) == [localdepth |-> depth + 1,
                      pairs |-> SelectSeq(pairs, LAMBDA pair : BitOf(Hash[pair.key], depth) = bit)]
        b1 == Len(tab.bucket) + 1
        entries == EntriesOf(tab, Last(pairs).key, depth)
    IN  [tab EXCEPT !.bucket = Append([@ EXCEPT ![b] = Side(0)], Side(1)),
                    !.directory = [i \in DOMAIN tab.directory |->
                        IF i \notin entries THEN tab.directory[i]
                        ELSE IF BitOf(i, depth) = 0 THEN b ELSE b1]]

\* What hashtable_insert does before the pair is stored
WithRoomMade(tab, key) ==
    LET b == BucketOf(tab, key)
    IN  IF ~Full(tab, b) THEN tab
        ELSE IF tab.bucket[b].localdepth = tab.globaldepth
             THEN split_bucket_full(Doubled(tab), b)
             ELSE split_bucket_full(tab, b)

\* The assertion in insert_bucket_tail that there is room holds.
RoomIsMade(tab, key) ==
    LET t == WithRoomMade(tab, key)
    IN  ~Full(t, BucketOf(t, key))

hashtable_insert(tab, key, value) ==
    LET t == WithRoomMade(tab, key)
    IN  [t EXCEPT !.bucket[BucketOf(t, key)].pairs = Append(@, [key |-> key, val |-> value])]

\* hashtable_free frees the bucket of every entry, so once for each entry that
\* shares it.
FreedTwice(tab) ==
    \E i, j \in DOMAIN tab.directory : i # j /\ tab.directory[i] = tab.directory[j]

(***************************************************************************)
(* An entry leads to the bucket of exactly the entries that agree with it  *)
(* in the local depth, which is where its keys belong (hashtable.c:239).   *)
(***************************************************************************)
DirectoryIsExact(tab) ==
    /\ \A i, j \in DOMAIN tab.directory :
          LET depth == tab.bucket[tab.directory[i]].localdepth
          IN  /\ depth <= tab.globaldepth
              /\ (tab.directory[i] = tab.directory[j])
                    <=> (lowbits_n(i, depth) = lowbits_n(j, depth))
    /\ \A b \in DOMAIN tab.bucket :
          /\ Len(tab.bucket[b].pairs) <= Size
          /\ \A n \in DOMAIN tab.bucket[b].pairs : BucketOf(tab, tab.bucket[b].pairs[n].key) = b
=============================================================================
