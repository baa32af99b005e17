-------------------------------- MODULE Trie --------------------------------
(***************************************************************************)
(* The trie of src/src/algorithm/trie.c over the hash table of             *)
(* hashtable.c.  inst.c builds one of the operators and one of the         *)
(* registers and follows them character by character.  A node is a number; *)
(* its table, if it has one yet, maps characters to nodes.                 *)
(***************************************************************************)
EXTENDS HashTable

CONSTANT Calls    \* the <<string, value>> pairs trie_insert may be called with

Strings == UNION {Prefixes(call[1]) : call \in Calls}
Values == {call[2] : call \in Calls}

VARIABLES nodes,   \* the nodes allocated so far; the root is the first
          status,
          last,     \* history: the <<string, value>> trie_insert was just called with
          inserted, \* history: the strings it was ever called with
          answers   \* history: what trie_get answers for each of them

trie == <<nodes, status, inserted, answers>>
vars == <<trie, last>>

ASSUME TrieAssumption == Strings \subseteq Seq(Keys)

Root == 1
NULL == 0
NoTable == [globaldepth |-> 0, bucket |-> << >>, directory |-> << >>]
Leaf == [next |-> NoTable, isvalue |-> 0, value |-> NULL]

trie_next(ns, current, input) ==
    IF current # NULL /\ ns[current].next # NoTable /\ HasKey(ns[current].next, input)
    THEN ValueOf(ns[current].next, input)
    ELSE NULL

Missing == << >>
NoCall == << >>
trie_get(ns, key) ==
    LET Follow(p, c) == trie_next(ns, p, c)
        p == FoldLeft(Follow, Root, key)
    IN  IF p # NULL /\ ns[p].isvalue = 1 THEN <<ns[p].value>> ELSE Missing

Init == \* trie_construct
    /\ nodes = << [Leaf EXCEPT !.next = hashtable_construct] >>
    /\ status = "used"
    /\ last = NoCall
    /\ inserted = {}
    /\ answers = [s \in Strings |-> Missing]

(***************************************************************************)
(* One turn of the loop of trie_insert, from node walk.at of walk.nodes.   *)
(* walk.ok becomes FALSE when the assertion of the hash table fails.       *)
(***************************************************************************)
Descend(walk, c) ==
    LET next == walk.nodes[walk.at].next
        table == IF next = NoTable THEN hashtable_construct ELSE next
        new == Len(walk.nodes) + 1
    IN  IF ~walk.ok THEN walk
        ELSE IF HasKey(table, c) THEN [walk EXCEPT !.at = ValueOf(table, c)]
        ELSE IF ~RoomIsMade(table, c) THEN [walk EXCEPT !.ok = FALSE]
        ELSE [nodes |-> Append([walk.nodes EXCEPT ![walk.at].next = hashtable_insert(table, c, new)],
                               Leaf),
              at |-> new, ok |-> TRUE]

\* "may overwrite".  StoredOnce, which does not, is not part of the model.
StoredOnce(ns, p, value) ==
    IF ns[p].isvalue = 1 THEN ns ELSE [ns EXCEPT ![p].value = value, ![p].isvalue = 1]
Stored(ns, p, value) == [ns EXCEPT ![p].value = value, ![p].isvalue = 1]

trie_insert(key, value) ==
    LET walk == FoldLeft(Descend, [nodes |-> nodes, at |-> Root, ok |-> TRUE], key)
        ns == Stored(walk.nodes, walk.at, value)
    IN  /\ status = "used"
        /\ last' = <<key, value>>
        /\ IF walk.ok
           THEN /\ nodes' = ns
                /\ inserted' = inserted \cup {key}
                /\ answers' = [s \in Strings |-> trie_get(ns, s)]
                /\ UNCHANGED status
           ELSE status' = "aborted" /\ UNCHANGED <<nodes, inserted, answers>>

\* What it means to free a bucket twice is up to the C library: it may notice.
trie_free ==
    /\ status = "used"
    /\ status' \in (IF \E p \in DOMAIN nodes : FreedTwice(nodes[p].next)
                    THEN {"freed", "aborted"} ELSE {"freed"})
    /\ last' = NoCall
    /\ UNCHANGED <<nodes, inserted, answers>>

Next == \/ \E call \in Calls : trie_insert(call[1], call[2])
        \/ trie_free

Spec == Init /\ [][Next]_vars
-----------------------------------------------------------------------------
Tables == {nodes[p].next : p \in DOMAIN nodes} \ {NoTable}

\* Splitting and doubling leave every directory exact (hashtable.c:250):
\* whatever the order of insertions, a key is looked for in its bucket.
DirectoriesExact == \A tab \in Tables : DirectoryIsExact(tab)

\* The children of the node of a prefix, once these strings are inserted
Children(strings, prefix) ==
    {s[Len(prefix) + 1] : s \in {t \in strings : IsStrictPrefix(prefix, t)}}

MoreThanSize(set) == Cardinality(set) > Size

\* Some node would need more than Size children that agree in two bits.
Collide(strings, key) ==
    \E prefix \in Prefixes(key) : \E r \in 0 .. 3 :
        MoreThanSize({c \in Children(strings \cup {key}, prefix) : lowbits_n(Hash[c], 2) = r})

\* No node has had to split a bucket.
Fit(strings) ==
    \A s \in strings : \A prefix \in Prefixes(s) : \A r \in {0, 1} :
        ~MoreThanSize({c \in Children(strings, prefix) : lowbits_n(Hash[c], 1) = r})

\* The trie is a dictionary (trie.c:64, 107, 151): each string has the value of
\* its last insertion, which may overwrite, and no other string has one, while
\* the assertion of line 284 of hashtable.c fails for colliding characters only,
\* and freeing is in doubt only once a bucket was split.
Promised == INSTANCE Dictionary WITH map <- answers
ImplementsDictionary == Promised!Spec
=============================================================================
