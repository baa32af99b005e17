--------------------------- MODULE CoherentMemory ---------------------------
(***************************************************************************)
(* What the private caches of src/src/mains/mesi.c promise to the          *)
(* processors: one memory word, shared by all of them, read and written    *)
(* atomically.  "op" tells what the processors ask for: a step that serves *)
(* a write stores the value of that write, one that serves a read returns  *)
(* the word, and an eviction, like every write-back, is invisible.         *)
(***************************************************************************)
CONSTANTS Values,        \* the values a word may hold
          InitValue,     \* the word before the first write
          Read, Write(_), Evict   \* the events

VARIABLES word,       \* the one value of the shared word
          answer,     \* what the last read returned
          op          \* the event served last

vars == <<word, answer, op>>

Init ==
    /\ word = InitValue
    /\ answer \in Values

\* A read returns the word as it is.
ServeRead ==
    /\ op' = Read
    /\ answer' = word
    /\ UNCHANGED word

\* A write replaces the word for every processor at once.
ServeWrite(v) ==
    /\ op' = Write(v)
    /\ word' = v
    /\ UNCHANGED answer

ServeEvict ==
    /\ op' = Evict
    /\ UNCHANGED <<word, answer>>

Next == ServeRead \/ (\E v \in Values : ServeWrite(v)) \/ ServeEvict

Spec == Init /\ [][Next]_vars
=============================================================================
