----------------------------- MODULE Dictionary -----------------------------
(***************************************************************************)
(* What a trie promises its users: a partial map from strings to values,   *)
(* in which an insertion may overwrite.  "last" is what the user just      *)
(* asked for: this string has this value now, and nothing else changed.    *)
(* The program stops only in an insertion of a string whose characters     *)
(* Collide with those of strings it already went through, and freeing it   *)
(* is only in doubt once a node has more children than Fit.                *)
(***************************************************************************)
CONSTANTS Strings, Calls, Missing, NoCall, Collide(_, _), Fit(_)

VARIABLES map,      \* <<value>> for each string that has one, or Missing
          last,     \* the <<string, value>> of the insertion just asked for
          inserted, \* every string that trie_insert was called with
          status    \* "used", "freed" or "aborted"

vars == <<map, last, inserted, status>>

Init ==
    /\ map = [s \in Strings |-> Missing]
    /\ last = NoCall /\ inserted = {} /\ status = "used"

Insert(key, value) ==
    /\ status = "used"
    /\ last' = <<key, value>>
    /\ inserted' = inserted \cup {key}
    /\ UNCHANGED status
    /\ map' = [map EXCEPT ![key] = <<value>>]

Abort(key, value) ==
    /\ status = "used"
    /\ last' = <<key, value>>
    /\ status' = "aborted"
    /\ Collide(inserted, key)
    /\ UNCHANGED <<map, inserted>>

Free ==
    /\ status = "used"
    /\ status' \in (IF Fit(inserted) THEN {"freed"} ELSE {"freed", "aborted"})
    /\ last' = NoCall
    /\ UNCHANGED <<map, inserted>>

Next == \/ \E call \in Calls : Insert(call[1], call[2]) \/ Abort(call[1], call[2])
        \/ Free

Spec == Init /\ [][Next]_vars
=============================================================================
