---------------------------- MODULE AddressSpaces ----------------------------
(***************************************************************************)
(* What virtual memory and fork promise to the programs of the simulator:  *)
(* every process has pages and a result register of its own, a load        *)
(* returns what the same process stored there last, fork is called once    *)
(* and returns twice, the child starts with a copy of its parent's pages,  *)
(* and the simulator may stop at any time.  "op" is what the instruction   *)
(* just executed asked for: a step stores this word to this page of this   *)
(* process, or loads this page, and does nothing else.  Frames, page       *)
(* tables, swap files, page faults, copy-on-write, kernel stacks and the   *)
(* scheduler are invisible.                                                *)
(***************************************************************************)
EXTENDS Integers, MemoryOps

CONSTANTS Procs, Pages,
          Words,      \* contents of a page
          Unborn,     \* the space of a process that does not exist yet
          MaxPid      \* pids are 1 .. MaxPid

VARIABLES space,      \* space[p][a]: page a of process p
          result,     \* result[p]: what its last load or fork returned
          up,         \* the simulator is running
          op          \* what the last instruction asked for

vars == <<space, result, up, op>>

Results == Words \cup -1 .. MaxPid
Alive == {p \in Procs : space[p] # Unborn}

\* The loader may put anything there.
Init ==
    /\ space \in [Procs -> [Pages -> Words] \cup {Unborn}]
    /\ result \in [Procs -> Results]
    /\ up = TRUE

Load(p, a) ==
    /\ op' = LoadOf(p, a)
    /\ result' = [result EXCEPT ![p] = space[p][a]]
    /\ UNCHANGED <<space, up>>

Store(p, a, w) ==
    /\ op' = StoreOf(p, a, w)
    /\ space' = [space EXCEPT ![p][a] = w]
    /\ UNCHANGED <<result, up>>

\* The child's pid to the parent, 0 to the child.
Fork(p, q, pid) ==
    /\ op' = ForkOf(p)
    /\ q \notin Alive
    /\ space' = [space EXCEPT ![q] = space[p]]
    /\ result' = [result EXCEPT ![p] = pid, ![q] = 0]
    /\ UNCHANGED up

ForkRefused(p) ==
    /\ op' = ForkOf(p)
    /\ result' = [result EXCEPT ![p] = -1]
    /\ UNCHANGED <<space, up>>

Halt ==
    /\ op' = NoOp
    /\ up' = FALSE
    /\ UNCHANGED <<space, result>>

NothingAsked ==
    /\ op' = NoOp
    /\ UNCHANGED <<space, result, up>>

Next ==
    /\ up
    /\ \/ \E p \in Alive, a \in Pages : Load(p, a)
       \/ \E p \in Alive, a \in Pages, w \in Words : Store(p, a, w)
       \/ \E p \in Alive, q \in Procs, pid \in 1 .. MaxPid : Fork(p, q, pid)
       \/ \E p \in Alive : ForkRefused(p)
       \/ Halt
       \/ NothingAsked

Spec == Init /\ [][Next]_vars
=============================================================================
