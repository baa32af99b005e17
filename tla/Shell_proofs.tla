---------------------------- MODULE Shell_proofs ----------------------------
(***************************************************************************)
(* Proofs about Shell for any number of children and of job slots.  Two    *)
(* inductive invariants are used: WaitInv ties fg_pid and fg_reaped to the *)
(* job the main flow starts or waits for, and SlotInv says which slots     *)
(* job_add is about to write.                                              *)
(***************************************************************************)
EXTENDS Shell, TLAPS

Starting == {"scan", "slot", "pid", "added", "cleared"}

\* A foreground job waitpid never told of, unless it was overtaken, is the one
\* the main flow is starting or waits for, and nothing has ended the wait: what
\* fg_pid names is that very job, or the handler overtakes the job.
WaitInv ==
    /\ \A p \in foreground \ overtaken :
        /\ job.pid = p /\ job.type = "FG"
        /\ pc \in Starting \cup {"wait"}
        /\ pc \in {"cleared", "wait"} => fg_reaped = 0
    /\ pc = "wait" => fg_pid = job.pid

\* The slot job_add has chosen is still free when it is written, and no free
\* slot but that one carries a pid the handler could look for.
SlotInv ==
    /\ \A i \in Slots : job_list[i].state = "UK" /\ job_list[i].pid \in Pids =>
        pc = "pid" /\ i = job.i
    /\ pc \in {"slot", "pid"} => job.i \in Slots
    /\ pc = "slot" => job_list[job.i].state = "UK"
    /\ pc = "pid" => job_list[job.i].state = "UK" \/ job_list[job.i].pid = 0

SlotType == [pid : Pids \cup {-1, 0}, state : Kinds \cup {"UK", "ST"}]

-----------------------------------------------------------------------------
USE ShellAssumption DEF ShellAssumption

\* At the first prompt every variable of the shell has its type.
LEMMA TypeInit == Init => TypeOK
<1> SUFFICES ASSUME Init PROVE TypeOK
    OBVIOUS
<1> USE DEF Init
<1>1. job \in [type : Kinds, pid : Pids \cup {-1}, i : 1 .. MAX_NUM_JOBS + 1]
    BY DEF NoJob, Kinds
<1>2. job_list \in [Slots -> [pid : Pids \cup {-1, 0}, state : Kinds \cup {"UK", "ST"}]]
    BY DEF FreeSlot
<1> QED BY <1>1, <1>2 DEF TypeOK, Kinds

\* Every step of the main flow, of the handler and of a child keeps the types.
LEMMA TypeStep == TypeOK /\ [Next]_vars => TypeOK'
<1> SUFFICES ASSUME TypeOK, [Next]_vars PROVE TypeOK'
    OBVIOUS
<1> USE DEF TypeOK, Kinds, Live, Reportable, KernelUnchanged, Main, mainvars, history
<1>1. CASE Quit BY <1>1 DEF Quit
<1>2. ASSUME NEW type \in Kinds, StartJob(type) PROVE TypeOK'
    BY <1>2 DEF StartJob, NoJob, Slots
<1>3. ASSUME NEW p \in Pids, ForkSucceeds(p) PROVE TypeOK'
    BY <1>3 DEF ForkSucceeds, ForkReturns, mask, Pids
<1>4. CASE ForkFails BY <1>4 DEF ForkFails, ForkReturns, mask, Pids
<1>5. CASE JobAddScans BY <1>5 DEF JobAddScans, Slots
<1>6. CASE JobAddWritesPid
    <2>1. ASSUME NEW i \in Slots PROVE job_list'[i] \in SlotType
        <3>1. job_list[i] \in SlotType
            BY DEF SlotType
        <3>2. [job_list[i] EXCEPT !.pid = job.pid] \in SlotType
            BY <3>1 DEF SlotType
        <3> QED BY <1>6, <3>1, <3>2 DEF JobAddWritesPid
    <2>2. job_list' \in [Slots -> SlotType]
        BY <1>6, <2>1 DEF JobAddWritesPid
    <2> QED BY <1>6, <2>2 DEF JobAddWritesPid, SlotType
<1>7. CASE JobAddWritesState
    <2>1. ASSUME NEW i \in Slots PROVE job_list'[i] \in SlotType
        <3>1. job_list[i] \in SlotType
            BY DEF SlotType
        <3>2. [job_list[i] EXCEPT !.state = job.type] \in SlotType
            BY <3>1 DEF SlotType
        <3> QED BY <1>7, <3>1, <3>2 DEF JobAddWritesState
    <2>2. job_list' \in [Slots -> SlotType]
        BY <1>7, <2>1 DEF JobAddWritesState
    <2> QED BY <1>7, <2>2 DEF JobAddWritesState, SlotType
<1>8. CASE BackgroundJobStarted BY <1>8 DEF BackgroundJobStarted, NoJob, Slots
<1>9. CASE ClearReaped BY <1>9 DEF ClearReaped
<1>10. CASE SetForeground BY <1>10 DEF SetForeground
<1>11. CASE WaitEnds BY <1>11 DEF WaitEnds, NoJob, Slots
<1>12. CASE HandlerStarts BY <1>12 DEF HandlerStarts
<1>13. ASSUME NEW p \in Pids, HandlerReaps(p) PROVE TypeOK'
    <2>1. foreground' \subseteq Pids /\ overtaken' \subseteq foreground'
        BY <1>13 DEF HandlerReaps, Overtaken
    <2> QED BY <1>13, <2>1 DEF HandlerReaps, Reaped, LoopsOn
<1>14. CASE HandlerReturns BY <1>14 DEF HandlerReturns
<1>15. ASSUME NEW p \in Pids, Exec(p) PROVE TypeOK' BY <1>15 DEF Exec
<1>16. ASSUME NEW p \in Pids, Exits(p) \/ IsStopped(p) \/ Continues(p) PROVE TypeOK'
    BY <1>16 DEF Exits, IsStopped, Continues, Changes, history
<1>17. CASE CtrlC BY <1>17 DEF CtrlC, TerminalSignal
<1>18. CASE CtrlZ BY <1>18 DEF CtrlZ, TerminalSignal
<1>19. CASE UNCHANGED vars BY <1>19 DEF vars
<1> QED BY <1>1, <1>2, <1>3, <1>4, <1>5, <1>6, <1>7, <1>8, <1>9, <1>10, <1>11, <1>12,
    <1>13, <1>14, <1>15, <1>16, <1>17, <1>18, <1>19 DEF Next, MainStep

\* Every variable of the shell keeps its type, in every interleaving of the
\* main flow, the handler and the children.
THEOREM TypeCorrect == Spec => []TypeOK
BY TypeInit, TypeStep, PTL DEF Spec

-----------------------------------------------------------------------------
\* At the first prompt no foreground job is waited for.
LEMMA WaitInit == Init => WaitInv
BY DEF Init, WaitInv

\* Every step keeps fg_pid and fg_reaped true to the child that is waited for.
LEMMA WaitStep == TypeOK /\ WaitInv /\ [Next]_vars => WaitInv'
<1> SUFFICES ASSUME TypeOK, WaitInv, [Next]_vars PROVE WaitInv'
    OBVIOUS
<1> USE DEF TypeOK, WaitInv, Starting, KernelUnchanged, Main, mainvars, history
<1>1. CASE Quit BY <1>1 DEF Quit
<1>2. ASSUME NEW type \in Kinds, StartJob(type) PROVE WaitInv'
    BY <1>2 DEF StartJob, NoJob
<1>3. ASSUME NEW p \in Pids, ForkSucceeds(p) PROVE WaitInv'
    BY <1>3 DEF ForkSucceeds, ForkReturns, Pids, Kinds
<1>4. CASE ForkFails BY <1>4 DEF ForkFails, ForkReturns
<1>5. CASE JobAddScans BY <1>5 DEF JobAddScans
<1>6. CASE JobAddWritesPid BY <1>6 DEF JobAddWritesPid
<1>7. CASE JobAddWritesState BY <1>7 DEF JobAddWritesState
<1>8. CASE BackgroundJobStarted BY <1>8 DEF BackgroundJobStarted
<1>9. CASE ClearReaped BY <1>9 DEF ClearReaped
<1>10. CASE SetForeground BY <1>10 DEF SetForeground
<1>11. CASE WaitEnds BY <1>11 DEF WaitEnds
<1>12. CASE HandlerStarts BY <1>12 DEF HandlerStarts
<1>13. ASSUME NEW p \in Pids, HandlerReaps(p) PROVE WaitInv'
    <2>1. UNCHANGED <<pc, job, fg_pid>>
        BY <1>13 DEF HandlerReaps
    <2>2. SUFFICES ASSUME NEW q \in foreground' \ overtaken'
                   PROVE  pc \in {"cleared", "wait"} => fg_reaped' = 0
        BY <1>13, <2>1 DEF HandlerReaps
    <2>3. q \in foreground \ overtaken /\ q # p /\ job.pid = q
        BY <1>13, <2>2 DEF HandlerReaps
    <2>4. CASE pc = "wait"
        BY <1>13, <2>3, <2>4 DEF HandlerReaps, Reaped
    <2>5. CASE pc = "cleared"
        <3>1. ASSUME p = fg_pid PROVE FALSE
            <4>1. p \notin foreground \ overtaken
                BY <2>3
            <4>2. q \in overtaken'
                BY <1>13, <2>3, <2>5, <3>1, <4>1
                    DEF HandlerReaps, Overtaken, TakesFormerForStarted
            <4> QED BY <2>2, <4>2
        <3> QED BY <1>13, <2>3, <2>5, <3>1 DEF HandlerReaps, Reaped
    <2> QED BY <2>4, <2>5
<1>14. CASE HandlerReturns BY <1>14 DEF HandlerReturns
<1>15. ASSUME NEW p \in Pids, Exec(p) PROVE WaitInv' BY <1>15 DEF Exec
<1>16. ASSUME NEW p \in Pids, Exits(p) \/ IsStopped(p) \/ Continues(p) PROVE WaitInv'
    BY <1>16 DEF Exits, IsStopped, Continues, Changes, history
<1>17. CASE CtrlC BY <1>17 DEF CtrlC, TerminalSignal, Addressed
<1>18. CASE CtrlZ BY <1>18 DEF CtrlZ, TerminalSignal, Addressed
<1>19. CASE UNCHANGED vars BY <1>19 DEF vars
<1> QED BY <1>1, <1>2, <1>3, <1>4, <1>5, <1>6, <1>7, <1>8, <1>9, <1>10, <1>11, <1>12,
    <1>13, <1>14, <1>15, <1>16, <1>17, <1>18, <1>19 DEF Next, MainStep

\* With the invariant, a foreground job keeps the shell from its prompt.
LEMMA WaitPrompt == WaitInv => ForegroundHoldsPrompt
BY DEF WaitInv, ForegroundHoldsPrompt, Starting

\* The prompt does not come back before waitpid told of the foreground job,
\* unless a former foreground job was taken for it, for any number of children,
\* whoever stops, continues and kills them, and although SIGCHLD is not blocked
\* in child_process.
THEOREM PromptWaits == Spec => []ForegroundHoldsPrompt
BY TypeInit, TypeStep, WaitInit, WaitStep, WaitPrompt, PTL DEF Spec

-----------------------------------------------------------------------------
\* At the first prompt no slot of the job list is chosen.
LEMMA SlotInit == Init => SlotInv
BY DEF Init, SlotInv, FreeSlot, Pids

\* Every step keeps the slot that job_add has chosen free until it is written.
LEMMA SlotStep == TypeOK /\ SlotInv /\ [Next]_vars => SlotInv'
<1> SUFFICES ASSUME TypeOK, SlotInv, [Next]_vars PROVE SlotInv'
    OBVIOUS
<1> USE DEF TypeOK, SlotInv, KernelUnchanged, Main, mainvars, history
<1>1. CASE Quit BY <1>1 DEF Quit
<1>2. ASSUME NEW type \in Kinds, StartJob(type) PROVE SlotInv'
    BY <1>2 DEF StartJob, NoJob
<1>3. ASSUME NEW p \in Pids, ForkSucceeds(p) PROVE SlotInv'
    BY <1>3 DEF ForkSucceeds, ForkReturns
<1>4. CASE ForkFails BY <1>4 DEF ForkFails, ForkReturns
<1>5. CASE JobAddScans BY <1>5 DEF JobAddScans, SlotIsFree, Slots
<1>6. CASE JobAddWritesPid BY <1>6 DEF JobAddWritesPid
<1>7. CASE JobAddWritesState
    <2>1. /\ job.i \in Slots /\ job.type \in {"FG", "BG"}
          /\ pc' = "added" /\ job' = job
          /\ job_list'[job.i].state = job.type
          /\ \A i \in Slots : i # job.i => job_list'[i] = job_list[i]
        BY <1>7 DEF JobAddWritesState, Kinds
    <2> QED BY <1>7, <2>1 DEF JobAddWritesState
<1>8. CASE BackgroundJobStarted BY <1>8 DEF BackgroundJobStarted
<1>9. CASE ClearReaped BY <1>9 DEF ClearReaped
<1>10. CASE SetForeground BY <1>10 DEF SetForeground
<1>11. CASE WaitEnds BY <1>11 DEF WaitEnds
<1>12. CASE HandlerStarts BY <1>12 DEF HandlerStarts
<1>13. ASSUME NEW p \in Pids, HandlerReaps(p) PROVE SlotInv'
    <2>1. \A i \in Slots :
            \/ job_list'[i] = job_list[i]
            \/ job_list[i].pid = p /\ job_list'[i].pid = 0
        BY <1>13 DEF HandlerReaps, Found
    <2>2. pc' = pc /\ job' = job
        BY <1>13 DEF HandlerReaps
    <2>3. 0 \notin Pids
        BY DEF Pids
    <2> QED BY <2>1, <2>2, <2>3
<1>14. CASE HandlerReturns BY <1>14 DEF HandlerReturns
<1>15. ASSUME NEW p \in Pids, Exec(p) PROVE SlotInv' BY <1>15 DEF Exec
<1>16. ASSUME NEW p \in Pids, Exits(p) \/ IsStopped(p) \/ Continues(p) PROVE SlotInv'
    BY <1>16 DEF Exits, IsStopped, Continues, Changes, history
<1>17. CASE CtrlC BY <1>17 DEF CtrlC, TerminalSignal
<1>18. CASE CtrlZ BY <1>18 DEF CtrlZ, TerminalSignal
<1>19. CASE UNCHANGED vars BY <1>19 DEF vars
<1> QED BY <1>1, <1>2, <1>3, <1>4, <1>5, <1>6, <1>7, <1>8, <1>9, <1>10, <1>11, <1>12,
    <1>13, <1>14, <1>15, <1>16, <1>17, <1>18, <1>19 DEF Next, MainStep

\* Only job_add and the handler write slots: job_add one that is not listed,
\* the handler that of a child that is over.
LEMMA SlotKept ==
    ASSUME TypeOK, SlotInv, [Next]_vars, NEW i \in Slots, NEW p \in Pids,
           job_list[i].pid = p, job_list[i].state # "UK", child'[p] \in Live
    PROVE  job_list'[i] = job_list[i]
<1> USE DEF TypeOK, SlotInv, KernelUnchanged, Main, mainvars, history
<1>1. CASE JobAddWritesPid BY <1>1 DEF JobAddWritesPid
<1>2. CASE JobAddWritesState
    <2>1. job.i # i
        BY <1>2 DEF JobAddWritesState, Pids
    <2> QED BY <1>2, <2>1 DEF JobAddWritesState
<1>3. ASSUME NEW q \in Pids, HandlerReaps(q) PROVE job_list'[i] = job_list[i]
    <2>1. child'[q] \notin Live
        BY <1>3 DEF HandlerReaps, Live
    <2> QED BY <1>3, <2>1 DEF HandlerReaps, Found
<1>4. CASE UNCHANGED job_list BY <1>4
<1>5. \/ UNCHANGED job_list \/ JobAddWritesPid \/ JobAddWritesState
      \/ \E q \in Pids : HandlerReaps(q)
    BY DEF Next, MainStep, vars, Quit, StartJob, ForkSucceeds, ForkFails, ForkReturns,
        JobAddScans, BackgroundJobStarted, ClearReaped, SetForeground, WaitEnds,
        HandlerStarts, HandlerReturns, Exec, Exits, IsStopped, Continues, Changes,
        CtrlC, CtrlZ, TerminalSignal
<1> QED BY <1>1, <1>2, <1>3, <1>4, <1>5

\* The slot of a listed job that lives is never touched, wherever the handler
\* interrupts job_add.
THEOREM SlotsAreStable == Spec => LiveJobKeepsSlot
<1>1. TypeOK /\ SlotInv /\ [Next]_vars =>
        [\A i \in Slots : \A p \in Pids :
            /\ job_list[i].pid = p /\ job_list[i].state # "UK"
            /\ child'[p] \in Live
            => job_list'[i] = job_list[i]]_vars
    BY SlotKept
<1> QED BY <1>1, TypeInit, TypeStep, SlotInit, SlotStep, PTL DEF Spec, LiveJobKeepsSlot
=============================================================================
