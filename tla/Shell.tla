-------------------------------- MODULE Shell --------------------------------
(***************************************************************************)
(* The job control shell, src/src/mains/shell.c: the main loop, the        *)
(* SIGCHLD handler that may interrupt it between any two of its steps, and *)
(* the children, which run beside both.  The operating system (fork,       *)
(* waitpid, execve, process groups, the terminal) is modelled from the     *)
(* calls shell.c makes.                                                    *)
(*                                                                         *)
(* The handler stops the main flow, so that one turn of its waitpid loop   *)
(* is one step; children go on meanwhile.  Parsing is abstracted to the    *)
(* job type it returns.  A child that has become another program can be    *)
(* stopped, continued and killed at any time, by the terminal or by any    *)
(* process, such as /bin/kill started from this shell; the built-ins fg    *)
(* and bg do nothing.  A definition named after a fault (StateIgnored,     *)
(* ReapsOnce, ...) is not part of the model.                               *)
(***************************************************************************)
EXTENDS Integers, FiniteSets

CONSTANTS NumPids,      \* bound: children a run may fork
          MAX_NUM_JOBS  \* 64 in the source

ASSUME ShellAssumption ==
    /\ NumPids \in Nat
    /\ MAX_NUM_JOBS \in Nat

Pids == 1 .. NumPids
Slots == 1 .. MAX_NUM_JOBS
Kinds == {"FG", "BG"}

VARIABLES pc,         \* where the main flow is
          job,        \* locals of child_process and job_add: type, pid, i
          job_list,   \* slots of [pid, state]
          fg_reaped,
          fg_pid,
          blocked,    \* signals blocked in the shell
          pending,    \* SIGCHLD is pending: one bit, however many children
          handling,   \* sigchld_handler is running
          child,      \* process states, as waitpid tells them apart
          foreground, \* history: foreground jobs waitpid never told of
          overtaken   \* history: jobs during whose start the handler met in
                      \* fg_pid a former foreground job

mainvars == <<pc, job, job_list, fg_reaped, fg_pid, blocked>>
history == <<foreground, overtaken>>
vars == <<mainvars, pending, handling, child, history>>

\* "forked": the child before its execve, with the shell's handlers.
\* "stopping" and "zombie": a change waitpid has not reported yet.
Live == {"forked", "running"}
Reportable == {"stopping", "zombie"}
Unused == {p \in Pids : child[p] = "unborn"}

FreeSlot == [pid |-> -1, state |-> "UK"]
StartsBelowFirst == [type |-> "FG", pid |-> -1, i |-> 0]
NoJob == [type |-> "FG", pid |-> -1, i |-> 1]

Init ==
    /\ pc = "prompt" /\ job = NoJob
    /\ job_list = [i \in Slots |-> FreeSlot]
    /\ fg_reaped = 1 /\ fg_pid = -1
    /\ blocked = {} /\ pending = FALSE /\ handling = FALSE
    /\ child = [p \in Pids |-> "unborn"]
    /\ foreground = {} /\ overtaken = {}

-----------------------------------------------------------------------------
(* The main flow.  A handler suspends it.                                   *)

Main(from) == pc = from /\ ~handling
KernelUnchanged == UNCHANGED <<pending, handling, overtaken>>

\* fgets, parse_userinput and evaluate: quit, or a job to start.  An empty
\* line and the built-ins jobs, fg and bg change nothing.
Quit ==
    /\ Main("prompt")
    /\ pc' = "exited"
    /\ KernelUnchanged
    /\ UNCHANGED <<job, job_list, fg_reaped, fg_pid, blocked, child, foreground>>

StartJob(type) ==
    /\ Main("prompt")
    /\ pc' = "fork" /\ job' = [NoJob EXCEPT !.type = type]
    /\ KernelUnchanged
    /\ UNCHANGED <<job_list, fg_reaped, fg_pid, blocked, child, foreground>>

\* sigaddset(&mask, SIGCHLD | SIGINT | SIGTSTP) adds the one signal whose
\* number is 17 | 2 | 20 = 23.
mask == {"SIGURG"}

\* fork, with the mask that is to protect the rest of child_process
ForkReturns(pid) ==
    /\ Main("fork")
    /\ blocked' = mask
    /\ job' = [job EXCEPT !.pid = pid]
    /\ pc' = IF pid = -1 THEN "added" ELSE "scan"
    /\ KernelUnchanged
    /\ UNCHANGED <<job_list, fg_reaped, fg_pid>>

ForkSucceeds(p) ==
    /\ p \in Unused /\ \A q \in Unused : p <= q
    /\ ForkReturns(p)
    /\ child' = [child EXCEPT ![p] = "forked"]
    /\ foreground' = foreground \cup IF job.type = "FG" THEN {p} ELSE {}

\* job_add refuses pid -1.
ForkFails == ForkReturns(-1) /\ UNCHANGED <<child, foreground>>

StateIgnored(i) == TRUE
SlotIsFree(i) == job_list[i].state = "UK"

\* job_add looks at one slot; after the last one the job stays unlisted.
JobAddScans ==
    /\ Main("scan")
    /\ IF job.i > MAX_NUM_JOBS THEN pc' = "added" /\ UNCHANGED job
       ELSE IF SlotIsFree(job.i) THEN pc' = "slot" /\ UNCHANGED job
       ELSE pc' = "scan" /\ job' = [job EXCEPT !.i = @ + 1]
    /\ KernelUnchanged
    /\ UNCHANGED <<job_list, fg_reaped, fg_pid, blocked, child, foreground>>

\* job_add writes the slot in two steps.
JobAddWritesPid ==
    /\ Main("slot")
    /\ job_list' = [job_list EXCEPT ![job.i].pid = job.pid]
    /\ pc' = "pid"
    /\ KernelUnchanged
    /\ UNCHANGED <<job, fg_reaped, fg_pid, blocked, child, foreground>>

JobAddWritesState ==
    /\ Main("pid")
    /\ job_list' = [job_list EXCEPT ![job.i].state = job.type]
    /\ pc' = "added"
    /\ KernelUnchanged
    /\ UNCHANGED <<job, fg_reaped, fg_pid, blocked, child, foreground>>

\* assert(fg_reaped = 1) of a background job is an assignment.
BackgroundJobStarted ==
    /\ Main("added") /\ job.type = "BG"
    /\ fg_reaped' = 1 /\ blocked' = {}
    /\ pc' = "prompt" /\ job' = NoJob
    /\ KernelUnchanged
    /\ UNCHANGED <<job_list, fg_pid, child, foreground>>

ClearReaped ==
    /\ Main("added") /\ job.type = "FG"
    /\ fg_reaped' = 0
    /\ pc' = "cleared"
    /\ KernelUnchanged
    /\ UNCHANGED <<job, job_list, fg_pid, blocked, child, foreground>>

\* fg_pid = pid and the second sigprocmask
SetForeground ==
    /\ Main("cleared")
    /\ fg_pid' = job.pid /\ blocked' = {}
    /\ pc' = "wait"
    /\ KernelUnchanged
    /\ UNCHANGED <<job, job_list, fg_reaped, child, foreground>>

\* while (fg_reaped == 0) sleep(1)
WaitEnds ==
    /\ Main("wait") /\ fg_reaped # 0
    /\ pc' = "prompt" /\ job' = NoJob
    /\ KernelUnchanged
    /\ UNCHANGED <<job_list, fg_reaped, fg_pid, blocked, child, foreground>>

MainStep ==
    \/ Quit \/ \E type \in Kinds : StartJob(type)
    \/ (\E p \in Pids : ForkSucceeds(p)) \/ ForkFails
    \/ JobAddScans \/ JobAddWritesPid \/ JobAddWritesState
    \/ BackgroundJobStarted \/ ClearReaped \/ SetForeground \/ WaitEnds

-----------------------------------------------------------------------------
(* sigchld_handler                                                          *)

HandlerStarts ==
    /\ pc # "exited" /\ pending /\ ~handling /\ "SIGCHLD" \notin blocked
    /\ handling' = TRUE /\ pending' = FALSE
    /\ UNCHANGED <<mainvars, child, history>>

\* The first slot with this pid, as job_delete and job_state search for it.
Found(p) == {i \in Slots : job_list[i].pid = p /\ \A j \in 1 .. i - 1 : job_list[j].pid # p}

AnyChild(p) == 1
Reaped(p) == IF p = fg_pid THEN 1 ELSE fg_reaped

ReapsOnce == FALSE
\* "while", not "if": after each child waitpid is asked again.
LoopsOn == TRUE

\* fg_pid is not cleared when its job is stopped: until line 206 gives it the
\* job being started it still names the former one.
TakesFormerForStarted(p) ==
    pc = "cleared" /\ p = fg_pid /\ p \notin foreground \ overtaken
Overtaken(p) == IF TakesFormerForStarted(p) THEN {job.pid} \cap foreground ELSE {}

\* One turn of the loop.  job_delete frees the slot, and job_state keeps it
\* with pid 0.
HandlerReaps(p) ==
    /\ pc # "exited" /\ handling /\ child[p] \in Reportable
    /\ fg_reaped' = Reaped(p)
    /\ job_list' = [i \in Slots |->
            IF i \notin Found(p) THEN job_list[i]
            ELSE [pid |-> 0, state |-> IF child[p] = "zombie" THEN "UK" ELSE "ST"]]
    /\ child' = [child EXCEPT ![p] = IF @ = "zombie" THEN "reaped" ELSE "stopped"]
    /\ handling' = LoopsOn
    /\ foreground' = foreground \ {p}
    /\ overtaken' = (overtaken \cup Overtaken(p)) \ {p}
    /\ UNCHANGED <<pc, job, fg_pid, blocked, pending>>

\* The loop ends when waitpid has nothing to report.
NothingToReport == \A p \in Pids : child[p] \notin Reportable
HandlerReturns ==
    /\ pc # "exited" /\ handling /\ NothingToReport
    /\ handling' = FALSE
    /\ UNCHANGED <<mainvars, pending, child, history>>

-----------------------------------------------------------------------------
(* The children and the terminal                                            *)

\* A child execs; a failed execve prints and exits.
Exec(p) ==
    /\ child[p] = "forked"
    /\ \/ child' = [child EXCEPT ![p] = "running"] /\ UNCHANGED pending
       \/ child' = [child EXCEPT ![p] = "zombie"] /\ pending' = TRUE
    /\ UNCHANGED <<mainvars, handling, history>>

\* The kernel sends SIGCHLD when a child ends, is stopped and is continued.
Changes(p, from, to) ==
    /\ child[p] \in from
    /\ child' = [child EXCEPT ![p] = to] /\ pending' = TRUE
    /\ UNCHANGED <<mainvars, handling, history>>

\* By itself or by SIGKILL, which does not wait for SIGCONT
Exits(p) == Changes(p, {"running", "stopping", "stopped"}, "zombie")

\* SIGSTOP of another process
IsStopped(p) == Changes(p, {"running"}, "stopping")

\* SIGCONT of another process.  Without WCONTINUED waitpid does not tell; a
\* stop that it has not reported yet is forgotten.
Continues(p) == Changes(p, {"stopping", "stopped"}, "running")

\* Ctrl-C or Ctrl-Z: the terminal signals the shell's group, and sigproxy_handler
\* the group fg_pid.  A program may catch the signal, and may have left both
\* groups; a child before its execve has the shell's handler.
Addressed == {p \in Pids : child[p] = "running"}
TerminalSignal(state) ==
    /\ pc # "exited"
    /\ \E hit \in SUBSET Addressed \ {{}} :
            child' = [p \in Pids |-> IF p \in hit THEN state ELSE child[p]]
    /\ pending' = TRUE
    /\ UNCHANGED <<mainvars, handling, history>>

CtrlC == TerminalSignal("zombie")
CtrlZ == TerminalSignal("stopping")

Next ==
    \/ MainStep
    \/ HandlerStarts \/ (\E p \in Pids : HandlerReaps(p)) \/ HandlerReturns
    \/ \E p \in Pids : Exec(p) \/ Exits(p) \/ IsStopped(p) \/ Continues(p)
    \/ CtrlC \/ CtrlZ

Spec == Init /\ [][Next]_vars

\* The main flow and the handler run when they can; a job may run forever, the
\* user may be idle.
FairSpec ==
    /\ Spec
    /\ WF_vars(MainStep /\ pc # "prompt")
    /\ WF_vars(HandlerStarts) /\ WF_vars(HandlerReturns)
    /\ \A p \in Pids : WF_vars(HandlerReaps(p))

-----------------------------------------------------------------------------
(* Properties                                                               *)

TypeOK ==
    /\ pc \in {"prompt", "fork", "scan", "slot", "pid", "added", "cleared", "wait", "exited"}
    /\ job \in [type : Kinds, pid : Pids \cup {-1}, i : 1 .. MAX_NUM_JOBS + 1]
    /\ job_list \in [Slots -> [pid : Pids \cup {-1, 0}, state : Kinds \cup {"UK", "ST"}]]
    /\ fg_reaped \in {0, 1} /\ fg_pid \in Pids \cup {-1}
    /\ blocked \subseteq {"SIGCHLD", "SIGINT", "SIGTSTP", "SIGURG"}
    /\ pending \in BOOLEAN /\ handling \in BOOLEAN
    /\ child \in [Pids -> {"unborn", "reaped", "stopped"} \cup Live \cup Reportable]
    /\ foreground \subseteq Pids /\ overtaken \subseteq foreground

\* "shell should wait for forground job to finish" (shell.c:37): the prompt is
\* back only when waitpid told that the foreground job ended or was stopped,
\* whichever children the handler reaps, and wherever it interrupts
\* child_process.  The code has one exception: while the job was started, between
\* lines 205 and 206, a former foreground job, stopped before and now stopped
\* again or killed, was taken for it.
ForegroundHoldsPrompt ==
    pc \in {"prompt", "fork"} => foreground \subseteq overtaken

\* job_add never overwrites a listed job, and the handler touches no slot but
\* that of the child it reports, although it may run in the middle of job_add:
\* while a listed child lives, its slot stays as it is.
LiveJobKeepsSlot ==
    [][\A i \in Slots : \A p \in Pids :
        /\ job_list[i].pid = p /\ job_list[i].state # "UK"
        /\ child'[p] \in Live
        => job_list'[i] = job_list[i]]_vars

\* No zombie is left: one pending SIGCHLD may stand for several children, and
\* children may end while the handler runs.
ZombiesAreReaped ==
    \A p \in Pids : child[p] = "zombie" ~> (child[p] = "reaped" \/ pc = "exited")

\* "shell should wait for forground job to finish" (shell.c:37), and no longer:
\* when the foreground job is reaped the prompt comes back.
ForegroundJobEnds ==
    \A p \in Pids :
        (pc = "wait" /\ job.pid = p /\ child[p] = "reaped") ~> pc = "prompt"
=============================================================================
