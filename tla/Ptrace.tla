------------------------------- MODULE Ptrace -------------------------------
(***************************************************************************)
(* The part of Linux that crates/loi-core/src/tracer.rs drives through     *)
(* ptrace(2) and waitpid(2), as far as the tracer can tell its outcomes    *)
(* apart.  Nothing here is code of the repository: it is what tracer.rs    *)
(* relies on, given the options it sets (PTRACE_O_TRACESYSGOOD, TRACEFORK, *)
(* TRACEVFORK, TRACECLONE and TRACEEXEC).  Tasks are single-threaded       *)
(* processes.  A system call is identified by its number in the life of    *)
(* its task: call[p] stands for everything the registers say of it.        *)
(***************************************************************************)
EXTENDS Naturals, FiniteSets

CONSTANTS
  Pid,        \* every task the run may ever have
  Root,       \* the task Tracer::spawn started
  Kinds,      \* the kinds of call the tasks make (subset of AllKinds)
  Signals,    \* the signals others may send to the tasks
  MaxCall,    \* bound: calls per task, the last one being an exit
  MaxSig,     \* bound: signals sent
  MaxKill     \* bound: SIGKILLs from outside

AllKinds == {"plain", "fork", "execve", "wait", "pause"}
AllSignals == {"SIGSTOP", "SIGTERM", "SIGUSR1", "SIGRTMIN"}

ASSUME PtraceAssumption ==
  /\ Root \in Pid
  /\ Kinds \subseteq AllKinds
  /\ Signals \subseteq AllSignals
  /\ MaxCall \in Nat \ {0}
  /\ MaxSig \in Nat
  /\ MaxKill \in Nat

VARIABLES
  at,         \* where each task is: running, in a ptrace-stop, dead
  seen,       \* the current stop has been returned by a waitpid
  call,       \* the task's current, or last, system call
  doing,      \* what is left to do of that call
  child,      \* the task created by the last fork: PTRACE_GETEVENTMSG
  parent,     \* the task that created this one
  attach,     \* the SIGSTOP of the automatic attach is pending
  pending,    \* signals sent to the task and not yet delivered
  sig,        \* the signal of the current signal-delivery-stop
  execs,      \* history: the calls that were a successful execve
  sent,       \* signals sent so far
  kills       \* SIGKILLs so far

kernelVars == <<at, seen, call, doing, child, parent, attach, pending, sig,
                execs, sent, kills>>

Stops == {"enter", "exit", "fork", "exec", "attach", "signal", "group"}
Live == {"user", "kernel"} \cup Stops
Places == Live \cup {"none", "zombie", "gone", "free"}
Doing == AllKinds \cup {"forked", "exit"}
NoSignal == "none"

KernelTypeOK ==
  /\ at \in [Pid -> Places]
  /\ seen \in [Pid -> BOOLEAN]
  /\ call \in [Pid -> Nat]
  /\ doing \in [Pid -> Doing]
  /\ child \in [Pid -> Pid]
  /\ parent \in [Pid -> Pid]
  /\ attach \in [Pid -> BOOLEAN]
  /\ pending \in [Pid -> SUBSET AllSignals]
  /\ sig \in [Pid -> AllSignals \cup {NoSignal}]
  /\ execs \in [Pid -> SUBSET Nat]
  /\ sent \in Nat
  /\ kills \in Nat

\* Tracer::spawn leaves the root in the PTRACE_EVENT_EXEC stop of its first
\* execve, already reported; that call is number 0.
KernelInit ==
  /\ at = [p \in Pid |-> IF p = Root THEN "exec" ELSE "none"]
  /\ seen = [p \in Pid |-> p = Root]
  /\ call = [p \in Pid |-> 0]
  /\ doing = [p \in Pid |-> "plain"]
  /\ child = [p \in Pid |-> Root]
  /\ parent = [p \in Pid |-> Root]
  /\ attach = [p \in Pid |-> FALSE]
  /\ pending = [p \in Pid |-> {}]
  /\ sig = [p \in Pid |-> NoSignal]
  /\ execs = [p \in Pid |-> IF p = Root THEN {0} ELSE {}]
  /\ sent = 0
  /\ kills = 0

-----------------------------------------------------------------------------
(* What a task does between two stops.                                     *)

\* Task p comes to a stop of the given kind, not reported yet.
Stop(p, kind) ==
  /\ at' = [at EXCEPT ![p] = kind]
  /\ seen' = [seen EXCEPT ![p] = FALSE]

\* A call is made: the syscall-enter-stop.  The last call is an exit.  The
\* SIGSTOP of the attach is taken before the first instruction of a child.
EnterCall(p) ==
  /\ at[p] = "user" /\ ~attach[p] /\ call[p] < MaxCall
  /\ Stop(p, "enter")
  /\ call' = [call EXCEPT ![p] = @ + 1]
  /\ \E k \in IF call[p] + 1 = MaxCall THEN {"exit"} ELSE Kinds \cup {"exit"} :
       doing' = [doing EXCEPT ![p] = k]
  /\ UNCHANGED <<child, parent, attach, pending, sig, execs, sent, kills>>

\* fork, vfork and clone: the child exists, and can run and be reported,
\* before the parent reaches its event stop.
CreateChild(p) ==
  /\ at[p] = "kernel" /\ doing[p] = "fork"
  /\ \E c \in Pid :
       /\ at[c] = "none"
       /\ at' = [at EXCEPT ![c] = "user"]
       /\ attach' = [attach EXCEPT ![c] = TRUE]
       /\ parent' = [parent EXCEPT ![c] = p]
       /\ child' = [child EXCEPT ![p] = c]
  /\ doing' = [doing EXCEPT ![p] = "forked"]
  /\ UNCHANGED <<seen, call, pending, sig, execs, sent, kills>>

ForkEvent(p) ==
  /\ at[p] = "kernel" /\ doing[p] = "forked"
  /\ Stop(p, "fork")
  /\ doing' = [doing EXCEPT ![p] = "plain"]
  /\ UNCHANGED <<call, child, parent, attach, pending, sig, execs, sent, kills>>

ExecEvent(p) ==
  /\ at[p] = "kernel" /\ doing[p] = "execve"
  /\ Stop(p, "exec")
  /\ doing' = [doing EXCEPT ![p] = "plain"]
  /\ execs' = [execs EXCEPT ![p] = @ \cup {call[p]}]
  /\ UNCHANGED <<call, child, parent, attach, pending, sig, sent, kills>>

\* A call that has nothing left to do returns; fork fails when no task is
\* free; a wait returns when every child is reaped, a pause only for a
\* signal, which interrupts a wait as well.
CanReturn(p) ==
  \/ doing[p] = "plain"
  \/ doing[p] = "fork" /\ \A c \in Pid : at[c] # "none"
  \/ doing[p] = "wait" /\ \A c \in Pid \ {p} :
        at[c] # "none" /\ parent[c] = p => at[c] = "gone"
  \/ doing[p] \in {"wait", "pause"} /\ pending[p] # {}

ReturnCall(p) ==
  /\ at[p] = "kernel" /\ CanReturn(p)
  /\ Stop(p, "exit")
  /\ doing' = [doing EXCEPT ![p] = "plain"]
  /\ UNCHANGED <<call, child, parent, attach, pending, sig, execs, sent, kills>>

\* exit and exit_group have no syscall-exit-stop.
ExitTask(p) ==
  /\ at[p] = "kernel" /\ doing[p] = "exit"
  /\ at' = [at EXCEPT ![p] = "zombie"]
  /\ UNCHANGED <<seen, call, doing, child, parent, attach, pending, sig, execs,
                 sent, kills>>

\* The first stop of a child: SIGSTOP, from the attach.
AttachStop(p) ==
  /\ at[p] = "user" /\ attach[p]
  /\ Stop(p, "attach")
  /\ attach' = [attach EXCEPT ![p] = FALSE]
  /\ UNCHANGED <<call, doing, child, parent, pending, sig, execs, sent, kills>>

\* A signal is about to be delivered: the tracer is asked first.
SignalStop(p) ==
  /\ at[p] = "user" /\ ~attach[p]
  /\ \E s \in pending[p] :
       /\ pending' = [pending EXCEPT ![p] = @ \ {s}]
       /\ sig' = [sig EXCEPT ![p] = s]
  /\ Stop(p, "signal")
  /\ UNCHANGED <<call, doing, child, parent, attach, execs, sent, kills>>

\* A task that Drop detached without killing it runs on to its end.
FreeExit(p) ==
  /\ at[p] = "free"
  /\ at' = [at EXCEPT ![p] = IF p = Root THEN "zombie" ELSE "gone"]
  /\ UNCHANGED <<seen, call, doing, child, parent, attach, pending, sig, execs,
                 sent, kills>>

TaskStep(p) ==
  \/ EnterCall(p) \/ CreateChild(p) \/ ForkEvent(p) \/ ExecEvent(p)
  \/ ReturnCall(p) \/ ExitTask(p) \/ AttachStop(p) \/ SignalStop(p)
  \/ FreeExit(p)

\* Somebody sends a signal.
SendSignal(p) ==
  /\ at[p] \in Live /\ sent < MaxSig
  /\ \E s \in Signals : pending' = [pending EXCEPT ![p] = @ \cup {s}]
  /\ sent' = sent + 1
  /\ UNCHANGED <<at, seen, call, doing, child, parent, attach, sig, execs, kills>>

\* Somebody sends SIGKILL: the task dies wherever it is, in a stop too.
Kill(p) ==
  /\ at[p] \in Live /\ kills < MaxKill
  /\ at' = [at EXCEPT ![p] = "zombie"]
  /\ kills' = kills + 1
  /\ UNCHANGED <<seen, call, doing, child, parent, attach, pending, sig, execs,
                 sent>>

-----------------------------------------------------------------------------
(* The requests of the tracer.                                             *)

\* Every request but waitpid needs the task in a stop, and is ESRCH if not.
Stopped(p) == at[p] \in Stops

\* Where a task goes from its stop when it is restarted with a signal.
\* Only a signal-delivery-stop takes the signal: SIGSTOP then begins a
\* group-stop, SIGTERM kills and the others run a handler.
ResumeTo(p, inject) ==
  CASE at[p] \in {"enter", "fork", "exec"} -> "kernel"
    [] at[p] \in {"attach", "signal"} /\ inject = "SIGSTOP" -> "group"
    [] at[p] \in {"attach", "signal"} /\ inject = "SIGTERM" -> "zombie"
    [] OTHER -> "user"

\* PTRACE_SYSCALL.
PtraceSyscall(p, inject) ==
  /\ Stopped(p)
  /\ at' = [at EXCEPT ![p] = ResumeTo(p, inject)]
  /\ seen' = [seen EXCEPT ![p] = FALSE]
  /\ sig' = [sig EXCEPT ![p] = NoSignal]
  /\ UNCHANGED <<call, doing, child, parent, attach, pending, execs, sent, kills>>

\* PTRACE_DETACH with SIGKILL.  The signal is certain to act in a
\* signal-delivery-stop and a syscall-stop only.  A task that is no longer
\* traced and not a child of the tracer is gone for waitpid.
PtraceDetach(p) ==
  /\ Stopped(p)
  /\ \/ at' = [at EXCEPT ![p] = IF p = Root THEN "zombie" ELSE "gone"]
     \/ /\ at[p] \in {"fork", "exec", "group"}
        /\ at' = [at EXCEPT ![p] = "free"]
  /\ UNCHANGED <<seen, call, doing, child, parent, attach, pending, sig, execs,
                 sent, kills>>

\* There is something to report of task p.
Reportable(p) == at[p] = "zombie" \/ (Stopped(p) /\ ~seen[p])

\* A task waitpid may still report something of: no such task is ECHILD.
Waitable(p) == at[p] \in Live \cup {"zombie"} \/ (p = Root /\ at[p] = "free")

\* waitpid takes the report of p: a death is reaped, a stop is marked.
Report(p) ==
  /\ Reportable(p)
  /\ at' = [at EXCEPT ![p] = IF @ = "zombie" THEN "gone" ELSE @]
  /\ seen' = [seen EXCEPT ![p] = TRUE]
  /\ UNCHANGED <<call, doing, child, parent, attach, pending, sig, execs, sent,
                 kills>>
=============================================================================
