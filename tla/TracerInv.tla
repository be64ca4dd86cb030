----------------------------- MODULE TracerInv -----------------------------
(***************************************************************************)
(* The inductive invariant behind the safety properties of Tracer.  Its    *)
(* named parts are what a step of the tracer needs to know of the tasks,   *)
(* and a step of a task of the tracer.  TLC checks it in the runs of       *)
(* MCTracer, TracerProofs proves it.                                       *)
(***************************************************************************)
EXTENDS Tracer

\* What a call in progress says of its task.
CallsInSync ==
  \A p \in Pid :
    /\ \A n \in execs[p] : n <= call[p]
    /\ at[p] = "enter" => call[p] \notin execs[p]
    /\ doing[p] = "execve" => call[p] \notin execs[p]
    /\ at[p] = "exec" => call[p] \in execs[p]
    /\ doing[p] = "exit" => at[p] \in {"enter", "kernel", "zombie", "gone"}
    /\ at[p] \in {"enter", "kernel", "fork", "exec", "exit"} =>
         call[p] > 0 \/ call[p] \in execs[p]

\* A child in the window between its creation and the EVENT_FORK, and a task
\* that has not taken the SIGSTOP of its attach.
ChildrenInSync ==
  /\ at[Root] # "none"
  /\ \A p \in Pid :
       /\ at[p] = "none" => p \notin tracees
       /\ attach[p] => at[p] \in {"user", "zombie", "gone"}
       /\ doing[p] = "forked" \/ at[p] = "fork" =>
            at[child[p]] # "none" /\ child[p] \notin {p, Root}

\* A status being handled still describes its task, unless that was killed.
StatusKindAt(kind) ==
  CASE kind = "PtraceSyscall" -> {"enter", "exit", "zombie"}
    [] kind = "ForkEvent" -> {"fork", "zombie"}
    [] kind = "ExecEvent" -> {"exec", "zombie"}
    [] kind = "Stopped" -> {"attach", "signal", "group", "zombie"}
    [] OTHER -> {"gone"}

StatusInSync ==
  /\ pc = "start" =>
       status.pid = Root /\ at[Root] \in {"exec", "zombie"} /\ inject = NoSignal
  /\ pc = "handle" =>
       /\ at[status.pid] \in StatusKindAt(status.kind)
       /\ inject = NoSignal
       /\ at[status.pid] = "signal" => status.sig = sig[status.pid]
       /\ at[status.pid] \in {"attach", "group"} => status.sig = "SIGSTOP"
  /\ pc = "resume" => at[status.pid] \in Stops \cup {"zombie"}

\* A stop waited for lasts until the tracer ends it or the task is killed.
StoppedUnlessKilled ==
  kills = 0 =>
    /\ pc \in {"start", "resume"} => Stopped(status.pid)
    /\ pc = "handle" /\ status.kind # "Exited" => Stopped(status.pid)

\* A task the tracer has no entry for is the child of a tracee whose
\* EVENT_FORK is still to be served, unless a SIGKILL hit that tracee.
InForkWindow(p, q) ==
  /\ child[q] = p
  /\ \/ at[q] = "kernel" /\ doing[q] = "forked"
     \/ at[q] = "fork" /\ ~Served(q)

NoStranger ==
  Running /\ kills = 0 => \A p \in Pid \ tracees :
    /\ at[p] # "zombie"
    /\ at[p] \in Live => \E q \in tracees : InForkWindow(p, q)

\* A tracked root is still to be reaped, or its death is being handled.
RootTracked ==
  Running /\ Root \in tracees =>
    \/ at[Root] \in Live \cup {"zombie"}
    \/ pc = "handle" /\ status.pid = Root /\ status.kind = "Exited"

NoResultYet == Running => result = "none" /\ \A p \in Pid : at[p] # "free"

\* What was reported of a task lies behind the call it is in.
InProgress(p) ==
  at[p] \in {"enter", "kernel", "fork", "exec"} \/ (at[p] = "exit" /\ ~Served(p))
LogBehind ==
  \A p \in Pid : \A i \in DOMAIN log[p] :
    /\ log[p][i].entry <= call[p]
    /\ Running /\ InProgress(p) => log[p][i].entry < call[p]

IInv ==
  /\ TypeOK
  /\ CallsInSync
  /\ ChildrenInSync
  /\ StatusInSync
  /\ PhaseInSync
  /\ AwaitingInSync
  /\ Paired
  /\ LogBehind
  /\ OnceInOrder
  /\ EventsExact
  /\ SignalsFaithful
  /\ StoppedUnlessKilled
  /\ NoStranger
  /\ RootTracked
  /\ NoResultYet
  /\ RunSucceeds
  /\ NeverTraceeGone
  /\ OkMeansDrained
=============================================================================
