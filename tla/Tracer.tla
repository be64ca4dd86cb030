------------------------------- MODULE Tracer -------------------------------
(***************************************************************************)
(* crates/loi-core: Tracer::run, its handlers and Drop (tracer.rs), over   *)
(* the per-task state of tracee.rs.  One action is at most one system call *)
(* of the tracer with the code up to the next one, so that the tasks, the  *)
(* signals and SIGKILL of Ptrace interleave with every call it makes.      *)
(***************************************************************************)
EXTENDS Ptrace, Sequences

VARIABLES
  pc,         \* where the tracer is
  status,     \* the WaitStatus being handled
  inject,     \* the signal of the next ptrace::syscall
  tracees,    \* the pids that have an entry in Tracer.tracees
  tracee,     \* ... and the entries
  follow,     \* Tracer.follow_forks
  result,     \* what run returns
  todo,       \* Drop: the pids its loop has left
  log         \* history: the events the sink got, by pid

tracerVars == <<pc, status, inject, tracees, tracee, follow, result, todo, log>>
vars == <<kernelVars, tracerVars>>

\* nr, args and started_at are saved together: here, the call's number.
Entry == [tag |-> "Entry", nr |-> 0]
Exit(nr) == [tag |-> "Exit", nr |-> nr]
Phase == [tag : {"Entry", "Exit"}, nr : Nat]

Tracee == [phase : Phase, awaiting_initial_sigstop : BOOLEAN,
           skip_next_syscall_stop : BOOLEAN]

\* Mutant: the first exit-stop is taken for an entry-stop.
new_root_no_skip == [phase |-> Entry, awaiting_initial_sigstop |-> FALSE,
                     skip_next_syscall_stop |-> FALSE]

new_root == [phase |-> Entry, awaiting_initial_sigstop |-> FALSE,
             skip_next_syscall_stop |-> TRUE]

new_child == [phase |-> Entry, awaiting_initial_sigstop |-> TRUE,
              skip_next_syscall_stop |-> FALSE]

\* The fields of SyscallEvent that say which call it is about: name and args
\* were saved at the entry-stop, ret is read at the exit-stop.
Event == [entry : Nat, exit : Nat]

\* PtraceSyscall is one status for the two syscall-stops; Stopped(_, SIGSTOP)
\* is one status for the attach, a signal delivery and a group-stop.
StatusKinds == {"PtraceSyscall", "ForkEvent", "ExecEvent", "Stopped", "Exited"}
Status == [pid : Pid, kind : StatusKinds, sig : AllSignals \cup {NoSignal}]

WaitStatus(p) ==
  [pid |-> p,
   kind |-> CASE at[p] \in {"enter", "exit"} -> "PtraceSyscall"
              [] at[p] = "fork" -> "ForkEvent"
              [] at[p] = "exec" -> "ExecEvent"
              [] at[p] \in {"attach", "signal", "group"} -> "Stopped"
              [] OTHER -> "Exited",
   sig |-> IF at[p] = "signal" THEN sig[p]
           ELSE IF at[p] \in {"attach", "group"} THEN "SIGSTOP" ELSE NoSignal]

\* nix's Signal has no real-time signals: the waitpid that would report the
\* delivery of one takes the report and fails with EINVAL.
NixSignals == AllSignals \ {"SIGRTMIN"}
UnknownSignal(p) == sig[p] \notin NixSignals \cup {NoSignal}
Decodable(p) == ~(at[p] = "signal" /\ UnknownSignal(p))

PCs == {"start", "wait", "handle", "resume", "drop", "dropwait", "done"}
\* Error::Ptrace is that of a request, ESRCH, or of a waitpid, EINVAL.
Results == {"none", "Ok", "Ptrace", "Einval", "TraceeGone"}

TypeOK ==
  /\ KernelTypeOK
  /\ pc \in PCs
  /\ status \in Status
  /\ inject \in AllSignals \cup {NoSignal}
  /\ tracees \in SUBSET Pid
  /\ tracee \in [Pid -> Tracee]
  /\ follow \in BOOLEAN
  /\ result \in Results
  /\ todo \in SUBSET Pid
  /\ log \in [Pid -> Seq(Event)]

\* What finish_parent hands over, and with_follow_forks.
TracerInit ==
  /\ pc = "start"
  /\ status = [pid |-> Root, kind |-> "ExecEvent", sig |-> NoSignal]
  /\ inject = NoSignal
  /\ tracees = {Root}
  /\ tracee = [p \in Pid |-> IF p = Root THEN new_root ELSE new_child]
  /\ follow \in BOOLEAN
  /\ result = "none"
  /\ todo = {}
  /\ log = [p \in Pid |-> <<>>]

Init == KernelInit /\ TracerInit

-----------------------------------------------------------------------------
(* run                                                                     *)

\* run returns r, and self is dropped.
Return(r) ==
  /\ pc' = "drop"
  /\ result' = r
  /\ todo' = tracees'

\* Mutant: insert in the place of or_insert_with.
or_insert_anew(p) == new_child

\* `entry(p).or_insert_with(Tracee::new_child)`
or_insert(p) == IF p \in tracees THEN tracee[p] ELSE new_child

\* The entry of p becomes t.
Store(p, t) ==
  /\ tracees' = tracees \cup {p}
  /\ tracee' = [tracee EXCEPT ![p] = t]

\* ptrace::syscall(pid, inject)?: the last call of every handler, and the
\* first of run.  ESRCH when the task was killed in the meantime.
Resume ==
  /\ pc \in {"start", "resume"}
  /\ PtraceSyscall(status.pid, inject)
  /\ pc' = "wait"
  /\ UNCHANGED <<status, inject, tracees, tracee, follow, result, todo, log>>

ResumeFails ==
  /\ pc \in {"start", "resume"} /\ ~Stopped(status.pid)
  /\ UNCHANGED tracees
  /\ Return("Ptrace")
  /\ UNCHANGED <<kernelVars, status, inject, tracee, follow, log>>

Finish ==
  /\ pc = "wait" /\ tracees = {}
  /\ UNCHANGED tracees
  /\ Return("Ok")
  /\ UNCHANGED <<kernelVars, status, inject, tracee, follow, log>>

\* waitpid(None): any task with something to report.
Wait(p) ==
  /\ pc = "wait" /\ tracees # {}
  /\ Report(p) /\ Decodable(p)
  /\ status' = WaitStatus(p)
  /\ inject' = NoSignal
  /\ pc' = "handle"
  /\ UNCHANGED <<tracees, tracee, follow, result, todo, log>>

WaitUnknown(p) ==
  /\ pc = "wait" /\ tracees # {}
  /\ Report(p) /\ ~Decodable(p)
  /\ UNCHANGED tracees
  /\ Return("Einval")
  /\ UNCHANGED <<status, inject, tracee, follow, log>>

\* Mutant: ECHILD is always a lost root.
EchildResult_always_gone == "TraceeGone"

\* What run returns when waitpid says ECHILD.
EchildResult == IF Root \in tracees THEN "TraceeGone" ELSE "Ok"

\* Mutant: ECHILD is retried like EINTR.
WaitEchild_retried ==
  /\ pc = "wait" /\ tracees # {}
  /\ \A p \in Pid : ~Waitable(p)
  /\ UNCHANGED vars

WaitEchild ==
  /\ pc = "wait" /\ tracees # {}
  /\ \A p \in Pid : ~Waitable(p)
  /\ UNCHANGED tracees
  /\ Return(EchildResult)
  /\ UNCHANGED <<kernelVars, status, inject, tracee, follow, log>>

\* Mutants: a dead task stays in the table; the loop ends with the root.
Removed_never(p) == tracees
Removed_all_with_root(p) == IF p = Root THEN {} ELSE tracees \ {p}

\* handle_status, Exited and Signaled: forget the pid.
Removed(p) == tracees \ {p}

HandleExited ==
  /\ pc = "handle" /\ status.kind = "Exited"
  /\ tracees' = Removed(status.pid)
  /\ pc' = "wait"
  /\ UNCHANGED <<kernelVars, status, inject, tracee, follow, result, todo, log>>

-----------------------------------------------------------------------------
(* handle_syscall_stop                                                     *)

\* Mutants: the number is read through the signed cast of the result register;
\* the phase is left as it was; every tracee is reported.
AfterEntry_signed(t, nr) == [t EXCEPT !.phase = Exit(0 - nr)]
AfterExit_same_phase(t) == t
Reported_all(p) == TRUE

\* The entry once the owed stop is skipped, the registers of an entry-stop
\* are read, those of an exit-stop are read.
Skipped(t) == [t EXCEPT !.skip_next_syscall_stop = FALSE]
AfterEntry(t, nr) == [t EXCEPT !.phase = Exit(nr)]
AfterExit(t) == [t EXCEPT !.phase = Entry]

\* Whose events reach the sink.
Reported(p) == p = Root \/ follow

InSyscallStop == pc = "handle" /\ status.kind = "PtraceSyscall"

SyscallStopSkipped ==
  LET p == status.pid  t == or_insert(p) IN
  /\ InSyscallStop /\ t.skip_next_syscall_stop
  /\ Store(p, Skipped(t))
  /\ pc' = "resume"
  /\ UNCHANGED <<kernelVars, status, inject, follow, result, todo, log>>

SyscallEntry ==
  LET p == status.pid  t == or_insert(p) IN
  /\ InSyscallStop /\ ~t.skip_next_syscall_stop /\ t.phase.tag = "Entry"
  /\ Stopped(p)
  /\ Store(p, AfterEntry(t, call[p]))
  /\ pc' = "resume"
  /\ UNCHANGED <<kernelVars, status, inject, follow, result, todo, log>>

SyscallExit ==
  LET p == status.pid  t == or_insert(p) IN
  /\ InSyscallStop /\ ~t.skip_next_syscall_stop /\ t.phase.tag = "Exit"
  /\ Stopped(p)
  /\ Store(p, AfterExit(t))
  /\ log' = IF Reported(p)
            THEN [log EXCEPT ![p] =
                    Append(@, [entry |-> t.phase.nr, exit |-> call[p]])]
            ELSE log
  /\ pc' = "resume"
  /\ UNCHANGED <<kernelVars, status, inject, follow, result, todo>>

\* ptrace::getregs(pid)? in regs.rs fails: the task was killed.
GetregsFails ==
  LET p == status.pid  t == or_insert(p) IN
  /\ InSyscallStop /\ ~t.skip_next_syscall_stop
  /\ ~Stopped(p)
  /\ Store(p, t)
  /\ Return("Ptrace")
  /\ UNCHANGED <<kernelVars, status, inject, follow, log>>

-----------------------------------------------------------------------------
(* handle_event                                                            *)

ForkStop ==
  LET c == child[status.pid] IN
  /\ pc = "handle" /\ status.kind = "ForkEvent"
  /\ Stopped(status.pid)
  /\ Store(c, or_insert(c))
  /\ pc' = "resume"
  /\ UNCHANGED <<kernelVars, status, inject, follow, result, todo, log>>

GeteventFails ==
  /\ pc = "handle" /\ status.kind = "ForkEvent"
  /\ ~Stopped(status.pid)
  /\ UNCHANGED tracees
  /\ Return("Ptrace")
  /\ UNCHANGED <<kernelVars, status, inject, tracee, follow, log>>

\* Mutant: the exit-stop of the execve is not skipped.
AfterExec_no_skip(t) == [t EXCEPT !.phase = Entry]

AfterExec(t) == [t EXCEPT !.phase = Entry, !.skip_next_syscall_stop = TRUE]

\* `if let Some(tracee) = self.tracees.get_mut(&pid)`
ExecStop ==
  LET p == status.pid IN
  /\ pc = "handle" /\ status.kind = "ExecEvent"
  /\ tracee' = IF p \in tracees
               THEN [tracee EXCEPT ![p] = AfterExec(@)] ELSE tracee
  /\ pc' = "resume"
  /\ UNCHANGED <<kernelVars, status, inject, tracees, follow, result, todo, log>>

-----------------------------------------------------------------------------
(* handle_signal                                                           *)

\* Mutants: every SIGSTOP is taken for the automatic one; the flag stays set.
Swallows_every_stop(t, s) == s = "SIGSTOP"
AfterSwallow_still_awaiting(t) == t

\* The automatic SIGSTOP of a new child.
Swallows(t, s) == t.awaiting_initial_sigstop /\ s = "SIGSTOP"

AfterSwallow(t) == [t EXCEPT !.awaiting_initial_sigstop = FALSE]

SignalStopped ==
  LET p == status.pid  t == or_insert(p)  swallow == Swallows(t, status.sig) IN
  /\ pc = "handle" /\ status.kind = "Stopped"
  /\ Store(p, IF swallow THEN AfterSwallow(t) ELSE t)
  /\ inject' = IF swallow THEN NoSignal ELSE status.sig
  /\ pc' = "resume"
  /\ UNCHANGED <<kernelVars, status, follow, result, todo, log>>

-----------------------------------------------------------------------------
(* Drop: the keys in any order.                                            *)

Detach(p) ==
  /\ pc = "drop" /\ p \in todo
  /\ IF Stopped(p) THEN PtraceDetach(p) ELSE UNCHANGED kernelVars
  /\ todo' = todo \ {p}
  /\ status' = [status EXCEPT !.pid = p]
  /\ pc' = "dropwait"
  /\ UNCHANGED <<inject, tracees, tracee, follow, result, log>>

\* waitpid(pid): it returns for any report of that task, and for ECHILD.
DropWait ==
  LET p == status.pid IN
  /\ pc = "dropwait"
  /\ \/ Report(p)
     \/ ~Waitable(p) /\ UNCHANGED kernelVars
  /\ pc' = "drop"
  /\ UNCHANGED <<status, inject, tracees, tracee, follow, result, todo, log>>

Dropped ==
  /\ pc = "drop" /\ todo = {}
  /\ pc' = "done"
  /\ UNCHANGED <<kernelVars, status, inject, tracees, tracee, follow, result,
                 todo, log>>

-----------------------------------------------------------------------------

Handle ==
  \/ HandleExited
  \/ SyscallStopSkipped \/ SyscallEntry \/ SyscallExit \/ GetregsFails
  \/ ForkStop \/ GeteventFails \/ ExecStop
  \/ SignalStopped

TracerStep ==
  \/ Resume \/ ResumeFails \/ Finish \/ WaitEchild
  \/ \E p \in Pid : Wait(p) \/ WaitUnknown(p)
  \/ Handle
  \/ \E p \in Pid : Detach(p)
  \/ DropWait \/ Dropped

Task(p) == TaskStep(p) /\ UNCHANGED tracerVars

Environment(p) == (SendSignal(p) \/ Kill(p)) /\ UNCHANGED tracerVars

\* The run is over: what its tasks still do is not the tracer's business.
Over == pc = "done" /\ UNCHANGED vars

Next ==
  \/ TracerStep
  \/ \E p \in Pid : Task(p) \/ Environment(p)
  \/ Over

Spec == Init /\ [][Next]_vars

\* The scheduler runs the tracer and every task that can run.
Fairness == WF_vars(TracerStep) /\ \A p \in Pid : WF_vars(Task(p))

FairSpec == Spec /\ Fairness

-----------------------------------------------------------------------------
(* What the tracer's state says of the tasks, while run is running.        *)

Running == pc \in {"start", "wait", "handle", "resume"}

\* The stop the tracer last waited for is served, up to the restart.
Served(p) == pc \in {"start", "resume"} /\ status.pid = p

\* Task p is inside a call whose exit-stop the tracer still has to serve.
InCall(p) ==
  \/ at[p] \in {"kernel", "fork", "exec"}
  \/ at[p] = "enter" /\ Served(p)
  \/ at[p] = "exit" /\ ~Served(p)

\* ... and that call is past its PTRACE_EVENT_EXEC.
PastExec(p) == call[p] \in execs[p] /\ (at[p] = "exec" => Served(p))

\* The phase and the skip flag of a tracee always say which stop of which
\* call comes next: inside a call the phase holds the number of that very
\* call, after an exec the exit-stop is the one to skip, and between calls
\* the next stop is an entry (Phase and skip_next_syscall_stop, tracee.rs).
PhaseInSync ==
  Running => \A p \in tracees : at[p] \in Live =>
    /\ tracee[p].skip_next_syscall_stop <=> (InCall(p) /\ PastExec(p))
    /\ tracee[p].phase = IF InCall(p) /\ ~PastExec(p) THEN Exit(call[p]) ELSE Entry

\* The SIGSTOP of the attach is still to come, or to be served.
AttachPending(p) == attach[p] \/ (at[p] = "attach" /\ ~Served(p))

\* The tracer waits for the SIGSTOP of the attach exactly as long as the task
\* has not been resumed from it, whichever of EVENT_FORK and that SIGSTOP
\* came first; a task it has no entry for is one that is not past it.
AwaitingInSync ==
  Running => \A p \in Pid : at[p] \in Live =>
    /\ p \in tracees => (tracee[p].awaiting_initial_sigstop <=> AttachPending(p))
    /\ p \notin tracees => AttachPending(p)

-----------------------------------------------------------------------------
(* Safety                                                                  *)

\* An event is made of the two halves of one call: the arguments saved at an
\* entry-stop are never joined with the result of another call, whatever
\* forks, execs, signals and kills come in between (handle_syscall_stop).
Paired ==
  \A p \in Pid : \A i \in DOMAIN log[p] : log[p][i].entry = log[p][i].exit

\* No call is reported twice, or behind a later one, kills or not (run: "exactly
\* once per completed syscall").
InOrder(p) ==
  \A i, j \in DOMAIN log[p] : i < j => log[p][i].entry < log[p][j].entry
OnceInOrder == \A p \in Pid : InOrder(p)

\* The calls of p whose exit-stop was served are 1 .. Done(p).
Done(p) ==
  IF InCall(p) \/ at[p] = "enter" \/ doing[p] = "exit" THEN call[p] - 1 ELSE call[p]

\* The sink got every finished call of a monitored task once and in order,
\* successful execves aside, and nothing of a task that is not monitored
\* (run: "exactly once per completed syscall"; with_follow_forks).
Owed(p) == {n \in 1 .. Done(p) : n \notin execs[p]}
EventsExact ==
  Running /\ kills = 0 => \A p \in Pid :
    /\ InOrder(p)
    /\ {log[p][i] : i \in DOMAIN log[p]} =
         IF p = Root \/ follow THEN {[entry |-> n, exit |-> n] : n \in Owed(p)} ELSE {}

\* A signal somebody sent is passed on when its delivery is reported, and the
\* SIGSTOP of the attach is not: the child would stop for good, or lose a
\* genuine SIGSTOP in its place (handle_signal, awaiting_initial_sigstop).
SignalsFaithful ==
  pc = "resume" /\ Stopped(status.pid) =>
    inject = IF at[status.pid] = "signal" THEN sig[status.pid]
             ELSE IF at[status.pid] = "group" THEN "SIGSTOP" ELSE NoSignal

\* When nobody sends SIGKILL, run fails for one reason only, a real-time signal
\* on its way to a tracee: no request of the tracer comes when its task is not
\* in a stop, and ECHILD never finds the root tracked (Errors of run).
RunSucceeds ==
  kills = 0 /\ result \notin {"none", "Ok"} =>
    result = "Einval" /\ \E p \in Pid : UnknownSignal(p) /\ at[p] \in {"signal", "zombie", "gone"}

\* run never reports TraceeGone, even with kills: a root that died was waited
\* for, and forgotten, before waitpid can say ECHILD.
NeverTraceeGone == result # "TraceeGone"

\* When nobody sends SIGKILL, run returns Ok only once no task is left: none is
\* ever alive and unknown to the tracer when its table is empty ("until every
\* traced process has exited").
OkMeansDrained ==
  kills = 0 /\ result = "Ok" => \A p \in Pid : at[p] \in {"none", "gone"}

\* Where a task is in its calls, for who only sees the events.
Passed(p) == IF call[p] \in execs[p] THEN "replaced" ELSE "returned"
PlaceOf(p) ==
  CASE at[p] = "none" -> "none"
    [] at[p] \in {"user", "attach", "signal", "group"} -> "between"
    [] at[p] \in {"enter", "kernel", "fork", "exec"} ->
         IF call[p] \in execs[p] THEN "replaced" ELSE "inside"
    [] at[p] = "exit" -> IF Served(p) THEN "between" ELSE Passed(p)
    [] at[p] = "free" -> "left"
    [] OTHER -> "dead"

\* To its caller run is a SyscallTrace: every stop, request and wait status is a
\* step of one call of one task, or none.
Promise == INSTANCE SyscallTrace
  WITH Tasks <- Pid, First <- Root, monitored <- {p \in Pid : Reported(p)},
       place <- [p \in Pid |-> PlaceOf(p)], made <- call, reported <- log,
       killed <- (kills > 0),
       verdict <- IF result \in {"none", "Ok"} THEN result ELSE "failed"

KeepsTrace == Promise!TraceSpec

-----------------------------------------------------------------------------
(* What the comments of the code say and the code does not do.             *)

\* tracer.rs:116 "`sink` is invoked exactly once per completed syscall (entry +
\* exit pair) for the root tracee": every call of the root whose exit-stop was
\* served is in the log, a successful execve like any other.
EveryCallReported ==
  Running /\ kills = 0 =>
    \A n \in 1 .. Done(Root) : \E i \in DOMAIN log[Root] : log[Root][i].entry = n

\* tracee.rs:38 "subsequent `Stopped(_, SIGSTOP)` stops are real signal
\* deliveries and are passed through": what is passed through was delivered.
PassedThroughIsDelivery ==
  pc = "resume" /\ inject = "SIGSTOP" => at[status.pid] \in {"signal", "zombie"}

\* tracer.rs:114 "Run the main wait loop until every traced process has exited."
EveryTaskExited ==
  result = "Ok" => \A p \in Pid : at[p] \in {"none", "gone"}

\* tracer.rs:122 "On failure [`Drop`] best-effort detaches any remaining tracees
\* with `SIGKILL`": Drop comes to an end, and then none of them is a tracee.
DropDetaches ==
  pc = "drop" ~> pc = "done" /\ \A p \in tracees : at[p] \notin Live

-----------------------------------------------------------------------------
(* What a step may never do                                                *)

\* Serving one task never alters the entry of another one that is tracked,
\* however late the EVENT_FORK that names it (handle_event, or_insert_with).
OthersUntouched ==
  [][\A p \in tracees \cap tracees' : p # status.pid => tracee'[p] = tracee[p]]_vars

-----------------------------------------------------------------------------
(* Liveness                                                                *)

\* No task is left in a stop: each is restarted (or dies), unless run gave up.
StopsServed == \A p \in Pid : Stopped(p) ~> ~Stopped(p) \/ result = "Einval"

\* run returns, and self is dropped; after a failure Drop may hang (DropDetaches).
RunReturns == <>(pc = "done" \/ result = "Einval")

=============================================================================
