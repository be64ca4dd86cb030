------------------------------- MODULE Spawn -------------------------------
(***************************************************************************)
(* crates/loi-core: Tracer::spawn (tracer.rs).  The parent and the forked  *)
(* child run side by side; they meet at the child's stops and exit, which  *)
(* the parent waits for, and at the CLOEXEC pipe that carries the errno of *)
(* a child that could not become the traced command.  Others may send each *)
(* signal once, and SIGKILL.                                               *)
(***************************************************************************)
EXTENDS Naturals

CONSTANTS
  Signals,    \* the signals others may send to the child
  MaxKill     \* bound: SIGKILLs

AllSignals == {"SIGSTOP", "SIGTERM", "SIGTRAP"}

ASSUME SpawnAssumption == Signals \subseteq AllSignals /\ MaxKill \in Nat

VARIABLES
  pc,         \* where the parent is
  command,    \* what the user gave: a good argv, an empty one, one with a NUL
  result,     \* what spawn returns ...
  reason,     \* ... and the errno inside Error::Exec
  filled,     \* read_full: the bytes read so far
  at,         \* the child: running, in a stop, dead
  cpc,        \* where the child's code is
  traced,     \* traceme succeeded
  options,    \* the options set on the child
  stopsig,    \* the signal of the child's signal-delivery-stop
  errno,      \* the errno the child failed with
  pipe,       \* the bytes in the pipe
  writers,    \* who has the write end open
  pending,    \* signals sent and not yet taken
  sent,       \* history: the signals sent
  kills       \* SIGKILLs so far

parentVars == <<pc, command, result, reason, filled>>
childVars == <<cpc, traced, errno>>
kernelVars == <<at, options, stopsig, pending>>
noiseVars == <<sent, kills>>
vars == <<parentVars, childVars, kernelVars, pipe, writers, noiseVars>>

PTRACE_OPTIONS == {"TRACESYSGOOD", "TRACEFORK", "TRACEVFORK", "TRACECLONE",
                   "TRACEEXEC", "EXITKILL"}
NoErrno == "none"
Errnos == {"of_traceme", "of_raise", "of_execvp"}
Commands == {"good", "empty", "nul"}
PCs == {"start", "fork", "drop", "wait1", "setoptions", "cont", "wait2", "read",
        "done"}
Results == {"none", "Ok", "InvalidCommand", "Nul", "Ptrace", "Exec", "TraceeGone"}

\* "stop" is a signal-delivery-stop, "jobstop" a stop without a tracer to ask,
\* "event" PTRACE_EVENT_EXEC, "gone" a death that was waited for.
Places == {"none", "running", "stop", "jobstop", "event", "zombie", "gone"}
Alive == {"running", "stop", "jobstop", "event"}
ChildPCs == {"traceme", "raise", "raising", "execvp", "report", "exit", "command"}

\* The size of an Errno payload, and the most read_full asks for.
PayloadLen == 4

TypeOK ==
  /\ pc \in PCs /\ command \in Commands /\ result \in Results
  /\ reason \in Errnos \cup {NoErrno}
  /\ filled \in 0 .. PayloadLen
  /\ at \in Places /\ cpc \in ChildPCs
  /\ traced \in BOOLEAN /\ options \subseteq PTRACE_OPTIONS
  /\ stopsig \in AllSignals
  /\ errno \in Errnos \cup {NoErrno}
  /\ pipe \in 0 .. PayloadLen
  /\ writers \in SUBSET {"parent", "child"}
  /\ pending \in SUBSET AllSignals /\ sent \in SUBSET AllSignals
  /\ kills \in Nat

Init ==
  /\ pc = "start" /\ command \in Commands
  /\ result = "none" /\ reason = NoErrno /\ filled = 0
  /\ at = "none" /\ cpc = "traceme" /\ traced = FALSE
  /\ options = {} /\ stopsig = "SIGSTOP" /\ errno = NoErrno
  /\ pipe = 0 /\ writers = {}
  /\ pending = {} /\ sent = {} /\ kills = 0

-----------------------------------------------------------------------------
(* The parent: spawn, finish_parent, read_exec_errno.                      *)

\* spawn returns.
Return(r) ==
  /\ pc' = "done"
  /\ result' = r
  /\ UNCHANGED <<command, reason, filled>>

\* The checks before the fork; pipe2 or fork may fail.
CheckCommand ==
  /\ pc = "start"
  /\ CASE command = "empty" -> Return("InvalidCommand")
       [] command = "nul" -> Return("Nul")
       [] OTHER -> pc' = "fork" /\ UNCHANGED <<command, result, reason, filled>>
  /\ UNCHANGED <<childVars, kernelVars, pipe, writers, noiseVars>>

PipeOrForkFails ==
  /\ pc = "fork"
  /\ Return("Ptrace")
  /\ UNCHANGED <<childVars, kernelVars, pipe, writers, noiseVars>>

Fork ==
  /\ pc = "fork"
  /\ pc' = "drop"
  /\ at' = "running"
  /\ writers' = {"parent", "child"}
  /\ UNCHANGED <<command, result, reason, filled, childVars, options, stopsig,
                 pending, pipe, noiseVars>>

\* Mutant: the parent keeps its write end.
DropWriteEnd_kept ==
  /\ pc = "drop"
  /\ pc' = "wait1"
  /\ UNCHANGED <<command, result, reason, filled, childVars, kernelVars, pipe,
                 writers, noiseVars>>

\* `drop(write_end)`: without it the pipe would never come to its end.
DropWriteEnd ==
  /\ pc = "drop"
  /\ pc' = "wait1"
  /\ writers' = writers \ {"parent"}
  /\ UNCHANGED <<command, result, reason, filled, childVars, kernelVars, pipe,
                 noiseVars>>

\* waitpid(child) finds it dead, and reaps it: Exited and Signaled.
Reap ==
  /\ pc \in {"wait1", "wait2"} /\ at = "zombie"
  /\ at' = "gone"
  /\ pc' = "read"
  /\ UNCHANGED <<command, result, reason, filled, childVars, options, stopsig,
                 pending, pipe, writers, noiseVars>>

\* The first waitpid: the child's own SIGSTOP, or any other stop.
FirstStop ==
  /\ pc = "wait1" /\ at = "stop"
  /\ IF stopsig = "SIGSTOP"
     THEN pc' = "setoptions" /\ UNCHANGED <<command, result, reason, filled>>
     ELSE Return("TraceeGone")
  /\ UNCHANGED <<childVars, kernelVars, pipe, writers, noiseVars>>

SetOptions ==
  /\ pc = "setoptions" /\ at = "stop"
  /\ pc' = "cont"
  /\ options' = PTRACE_OPTIONS
  /\ UNCHANGED <<command, result, reason, filled, childVars, at, stopsig,
                 pending, pipe, writers, noiseVars>>

\* Mutant: PTRACE_CONT hands the SIGSTOP on, and a group-stop follows.
AfterCont_injects == "stop"

\* PTRACE_CONT without a signal: the SIGSTOP is dropped.
AfterCont == "running"

Cont ==
  /\ pc = "cont" /\ at = "stop"
  /\ pc' = "wait2"
  /\ at' = AfterCont
  /\ UNCHANGED <<command, result, reason, filled, childVars, options, stopsig,
                 pending, pipe, writers, noiseVars>>

\* ESRCH: the child was killed in its stop.
RequestFails ==
  /\ pc \in {"setoptions", "cont"} /\ at # "stop"
  /\ Return("Ptrace")
  /\ UNCHANGED <<childVars, kernelVars, pipe, writers, noiseVars>>

\* Mutant: any stop is taken for the one of the exec.
ExecStatus_any == at \in {"event", "stop"}

\* The statuses of the second waitpid that are taken for a successful exec.
ExecStatus == at = "event" \/ (at = "stop" /\ stopsig = "SIGTRAP")

SecondStop ==
  /\ pc = "wait2" /\ at \in {"event", "stop"}
  /\ Return(IF ExecStatus THEN "Ok" ELSE "TraceeGone")
  /\ UNCHANGED <<childVars, kernelVars, pipe, writers, noiseVars>>

\* One read of read_full.
Read ==
  /\ pc = "read" /\ filled < PayloadLen
  /\ \E n \in 1 .. pipe :
       /\ n <= PayloadLen - filled
       /\ filled' = filled + n
       /\ pipe' = pipe - n
  /\ UNCHANGED <<pc, command, result, reason, childVars, kernelVars, writers,
                 noiseVars>>

\* Mutant: a short read is an errno as well.
ExecError_short(n) == "Exec"

\* read_exec_errno: a whole payload is an errno.
ExecError(n) == IF n = PayloadLen THEN "Exec" ELSE "TraceeGone"

\* Mutant: the end of the pipe is retried.
ReadErrno_no_end ==
  /\ pc = "read"
  /\ filled = PayloadLen
  /\ pc' = "done"
  /\ result' = ExecError(filled)
  /\ reason' = errno
  /\ UNCHANGED <<command, filled, childVars, kernelVars, pipe, writers, noiseVars>>

\* The buffer is full, or the pipe is at its end: empty, with no writer.
ReadErrno ==
  /\ pc = "read"
  /\ filled = PayloadLen \/ (pipe = 0 /\ writers = {})
  /\ pc' = "done"
  /\ result' = ExecError(filled)
  /\ reason' = IF result' = "Exec" THEN errno ELSE NoErrno
  /\ UNCHANGED <<command, filled, childVars, kernelVars, pipe, writers, noiseVars>>

Parent ==
  \/ CheckCommand \/ PipeOrForkFails \/ Fork \/ DropWriteEnd \/ Reap
  \/ FirstStop \/ SetOptions \/ Cont \/ RequestFails \/ SecondStop
  \/ Read \/ ReadErrno

-----------------------------------------------------------------------------
(* The child: run_child, try_child, write_all.                             *)

\* A call of try_child fails: its errno is what is to be reported.
Fails(e) ==
  /\ errno' = e
  /\ cpc' = "report"

Traceme ==
  /\ at = "running" /\ cpc = "traceme"
  /\ \/ traced' = TRUE /\ cpc' = "raise" /\ UNCHANGED errno
     \/ Fails("of_traceme") /\ UNCHANGED traced
  /\ UNCHANGED <<parentVars, kernelVars, pipe, writers, noiseVars>>

Raise ==
  /\ at = "running" /\ cpc = "raise"
  /\ \/ cpc' = "raising" /\ UNCHANGED errno
     \/ Fails("of_raise")
  /\ UNCHANGED <<parentVars, traced, kernelVars, pipe, writers, noiseVars>>

\* execvp succeeds: the command's image, without the write end (O_CLOEXEC).
\* Its stop is an event with TRACEEXEC, and a SIGTRAP without.
Execvp ==
  /\ at = "running" /\ cpc = "execvp"
  /\ cpc' = "command"
  /\ IF "TRACEEXEC" \in options
     THEN at' = "event" /\ UNCHANGED stopsig
     ELSE at' = "stop" /\ stopsig' = "SIGTRAP"
  /\ writers' = writers \ {"child"}
  /\ UNCHANGED <<parentVars, traced, errno, options, pending, pipe, noiseVars>>

ExecvpFails ==
  /\ at = "running" /\ cpc = "execvp"
  /\ Fails("of_execvp")
  /\ UNCHANGED <<parentVars, traced, kernelVars, pipe, writers, noiseVars>>

\* Mutant: write_all starts over after a write.
Written_twice == 2 * PayloadLen

\* write_all: four bytes are one write, and a pipe takes them at once.
Written == PayloadLen

\* A parent that is done has closed the read end: the error is ignored.
Report ==
  /\ at = "running" /\ cpc = "report"
  /\ cpc' = "exit"
  /\ pipe' = IF pc = "done" THEN pipe ELSE Written
  /\ UNCHANGED <<parentVars, traced, errno, kernelVars, writers, noiseVars>>

\* The child dies, and with it its end of the pipe.
Dies ==
  /\ at' = "zombie"
  /\ writers' = writers \ {"child"}

ExitChild ==
  /\ at = "running" /\ cpc = "exit"
  /\ Dies
  /\ UNCHANGED <<parentVars, childVars, options, stopsig, pending, pipe, noiseVars>>

\* The SIGSTOP of raise stops a traced child for its tracer.
OwnStop ==
  /\ at = "running" /\ cpc = "raising"
  /\ cpc' = "execvp"
  /\ at' = "stop" /\ stopsig' = "SIGSTOP"
  /\ UNCHANGED <<parentVars, traced, errno, options, pending, pipe, writers,
                 noiseVars>>

\* A signal of somebody else: a stop if the child is traced, else its action.
TakeSignal ==
  /\ at = "running"
  /\ \E s \in pending :
       /\ pending' = pending \ {s}
       /\ CASE traced -> at' = "stop" /\ stopsig' = s /\ UNCHANGED writers
            [] ~traced /\ s = "SIGSTOP" ->
                 at' = "jobstop" /\ UNCHANGED <<stopsig, writers>>
            [] OTHER -> Dies /\ UNCHANGED stopsig
  /\ UNCHANGED <<parentVars, childVars, options, pipe, noiseVars>>

Child ==
  \/ Traceme \/ Raise \/ Execvp \/ ExecvpFails \/ Report \/ ExitChild
  \/ OwnStop \/ TakeSignal

-----------------------------------------------------------------------------
(* Others.                                                                 *)

SendSignal ==
  /\ at \in Alive
  /\ \E s \in Signals \ sent :
       /\ sent' = sent \cup {s}
       /\ pending' = pending \cup {s}
  /\ UNCHANGED <<parentVars, childVars, at, options, stopsig, pipe, writers, kills>>

Kill ==
  /\ at \in Alive /\ kills < MaxKill
  /\ Dies
  /\ kills' = kills + 1
  /\ UNCHANGED <<parentVars, childVars, options, stopsig, pending, pipe, sent>>

\* spawn has returned, and the child is where it stays.
Over == pc = "done" /\ UNCHANGED vars

Next == Parent \/ Child \/ SendSignal \/ Kill \/ Over

Spec == Init /\ [][Next]_vars

\* The scheduler runs both processes.
FairSpec == Spec /\ WF_vars(Parent) /\ WF_vars(Child)

-----------------------------------------------------------------------------
(* Safety                                                                  *)

\* Nobody interfered with the child.
Quiet == sent = {} /\ kills = 0

\* Ok is returned only with the root in the EVENT_EXEC stop that run starts
\* from, with its options set and the pipe closed on both sides, unless it was
\* killed there.  Somebody's SIGTRAP may be taken for that stop; the child is
\* traced with every option then too (spawn; TracerInit of Tracer).
OkAtExec ==
  result = "Ok" =>
    /\ traced /\ options = PTRACE_OPTIONS
    /\ "SIGTRAP" \notin sent =>
         /\ at = "event" \/ (kills > 0 /\ at = "zombie")
         /\ cpc = "command" /\ writers = {}

\* Error::Exec carries the errno the child failed with, never a made-up one,
\* and that child is dead and reaped (read_exec_errno).
ExecErrnoTrue ==
  result = "Exec" => errno # NoErrno /\ reason = errno /\ at = "gone"

\* When nobody interferes, what spawn returns is what happened: Ok exactly for
\* a command that runs, Exec exactly for a child that failed, and no error
\* after the fork leaves a child behind (spawn, its Errors).
ResultExact ==
  pc = "done" /\ Quiet =>
    /\ result = "Ok" <=> at = "event"
    /\ result = "Exec" <=> errno # NoErrno
    /\ result # "TraceeGone"
    /\ result \notin {"Ok", "Exec"} => at = "none"

\* The read of the errno cannot block: by then every write end is closed
\* (drop(write_end), and the child is dead).
ReadNeverBlocks == pc = "read" => writers = {}

\* tracer.rs:61 "[`Error::TraceeGone`] if the child died before reaching the
\* first post-`execve` ptrace stop without reporting an errno."
GoneMeansDied == result = "TraceeGone" => at \notin Alive

-----------------------------------------------------------------------------
(* Liveness                                                                *)

\* spawn returns, whatever is sent, unless a job-control stop holds the child
\* before it is traced (waitpid is not told of those).
SpawnReturns == <>(pc = "done") \/ <>[](at = "jobstop")

=============================================================================
