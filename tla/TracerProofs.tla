---------------------------- MODULE TracerProofs ----------------------------
(***************************************************************************)
(* Proofs about Tracer for every set of pids, every kind of call and every *)
(* bound.                                                                  *)
(***************************************************************************)
EXTENDS TracerInv, TLAPS

\* The constants are what PtraceAssumption says, and the kernel's variables
\* keep their types in every step of a task and of the environment.
LEMMA KernelTypes ==
  ASSUME KernelTypeOK, NEW p \in Pid,
         TaskStep(p) \/ SendSignal(p) \/ Kill(p)
  PROVE  KernelTypeOK'
<1> USE PtraceAssumption DEF KernelTypeOK, Places, Live, Stops, Stop, Doing,
        AllKinds, AllSignals, NoSignal
<1>1. CASE EnterCall(p)
  BY <1>1 DEF EnterCall
<1>2. CASE CreateChild(p)
  BY <1>2 DEF CreateChild
<1>3. CASE ForkEvent(p)
  BY <1>3 DEF ForkEvent
<1>4. CASE ExecEvent(p)
  BY <1>4 DEF ExecEvent
<1>5. CASE ReturnCall(p)
  BY <1>5 DEF ReturnCall
<1>6. CASE ExitTask(p)
  BY <1>6 DEF ExitTask
<1>7. CASE AttachStop(p)
  BY <1>7 DEF AttachStop
<1>8. CASE SignalStop(p)
  BY <1>8 DEF SignalStop
<1>9. CASE FreeExit(p)
  BY <1>9 DEF FreeExit
<1>10. CASE SendSignal(p)
  BY <1>10 DEF SendSignal
<1>11. CASE Kill(p)
  BY <1>11 DEF Kill
<1> QED
  BY <1>1, <1>2, <1>3, <1>4, <1>5, <1>6, <1>7, <1>8, <1>9, <1>10, <1>11
  DEF TaskStep

\* So do the requests of the tracer.
LEMMA RequestTypes ==
  ASSUME KernelTypeOK, NEW p \in Pid, NEW s \in AllSignals \cup {NoSignal},
         PtraceSyscall(p, s) \/ PtraceDetach(p) \/ Report(p)
  PROVE  KernelTypeOK'
<1> USE DEF KernelTypeOK, Places, Live, Stops, NoSignal
<1>1. CASE PtraceSyscall(p, s)
  <2>1. ResumeTo(p, s) \in Places
    BY DEF ResumeTo
  <2> QED
    BY <1>1, <2>1 DEF PtraceSyscall
<1>2. CASE PtraceDetach(p)
  BY <1>2 DEF PtraceDetach
<1>3. CASE Report(p)
  BY <1>3 DEF Report
<1> QED
  BY <1>1, <1>2, <1>3

\* What the tracer stores is an entry of its table.
LEMMA TraceeTypes ==
  /\ new_root \in Tracee /\ new_child \in Tracee
  /\ \A t \in Tracee : \A n \in Nat :
       /\ Skipped(t) \in Tracee /\ AfterEntry(t, n) \in Tracee
       /\ AfterExit(t) \in Tracee /\ AfterExec(t) \in Tracee
       /\ AfterSwallow(t) \in Tracee
       /\ t.phase \in Phase /\ t.phase.nr \in Nat
BY DEF Tracee, Phase, Entry, Exit, new_root, new_child, Skipped, AfterEntry,
       AfterExit, AfterExec, AfterSwallow

LEMMA InitTypes == Init => TypeOK
BY PtraceAssumption, TraceeTypes
   DEF Init, KernelInit, TracerInit, TypeOK, KernelTypeOK, Places, Live, Stops,
       Doing, AllKinds, AllSignals, NoSignal, PCs, Status, StatusKinds, Results,
       Event

\* Every variable keeps its type.
LEMMA NextTypes ==
  ASSUME TypeOK, [Next]_vars
  PROVE  TypeOK'
<1> USE DEF TypeOK, PCs, Status, StatusKinds, Results, Return, Store, tracerVars
<1>0. status.pid \in Pid /\ status.sig \in AllSignals \cup {NoSignal}
  OBVIOUS
<1>a. \A p \in Pid : or_insert(p) \in Tracee
  BY TraceeTypes DEF or_insert
<1>k. UNCHANGED kernelVars => KernelTypeOK'
  BY DEF kernelVars, KernelTypeOK
<1>1. CASE Resume
  BY <1>1, <1>0, RequestTypes DEF Resume
<1>2. CASE ResumeFails
  BY <1>2, <1>k DEF ResumeFails
<1>3. CASE Finish
  BY <1>3, <1>k DEF Finish
<1>4. CASE WaitEchild
  BY <1>4, <1>k DEF WaitEchild, EchildResult
<1>5. ASSUME NEW p \in Pid, Wait(p)
      PROVE  TypeOK'
  <2>1. WaitStatus(p) \in Status
    BY DEF WaitStatus, KernelTypeOK, AllSignals
  <2>2. KernelTypeOK'
    BY <1>5, RequestTypes DEF Wait, NoSignal
  <2> QED
    BY <1>5, <2>1, <2>2 DEF Wait
<1>6. CASE HandleExited
  BY <1>6, <1>k DEF HandleExited, Removed
<1>7. CASE SyscallStopSkipped
  BY <1>7, <1>k, <1>0, <1>a, TraceeTypes DEF SyscallStopSkipped
<1>8. CASE SyscallEntry
  BY <1>8, <1>k, <1>0, <1>a, TraceeTypes DEF SyscallEntry, KernelTypeOK
<1>9. CASE SyscallExit
  <2> DEFINE p == status.pid
             e == [entry |-> or_insert(p).phase.nr, exit |-> call[p]]
  <2>1. e \in Event
    BY <1>0, <1>a, TraceeTypes DEF KernelTypeOK, Event
  <2>2. log' = log \/ log' = [log EXCEPT ![p] = Append(log[p], e)]
    BY <1>9 DEF SyscallExit
  <2>3. Append(log[p], e) \in Seq(Event)
    BY <2>1, <1>0
  <2>4. log' \in [Pid -> Seq(Event)]
    BY <2>2, <2>3
  <2>5. tracees' \in SUBSET Pid /\ tracee' \in [Pid -> Tracee]
    BY <1>9, <1>0, <1>a, TraceeTypes DEF SyscallExit
  <2> QED
    BY <1>9, <1>k, <2>4, <2>5 DEF SyscallExit
<1>10. CASE GetregsFails
  BY <1>10, <1>k, <1>0, <1>a DEF GetregsFails
<1>11. CASE ForkStop
  <2>1. child[status.pid] \in Pid
    BY <1>0 DEF KernelTypeOK
  <2> QED
    BY <1>11, <1>k, <2>1, <1>a DEF ForkStop
<1>12. CASE GeteventFails
  BY <1>12, <1>k DEF GeteventFails
<1>13. CASE ExecStop
  BY <1>13, <1>k, <1>0, TraceeTypes DEF ExecStop
<1>14. CASE SignalStopped
  BY <1>14, <1>k, <1>0, <1>a, TraceeTypes DEF SignalStopped
<1>15. ASSUME NEW p \in Pid, Detach(p)
       PROVE  TypeOK'
  <2>1. KernelTypeOK'
    BY <1>15, <1>k, RequestTypes DEF Detach, NoSignal
  <2> QED
    BY <1>15, <2>1 DEF Detach
<1>16. CASE DropWait
  <2>1. KernelTypeOK'
    BY <1>16, <1>0, <1>k, RequestTypes DEF DropWait, NoSignal
  <2> QED
    BY <1>16, <2>1 DEF DropWait
<1>17. CASE Dropped
  BY <1>17, <1>k DEF Dropped
<1>18. ASSUME NEW p \in Pid, Task(p) \/ Environment(p)
       PROVE  TypeOK'
  BY <1>18, KernelTypes DEF Task, Environment
<1>19. ASSUME NEW p \in Pid, WaitUnknown(p)
       PROVE  TypeOK'
  <2>1. KernelTypeOK'
    BY <1>19, RequestTypes DEF WaitUnknown, NoSignal
  <2> QED
    BY <1>19, <2>1 DEF WaitUnknown
<1>20. CASE Over \/ UNCHANGED vars
  BY <1>20, <1>k DEF Over, vars
<1> QED
  BY <1>1, <1>2, <1>3, <1>4, <1>5, <1>6, <1>7, <1>8, <1>9, <1>10, <1>11, <1>12,
     <1>13, <1>14, <1>15, <1>16, <1>17, <1>18, <1>19, <1>20
  DEF Next, TracerStep, Handle

-----------------------------------------------------------------------------
(* What a step does to the tasks.                                          *)

\* A step of task p, or of the environment at p, leaves the others alone, but
\* that it may create one of them.
LEMMA TaskEffect ==
  ASSUME KernelTypeOK, NEW p \in Pid,
         TaskStep(p) \/ SendSignal(p) \/ Kill(p),
         NEW q \in Pid, q # p
  PROVE  /\ call'[q] = call[q] /\ doing'[q] = doing[q] /\ child'[q] = child[q]
         /\ execs'[q] = execs[q] /\ sig'[q] = sig[q]
         /\ \/ at'[q] = at[q] /\ attach'[q] = attach[q]
            \/ at[q] = "none" /\ at'[q] = "user" /\ attach'[q]
<1> USE DEF KernelTypeOK, Stop
<1>1. CASE EnterCall(p)
  BY <1>1 DEF EnterCall
<1>2. CASE CreateChild(p)
  BY <1>2, ZenonT(30) DEF CreateChild
<1>3. CASE ForkEvent(p)
  BY <1>3 DEF ForkEvent
<1>4. CASE ExecEvent(p)
  BY <1>4 DEF ExecEvent
<1>5. CASE ReturnCall(p)
  BY <1>5 DEF ReturnCall
<1>6. CASE ExitTask(p)
  BY <1>6 DEF ExitTask
<1>7. CASE AttachStop(p)
  BY <1>7 DEF AttachStop
<1>8. CASE SignalStop(p)
  BY <1>8 DEF SignalStop
<1>9. CASE FreeExit(p)
  BY <1>9 DEF FreeExit
<1>10. CASE SendSignal(p)
  BY <1>10 DEF SendSignal
<1>11. CASE Kill(p)
  BY <1>11 DEF Kill
<1> QED
  BY <1>1, <1>2, <1>3, <1>4, <1>5, <1>6, <1>7, <1>8, <1>9, <1>10, <1>11
  DEF TaskStep

\* A task that the tracer holds in a stop, or that is dead, does nothing by
\* itself; only SIGKILL ends a stop from outside.
LEMMA StoppedStays ==
  ASSUME KernelTypeOK, NEW p \in Pid,
         TaskStep(p) \/ SendSignal(p) \/ Kill(p),
         NEW q \in Pid, at[q] \in Stops \cup {"zombie", "gone"}
  PROVE  /\ sig'[q] = sig[q]
         /\ \/ at'[q] = at[q]
            \/ at[q] \in Stops /\ at'[q] = "zombie" /\ kills' = kills + 1
<1>1. CASE q # p
  BY <1>1, TaskEffect DEF Stops
<1>2. CASE q = p
  <2>1. ~TaskStep(p)
    BY <1>2 DEF TaskStep, EnterCall, CreateChild, ForkEvent, ExecEvent,
         ReturnCall, ExitTask, AttachStop, SignalStop, FreeExit, Stops
  <2>2. CASE SendSignal(p)
    BY <2>2 DEF SendSignal
  <2>3. CASE Kill(p)
    BY <1>2, <2>3 DEF Kill, Live, KernelTypeOK
  <2> QED
    BY <2>1, <2>2, <2>3
<1> QED
  BY <1>1, <1>2

\* A step of the tracer moves a task only out of a stop, or reaps it.
LEMMA RequestEffect ==
  ASSUME TypeOK, TracerStep
  PROVE  /\ UNCHANGED <<call, doing, child, attach, execs, kills>>
         /\ \A q \in Pid :
              \/ at'[q] = at[q]
              \/ at[q] = "zombie" /\ at'[q] = "gone"
              \/ at[q] \in {"enter", "fork", "exec"} /\ at'[q] = "kernel"
              \/ at[q] \in Stops \ {"enter"} /\ at'[q] \in {"user", "group", "free"}
              \/ at[q] \in Stops /\ at'[q] \in {"zombie", "gone"}
<1> USE DEF TypeOK, KernelTypeOK
<1>1. CASE Resume
  BY <1>1 DEF Resume, PtraceSyscall, ResumeTo, Stopped, Stops, Status
<1>2. ASSUME NEW p \in Pid, Report(p)
      PROVE  /\ UNCHANGED <<call, doing, child, attach, execs, kills>>
             /\ \A q \in Pid :
                  at'[q] = at[q] \/ (at[q] = "zombie" /\ at'[q] = "gone")
  BY <1>2 DEF Report
<1>3. ASSUME NEW p \in Pid, Wait(p) \/ WaitUnknown(p)
      PROVE  Report(p)
  BY <1>3 DEF Wait, WaitUnknown
<1>4. CASE DropWait
  BY <1>4, <1>2 DEF DropWait, Status, kernelVars
<1>5. ASSUME NEW p \in Pid, Detach(p), Stopped(p)
      PROVE  /\ UNCHANGED <<call, doing, child, attach, execs, kills>>
             /\ \A q \in Pid :
                  \/ at'[q] = at[q]
                  \/ at[q] \in Stops /\ at'[q] \in {"zombie", "gone"}
                  \/ at[q] \in Stops \ {"enter"} /\ at'[q] = "free"
  BY <1>5 DEF Detach, PtraceDetach, Stopped, Stops
<1>6. ASSUME NEW p \in Pid, Detach(p), ~Stopped(p)
      PROVE  UNCHANGED kernelVars
  BY <1>6 DEF Detach
<1>7. CASE \/ ResumeFails \/ Finish \/ WaitEchild \/ Handle \/ Dropped
  <2>1. UNCHANGED kernelVars
    BY <1>7 DEF ResumeFails, Finish, WaitEchild, Dropped, Handle, HandleExited,
         SyscallStopSkipped, SyscallEntry, SyscallExit, GetregsFails, ForkStop,
         GeteventFails, ExecStop, SignalStopped
  <2> QED
    BY <2>1 DEF kernelVars
<1> QED
  BY <1>1, <1>2, <1>3, <1>4, <1>5, <1>6, <1>7 DEF TracerStep, kernelVars

\* The waitpid that cannot tell a signal leaves its task where it is, and ends
\* the run.
LEMMA UnknownEffect ==
  ASSUME KernelTypeOK, NEW p \in Pid, WaitUnknown(p)
  PROVE  /\ pc' = "drop" /\ result' = "Einval"
         /\ UNCHANGED <<tracees, tracee, log, at, sig, kills>>
         /\ at[p] = "signal" /\ UnknownSignal(p)
<1> USE DEF KernelTypeOK, AllSignals, NoSignal, NixSignals
<1> USE DEF KernelTypeOK
<1>1. at[p] = "signal" /\ UnknownSignal(p)
  BY DEF WaitUnknown, Decodable
<1>2. at' = at
  BY <1>1 DEF WaitUnknown, Report
<1> QED
  BY <1>1, <1>2 DEF WaitUnknown, Report, Return

-----------------------------------------------------------------------------
(* The parts of the invariant, one lemma each.                             *)

LEMMA CallsInductive ==
  ASSUME TypeOK, CallsInSync, [Next]_vars
  PROVE  CallsInSync'
<1>k. KernelTypeOK
  BY DEF TypeOK
<1>1. ASSUME NEW p \in Pid, TaskStep(p) \/ SendSignal(p) \/ Kill(p)
      PROVE  CallsInSync'
  <2> USE <1>k DEF KernelTypeOK
  <2> SUFFICES ASSUME NEW q \in Pid
               PROVE  /\ \A n \in execs'[q] : n <= call'[q]
                      /\ at'[q] = "enter" => call'[q] \notin execs'[q]
                      /\ doing'[q] = "execve" => call'[q] \notin execs'[q]
                      /\ at'[q] = "exec" => call'[q] \in execs'[q]
                      /\ doing'[q] = "exit" => at'[q] \in {"enter", "kernel", "zombie", "gone"}
                      /\ at'[q] \in {"enter", "kernel", "fork", "exec", "exit"} =>
                           call'[q] > 0 \/ call'[q] \in execs'[q]
    BY DEF CallsInSync
  <2>a. /\ \A n \in execs[q] : n <= call[q] /\ n # call[q] + 1
        /\ at[q] = "enter" => call[q] \notin execs[q]
        /\ doing[q] = "execve" => call[q] \notin execs[q]
        /\ at[q] = "exec" => call[q] \in execs[q]
        /\ doing[q] = "exit" => at[q] \in {"enter", "kernel", "zombie", "gone"}
        /\ at[q] \in {"enter", "kernel", "fork", "exec", "exit"} =>
             call[q] > 0 \/ call[q] \in execs[q]
    BY DEF CallsInSync
  <2>0. CASE q # p
    BY <1>1, <2>a, <2>0, TaskEffect
  <2>1. CASE q = p /\ EnterCall(p)
    BY <2>1, <2>a DEF EnterCall, Stop
  <2>2. CASE q = p /\ CreateChild(p)
    BY <2>2, <2>a DEF CreateChild
  <2>3. CASE q = p /\ (ForkEvent(p) \/ ReturnCall(p) \/ AttachStop(p) \/ SignalStop(p))
    BY <2>3, <2>a DEF ForkEvent, ReturnCall, AttachStop, SignalStop, Stop
  <2>4. CASE q = p /\ ExecEvent(p)
    BY <2>4, <2>a DEF ExecEvent, Stop
  <2>5. CASE q = p /\ (ExitTask(p) \/ FreeExit(p) \/ SendSignal(p) \/ Kill(p))
    BY <2>5, <2>a DEF ExitTask, FreeExit, SendSignal, Kill
  <2> QED
    BY <1>1, <2>0, <2>1, <2>2, <2>3, <2>4, <2>5 DEF TaskStep
<1>2. CASE TracerStep
  BY <1>2, RequestEffect DEF CallsInSync, Stops
<1>3. CASE Over \/ UNCHANGED vars
  BY <1>3 DEF CallsInSync, Over, vars, kernelVars
<1> QED
  BY <1>1, <1>2, <1>3 DEF Next, Task, Environment

LEMMA ChildrenInductive ==
  ASSUME TypeOK, ChildrenInSync, StatusInSync, [Next]_vars
  PROVE  ChildrenInSync'
<1>k. KernelTypeOK /\ Root \in Pid /\ status.pid \in Pid
  BY PtraceAssumption DEF TypeOK, Status
<1>1. ASSUME NEW p \in Pid, TaskStep(p) \/ SendSignal(p) \/ Kill(p),
             UNCHANGED tracerVars
      PROVE  ChildrenInSync'
  <2> USE <1>k DEF KernelTypeOK
  <2>a. ASSUME NEW q \in Pid, at[q] # "none"
        PROVE  at'[q] # "none"
    <3>1. CASE q # p
      BY <1>1, <2>a, <3>1, TaskEffect
    <3>2. CASE q = p
      BY <1>1, <2>a, <3>2 DEF TaskStep, EnterCall, CreateChild, ForkEvent,
           ExecEvent, ReturnCall, ExitTask, AttachStop, SignalStop, FreeExit,
           SendSignal, Kill, Stop
    <3> QED
      BY <3>1, <3>2
  <2>b. ASSUME NEW q \in Pid
        PROVE  /\ attach[q] => at[q] \in {"user", "zombie", "gone"}
               /\ doing[q] = "forked" \/ at[q] = "fork" =>
                    at[child[q]] # "none" /\ child[q] \notin {q, Root}
    BY DEF ChildrenInSync
  <2> SUFFICES ASSUME NEW q \in Pid
               PROVE  /\ attach'[q] => at'[q] \in {"user", "zombie", "gone"}
                      /\ doing'[q] = "forked" \/ at'[q] = "fork" =>
                           at'[child'[q]] # "none" /\ child'[q] \notin {q, Root}
    BY <1>1, <2>a DEF ChildrenInSync, tracerVars
  <2>0. CASE q # p
    BY <1>1, <2>0, <2>a, <2>b, TaskEffect
  <2>1. CASE q = p /\ EnterCall(p)
    <3>1. doing'[p] # "forked"
      BY <2>1, PtraceAssumption DEF EnterCall, AllKinds
    <3> QED
      BY <2>1, <2>b, <3>1 DEF EnterCall, Stop
  <2>2. CASE q = p /\ CreateChild(p)
    <3>1. PICK c \in Pid : /\ at[c] = "none"
                           /\ at' = [at EXCEPT ![c] = "user"]
                           /\ attach' = [attach EXCEPT ![c] = TRUE]
                           /\ child' = [child EXCEPT ![p] = c]
      BY <2>2 DEF CreateChild
    <3>2. at[Root] # "none" /\ at[p] = "kernel"
      BY <2>2 DEF ChildrenInSync, CreateChild
    <3> QED
      BY <2>2, <2>b, <3>1, <3>2
  <2>3. CASE q = p /\ (ForkEvent(p) \/ ExecEvent(p) \/ ReturnCall(p))
    BY <2>3, <2>a, <2>b DEF ForkEvent, ExecEvent, ReturnCall, Stop
  <2>4. CASE q = p /\ (AttachStop(p) \/ SignalStop(p))
    BY <2>4, <2>a, <2>b DEF AttachStop, SignalStop, Stop
  <2>5. CASE q = p /\ (ExitTask(p) \/ FreeExit(p) \/ SendSignal(p) \/ Kill(p))
    BY <2>5, <2>a, <2>b DEF ExitTask, FreeExit, SendSignal, Kill, Live, Stops
  <2> QED
    BY <1>1, <2>0, <2>1, <2>2, <2>3, <2>4, <2>5 DEF TaskStep
<1>2. CASE TracerStep
  <2>1. /\ UNCHANGED <<doing, child, attach>>
        /\ \A q \in Pid :
             /\ at'[q] = "none" <=> at[q] = "none"
             /\ at'[q] = "fork" => at[q] = "fork"
             /\ attach[q] /\ at[q] \in {"user", "zombie", "gone"}
                  => at'[q] \in {"user", "zombie", "gone"}
    BY <1>2, RequestEffect DEF Stops
  <2>2. \A q \in Pid : at[q] = "none" => q \notin tracees'
    <3>1. CASE tracees' \subseteq tracees
      BY <3>1 DEF ChildrenInSync
    <3>2. CASE pc = "handle" /\ tracees' = tracees \cup {status.pid}
      BY <3>2, <1>k DEF ChildrenInSync, StatusInSync, StatusKindAt
    <3>3. CASE ForkStop
      <4>1. at[child[status.pid]] # "none"
        BY <3>3, <1>k DEF ForkStop, StatusInSync, StatusKindAt, Stopped, Stops,
             ChildrenInSync
      <4> QED
        BY <3>3, <4>1 DEF ForkStop, Store, ChildrenInSync
    <3> QED
      BY <1>2, <3>1, <3>2, <3>3
      DEF TracerStep, Handle, Resume, ResumeFails, Finish, WaitEchild, Wait, WaitUnknown,
          HandleExited, Removed, SyscallStopSkipped, SyscallEntry, SyscallExit,
          GetregsFails, GeteventFails, ExecStop, SignalStopped, Store, Detach,
          DropWait, Dropped, InSyscallStop
  <2> QED
    BY <2>1, <2>2, <1>k DEF ChildrenInSync, KernelTypeOK
<1>3. CASE Over \/ UNCHANGED vars
  BY <1>3 DEF ChildrenInSync, Over, vars, kernelVars, tracerVars
<1> QED
  BY <1>1, <1>2, <1>3 DEF Next, Task, Environment

LEMMA StatusInductive ==
  ASSUME TypeOK, StatusInSync, [Next]_vars
  PROVE  StatusInSync'
<1>k. KernelTypeOK /\ Root \in Pid /\ status.pid \in Pid
  BY PtraceAssumption DEF TypeOK, Status
<1>1. ASSUME NEW p \in Pid, TaskStep(p) \/ SendSignal(p) \/ Kill(p),
             UNCHANGED tracerVars
      PROVE  StatusInSync'
  <2>1. at[status.pid] \in Stops \cup {"zombie", "gone"} =>
          /\ sig'[status.pid] = sig[status.pid]
          /\ \/ at'[status.pid] = at[status.pid]
             \/ at[status.pid] \in Stops /\ at'[status.pid] = "zombie"
    BY <1>1, <1>k, StoppedStays
  <2> QED
    BY <1>1, <2>1, <1>k DEF StatusInSync, StatusKindAt, Stops, tracerVars
<1>2. CASE Resume \/ ResumeFails \/ Finish \/ WaitEchild \/ HandleExited
           \/ GetregsFails \/ GeteventFails \/ DropWait \/ Dropped
           \/ \E p \in Pid : WaitUnknown(p)
  BY <1>2 DEF Resume, ResumeFails, Finish, WaitEchild, WaitUnknown, HandleExited,
       GetregsFails, GeteventFails, DropWait, Dropped, Return, StatusInSync
<1>3. ASSUME NEW p \in Pid, Wait(p)
      PROVE  StatusInSync'
  BY <1>3, <1>k DEF Wait, Report, Reportable, Stopped, Stops, WaitStatus,
       StatusInSync, StatusKindAt, KernelTypeOK
<1>4. CASE SyscallStopSkipped \/ SyscallEntry \/ SyscallExit \/ ForkStop
           \/ ExecStop \/ SignalStopped
  BY <1>4 DEF SyscallStopSkipped, SyscallEntry, SyscallExit, ForkStop, ExecStop,
       SignalStopped, StatusInSync, StatusKindAt, Stops, kernelVars, InSyscallStop
<1>5. ASSUME NEW p \in Pid, Detach(p)
      PROVE  StatusInSync'
  BY <1>5 DEF Detach, StatusInSync
<1>6. CASE Over \/ UNCHANGED vars
  BY <1>6 DEF StatusInSync, Over, vars, kernelVars, tracerVars
<1> QED
  BY <1>1, <1>2, <1>3, <1>4, <1>5, <1>6
  DEF Next, TracerStep, Handle, Task, Environment

\* Inside handle, a syscall-stop is one of a task the table has an entry for.
LEMMA SyscallStopKnown ==
  ASSUME TypeOK, ChildrenInSync, StatusInSync, AwaitingInSync,
         pc = "handle", Stopped(status.pid), at[status.pid] \notin {"attach"}
  PROVE  status.pid \in tracees /\ or_insert(status.pid) = tracee[status.pid]
BY DEF TypeOK, Status, ChildrenInSync, AwaitingInSync, AttachPending, Running,
       Stopped, Stops, Live, or_insert

\* PhaseInSync and what CallsInSync says, of one task.
LEMMA PhaseOf ==
  ASSUME CallsInSync, PhaseInSync, Running, NEW q \in Pid, q \in tracees,
         at[q] \in Live
  PROVE  /\ tracee[q].skip_next_syscall_stop <=> (InCall(q) /\ PastExec(q))
         /\ InCall(q) /\ ~PastExec(q) => tracee[q].phase = Exit(call[q])
         /\ ~(InCall(q) /\ ~PastExec(q)) => tracee[q].phase = Entry
         /\ at[q] = "enter" => call[q] \notin execs[q]
         /\ doing[q] = "execve" => call[q] \notin execs[q]
         /\ at[q] = "exec" => call[q] \in execs[q]
BY DEF CallsInSync, PhaseInSync

LEMMA PhaseInductive ==
  ASSUME TypeOK, CallsInSync, ChildrenInSync, StatusInSync, PhaseInSync,
         AwaitingInSync, [Next]_vars
  PROVE  PhaseInSync'
<1>k. /\ KernelTypeOK /\ Root \in Pid /\ status.pid \in Pid /\ tracees \subseteq Pid
      /\ tracee \in [Pid -> Tracee]
  BY PtraceAssumption DEF TypeOK, Status
<1>1. ASSUME NEW p \in Pid, TaskStep(p) \/ SendSignal(p) \/ Kill(p),
             UNCHANGED tracerVars
      PROVE  PhaseInSync'
  <2> USE <1>k DEF KernelTypeOK
  <2> SUFFICES ASSUME Running, NEW q \in tracees, at'[q] \in Live
               PROVE  /\ tracee[q].skip_next_syscall_stop
                           <=> (InCall(q) /\ PastExec(q))'
                      /\ tracee[q].phase = IF (InCall(q) /\ ~PastExec(q))'
                                           THEN Exit(call'[q]) ELSE Entry
    BY <1>1 DEF PhaseInSync, Running, tracerVars
  <2>a. q \in Pid /\ (Served(q)' <=> Served(q)) /\ at[q] # "none"
    BY <1>1 DEF Served, tracerVars, ChildrenInSync
  <2>b. Served(q) => at[q] \in Stops \cup {"zombie"}
    BY DEF Served, StatusInSync, Stops
  <2>0. CASE q # p
    <3>1. at'[q] = at[q] /\ call'[q] = call[q] /\ execs'[q] = execs[q]
      BY <1>1, <2>0, <2>a, TaskEffect
    <3> QED
      BY <2>a, <3>1, PhaseOf DEF InCall, PastExec
  <2>1. CASE q = p /\ EnterCall(p)
    BY <2>1, <2>a, <2>b, PhaseOf DEF EnterCall, Stop, InCall, PastExec, Live, Stops
  <2>2. CASE q = p /\ CreateChild(p)
    <3>1. at'[q] = at[q] /\ call'[q] = call[q] /\ execs'[q] = execs[q]
      BY <2>2 DEF CreateChild
    <3> QED
      BY <2>2, <2>a, <3>1, PhaseOf DEF InCall, PastExec
  <2>3. CASE q = p /\ (ForkEvent(p) \/ ReturnCall(p))
    BY <2>3, <2>a, <2>b, PhaseOf
    DEF ForkEvent, ReturnCall, Stop, InCall, PastExec, Live, Stops
  <2>4. CASE q = p /\ ExecEvent(p)
    BY <2>4, <2>a, <2>b, PhaseOf DEF ExecEvent, Stop, InCall, PastExec, Live, Stops
  <2>5. CASE q = p /\ (AttachStop(p) \/ SignalStop(p))
    <3>1. /\ at[q] = "user" /\ at'[q] \in {"attach", "signal"}
          /\ call'[q] = call[q] /\ execs'[q] = execs[q]
      BY <2>5 DEF AttachStop, SignalStop, Stop
    <3>2. ~InCall(q) /\ ~InCall(q)'
      BY <3>1 DEF InCall
    <3> QED
      BY <2>a, <3>1, <3>2, PhaseOf DEF Live
  <2>6. CASE q = p /\ (ExitTask(p) \/ FreeExit(p) \/ Kill(p))
    BY <2>6, <2>a DEF ExitTask, FreeExit, Kill, Live, Stops
  <2>7. CASE SendSignal(p)
    BY <2>7, <2>a, PhaseOf DEF SendSignal, InCall, PastExec
  <2> QED
    BY <1>1, <2>0, <2>1, <2>2, <2>3, <2>4, <2>5, <2>6, <2>7 DEF TaskStep
<1>2. CASE Resume
  <2> SUFFICES ASSUME NEW q \in tracees, at'[q] \in Live
               PROVE  /\ tracee[q].skip_next_syscall_stop
                           <=> (InCall(q) /\ PastExec(q))'
                      /\ tracee[q].phase = IF (InCall(q) /\ ~PastExec(q))'
                                           THEN Exit(call'[q]) ELSE Entry
    BY <1>2 DEF PhaseInSync, Resume
  <2>1. Running /\ q \in Pid /\ UNCHANGED <<call, execs>> /\ ~Served(q)'
    BY <1>2, <1>k DEF Resume, PtraceSyscall, Running, Served
  <2>2. CASE q # status.pid
    BY <1>2, <1>k, <2>1, <2>2, PhaseOf
    DEF Resume, PtraceSyscall, Served, InCall, PastExec, KernelTypeOK
  <2>3. CASE q = status.pid
    BY <1>2, <1>k, <2>1, <2>3, PhaseOf
    DEF Resume, PtraceSyscall, ResumeTo, Stopped, Served, InCall, PastExec,
        KernelTypeOK, Stops, Live
  <2> QED
    BY <2>2, <2>3
<1>3. ASSUME NEW p \in Pid, Wait(p)
      PROVE  PhaseInSync'
  <2> SUFFICES ASSUME NEW q \in tracees, at'[q] \in Live
               PROVE  /\ tracee[q].skip_next_syscall_stop
                           <=> (InCall(q) /\ PastExec(q))'
                      /\ tracee[q].phase = IF (InCall(q) /\ ~PastExec(q))'
                                           THEN Exit(call'[q]) ELSE Entry
    BY <1>3 DEF PhaseInSync, Wait
  <2>1. Running /\ q \in Pid /\ at'[q] = at[q] /\ UNCHANGED <<call, execs>>
    BY <1>3, <1>k DEF Wait, Report, Running, KernelTypeOK, Live, Stops
  <2>2. ~Served(q) /\ ~Served(q)'
    BY <1>3 DEF Wait, Served
  <2> QED
    BY <2>1, <2>2, PhaseOf DEF InCall, PastExec
<1>4. CASE HandleExited
  BY <1>4 DEF HandleExited, Removed, PhaseInSync, Running, Served, InCall,
       PastExec, kernelVars
<1>5. CASE SyscallStopSkipped
  BY <1>5, <1>k, PhaseOf, SyscallStopKnown
  DEF SyscallStopSkipped, InSyscallStop, Skipped, Store, PhaseInSync, Running,
      Served, InCall, PastExec, kernelVars, StatusInSync, StatusKindAt, Stopped,
      Stops, Live, Tracee
<1>6. CASE SyscallEntry
  <2> DEFINE p == status.pid
  <2>1. p \in tracees /\ or_insert(p) = tracee[p] /\ at[p] \in {"enter", "exit"}
        /\ Running /\ at[p] \in Live /\ ~Served(p)
    BY <1>6, SyscallStopKnown
    DEF SyscallEntry, InSyscallStop, StatusInSync, StatusKindAt, Stopped, Stops,
        Running, Live, Served
  <2>2. at[p] = "enter" /\ call[p] \notin execs[p]
    <3>1. ~tracee[p].skip_next_syscall_stop /\ tracee[p].phase.tag = "Entry"
      BY <1>6, <2>1 DEF SyscallEntry
    <3>2. at[p] # "exit"
      <4>1. /\ tracee[p].skip_next_syscall_stop <=> (InCall(p) /\ PastExec(p))
            /\ InCall(p) /\ ~PastExec(p) => tracee[p].phase = Exit(call[p])
            /\ ~(InCall(p) /\ ~PastExec(p)) => tracee[p].phase = Entry
        BY <1>k, <2>1, PhaseOf
      <4>2. Entry.tag = "Entry" /\ Exit(call[p]).tag = "Exit"
        BY DEF Entry, Exit
      <4> QED
        BY <2>1, <3>1, <4>1, <4>2 DEF InCall
    <3> QED
      BY <1>k, <2>1, <3>1, <3>2, PhaseOf
  <2>3. /\ tracees' = tracees /\ pc' = "resume"
        /\ tracee' = [tracee EXCEPT ![p] = AfterEntry(tracee[p], call[p])]
    BY <1>6, <2>1 DEF SyscallEntry, Store
  <2>4. UNCHANGED <<at, call, execs, status>>
    BY <1>6 DEF SyscallEntry, kernelVars
  <2>5. ASSUME NEW q \in tracees, at[q] \in Live
        PROVE  /\ tracee'[q].skip_next_syscall_stop
                    <=> (InCall(q) /\ PastExec(q))'
               /\ tracee'[q].phase = IF (InCall(q) /\ ~PastExec(q))'
                                     THEN Exit(call'[q]) ELSE Entry
    <3>1. CASE q = p
      BY <1>k, <2>1, <2>2, <2>3, <2>4, <3>1, PhaseOf
      DEF AfterEntry, Tracee, InCall, PastExec, Served
    <3>2. CASE q # p
      BY <1>k, <1>6, <2>1, <2>3, <2>4, <2>5, <3>2, PhaseOf
      DEF InCall, PastExec, Served
    <3> QED
      BY <3>1, <3>2
  <2> QED
    BY <2>3, <2>4, <2>5 DEF PhaseInSync
<1>7. CASE SyscallExit
  <2> DEFINE p == status.pid
  <2>1. p \in tracees /\ or_insert(p) = tracee[p] /\ at[p] \in {"enter", "exit"}
        /\ Running /\ at[p] \in Live /\ ~Served(p)
    BY <1>7, SyscallStopKnown
    DEF SyscallExit, InSyscallStop, StatusInSync, StatusKindAt, Stopped, Stops,
        Running, Live, Served
  <2>2. at[p] = "exit" /\ ~tracee[p].skip_next_syscall_stop
    <3>1. ~tracee[p].skip_next_syscall_stop /\ tracee[p].phase.tag = "Exit"
      BY <1>7, <2>1 DEF SyscallExit
    <3>2. at[p] # "enter"
      <4>1. /\ tracee[p].skip_next_syscall_stop <=> (InCall(p) /\ PastExec(p))
            /\ InCall(p) /\ ~PastExec(p) => tracee[p].phase = Exit(call[p])
            /\ ~(InCall(p) /\ ~PastExec(p)) => tracee[p].phase = Entry
        BY <1>k, <2>1, PhaseOf
      <4>2. Entry.tag = "Entry" /\ Exit(call[p]).tag = "Exit"
        BY DEF Entry, Exit
      <4> QED
        BY <2>1, <3>1, <4>1, <4>2 DEF InCall
    <3> QED
      BY <1>k, <2>1, <3>1, <3>2, PhaseOf
  <2>3. /\ tracees' = tracees /\ pc' = "resume"
        /\ tracee' = [tracee EXCEPT ![p] = AfterExit(tracee[p])]
    BY <1>7, <2>1 DEF SyscallExit, Store
  <2>4. UNCHANGED <<at, call, execs, status>>
    BY <1>7 DEF SyscallExit, kernelVars
  <2>5. ASSUME NEW q \in tracees, at[q] \in Live
        PROVE  /\ tracee'[q].skip_next_syscall_stop
                    <=> (InCall(q) /\ PastExec(q))'
               /\ tracee'[q].phase = IF (InCall(q) /\ ~PastExec(q))'
                                     THEN Exit(call'[q]) ELSE Entry
    <3>1. CASE q = p
      BY <1>k, <2>1, <2>2, <2>3, <2>4, <3>1
      DEF AfterExit, Tracee, InCall, PastExec, Served
    <3>2. CASE q # p
      BY <1>k, <1>7, <2>1, <2>3, <2>4, <2>5, <3>2, PhaseOf
      DEF InCall, PastExec, Served
    <3> QED
      BY <3>1, <3>2
  <2> QED
    BY <2>3, <2>4, <2>5 DEF PhaseInSync
<1>8. CASE ForkStop
  <2> DEFINE p == status.pid  c == child[p]
  <2>1. /\ tracees' = tracees \cup {c} /\ pc' = "resume" /\ pc = "handle"
        /\ tracee' = [tracee EXCEPT ![c] = or_insert(c)]
        /\ UNCHANGED <<at, call, execs, attach, status>>
        /\ at[p] = "fork" /\ c \in Pid /\ c # p
    BY <1>8, <1>k
    DEF ForkStop, Store, kernelVars, StatusInSync, StatusKindAt, Stopped, Stops,
        KernelTypeOK, ChildrenInSync
  <2>2. ASSUME NEW q \in tracees \cup {c}, at[q] \in Live
        PROVE  /\ tracee'[q].skip_next_syscall_stop
                    <=> (InCall(q) /\ PastExec(q))'
               /\ tracee'[q].phase = IF (InCall(q) /\ ~PastExec(q))'
                                     THEN Exit(call'[q]) ELSE Entry
    <3>1. CASE q \in tracees
      BY <1>k, <2>1, <2>2, <3>1, PhaseOf
      DEF or_insert, InCall, PastExec, Served, Running
    <3>2. CASE q = c /\ c \notin tracees
      <4>1. at[c] \in {"user", "attach"}
        BY <2>1, <2>2, <3>2
        DEF AwaitingInSync, AttachPending, ChildrenInSync, Running, Live, Stops
      <4> QED
        BY <1>k, <2>1, <3>2, <4>1 DEF or_insert, new_child, InCall
    <3> QED
      BY <3>1, <3>2
  <2> QED
    BY <2>1, <2>2 DEF PhaseInSync
<1>9. CASE ExecStop
  <2> DEFINE p == status.pid
  <2>1. /\ tracees' = tracees /\ pc' = "resume" /\ pc = "handle"
        /\ tracee' = IF p \in tracees
                     THEN [tracee EXCEPT ![p] = AfterExec(tracee[p])] ELSE tracee
        /\ UNCHANGED <<at, call, execs, status>>
        /\ at[p] \in {"exec", "zombie"}
    BY <1>9, <1>k DEF ExecStop, kernelVars, StatusInSync, StatusKindAt
  <2>2. ASSUME NEW q \in tracees, at[q] \in Live
        PROVE  /\ tracee'[q].skip_next_syscall_stop
                    <=> (InCall(q) /\ PastExec(q))'
               /\ tracee'[q].phase = IF (InCall(q) /\ ~PastExec(q))'
                                     THEN Exit(call'[q]) ELSE Entry
    <3>1. CASE q = p
      BY <1>k, <2>1, <2>2, <3>1
      DEF AfterExec, Tracee, InCall, PastExec, Served, CallsInSync, Live, Stops
    <3>2. CASE q # p
      BY <1>k, <2>1, <2>2, <3>2, PhaseOf DEF InCall, PastExec, Served, Running
    <3> QED
      BY <3>1, <3>2
  <2> QED
    BY <2>1, <2>2 DEF PhaseInSync
<1>10. CASE SignalStopped
  <2> DEFINE p == status.pid  t == or_insert(p)
  <2>1. /\ tracees' = tracees \cup {p} /\ pc' = "resume" /\ pc = "handle"
        /\ \/ tracee' = [tracee EXCEPT ![p] = AfterSwallow(t)]
           \/ tracee' = [tracee EXCEPT ![p] = t]
        /\ UNCHANGED <<at, call, execs, status>>
        /\ at[p] \in {"attach", "signal", "group", "zombie"}
    BY <1>10 DEF SignalStopped, Store, kernelVars, StatusInSync, StatusKindAt
  <2>2. ASSUME NEW q \in tracees \cup {p}, at[q] \in Live
        PROVE  /\ tracee'[q].skip_next_syscall_stop
                    <=> (InCall(q) /\ PastExec(q))'
               /\ tracee'[q].phase = IF (InCall(q) /\ ~PastExec(q))'
                                     THEN Exit(call'[q]) ELSE Entry
    <3>1. CASE q # p
      BY <1>k, <2>1, <2>2, <3>1, PhaseOf DEF InCall, PastExec, Served, Running
    <3>2. CASE q = p
      <4>1. t.phase = Entry /\ ~t.skip_next_syscall_stop /\ t \in Tracee
        BY <1>k, <2>1, <2>2, <3>2, PhaseOf, TraceeTypes
        DEF or_insert, new_child, InCall, Running, Live
      <4>2. tracee'[p].phase = Entry /\ ~tracee'[p].skip_next_syscall_stop
        BY <1>k, <2>1, <4>1 DEF AfterSwallow, Tracee
      <4> QED
        BY <2>1, <2>2, <3>2, <4>2 DEF InCall, Live
    <3> QED
      BY <3>1, <3>2
  <2> QED
    BY <2>1, <2>2 DEF PhaseInSync
<1>11. CASE ResumeFails \/ Finish \/ WaitEchild \/ GetregsFails \/ GeteventFails
            \/ DropWait \/ Dropped \/ \E p \in Pid : Detach(p) \/ WaitUnknown(p)
  BY <1>11 DEF ResumeFails, Finish, WaitEchild, WaitUnknown, GetregsFails, GeteventFails,
       DropWait, Dropped, Detach, Return, PhaseInSync, Running
<1>12. CASE Over \/ UNCHANGED vars
  BY <1>12 DEF PhaseInSync, Over, vars, kernelVars, tracerVars, Running, Served,
       InCall, PastExec
<1> QED
  BY <1>1, <1>2, <1>3, <1>4, <1>5, <1>6, <1>7, <1>8, <1>9, <1>10, <1>11, <1>12
  DEF Next, TracerStep, Handle, Task, Environment

LEMMA AwaitingInductive ==
  ASSUME TypeOK, ChildrenInSync, StatusInSync, AwaitingInSync, [Next]_vars
  PROVE  AwaitingInSync'
<1>k. /\ KernelTypeOK /\ Root \in Pid /\ status.pid \in Pid /\ tracees \subseteq Pid
      /\ tracee \in [Pid -> Tracee]
  BY PtraceAssumption DEF TypeOK, Status
<1>a. ASSUME Running, NEW q \in Pid, at[q] \in Live
      PROVE  /\ q \in tracees =>
                  (tracee[q].awaiting_initial_sigstop <=> AttachPending(q))
             /\ q \notin tracees => AttachPending(q)
             /\ attach[q] => at[q] = "user"
  BY <1>a DEF AwaitingInSync, ChildrenInSync, Live, Stops
<1>1. ASSUME NEW p \in Pid, TaskStep(p) \/ SendSignal(p) \/ Kill(p),
             UNCHANGED tracerVars
      PROVE  AwaitingInSync'
  <2> USE <1>k DEF KernelTypeOK
  <2> SUFFICES ASSUME Running, NEW q \in Pid, at'[q] \in Live
               PROVE  /\ q \in tracees =>
                           (tracee[q].awaiting_initial_sigstop <=> AttachPending(q)')
                      /\ q \notin tracees => AttachPending(q)'
    BY <1>1 DEF AwaitingInSync, Running, tracerVars
  <2>a. (Served(q)' <=> Served(q)) /\ (q \in tracees => at[q] # "none")
    BY <1>1 DEF Served, tracerVars, ChildrenInSync
  <2>b. Served(q) => at[q] \in Stops \cup {"zombie"}
    BY DEF Served, StatusInSync, Stops
  <2>0. CASE q # p
    <3>1. CASE at'[q] = at[q] /\ attach'[q] = attach[q]
      BY <1>a, <2>a, <3>1 DEF AttachPending
    <3>2. CASE at[q] = "none" /\ attach'[q]
      BY <2>a, <3>2 DEF AttachPending
    <3> QED
      BY <1>1, <2>0, <3>1, <3>2, TaskEffect
  <2>1. CASE q = p /\ EnterCall(p)
    BY <2>1, <1>a DEF EnterCall, Stop, AttachPending, Live
  <2>2. CASE q = p /\ CreateChild(p)
    <3>1. at'[q] = at[q] /\ attach'[q] = attach[q]
      BY <2>2 DEF CreateChild
    <3> QED
      BY <1>a, <2>a, <3>1 DEF AttachPending
  <2>3. CASE q = p /\ (ForkEvent(p) \/ ReturnCall(p) \/ ExecEvent(p))
    BY <2>3, <1>a DEF ForkEvent, ReturnCall, ExecEvent, Stop, AttachPending, Live
  <2>4. CASE q = p /\ AttachStop(p)
    BY <2>4, <1>a, <2>a, <2>b DEF AttachStop, Stop, AttachPending, Live, Stops
  <2>5. CASE q = p /\ SignalStop(p)
    BY <2>5, <1>a DEF SignalStop, Stop, AttachPending, Live
  <2>6. CASE q = p /\ (ExitTask(p) \/ FreeExit(p) \/ Kill(p))
    BY <2>6 DEF ExitTask, FreeExit, Kill, Live, Stops
  <2>7. CASE SendSignal(p)
    BY <2>7, <1>a, <2>a DEF SendSignal, AttachPending
  <2> QED
    BY <1>1, <2>0, <2>1, <2>2, <2>3, <2>4, <2>5, <2>6, <2>7 DEF TaskStep
<1>2. CASE Resume
  <2> SUFFICES ASSUME NEW q \in Pid, at'[q] \in Live
               PROVE  /\ q \in tracees =>
                           (tracee[q].awaiting_initial_sigstop <=> AttachPending(q)')
                      /\ q \notin tracees => AttachPending(q)'
    BY <1>2 DEF AwaitingInSync, Resume
  <2>1. Running /\ UNCHANGED attach /\ ~Served(q)'
    BY <1>2 DEF Resume, PtraceSyscall, Running, Served
  <2>2. CASE q # status.pid
    BY <1>2, <1>k, <1>a, <2>1, <2>2
    DEF Resume, PtraceSyscall, KernelTypeOK, AttachPending, Served
  <2>3. CASE q = status.pid
    BY <1>2, <1>k, <1>a, <2>1, <2>3
    DEF Resume, PtraceSyscall, ResumeTo, Stopped, KernelTypeOK, AttachPending,
        Served, Stops, Live
  <2> QED
    BY <2>2, <2>3
<1>3. ASSUME NEW p \in Pid, Wait(p)
      PROVE  AwaitingInSync'
  <2> SUFFICES ASSUME NEW q \in Pid, at'[q] \in Live
               PROVE  /\ q \in tracees =>
                           (tracee[q].awaiting_initial_sigstop <=> AttachPending(q)')
                      /\ q \notin tracees => AttachPending(q)'
    BY <1>3 DEF AwaitingInSync, Wait
  <2>1. Running /\ at'[q] = at[q] /\ UNCHANGED attach
    BY <1>3, <1>k DEF Wait, Report, Running, KernelTypeOK, Live, Stops
  <2>2. ~Served(q) /\ ~Served(q)'
    BY <1>3 DEF Wait, Served
  <2> QED
    BY <1>a, <2>1, <2>2 DEF AttachPending
<1>4. CASE HandleExited
  BY <1>4, <1>k DEF HandleExited, Removed, AwaitingInSync, Running, Served,
       AttachPending, kernelVars, StatusInSync, StatusKindAt, Live, Stops
<1>5. ASSUME pc = "handle", pc' = "resume", status' = status,
             UNCHANGED kernelVars, at[status.pid] # "attach",
             tracees' = tracees \cup {status.pid} \/ tracees' = tracees,
             \A q \in Pid \ {status.pid} : tracee'[q] = tracee[q],
             status.pid \in tracees' =>
               tracee'[status.pid].awaiting_initial_sigstop
                 = or_insert(status.pid).awaiting_initial_sigstop
      PROVE  AwaitingInSync'
  <2> SUFFICES ASSUME NEW q \in Pid, at[q] \in Live
               PROVE  /\ q \in tracees' =>
                           (tracee'[q].awaiting_initial_sigstop <=> AttachPending(q)')
                      /\ q \notin tracees' => AttachPending(q)'
    BY <1>5 DEF AwaitingInSync, kernelVars
  <2>1. AttachPending(q)' <=> AttachPending(q)
    BY <1>5 DEF AttachPending, Served, kernelVars
  <2> QED
    BY <1>5, <1>k, <1>a, <2>1 DEF Running, or_insert, new_child
<1>6. CASE SyscallStopSkipped \/ SyscallEntry \/ SyscallExit \/ ExecStop
  <2>1. at[status.pid] # "attach" /\ or_insert(status.pid) \in Tracee
    BY <1>6, <1>k, TraceeTypes
    DEF SyscallStopSkipped, SyscallEntry, SyscallExit, ExecStop, InSyscallStop,
        StatusInSync, StatusKindAt, or_insert
  <2>2. /\ pc = "handle" /\ pc' = "resume" /\ status' = status
        /\ UNCHANGED kernelVars
    BY <1>6 DEF SyscallStopSkipped, SyscallEntry, SyscallExit, ExecStop,
         InSyscallStop
  <2>3. \/ tracees' = tracees \cup {status.pid}
        \/ tracees' = tracees
    BY <1>6 DEF SyscallStopSkipped, SyscallEntry, SyscallExit, ExecStop, Store
  <2>4. /\ \A q \in Pid \ {status.pid} : tracee'[q] = tracee[q]
        /\ status.pid \in tracees' =>
             tracee'[status.pid].awaiting_initial_sigstop
               = or_insert(status.pid).awaiting_initial_sigstop
    <3>a. \A t \in Tracee : \A n \in Nat :
            /\ Skipped(t).awaiting_initial_sigstop = t.awaiting_initial_sigstop
            /\ AfterEntry(t, n).awaiting_initial_sigstop = t.awaiting_initial_sigstop
            /\ AfterExit(t).awaiting_initial_sigstop = t.awaiting_initial_sigstop
            /\ AfterExec(t).awaiting_initial_sigstop = t.awaiting_initial_sigstop
      BY DEF Skipped, AfterEntry, AfterExit, AfterExec, Tracee
    <3>1. CASE SyscallStopSkipped
      BY <3>1, <3>a, <1>k, <2>1 DEF SyscallStopSkipped, Store
    <3>2. CASE SyscallEntry
      BY <3>2, <3>a, <1>k, <2>1 DEF SyscallEntry, Store, KernelTypeOK
    <3>3. CASE SyscallExit
      BY <3>3, <3>a, <1>k, <2>1 DEF SyscallExit, Store
    <3>4. CASE ExecStop
      BY <3>4, <3>a, <1>k, <2>1 DEF ExecStop, or_insert
    <3> QED
      BY <1>6, <3>1, <3>2, <3>3, <3>4
  <2> QED
    BY <1>k, <1>5, <2>1, <2>2, <2>3, <2>4
<1>7. CASE ForkStop
  <2> DEFINE p == status.pid  c == child[p]
  <2>1. /\ tracees' = tracees \cup {c} /\ pc' = "resume" /\ pc = "handle"
        /\ tracee' = [tracee EXCEPT ![c] = or_insert(c)]
        /\ UNCHANGED <<at, attach, status>>
        /\ at[p] = "fork" /\ c \in Pid /\ c # p
    BY <1>7, <1>k
    DEF ForkStop, Store, kernelVars, StatusInSync, StatusKindAt, Stopped, Stops,
        KernelTypeOK, ChildrenInSync
  <2> SUFFICES ASSUME NEW q \in Pid, at[q] \in Live
               PROVE  /\ q \in tracees \cup {c} =>
                           (tracee'[q].awaiting_initial_sigstop <=> AttachPending(q)')
                      /\ q \notin tracees \cup {c} => AttachPending(q)'
    BY <2>1 DEF AwaitingInSync
  <2>2. AttachPending(q)' <=> AttachPending(q)
    BY <2>1 DEF AttachPending, Served
  <2> QED
    BY <1>k, <1>a, <2>1, <2>2 DEF Running, or_insert, new_child
<1>8. CASE SignalStopped
  <2> DEFINE p == status.pid  t == or_insert(p)
  <2>1. /\ tracees' = tracees \cup {p} /\ pc' = "resume" /\ pc = "handle"
        /\ UNCHANGED <<at, attach, status>>
        /\ at[p] \in {"attach", "signal", "group", "zombie"}
        /\ at[p] = "attach" => status.sig = "SIGSTOP"
    BY <1>8 DEF SignalStopped, Store, kernelVars, StatusInSync, StatusKindAt
  <2>2. tracee' = [tracee EXCEPT ![p] =
                     IF Swallows(t, status.sig) THEN AfterSwallow(t) ELSE t]
    BY <1>8 DEF SignalStopped, Store
  <2>3. t \in Tracee
    BY <1>k, TraceeTypes DEF or_insert
  <2> SUFFICES ASSUME NEW q \in Pid, at[q] \in Live
               PROVE  /\ q \in tracees \cup {p} =>
                           (tracee'[q].awaiting_initial_sigstop <=> AttachPending(q)')
                      /\ q \notin tracees \cup {p} => AttachPending(q)'
    BY <2>1 DEF AwaitingInSync
  <2>4. CASE q # p
    BY <1>k, <1>a, <2>1, <2>2, <2>4 DEF Running, AttachPending, Served
  <2>5. CASE q = p
    <3>1. ~AttachPending(q)'
      BY <1>a, <2>1, <2>5 DEF Running, AttachPending, Served
    <3>2. t.awaiting_initial_sigstop <=> at[p] = "attach"
      BY <1>a, <2>1, <2>5
      DEF Running, AttachPending, Served, or_insert, new_child
    <3>3. ~tracee'[p].awaiting_initial_sigstop
      BY <1>k, <2>1, <2>2, <2>3, <3>2 DEF Swallows, AfterSwallow, Tracee
    <3> QED
      BY <2>5, <3>1, <3>3
  <2> QED
    BY <2>4, <2>5
<1>9. CASE ResumeFails \/ Finish \/ WaitEchild \/ GetregsFails \/ GeteventFails
           \/ DropWait \/ Dropped \/ \E p \in Pid : Detach(p) \/ WaitUnknown(p)
  BY <1>9 DEF ResumeFails, Finish, WaitEchild, WaitUnknown, GetregsFails, GeteventFails,
       DropWait, Dropped, Detach, Return, AwaitingInSync, Running
<1>10. CASE Over \/ UNCHANGED vars
  BY <1>10 DEF AwaitingInSync, Over, vars, kernelVars, tracerVars, Running, Served,
       AttachPending
<1> QED
  BY <1>1, <1>2, <1>3, <1>4, <1>6, <1>7, <1>8, <1>9, <1>10
  DEF Next, TracerStep, Handle, Task, Environment

\* The event of an exit-stop: the entry-stop that the phase remembers is that of
\* the call which ends here.
LEMMA ExitEvent ==
  ASSUME TypeOK, CallsInSync, ChildrenInSync, StatusInSync, PhaseInSync,
         AwaitingInSync, SyscallExit
  PROVE  LET p == status.pid  e == [entry |-> call[p], exit |-> call[p]] IN
         /\ p \in Pid /\ e \in Event
         /\ Running /\ at[p] = "exit" /\ ~Served(p)
         /\ log' = log \/ log' = [log EXCEPT ![p] = Append(log[p], e)]
<1> DEFINE p == status.pid
<1>k. log \in [Pid -> Seq(Event)] /\ KernelTypeOK /\ p \in Pid
  BY DEF TypeOK, Status
<1>1. /\ p \in tracees /\ or_insert(p) = tracee[p] /\ at[p] \in Live
      /\ Running /\ at[p] \in {"enter", "exit"} /\ ~Served(p)
  BY SyscallStopKnown
  DEF SyscallExit, InSyscallStop, StatusInSync, StatusKindAt, Stopped, Stops,
      Running, Live, Served
<1>2. /\ tracee[p].skip_next_syscall_stop <=> (InCall(p) /\ PastExec(p))
      /\ InCall(p) /\ ~PastExec(p) => tracee[p].phase = Exit(call[p])
      /\ ~(InCall(p) /\ ~PastExec(p)) => tracee[p].phase = Entry
  BY <1>k, <1>1, PhaseOf
<1>3. ~tracee[p].skip_next_syscall_stop /\ tracee[p].phase.tag = "Exit"
  BY <1>1 DEF SyscallExit
<1>4. tracee[p].phase.nr = call[p] /\ InCall(p)
  BY <1>2, <1>3 DEF Entry, Exit
<1>5. at[p] = "exit"
  BY <1>1, <1>4 DEF InCall
<1>6. [entry |-> call[p], exit |-> call[p]] \in Event
  BY <1>k DEF KernelTypeOK, Event
<1>7. \/ log' = log
      \/ log' = [log EXCEPT ![p] = Append(log[p], [entry |-> call[p], exit |-> call[p]])]
  BY <1>1, <1>4 DEF SyscallExit
<1> QED
  BY <1>k, <1>1, <1>5, <1>6, <1>7

\* One more event on a log.
LEMMA OneMore ==
  ASSUME NEW s \in Seq(Event), NEW e \in Event
  PROVE  /\ DOMAIN Append(s, e) = 1 .. (Len(s) + 1)
         /\ DOMAIN s = 1 .. Len(s) /\ Len(s) \in Nat
         /\ Append(s, e)[Len(s) + 1] = e
         /\ \A i \in DOMAIN s : Append(s, e)[i] = s[i]
OBVIOUS

\* Only an exit-stop adds to the log.
LEMMA LogGrows ==
  ASSUME [Next]_vars
  PROVE  SyscallExit \/ UNCHANGED log
BY DEF Next, TracerStep, Handle, Resume, ResumeFails, Finish, WaitEchild, Wait,
   WaitUnknown, HandleExited, SyscallStopSkipped, SyscallEntry, GetregsFails,
   ForkStop, GeteventFails, ExecStop, SignalStopped, Detach, DropWait, Dropped,
   Task, Environment, Over, tracerVars, vars

LEMMA PairedInductive ==
  ASSUME TypeOK, CallsInSync, ChildrenInSync, StatusInSync, PhaseInSync,
         AwaitingInSync, Paired, [Next]_vars
  PROVE  Paired'
<1>k. log \in [Pid -> Seq(Event)]
  BY DEF TypeOK
<1>1. CASE SyscallExit
  <2> DEFINE p == status.pid  e == [entry |-> call[p], exit |-> call[p]]
  <2>1. /\ p \in Pid /\ e \in Event
        /\ log' = log \/ log' = [log EXCEPT ![p] = Append(log[p], e)]
    BY <1>1, ExitEvent
  <2>2. e.entry = e.exit
    OBVIOUS
  <2> HIDE DEF e, p
  <2>3. CASE log' = [log EXCEPT ![p] = Append(log[p], e)]
    <3> SUFFICES ASSUME NEW q \in Pid, NEW i \in DOMAIN log'[q]
                 PROVE  log'[q][i].entry = log'[q][i].exit
      BY DEF Paired
    <3>1. log[p] \in Seq(Event) /\ log'[p] = Append(log[p], e)
          /\ (q # p => log'[q] = log[q])
      BY <1>k, <2>1, <2>3
    <3>2. CASE q = p
      <4>1. /\ i \in 1 .. (Len(log[p]) + 1)
            /\ DOMAIN log[p] = 1 .. Len(log[p]) /\ Len(log[p]) \in Nat
            /\ log'[p][Len(log[p]) + 1] = e
            /\ \A k \in DOMAIN log[p] : log'[p][k] = log[p][k]
        BY <2>1, <3>1, <3>2, OneMore
      <4>2. i \in DOMAIN log[p] \/ i = Len(log[p]) + 1
        BY <4>1
      <4>3. CASE i \in DOMAIN log[p]
        BY <2>1, <3>2, <4>1, <4>3 DEF Paired
      <4>4. CASE i = Len(log[p]) + 1
        BY <2>2, <3>2, <4>1, <4>4
      <4> QED
        BY <4>2, <4>3, <4>4
    <3> QED
      BY <3>1, <3>2 DEF Paired
  <2> QED
    BY <2>1, <2>3 DEF Paired
<1>2. CASE UNCHANGED log
  BY <1>2 DEF Paired
<1> QED
  BY <1>1, <1>2, LogGrows

LEMMA OrderInductive ==
  ASSUME TypeOK, CallsInSync, ChildrenInSync, StatusInSync, PhaseInSync,
         AwaitingInSync, LogBehind, OnceInOrder, [Next]_vars
  PROVE  OnceInOrder'
<1>k. log \in [Pid -> Seq(Event)]
  BY DEF TypeOK
<1>1. CASE SyscallExit
  <2> DEFINE p == status.pid  e == [entry |-> call[p], exit |-> call[p]]
  <2>1. /\ p \in Pid /\ e \in Event /\ Running /\ at[p] = "exit" /\ ~Served(p)
        /\ log' = log \/ log' = [log EXCEPT ![p] = Append(log[p], e)]
    BY <1>1, ExitEvent
  <2>2. \A i \in DOMAIN log[p] : log[p][i].entry < e.entry
    BY <2>1 DEF LogBehind, InProgress
  <2> HIDE DEF e, p
  <2>3. CASE log' = [log EXCEPT ![p] = Append(log[p], e)]
    <3> SUFFICES ASSUME NEW q \in Pid, NEW i \in DOMAIN log'[q],
                        NEW j \in DOMAIN log'[q], i < j
                 PROVE  log'[q][i].entry < log'[q][j].entry
      BY DEF OnceInOrder, InOrder
    <3>1. log[p] \in Seq(Event) /\ log'[p] = Append(log[p], e)
          /\ (q # p => log'[q] = log[q])
      BY <1>k, <2>1, <2>3
    <3>2. CASE q = p
      <4>1. /\ i \in 1 .. (Len(log[p]) + 1) /\ j \in 1 .. (Len(log[p]) + 1)
            /\ DOMAIN log[p] = 1 .. Len(log[p]) /\ Len(log[p]) \in Nat
            /\ log'[p][Len(log[p]) + 1] = e
            /\ \A k \in DOMAIN log[p] : log'[p][k] = log[p][k]
        BY <2>1, <3>1, <3>2, OneMore
      <4>2. i \in DOMAIN log[p] /\ (j \in DOMAIN log[p] \/ j = Len(log[p]) + 1)
        BY <4>1
      <4>3. CASE j \in DOMAIN log[p]
        BY <2>1, <3>2, <4>1, <4>2, <4>3 DEF OnceInOrder, InOrder
      <4>4. CASE j = Len(log[p]) + 1
        BY <2>2, <3>2, <4>1, <4>2, <4>4
      <4> QED
        BY <4>2, <4>3, <4>4
    <3> QED
      BY <3>1, <3>2 DEF OnceInOrder, InOrder
  <2> QED
    BY <2>1, <2>3 DEF OnceInOrder, InOrder
<1>2. CASE UNCHANGED log
  BY <1>2 DEF OnceInOrder, InOrder
<1> QED
  BY <1>1, <1>2, LogGrows

\* A task begins a call only behind the one that was reported last.
LEMMA BehindInductive ==
  ASSUME TypeOK, CallsInSync, ChildrenInSync, StatusInSync, PhaseInSync,
         AwaitingInSync, LogBehind, [Next]_vars
  PROVE  LogBehind'
<1>k. /\ KernelTypeOK /\ status.pid \in Pid /\ log \in [Pid -> Seq(Event)]
      /\ \A q \in Pid : \A i \in DOMAIN log[q] : log[q][i].entry \in Nat
  <2>1. KernelTypeOK /\ status.pid \in Pid /\ log \in [Pid -> Seq(Event)]
    BY DEF TypeOK, Status
  <2>2. ASSUME NEW q \in Pid, NEW i \in DOMAIN log[q]
        PROVE  log[q][i].entry \in Nat
    <3>1. log[q] \in Seq(Event)
      BY <2>1
    <3>2. log[q][i] \in Event
      BY <3>1
    <3> QED
      BY <3>2 DEF Event
  <2> QED
    BY <2>1, <2>2
<1>a. ASSUME NEW q \in Pid, NEW i \in DOMAIN log[q]
      PROVE  /\ log[q][i].entry <= call[q]
             /\ Running /\ InProgress(q) => log[q][i].entry < call[q]
  BY DEF LogBehind
<1>1. ASSUME NEW p \in Pid, TaskStep(p) \/ SendSignal(p) \/ Kill(p),
             UNCHANGED tracerVars
      PROVE  LogBehind'
  <2> USE <1>k DEF KernelTypeOK
  <2> SUFFICES ASSUME NEW q \in Pid, NEW i \in DOMAIN log[q]
               PROVE  /\ log[q][i].entry <= call'[q]
                      /\ Running /\ InProgress(q)' => log[q][i].entry < call'[q]
    BY <1>1 DEF LogBehind, Running, tracerVars
  <2>a. Served(q)' <=> Served(q)
    BY <1>1 DEF Served, tracerVars
  <2>0. CASE q # p
    BY <1>1, <1>a, <2>0, <2>a, TaskEffect DEF InProgress
  <2>1. CASE q = p /\ EnterCall(p)
    BY <1>a, <2>1 DEF EnterCall
  <2>2. CASE q = p /\ CreateChild(p)
    BY <1>a, <2>2 DEF CreateChild, InProgress
  <2>3. CASE q = p /\ (ForkEvent(p) \/ ExecEvent(p) \/ ReturnCall(p))
    BY <1>a, <2>3 DEF ForkEvent, ExecEvent, ReturnCall, InProgress
  <2>4. CASE q = p /\ (AttachStop(p) \/ SignalStop(p))
    BY <1>a, <2>4 DEF AttachStop, SignalStop, Stop, InProgress
  <2>5. CASE q = p /\ (ExitTask(p) \/ FreeExit(p) \/ Kill(p))
    BY <1>a, <2>5 DEF ExitTask, FreeExit, Kill, InProgress
  <2>6. CASE SendSignal(p)
    BY <1>a, <2>a, <2>6 DEF SendSignal, InProgress
  <2> QED
    BY <1>1, <2>0, <2>1, <2>2, <2>3, <2>4, <2>5, <2>6 DEF TaskStep
<1>2. CASE Resume
  <2> SUFFICES ASSUME NEW q \in Pid, NEW i \in DOMAIN log[q], InProgress(q)'
               PROVE  InProgress(q)
    BY <1>2, <1>a DEF LogBehind, Resume, PtraceSyscall, Running
  <2>1. CASE q # status.pid
    BY <1>2, <1>k, <2>1 DEF Resume, PtraceSyscall, InProgress, Served, KernelTypeOK
  <2>2. CASE q = status.pid
    BY <1>2, <1>k, <2>2
    DEF Resume, PtraceSyscall, ResumeTo, Stopped, Stops, InProgress, KernelTypeOK
  <2> QED
    BY <2>1, <2>2
<1>3. ASSUME NEW p \in Pid, Wait(p)
      PROVE  LogBehind'
  <2>1. UNCHANGED <<call, log>> /\ Running
    BY <1>3 DEF Wait, Report, Running
  <2>2. \A q \in Pid : InProgress(q)' => InProgress(q)
    BY <1>3, <1>k DEF Wait, Report, InProgress, Served, KernelTypeOK
  <2> QED
    BY <1>a, <2>1, <2>2 DEF LogBehind
<1>4. ASSUME pc = "handle", pc' \in {"wait", "resume"}, UNCHANGED <<kernelVars, log>>
      PROVE  LogBehind'
  <2>1. \A q \in Pid : InProgress(q)' => InProgress(q)
    BY <1>4 DEF InProgress, Served, kernelVars
  <2> QED
    BY <1>4, <1>a, <2>1 DEF LogBehind, Running, kernelVars
<1>5. CASE SyscallExit
  <2> DEFINE p == status.pid  e == [entry |-> call[p], exit |-> call[p]]
  <2>1. /\ p \in Pid /\ e \in Event /\ Running /\ at[p] = "exit" /\ ~Served(p)
        /\ log' = log \/ log' = [log EXCEPT ![p] = Append(log[p], e)]
    BY <1>5, ExitEvent
  <2>2. /\ pc = "handle" /\ pc' = "resume" /\ status' = status
        /\ UNCHANGED <<at, call>>
    BY <1>5 DEF SyscallExit, InSyscallStop, kernelVars
  <2>3. /\ e.entry = call[p] /\ call[p] \in Nat
        /\ \A q \in Pid : q = p => ~InProgress(q)'
    BY <1>k, <2>1, <2>2 DEF InProgress, Served, KernelTypeOK
  <2>4. \A q \in Pid : InProgress(q)' => InProgress(q)
    BY <2>2 DEF InProgress, Served
  <2> HIDE DEF e
  <2> SUFFICES ASSUME NEW q \in Pid, NEW i \in DOMAIN log'[q]
               PROVE  /\ log'[q][i].entry <= call[q]
                      /\ InProgress(q)' => log'[q][i].entry < call[q]
    BY <2>2 DEF LogBehind
  <2>5. CASE log'[q] = log[q]
    BY <1>a, <2>1, <2>4, <2>5
  <2>6. CASE q = p /\ log'[p] = Append(log[p], e)
    <3>1. log[p] \in Seq(Event)
      BY <1>k, <2>1
    <3>2. (i \in DOMAIN log[p] /\ log'[p][i] = log[p][i]) \/ log'[p][i] = e
      BY <2>1, <2>6, <3>1, OneMore
    <3>3. CASE i \in DOMAIN log[p] /\ log'[p][i] = log[p][i]
      <4>1. log[p][i].entry <= call[p]
            /\ (Running /\ InProgress(p) => log[p][i].entry < call[p])
        BY <1>a, <2>1, <3>3
      <4> QED
        BY <2>3, <2>6, <3>3, <4>1
    <3>4. CASE log'[p][i] = e
      BY <2>3, <2>6, <3>4
    <3> QED
      BY <3>2, <3>3, <3>4
  <2> QED
    BY <1>k, <2>1, <2>5, <2>6
<1>6. ASSUME pc' \in {"drop", "dropwait", "done"}, UNCHANGED <<call, log>>
      PROVE  LogBehind'
  BY <1>6, <1>a DEF LogBehind, Running
<1>7. CASE Over \/ UNCHANGED vars
  BY <1>7 DEF LogBehind, InProgress, Served, Running, Over, vars, kernelVars, tracerVars
<1>8. CASE HandleExited \/ SyscallStopSkipped \/ SyscallEntry \/ ForkStop \/ ExecStop
           \/ SignalStopped
  BY <1>4, <1>8 DEF HandleExited, SyscallStopSkipped, SyscallEntry, ForkStop, ExecStop,
       SignalStopped, InSyscallStop
<1>9. CASE ResumeFails \/ Finish \/ WaitEchild \/ GetregsFails \/ GeteventFails
           \/ DropWait \/ Dropped \/ \E p \in Pid : Detach(p) \/ WaitUnknown(p)
  <2>1. TracerStep
    BY <1>9 DEF TracerStep, Handle
  <2>2. UNCHANGED call
    BY <2>1, RequestEffect
  <2> QED
    BY <1>6, <1>9, <2>2 DEF ResumeFails, Finish, WaitEchild, WaitUnknown, GetregsFails,
         GeteventFails, DropWait, Dropped, Detach, Return
<1> QED
  BY <1>1, <1>2, <1>3, <1>5, <1>7, <1>8, <1>9
  DEF Next, TracerStep, Handle, Task, Environment

LEMMA SignalsInductive ==
  ASSUME TypeOK, ChildrenInSync, StatusInSync, AwaitingInSync, SignalsFaithful,
         [Next]_vars
  PROVE  SignalsFaithful'
<1>k. KernelTypeOK /\ status.pid \in Pid
  BY DEF TypeOK, Status
<1>1. ASSUME NEW p \in Pid, TaskStep(p) \/ SendSignal(p) \/ Kill(p),
             UNCHANGED tracerVars
      PROVE  SignalsFaithful'
  <2>1. pc = "resume" =>
          /\ sig'[status.pid] = sig[status.pid]
          /\ at'[status.pid] = at[status.pid] \/ at'[status.pid] = "zombie"
    BY <1>1, <1>k, StoppedStays DEF StatusInSync
  <2> QED
    BY <1>1, <2>1 DEF SignalsFaithful, Stopped, Stops, tracerVars
<1>2. CASE SignalStopped
  <2> DEFINE p == status.pid  t == or_insert(p)
  <2>1. CASE Stopped(p)
    <3>1. at[p] \in {"attach", "signal", "group"}
          /\ (at[p] = "signal" => status.sig = sig[p])
          /\ (at[p] \in {"attach", "group"} => status.sig = "SIGSTOP")
      BY <1>2, <2>1
      DEF SignalStopped, StatusInSync, StatusKindAt, Stopped, Stops
    <3>2. t.awaiting_initial_sigstop <=> at[p] = "attach"
      BY <1>2, <1>k, <3>1
      DEF SignalStopped, AwaitingInSync, AttachPending, ChildrenInSync, Running,
          Served, Live, Stops, or_insert, new_child
    <3> QED
      BY <1>2, <3>1, <3>2
      DEF SignalStopped, Swallows, SignalsFaithful, kernelVars
  <2>2. CASE ~Stopped(p)
    BY <1>2, <2>2 DEF SignalStopped, SignalsFaithful, Stopped, kernelVars
  <2> QED
    BY <2>1, <2>2
<1>3. CASE SyscallStopSkipped \/ SyscallEntry \/ SyscallExit \/ ForkStop \/ ExecStop
  BY <1>3 DEF SyscallStopSkipped, SyscallEntry, SyscallExit, ForkStop, ExecStop,
       InSyscallStop, StatusInSync, StatusKindAt, SignalsFaithful, Stopped, Stops,
       kernelVars
<1>4. CASE pc' # "resume"
  BY <1>4 DEF SignalsFaithful
<1>5. CASE UNCHANGED vars
  BY <1>5 DEF SignalsFaithful, Stopped, vars, kernelVars, tracerVars
<1> QED
  BY <1>1, <1>2, <1>3, <1>4, <1>5
  DEF Next, TracerStep, Handle, Resume, ResumeFails, Finish, WaitEchild, Wait,
      WaitUnknown, HandleExited, GetregsFails, GeteventFails, Detach, DropWait, Dropped,
      Return, Task, Environment, Over

\* Only a SIGKILL counts as one.
LEMMA KillsGrow ==
  ASSUME KernelTypeOK, NEW p \in Pid, TaskStep(p) \/ SendSignal(p) \/ Kill(p)
  PROVE  kills' = kills \/ (kills' = kills + 1 /\ Kill(p))
BY DEF TaskStep, EnterCall, CreateChild, ForkEvent, ExecEvent, ReturnCall,
   ExitTask, AttachStop, SignalStop, FreeExit, SendSignal, Kill

LEMMA StoppedInductive ==
  ASSUME TypeOK, StatusInSync, StoppedUnlessKilled, [Next]_vars
  PROVE  StoppedUnlessKilled'
<1>k. KernelTypeOK /\ status.pid \in Pid /\ kills \in Nat
  BY DEF TypeOK, Status, KernelTypeOK
<1>1. ASSUME NEW p \in Pid, TaskStep(p) \/ SendSignal(p) \/ Kill(p),
             UNCHANGED tracerVars
      PROVE  StoppedUnlessKilled'
  <2>1. kills' = 0 => kills = 0 /\ ~(kills' = kills + 1)
    BY <1>1, <1>k, KillsGrow
  <2>2. Stopped(status.pid) /\ kills' = 0 => Stopped(status.pid)'
    BY <1>1, <1>k, <2>1, StoppedStays DEF Stopped, tracerVars
  <2> QED
    BY <1>1, <2>1, <2>2 DEF StoppedUnlessKilled, tracerVars
<1>2. ASSUME NEW p \in Pid, Wait(p)
      PROVE  StoppedUnlessKilled'
  BY <1>2, <1>k DEF Wait, Report, Reportable, Stopped, Stops, WaitStatus,
       StoppedUnlessKilled, KernelTypeOK
<1>3. CASE SyscallStopSkipped \/ SyscallEntry \/ SyscallExit \/ ForkStop
           \/ ExecStop \/ SignalStopped
  BY <1>3 DEF SyscallStopSkipped, SyscallEntry, SyscallExit, ForkStop, ExecStop,
       SignalStopped, InSyscallStop, StoppedUnlessKilled, Stopped, kernelVars
<1>4. CASE pc' \notin {"start", "handle", "resume"}
  BY <1>4 DEF StoppedUnlessKilled
<1>5. CASE UNCHANGED vars
  BY <1>5 DEF StoppedUnlessKilled, Stopped, vars, kernelVars, tracerVars
<1> QED
  BY <1>1, <1>2, <1>3, <1>4, <1>5
  DEF Next, TracerStep, Handle, Resume, ResumeFails, Finish, WaitEchild, WaitUnknown,
      HandleExited, GetregsFails, GeteventFails, Detach, DropWait, Dropped, Return,
      Task, Environment, Over

\* While run is running no task was let go.
LEMMA NoResultInductive ==
  ASSUME TypeOK, NoResultYet, [Next]_vars
  PROVE  NoResultYet'
<1>k. KernelTypeOK /\ status.pid \in Pid
  BY DEF TypeOK, Status
<1>1. ASSUME NEW p \in Pid, TaskStep(p) \/ SendSignal(p) \/ Kill(p),
             UNCHANGED tracerVars
      PROVE  NoResultYet'
  <2>1. ASSUME NEW q \in Pid, at[q] # "free"
        PROVE  at'[q] # "free"
    <3>1. CASE q # p
      BY <1>1, <1>k, <2>1, <3>1, TaskEffect
    <3>2. CASE q = p
      BY <1>1, <1>k, <2>1, <3>2
      DEF KernelTypeOK, TaskStep, EnterCall, CreateChild, ForkEvent, ExecEvent,
          ReturnCall, ExitTask, AttachStop, SignalStop, FreeExit, SendSignal,
          Kill, Stop
    <3> QED
      BY <3>1, <3>2
  <2> QED
    BY <1>1, <2>1 DEF NoResultYet, Running, tracerVars
<1>2. CASE Resume
  BY <1>2, <1>k DEF Resume, PtraceSyscall, ResumeTo, NoResultYet, Running,
       KernelTypeOK
<1>3. ASSUME NEW p \in Pid, Wait(p)
      PROVE  NoResultYet'
  BY <1>3, <1>k DEF Wait, Report, NoResultYet, Running, KernelTypeOK
<1>4. CASE HandleExited \/ SyscallStopSkipped \/ SyscallEntry \/ SyscallExit
           \/ ForkStop \/ ExecStop \/ SignalStopped
  BY <1>4 DEF HandleExited, SyscallStopSkipped, SyscallEntry, SyscallExit,
       ForkStop, ExecStop, SignalStopped, InSyscallStop, NoResultYet, Running,
       kernelVars
<1>5. CASE pc' \in {"drop", "dropwait", "done"}
  BY <1>5 DEF NoResultYet, Running
<1>6. CASE UNCHANGED vars
  BY <1>6 DEF NoResultYet, Running, vars, kernelVars, tracerVars
<1> QED
  BY <1>1, <1>2, <1>3, <1>4, <1>5, <1>6
  DEF Next, TracerStep, Handle, ResumeFails, Finish, WaitEchild, WaitUnknown,
      GetregsFails, GeteventFails, Detach, DropWait, Dropped, Return, Task, Environment,
      Over

LEMMA RootInductive ==
  ASSUME TypeOK, ChildrenInSync, StatusInSync, RootTracked, NoResultYet,
         [Next]_vars
  PROVE  RootTracked'
<1>k. KernelTypeOK /\ Root \in Pid /\ status.pid \in Pid
  BY PtraceAssumption DEF TypeOK, Status
<1>1. ASSUME NEW p \in Pid, TaskStep(p) \/ SendSignal(p) \/ Kill(p),
             UNCHANGED tracerVars
      PROVE  RootTracked'
  <2>1. ASSUME at[Root] \in Live \cup {"zombie"}
        PROVE  at'[Root] \in Live \cup {"zombie"}
    <3>1. CASE Root # p
      BY <1>1, <1>k, <2>1, <3>1, TaskEffect DEF Live, Stops
    <3>2. CASE Root = p
      BY <1>1, <1>k, <2>1, <3>2
      DEF KernelTypeOK, TaskStep, EnterCall, CreateChild, ForkEvent, ExecEvent,
          ReturnCall, ExitTask, AttachStop, SignalStop, FreeExit, SendSignal,
          Kill, Stop, Live, Stops
    <3> QED
      BY <3>1, <3>2
  <2> QED
    BY <1>1, <2>1 DEF RootTracked, Running, tracerVars
<1>2. CASE Resume
  BY <1>2, <1>k DEF Resume, PtraceSyscall, ResumeTo, RootTracked, Running,
       KernelTypeOK, Live, Stops
<1>3. ASSUME NEW p \in Pid, Wait(p)
      PROVE  RootTracked'
  BY <1>3, <1>k DEF Wait, Report, WaitStatus, RootTracked, Running, KernelTypeOK,
       Live, Stops
<1>4. CASE HandleExited
  BY <1>4 DEF HandleExited, Removed, RootTracked, Running, kernelVars
<1>5. CASE SyscallStopSkipped \/ SyscallEntry \/ SyscallExit \/ ExecStop
           \/ SignalStopped
  <2>1. /\ tracees' = tracees \/ tracees' = tracees \cup {status.pid}
        /\ UNCHANGED kernelVars
        /\ pc = "handle" /\ status.kind # "Exited"
    BY <1>5 DEF SyscallStopSkipped, SyscallEntry, SyscallExit, ExecStop,
         SignalStopped, Store, InSyscallStop
  <2>2. at[status.pid] \in Live \cup {"zombie"}
    BY <2>1, <1>k DEF StatusInSync, StatusKindAt, Live, Stops, TypeOK, Status,
         StatusKinds
  <2> QED
    BY <2>1, <2>2 DEF RootTracked, Running, kernelVars
<1>6. CASE ForkStop
  BY <1>6, <1>k DEF ForkStop, Store, StatusInSync, StatusKindAt, ChildrenInSync,
       Stopped, Stops, RootTracked, Running, kernelVars
<1>7. CASE pc' \in {"drop", "dropwait", "done"}
  BY <1>7 DEF RootTracked, Running
<1>8. CASE UNCHANGED vars
  BY <1>8 DEF RootTracked, Running, vars, kernelVars, tracerVars
<1> QED
  BY <1>1, <1>2, <1>3, <1>4, <1>5, <1>6, <1>7, <1>8
  DEF Next, TracerStep, Handle, ResumeFails, Finish, WaitEchild, WaitUnknown,
      GetregsFails, GeteventFails, Detach, DropWait, Dropped, Return, Task, Environment,
      Over

LEMMA StrangerInductive ==
  ASSUME TypeOK, ChildrenInSync, StatusInSync, AwaitingInSync,
         StoppedUnlessKilled, NoStranger, NoResultYet, [Next]_vars
  PROVE  NoStranger'
<1>k. /\ KernelTypeOK /\ status.pid \in Pid /\ tracees \subseteq Pid
      /\ kills \in Nat
  BY DEF TypeOK, Status, KernelTypeOK
<1>a. ASSUME Running, kills = 0, NEW q \in Pid \ tracees
      PROVE  /\ at[q] # "zombie" /\ at[q] # "free"
             /\ at[q] \in Live => \E w \in tracees : InForkWindow(q, w)
             /\ at[q] \in Live => AttachPending(q)
             /\ attach[q] => at[q] \in {"user", "zombie", "gone"}
  BY <1>a DEF NoStranger, NoResultYet, AwaitingInSync, ChildrenInSync
<1>1. ASSUME NEW p \in Pid, TaskStep(p) \/ SendSignal(p) \/ Kill(p),
             UNCHANGED tracerVars
      PROVE  NoStranger'
  <2> SUFFICES ASSUME Running, kills' = 0, NEW q \in Pid \ tracees
               PROVE  /\ at'[q] # "zombie"
                      /\ at'[q] \in Live =>
                           \E w \in tracees : InForkWindow(q, w)'
    BY <1>1 DEF NoStranger, Running, tracerVars
  <2>1. kills = 0 /\ ~Kill(p)
    BY <1>1, <1>k, KillsGrow DEF Kill
  <2>2. \A w \in Pid : Served(w)' <=> Served(w)
    BY <1>1 DEF Served, tracerVars
  <2>3. ASSUME NEW w \in tracees, InForkWindow(q, w)
        PROVE  InForkWindow(q, w)'
    <3>1. CASE w # p
      <4>1. /\ doing'[w] = doing[w] /\ child'[w] = child[w]
            /\ at'[w] = at[w] \/ at[w] = "none"
        BY <1>1, <1>k, <3>1, TaskEffect
      <4> QED
        BY <2>2, <2>3, <4>1, <1>k DEF InForkWindow
    <3>2. CASE w = p
      <4>1. CASE ForkEvent(p)
        <5>1. ~Served(p)
          BY <4>1 DEF ForkEvent, Served, StatusInSync, Stops
        <5> QED
          BY <1>k, <2>2, <2>3, <3>2, <4>1, <5>1
          DEF ForkEvent, Stop, InForkWindow, KernelTypeOK
      <4>2. CASE SendSignal(p)
        BY <1>k, <2>2, <2>3, <4>2 DEF SendSignal, InForkWindow
      <4> QED
        BY <1>1, <2>1, <2>3, <3>2, <4>1, <4>2
        DEF InForkWindow, TaskStep, EnterCall, CreateChild, ExecEvent, ReturnCall,
            CanReturn, ExitTask, AttachStop, SignalStop, FreeExit
    <3> QED
      BY <3>1, <3>2
  <2>4. CASE at[q] \in Live /\ at'[q] # "zombie"
    BY <1>a, <2>1, <2>3, <2>4
  <2>5. at[q] \in Live => at'[q] # "zombie"
    <3>1. CASE q # p
      BY <1>1, <1>k, <3>1, TaskEffect DEF Live, Stops
    <3>2. CASE q = p
      <4>1. at[q] \in Live => at[q] \in {"user", "attach"}
        BY <1>a, <2>1 DEF AttachPending, Live, Stops
      <4>2. CASE AttachStop(p) \/ EnterCall(p) \/ SignalStop(p)
        BY <1>k, <3>2, <4>2
        DEF AttachStop, EnterCall, SignalStop, Stop, KernelTypeOK
      <4>3. CASE SendSignal(p)
        BY <4>3 DEF SendSignal, Live, Stops
      <4> QED
        BY <1>1, <2>1, <3>2, <4>1, <4>2, <4>3
        DEF TaskStep, CreateChild, ForkEvent, ExecEvent, ReturnCall, ExitTask,
            FreeExit, Live, Stops
    <3> QED
      BY <3>1, <3>2
  <2>6. CASE at[q] \notin Live
    <3>1. CASE at'[q] = at[q]
      BY <1>a, <2>1, <2>6, <3>1
    <3>2. CASE at'[q] # at[q]
      <4>1. q # p
        BY <1>1, <1>k, <1>a, <2>1, <2>6, <3>2
        DEF TaskStep, EnterCall, CreateChild, ForkEvent, ExecEvent, ReturnCall,
            ExitTask, AttachStop, SignalStop, FreeExit, SendSignal, Live, Stops
      <4>2. at[q] = "none" /\ at'[q] = "user"
        BY <1>1, <1>k, <3>2, <4>1, TaskEffect
      <4>3. CreateChild(p)
        BY <1>1, <1>k, <2>1, <3>2, <4>1
        DEF KernelTypeOK, TaskStep, EnterCall, ForkEvent, ExecEvent, ReturnCall,
            ExitTask, AttachStop, SignalStop, FreeExit, SendSignal, Stop
      <4>4. child'[p] = q /\ doing'[p] = "forked" /\ at'[p] = "kernel"
        BY <1>k, <4>1, <4>2, <4>3 DEF CreateChild, KernelTypeOK
      <4>5. p \in tracees
        BY <4>3 DEF CreateChild, AwaitingInSync, AttachPending, ChildrenInSync,
             Live
      <4> QED
        BY <4>2, <4>4, <4>5 DEF InForkWindow
    <3> QED
      BY <3>1, <3>2
  <2> QED
    BY <2>4, <2>5, <2>6
<1>2. CASE Resume
  <2> SUFFICES ASSUME kills = 0, NEW q \in Pid \ tracees
               PROVE  /\ at'[q] # "zombie"
                      /\ at'[q] \in Live =>
                           \E w \in tracees : InForkWindow(q, w)'
    BY <1>2 DEF NoStranger, Resume, PtraceSyscall
  <2>1. Running /\ Stopped(status.pid) /\ Served(status.pid)
    BY <1>2 DEF Resume, PtraceSyscall, Running, Served
  <2>2. q # status.pid
    BY <1>a, <2>1 DEF AttachPending, Stopped, Stops, Live
  <2>3. at'[q] = at[q]
    BY <1>2, <1>k, <2>2 DEF Resume, PtraceSyscall, KernelTypeOK
  <2>4. ASSUME NEW w \in tracees, InForkWindow(q, w)
        PROVE  InForkWindow(q, w)'
    <3>1. w # status.pid
      BY <2>1, <2>4 DEF InForkWindow, Stopped, Stops
    <3> QED
      BY <1>2, <1>k, <2>4, <3>1
      DEF Resume, PtraceSyscall, InForkWindow, KernelTypeOK, Served
  <2> QED
    BY <1>a, <2>1, <2>3, <2>4
<1>3. ASSUME NEW p \in Pid, Wait(p)
      PROVE  NoStranger'
  <2> SUFFICES ASSUME kills = 0, NEW q \in Pid \ tracees
               PROVE  /\ at'[q] # "zombie"
                      /\ at'[q] \in Live =>
                           \E w \in tracees : InForkWindow(q, w)'
    BY <1>3 DEF NoStranger, Wait, Report
  <2>1. Running /\ UNCHANGED <<doing, child>> /\ \A w \in Pid : ~Served(w)'
        /\ \A v \in Pid : at[v] # "zombie" => at'[v] = at[v]
    BY <1>3, <1>k DEF Wait, Report, Running, Served, KernelTypeOK
  <2> QED
    BY <1>k, <1>a, <2>1 DEF InForkWindow
<1>4. CASE HandleExited
  <2>1. at[status.pid] = "gone" /\ tracees' = tracees \ {status.pid}
        /\ UNCHANGED kernelVars /\ Running /\ \A w \in Pid : ~Served(w)'
    BY <1>4 DEF HandleExited, Removed, StatusInSync, StatusKindAt, Running, Served
  <2> SUFFICES ASSUME kills = 0, NEW q \in Pid \ tracees'
               PROVE  /\ at[q] # "zombie"
                      /\ at[q] \in Live =>
                           \E w \in tracees' : InForkWindow(q, w)'
    BY <2>1 DEF NoStranger, kernelVars
  <2>2. CASE q = status.pid
    BY <2>1, <2>2 DEF Live, Stops
  <2>3. CASE q # status.pid
    BY <1>k, <1>a, <2>1, <2>3 DEF InForkWindow, kernelVars
  <2> QED
    BY <2>2, <2>3
<1>5. CASE SyscallStopSkipped \/ SyscallEntry \/ SyscallExit \/ ExecStop
           \/ SignalStopped \/ ForkStop
  <2>1. /\ tracees \subseteq tracees' /\ UNCHANGED kernelVars /\ UNCHANGED status
        /\ pc = "handle" /\ status.kind # "Exited" /\ Running
    BY <1>5 DEF SyscallStopSkipped, SyscallEntry, SyscallExit, ExecStop,
         SignalStopped, ForkStop, Store, InSyscallStop, Running
  <2> SUFFICES ASSUME kills = 0, NEW q \in Pid \ tracees'
               PROVE  /\ at[q] # "zombie"
                      /\ at[q] \in Live =>
                           \E w \in tracees' : InForkWindow(q, w)'
    BY <2>1 DEF NoStranger, kernelVars
  <2>2. ASSUME NEW w \in tracees, InForkWindow(q, w)
        PROVE  InForkWindow(q, w)'
    <3>1. CASE w # status.pid
      BY <2>1, <2>2, <3>1 DEF InForkWindow, Served, kernelVars
    <3>2. CASE w = status.pid
      <4>1. at[w] = "fork"
        BY <2>1, <2>2, <3>2 DEF InForkWindow, StoppedUnlessKilled, Stopped, Stops
      <4>2. ForkStop
        BY <1>5, <3>2, <4>1
        DEF SyscallStopSkipped, SyscallEntry, SyscallExit, ExecStop,
            SignalStopped, InSyscallStop, StatusInSync, StatusKindAt
      <4> QED
        BY <2>2, <3>2, <4>2 DEF ForkStop, Store, InForkWindow
    <3> QED
      BY <3>1, <3>2
  <2> QED
    BY <1>a, <2>1, <2>2
<1>6. CASE pc' \in {"drop", "dropwait", "done"}
  BY <1>6 DEF NoStranger, Running
<1>7. CASE UNCHANGED vars
  BY <1>7 DEF NoStranger, InForkWindow, Served, Running, vars, kernelVars,
       tracerVars
<1> QED
  BY <1>1, <1>2, <1>3, <1>4, <1>5, <1>6, <1>7
  DEF Next, TracerStep, Handle, ResumeFails, Finish, WaitEchild, WaitUnknown,
      GetregsFails, GeteventFails, Detach, DropWait, Dropped, Return, Task, Environment,
      Over

\* What the sink got of a task and what it was owed stay the same.
LEMMA ExactKept ==
  ASSUME EventsExact, Running, kills = 0, UNCHANGED <<log, follow>>,
         \A q \in Pid : Owed(q)' = Owed(q)
  PROVE  EventsExact'
BY DEF EventsExact, InOrder

\* ... when no exit-stop was served in between, an execve being aside.
LEMMA OwedKept ==
  ASSUME NEW q \in Pid, Done(q)' = Done(q), call[q] \in Nat,
         \/ execs'[q] = execs[q]
         \/ execs'[q] = execs[q] \cup {call[q]} /\ Done(q) = call[q] - 1
  PROVE  Owed(q)' = Owed(q)
BY DEF Owed

\* The events of a log with one more at its end.
LEMMA MoreReported ==
  ASSUME NEW s \in Seq(Event), NEW e \in Event
  PROVE  {Append(s, e)[i] : i \in DOMAIN Append(s, e)} = {s[i] : i \in DOMAIN s} \cup {e}
<1>1. /\ DOMAIN Append(s, e) = DOMAIN s \cup {Len(s) + 1}
      /\ Append(s, e)[Len(s) + 1] = e
      /\ \A i \in DOMAIN s : Append(s, e)[i] = s[i]
  BY OneMore
<1> QED
  BY <1>1, Zenon

\* Serving an exit-stop, and nothing else, makes one call more that is owed.
LEMMA ExactInductive ==
  ASSUME TypeOK, CallsInSync, ChildrenInSync, StatusInSync, PhaseInSync,
         AwaitingInSync, StoppedUnlessKilled, NoResultYet, OnceInOrder, OnceInOrder',
         EventsExact, [Next]_vars
  PROVE  EventsExact'
<1>k. KernelTypeOK /\ status.pid \in Pid /\ log \in [Pid -> Seq(Event)]
  BY DEF TypeOK, Status
<1>a. \A q \in Pid : doing[q] = "exit" => at[q] \in {"enter", "kernel", "zombie", "gone"}
  BY DEF CallsInSync
<1> SUFFICES ASSUME Running', kills' = 0
             PROVE  EventsExact'
  BY DEF EventsExact
<1>1. ASSUME NEW p \in Pid, TaskStep(p) \/ SendSignal(p) \/ Kill(p),
             UNCHANGED tracerVars
      PROVE  EventsExact'
  <2> USE <1>k DEF KernelTypeOK
  <2>1. Running /\ kills = 0 /\ ~Kill(p)
    BY <1>1 DEF tracerVars, Running, TaskStep, EnterCall, CreateChild, ForkEvent,
         ExecEvent, ReturnCall, ExitTask, AttachStop, SignalStop, FreeExit, SendSignal,
         Kill
  <2> SUFFICES ASSUME NEW q \in Pid
               PROVE  Owed(q)' = Owed(q)
    BY <1>1, <2>1, ExactKept DEF tracerVars
  <2>a. Served(q)' <=> Served(q)
    BY <1>1 DEF Served, tracerVars
  <2>b. at[q] \in {"kernel", "user"} => ~Served(q)
    BY DEF Served, StatusInSync, Stops
  <2>c. call[q] \in Nat
    OBVIOUS
  <2>d. at[q] # "free"
    BY <2>1 DEF NoResultYet
  <2> USE DEF Done, InCall
  <2>2. CASE q # p
    <3>1. Done(q)' = Done(q) /\ execs'[q] = execs[q]
      BY <1>1, <1>a, <2>2, <2>a, TaskEffect
    <3> QED
      BY <3>1, <2>c, OwedKept
  <2>3. CASE q = p /\ EnterCall(p)
    <3>1. /\ at[q] = "user" /\ at'[q] = "enter" /\ execs'[q] = execs[q]
          /\ call'[q] = call[q] + 1
      BY <2>3 DEF EnterCall, Stop
    <3>2. doing[q] # "exit"
      BY <1>a, <3>1
    <3>3. Done(q) = call[q]
      BY <3>1, <3>2
    <3>4. Done(q)' = call'[q] - 1
      BY <3>1
    <3>5. Done(q)' = call[q]
      BY <2>c, <3>1, <3>4
    <3> QED
      BY <3>1, <3>3, <3>5, <2>c, OwedKept
  <2>4. CASE q = p /\ (CreateChild(p) \/ ForkEvent(p) \/ ReturnCall(p))
    <3>1. Done(q)' = Done(q) /\ execs'[q] = execs[q]
      BY <2>4, <2>a, <2>b DEF CreateChild, ForkEvent, ReturnCall, Stop
    <3> QED
      BY <3>1, <2>c, OwedKept
  <2>5. CASE q = p /\ ExecEvent(p)
    <3>1. /\ Done(q)' = Done(q) /\ Done(q) = call[q] - 1
          /\ execs'[q] = execs[q] \cup {call[q]}
      BY <2>5 DEF ExecEvent, Stop
    <3> QED
      BY <3>1, <2>c, OwedKept
  <2>6. CASE q = p /\ (ExitTask(p) \/ AttachStop(p) \/ SignalStop(p) \/ FreeExit(p))
    <3>1. Done(q)' = Done(q) /\ execs'[q] = execs[q]
      BY <1>a, <2>6, <2>d DEF ExitTask, AttachStop, SignalStop, FreeExit, Stop
    <3> QED
      BY <3>1, <2>c, OwedKept
  <2>7. CASE SendSignal(p)
    <3>1. Done(q)' = Done(q) /\ execs'[q] = execs[q]
      BY <2>7, <2>a DEF SendSignal
    <3> QED
      BY <3>1, <2>c, OwedKept
  <2> QED
    BY <1>1, <2>1, <2>2, <2>3, <2>4, <2>5, <2>6, <2>7 DEF TaskStep
<1>2. ASSUME Running, kills = 0, UNCHANGED <<call, doing, execs, log, follow>>,
             \A q \in Pid : Done(q)' = Done(q)
      PROVE  EventsExact'
  <2>1. \A q \in Pid : Owed(q)' = Owed(q)
    BY <1>k, <1>2, OwedKept DEF KernelTypeOK
  <2> QED
    BY <1>2, <2>1, ExactKept
<1>3. CASE Resume
  <2>1. /\ Running /\ kills = 0 /\ UNCHANGED <<call, doing, execs, log, follow>>
        /\ \A q \in Pid : ~Served(q)'
    BY <1>3 DEF Resume, PtraceSyscall, Running, Served
  <2>2. ASSUME NEW q \in Pid
        PROVE  Done(q)' = Done(q)
    <3>1. CASE q # status.pid
      BY <1>3, <1>k, <2>1, <3>1
      DEF Resume, PtraceSyscall, Done, InCall, Served, KernelTypeOK
    <3>2. CASE q = status.pid
      BY <1>3, <1>k, <1>a, <2>1, <3>2
      DEF Resume, PtraceSyscall, ResumeTo, Stopped, Stops, Done, InCall, Served,
          KernelTypeOK
    <3> QED
      BY <3>1, <3>2
  <2> QED
    BY <1>2, <2>1, <2>2
<1>4. ASSUME NEW p \in Pid, Wait(p)
      PROVE  EventsExact'
  <2>1. /\ Running /\ kills = 0 /\ UNCHANGED <<call, doing, execs, log, follow>>
        /\ \A q \in Pid : ~Served(q)' /\ ~Served(q)
    BY <1>4 DEF Wait, Report, Running, Served
  <2>2. \A q \in Pid : Done(q)' = Done(q)
    BY <1>4, <1>k, <2>1 DEF Wait, Report, Done, InCall, KernelTypeOK
  <2> QED
    BY <1>2, <2>1, <2>2
<1>5. ASSUME pc = "handle", pc' \in {"wait", "resume"}, UNCHANGED <<kernelVars, log, follow>>,
             UNCHANGED status,
             pc' = "resume" => at[status.pid] # "exit"
                               \/ call[status.pid] \in execs[status.pid]
      PROVE  EventsExact'
  <2>1. Running /\ kills = 0
    BY <1>5 DEF Running, kernelVars
  <2>2. ASSUME NEW q \in Pid
        PROVE  Owed(q)' = Owed(q)
    <3>1. CASE at[q] # "exit" \/ ~Served(q)'
      BY <1>5, <3>1 DEF Owed, Done, InCall, Served, kernelVars
    <3>2. CASE at[q] = "exit" /\ Served(q)'
      <4>1. call[q] \in execs[q] /\ call[q] \in Nat
        BY <1>5, <1>k, <3>2 DEF Served, KernelTypeOK
      <4>2. Done(q) = call[q] - 1 /\ Done(q)' = call[q]
        BY <1>5, <1>a, <3>2 DEF Done, InCall, Served, kernelVars
      <4> QED
        BY <1>5, <4>1, <4>2 DEF Owed, kernelVars
    <3> QED
      BY <3>1, <3>2
  <2> QED
    BY <1>5, <2>1, <2>2, ExactKept
<1>6. CASE HandleExited \/ ForkStop \/ ExecStop \/ SignalStopped
  BY <1>5, <1>6 DEF HandleExited, ForkStop, ExecStop, SignalStopped, StatusInSync,
       StatusKindAt
<1>7. CASE SyscallStopSkipped \/ SyscallEntry
  <2> DEFINE p == status.pid
  <2>1. /\ pc = "handle" /\ pc' = "resume" /\ UNCHANGED <<kernelVars, log, follow, status>>
        /\ kills = 0 /\ status.kind = "PtraceSyscall"
    BY <1>7 DEF SyscallStopSkipped, SyscallEntry, InSyscallStop, kernelVars
  <2>2. ASSUME at[p] = "exit"
        PROVE  call[p] \in execs[p]
    <3>1. Stopped(p) /\ Running /\ at[p] \in Live
      BY <2>1, <2>2 DEF Stopped, Stops, Live, Running
    <3>2. p \in tracees /\ or_insert(p) = tracee[p]
      BY <2>1, <2>2, <3>1, SyscallStopKnown
    <3>3. InCall(p)
      BY <2>1, <2>2 DEF InCall, Served
    <3>4. /\ tracee[p].skip_next_syscall_stop <=> (InCall(p) /\ PastExec(p))
          /\ InCall(p) /\ ~PastExec(p) => tracee[p].phase = Exit(call[p])
      BY <1>k, <3>1, <3>2, PhaseOf
    <3>5. CASE SyscallStopSkipped
      BY <3>2, <3>4, <3>5 DEF SyscallStopSkipped, PastExec
    <3>6. CASE SyscallEntry
      BY <3>2, <3>3, <3>4, <3>6 DEF SyscallEntry, PastExec, Exit
    <3> QED
      BY <1>7, <3>5, <3>6
  <2> QED
    BY <1>5, <2>1, <2>2
<1>8. CASE SyscallExit
  <2>0. PICK p \in Pid : p = status.pid
    BY <1>k
  <2> DEFINE e == [entry |-> call[p], exit |-> call[p]]
  <2>1. e \in Event /\ Running /\ at[p] = "exit" /\ ~Served(p)
    BY <1>8, <2>0, ExitEvent
  <2>2. /\ call[p] \notin execs[p]
        /\ log' = IF p = Root \/ follow THEN [log EXCEPT ![p] = Append(log[p], e)] ELSE log
        /\ pc' = "resume" /\ UNCHANGED <<kernelVars, follow, status>>
    <3>1. p \in tracees /\ or_insert(p) = tracee[p] /\ at[p] \in Live
      BY <1>8, <2>0, <2>1, SyscallStopKnown
      DEF SyscallExit, InSyscallStop, Stopped, Stops, Live
    <3>2. /\ tracee[p].skip_next_syscall_stop <=> (InCall(p) /\ PastExec(p))
          /\ InCall(p) /\ ~PastExec(p) => tracee[p].phase = Exit(call[p])
      BY <2>0, <2>1, <3>1, PhaseOf
    <3>3. InCall(p) /\ ~PastExec(p)
      BY <1>8, <2>0, <2>1, <3>1, <3>2 DEF SyscallExit, InCall
    <3>4. tracee[p].phase.nr = call[p]
      BY <3>2, <3>3 DEF Exit
    <3> QED
      BY <1>8, <2>0, <2>1, <3>1, <3>3, <3>4
      DEF SyscallExit, InSyscallStop, PastExec, Reported, kernelVars
  <2>3. call[p] \in Nat \ {0} /\ kills = 0 /\ doing[p] # "exit"
    <3>1. kills = 0
      BY <2>2 DEF kernelVars
    <3>2. call[p] \in Nat
      BY <1>k, <2>1 DEF KernelTypeOK
    <3>3. call[p] > 0 \/ call[p] \in execs[p]
      BY <2>1 DEF CallsInSync
    <3>4. doing[p] # "exit"
      BY <1>a, <2>1
    <3> QED
      BY <2>2, <3>1, <3>2, <3>3, <3>4
  <2>4. Owed(p)' = Owed(p) \cup {call[p]}
    <3>1. Done(p) = call[p] - 1 /\ Done(p)' = call[p]
      BY <2>0, <2>1, <2>2, <2>3 DEF Done, InCall, Served, kernelVars
    <3> QED
      BY <2>0, <2>2, <2>3, <3>1 DEF Owed, kernelVars
  <2>5. \A q \in Pid \ {p} : Owed(q)' = Owed(q)
    BY <2>0, <2>1, <2>2 DEF Owed, Done, InCall, Served, SyscallExit, InSyscallStop, kernelVars
  <2> HIDE DEF e
  <2> SUFFICES ASSUME NEW q \in Pid
               PROVE  {log'[q][i] : i \in DOMAIN log'[q]} =
                        IF q = Root \/ follow
                        THEN {[entry |-> n, exit |-> n] : n \in Owed(q)'} ELSE {}
    BY <2>2 DEF EventsExact, OnceInOrder
  <2>a. {log[q][i] : i \in DOMAIN log[q]} =
          IF q = Root \/ follow THEN {[entry |-> n, exit |-> n] : n \in Owed(q)} ELSE {}
    BY <2>1, <2>3 DEF EventsExact
  <2>6. CASE q # p
    <3>1. log'[q] = log[q]
      BY <1>k, <2>2, <2>6
    <3>2. Owed(q)' = Owed(q)
      BY <2>5, <2>6
    <3> QED
      BY <2>a, <3>1, <3>2, Zenon
  <2>7. CASE q = p /\ ~(p = Root \/ follow)
    BY <2>2, <2>a, <2>7
  <2>8. CASE q = p /\ (p = Root \/ follow)
    <3>1. log'[p] = Append(log[p], e) /\ log[p] \in Seq(Event)
      BY <1>k, <2>1, <2>2, <2>8
    <3>2. {log'[p][i] : i \in DOMAIN log'[p]} = {log[p][i] : i \in DOMAIN log[p]} \cup {e}
      BY <2>1, <3>1, MoreReported, SMTT(20)
    <3>3. {[entry |-> n, exit |-> n] : n \in Owed(p) \cup {call[p]}}
            = {[entry |-> n, exit |-> n] : n \in Owed(p)} \cup {e}
      BY Zenon DEF e
    <3>4. {log'[p][i] : i \in DOMAIN log'[p]} =
            {[entry |-> n, exit |-> n] : n \in Owed(p)'}
      BY <2>4, <2>8, <2>a, <3>2, <3>3, Zenon
    <3> QED
      BY <2>8, <3>4, Zenon
  <2> QED
    BY <2>6, <2>7, <2>8
<1>9. CASE Over \/ UNCHANGED vars
  <2>1. UNCHANGED vars
    BY <1>9 DEF Over
  <2> QED
    BY <2>1 DEF EventsExact, InOrder, Owed, Done, InCall, Served, Running, vars, kernelVars,
         tracerVars
<1>10. CASE \E p \in Pid : Detach(p) \/ WaitUnknown(p)
  BY <1>10 DEF Detach, WaitUnknown, Return, Running
<1>11. CASE ResumeFails \/ Finish \/ WaitEchild \/ GetregsFails \/ GeteventFails
            \/ DropWait \/ Dropped
  BY <1>11 DEF ResumeFails, Finish, WaitEchild, GetregsFails, GeteventFails, DropWait,
       Dropped, Return, Running
<1> QED
  BY <1>1, <1>3, <1>4, <1>6, <1>7, <1>8, <1>9, <1>10, <1>11
  DEF Next, TracerStep, Handle, Task, Environment

\* With no kill no request fails, and ECHILD finds no root: run fails only for a
\* signal that waitpid cannot tell.
LEMMA ResultInductive ==
  ASSUME TypeOK, StoppedUnlessKilled, RootTracked, NoResultYet, RunSucceeds,
         NeverTraceeGone, [Next]_vars
  PROVE  RunSucceeds' /\ NeverTraceeGone'
<1>k. KernelTypeOK /\ Root \in Pid /\ status.pid \in Pid /\ kills \in Nat
  BY PtraceAssumption DEF TypeOK, Status, KernelTypeOK
<1>1. ASSUME NEW p \in Pid, TaskStep(p) \/ SendSignal(p) \/ Kill(p),
             UNCHANGED tracerVars
      PROVE  RunSucceeds' /\ NeverTraceeGone'
  <2>1. kills' = 0 => kills = 0
    BY <1>1, <1>k, KillsGrow
  <2>2. ASSUME NEW q \in Pid, UnknownSignal(q), at[q] \in {"signal", "zombie", "gone"}
        PROVE  UnknownSignal(q)' /\ at'[q] \in {"signal", "zombie", "gone"}
    BY <1>1, <1>k, <2>2, StoppedStays DEF UnknownSignal, Stops
  <2> QED
    BY <1>1, <2>1, <2>2 DEF RunSucceeds, NeverTraceeGone, tracerVars
<1>2. CASE ResumeFails \/ GetregsFails \/ GeteventFails
  <2>1. kills # 0 /\ result' = "Ptrace" /\ kills' = kills
    BY <1>2 DEF ResumeFails, GetregsFails, GeteventFails, InSyscallStop,
         StoppedUnlessKilled, Return, kernelVars
  <2> QED
    BY <2>1 DEF RunSucceeds, NeverTraceeGone
<1>3. CASE WaitEchild
  <2>1. Root \notin tracees
    BY <1>3, <1>k DEF WaitEchild, Waitable, RootTracked, Running
  <2> QED
    BY <1>3, <2>1 DEF WaitEchild, EchildResult, Return, RunSucceeds, NeverTraceeGone
<1>4. CASE Finish
  BY <1>4 DEF Finish, Return, RunSucceeds, NeverTraceeGone
<1>5. CASE TracerStep /\ UNCHANGED result
  <2>1. ASSUME kills = 0, result \notin {"none", "Ok"}, NEW q \in Pid,
               UnknownSignal(q), at[q] \in {"signal", "zombie", "gone"}
        PROVE  UnknownSignal(q)' /\ at'[q] \in {"signal", "zombie", "gone"}
    <3>1. (\E p \in Pid : Detach(p)) \/ DropWait \/ Dropped
      BY <1>5, <2>1 DEF NoResultYet, Running, TracerStep, Handle, Resume, ResumeFails,
           Finish, WaitEchild, Wait, WaitUnknown, HandleExited, SyscallStopSkipped,
           SyscallEntry, SyscallExit, GetregsFails, ForkStop, GeteventFails, ExecStop,
           SignalStopped, InSyscallStop
    <3>2. ASSUME NEW p \in Pid, Detach(p)
          PROVE  sig' = sig /\ at'[q] \in {"signal", "zombie", "gone"}
      BY <1>k, <2>1, <3>2 DEF Detach, PtraceDetach, KernelTypeOK, kernelVars
    <3>3. CASE DropWait
      BY <1>k, <2>1, <3>3
      DEF DropWait, Report, KernelTypeOK, kernelVars, UnknownSignal
    <3>4. CASE Dropped
      BY <2>1, <3>4 DEF Dropped, kernelVars, UnknownSignal
    <3> QED
      BY <2>1, <3>1, <3>2, <3>3, <3>4 DEF UnknownSignal
  <2> QED
    BY <1>5, <2>1, RequestEffect DEF RunSucceeds, NeverTraceeGone
<1>6. ASSUME NEW p \in Pid, WaitUnknown(p)
      PROVE  RunSucceeds' /\ NeverTraceeGone'
  <2>1. /\ result' = "Einval" /\ at'[p] = "signal"
        /\ UnknownSignal(p)'
    BY <1>k, <1>6, UnknownEffect DEF UnknownSignal
  <2> QED
    BY <2>1 DEF RunSucceeds, NeverTraceeGone
<1>7. CASE UNCHANGED vars
  BY <1>7 DEF RunSucceeds, UnknownSignal, NeverTraceeGone, vars, kernelVars, tracerVars
<1> QED
  BY <1>1, <1>2, <1>3, <1>4, <1>5, <1>6, <1>7
  DEF Next, TracerStep, Handle, Resume, Wait, HandleExited, SyscallStopSkipped,
      SyscallEntry, SyscallExit, ForkStop, ExecStop, SignalStopped, Detach,
      DropWait, Dropped, Task, Environment, Over

\* An empty table means that no task is left, and so does ECHILD; and once no
\* task is left none appears.
LEMMA DrainedInductive ==
  ASSUME TypeOK, NoStranger, NoResultYet, StoppedUnlessKilled, OkMeansDrained,
         [Next]_vars
  PROVE  OkMeansDrained'
<1>k. KernelTypeOK /\ Root \in Pid /\ status.pid \in Pid /\ kills \in Nat
  BY PtraceAssumption DEF TypeOK, Status, KernelTypeOK
<1>1. ASSUME NEW p \in Pid, TaskStep(p) \/ SendSignal(p) \/ Kill(p),
             UNCHANGED tracerVars
      PROVE  OkMeansDrained'
  <2>1. kills' = 0 => kills = 0
    BY <1>1, <1>k, KillsGrow
  <2>2. at[p] \notin {"none", "gone"}
    BY <1>1 DEF TaskStep, EnterCall, CreateChild, ForkEvent, ExecEvent, ReturnCall,
         ExitTask, AttachStop, SignalStop, FreeExit, SendSignal, Kill, Live, Stops
  <2> QED
    BY <1>1, <2>1, <2>2 DEF OkMeansDrained, tracerVars
<1>2. CASE Finish \/ WaitEchild
  <2>1. UNCHANGED <<at, kills>> /\ Running
    BY <1>2 DEF Finish, WaitEchild, kernelVars, Running
  <2>2. ASSUME kills = 0, NEW q \in Pid
        PROVE  at[q] \notin Live \cup {"zombie", "free"}
    <3>1. CASE Finish
      BY <2>1, <2>2, <3>1 DEF Finish, NoStranger, NoResultYet
    <3>2. CASE WaitEchild
      BY <2>1, <2>2, <3>2 DEF WaitEchild, Waitable, NoResultYet
    <3> QED
      BY <1>2, <3>1, <3>2
  <2> QED
    BY <1>k, <2>1, <2>2 DEF OkMeansDrained, KernelTypeOK, Places
<1>3. CASE TracerStep /\ UNCHANGED result
  BY <1>3, RequestEffect DEF OkMeansDrained, Stops
<1>4. CASE ResumeFails \/ GetregsFails \/ GeteventFails
  BY <1>4 DEF ResumeFails, GetregsFails, GeteventFails, Return, OkMeansDrained
<1>5. ASSUME NEW p \in Pid, WaitUnknown(p)
      PROVE  OkMeansDrained'
  BY <1>k, <1>5, UnknownEffect DEF OkMeansDrained
<1>6. CASE UNCHANGED vars
  BY <1>6 DEF OkMeansDrained, vars, kernelVars, tracerVars
<1> QED
  BY <1>1, <1>2, <1>3, <1>4, <1>5, <1>6
  DEF Next, TracerStep, Handle, Resume, Wait, HandleExited, SyscallStopSkipped,
      SyscallEntry, SyscallExit, ForkStop, ExecStop, SignalStopped, Detach,
      DropWait, Dropped, Task, Environment, Over

-----------------------------------------------------------------------------
(* The theorems.                                                           *)

LEMMA InitInv == Init => IInv
<1> SUFFICES ASSUME Init PROVE IInv
  OBVIOUS
<1>1. TypeOK
  BY InitTypes
<1> QED
  BY <1>1, PtraceAssumption
  DEF Init, KernelInit, TracerInit, IInv, CallsInSync, ChildrenInSync,
      StatusInSync, PhaseInSync, AwaitingInSync, AttachPending, Paired,
      LogBehind, InProgress, OnceInOrder, InOrder, EventsExact, Owed, Done, SignalsFaithful, StoppedUnlessKilled,
      Stopped, NoStranger, RootTracked,
      NoResultYet, RunSucceeds, NeverTraceeGone, OkMeansDrained, Running, Served,
      InCall, PastExec, new_root, Entry, Live, Stops, NoSignal

\* IInv is inductive: every step of the tracer, of a task and of the
\* environment keeps it, for any number of tasks, calls, signals and kills.
THEOREM IInvHolds == Spec => []IInv
<1>1. IInv /\ [Next]_vars => IInv'
  <2> SUFFICES ASSUME IInv, [Next]_vars PROVE IInv'
    OBVIOUS
  <2> USE DEF IInv
  <2>1. TypeOK'
    BY NextTypes
  <2>2. CallsInSync' /\ ChildrenInSync' /\ StatusInSync'
    BY CallsInductive, ChildrenInductive, StatusInductive
  <2>3. PhaseInSync' /\ AwaitingInSync'
    BY PhaseInductive, AwaitingInductive
  <2>4. Paired' /\ LogBehind' /\ OnceInOrder' /\ SignalsFaithful'
    BY PairedInductive, BehindInductive, OrderInductive, SignalsInductive
  <2>5. StoppedUnlessKilled' /\ NoStranger' /\ RootTracked' /\ NoResultYet'
    BY StoppedInductive, StrangerInductive, RootInductive, NoResultInductive
  <2>6. RunSucceeds' /\ NeverTraceeGone' /\ OkMeansDrained'
    BY ResultInductive, DrainedInductive
  <2>7. EventsExact'
    BY <2>4, ExactInductive
  <2> QED
    BY <2>1, <2>2, <2>3, <2>4, <2>5, <2>6, <2>7
<1> QED
  BY InitInv, <1>1, PTL DEF Spec

\* Every variable keeps its type.
THEOREM TypeCorrect == Spec => []TypeOK
<1>1. IInv => TypeOK
  BY DEF IInv
<1> QED
  BY IInvHolds, <1>1, PTL

\* The phase and skip flag of every tracee say which stop comes next.
THEOREM PhaseCorrect == Spec => []PhaseInSync
<1>1. IInv => PhaseInSync
  BY DEF IInv
<1> QED
  BY IInvHolds, <1>1, PTL

\* The SIGSTOP of the attach is awaited exactly until it is served.
THEOREM AwaitingCorrect == Spec => []AwaitingInSync
<1>1. IInv => AwaitingInSync
  BY DEF IInv
<1> QED
  BY IInvHolds, <1>1, PTL

\* An event never joins the halves of two calls.
THEOREM PairingCorrect == Spec => []Paired
<1>1. IInv => Paired
  BY DEF IInv
<1> QED
  BY IInvHolds, <1>1, PTL

\* No call is reported twice or behind a later one.
THEOREM ReportedOnceInOrder == Spec => []OnceInOrder
<1>1. IInv => OnceInOrder
  BY DEF IInv
<1> QED
  BY IInvHolds, <1>1, PTL

\* Without SIGKILL the sink got of every monitored task each finished call once and
\* in order, successful execves aside, and of the other tasks nothing.
THEOREM EventsAreExact == Spec => []EventsExact
<1>1. IInv => EventsExact
  BY DEF IInv
<1> QED
  BY IInvHolds, <1>1, PTL

\* Genuine signals are passed on, the SIGSTOP of the attach is not.
THEOREM SignalsCorrect == Spec => []SignalsFaithful
<1>1. IInv => SignalsFaithful
  BY DEF IInv
<1> QED
  BY IInvHolds, <1>1, PTL

\* Without SIGKILL run returns Ok, or does not return, or meets a real-time signal
\* that a tracee was sent.
THEOREM RunSucceedsUnlessKilled == Spec => []RunSucceeds
<1>1. IInv => RunSucceeds
  BY DEF IInv
<1> QED
  BY IInvHolds, <1>1, PTL

\* run never returns TraceeGone.
THEOREM TraceeNeverGone == Spec => []NeverTraceeGone
<1>1. IInv => NeverTraceeGone
  BY DEF IInv
<1> QED
  BY IInvHolds, <1>1, PTL

\* Without SIGKILL run returns Ok only when no task is left.
THEOREM DrainedWhenOk == Spec => []OkMeansDrained
<1>1. IInv => OkMeansDrained
  BY DEF IInv
<1> QED
  BY IInvHolds, <1>1, PTL

\* Serving one task leaves the entries of the others alone: the table is written
\* at the pid of the status, and a late EVENT_FORK finds its child there.
THEOREM OthersAreUntouched == Spec => OthersUntouched
<1> DEFINE Untouched ==
      \A p \in tracees \cap tracees' : p # status.pid => tracee'[p] = tracee[p]
<1>1. ASSUME IInv, [Next]_vars PROVE Untouched
  <2>1. /\ tracees \in SUBSET Pid /\ tracee \in [Pid -> Tracee] /\ status.pid \in Pid
        /\ child \in [Pid -> Pid]
    BY <1>1 DEF IInv, TypeOK, Status, KernelTypeOK
  <2>2. CASE UNCHANGED tracee
    BY <2>2
  <2>3. ASSUME NEW t, Store(status.pid, t) PROVE Untouched
    BY <2>1, <2>3 DEF Store
  <2>4. CASE ForkStop
    BY <2>1, <2>4 DEF ForkStop, Store, or_insert
  <2>5. CASE ExecStop
    BY <2>1, <2>5 DEF ExecStop
  <2>6. CASE SyscallStopSkipped
    BY <2>3, <2>6 DEF SyscallStopSkipped
  <2>7. CASE SyscallEntry
    BY <2>3, <2>7 DEF SyscallEntry
  <2>8. CASE SyscallExit
    BY <2>3, <2>8 DEF SyscallExit
  <2>9. CASE GetregsFails
    BY <2>3, <2>9 DEF GetregsFails
  <2>10. CASE SignalStopped
    BY <2>3, <2>10 DEF SignalStopped
  <2> QED
    BY <1>1, <2>2, <2>4, <2>5, <2>6, <2>7, <2>8, <2>9, <2>10
    DEF Next, TracerStep, Handle, vars, tracerVars, Resume, ResumeFails, Finish,
        WaitEchild, Wait, WaitUnknown, HandleExited, GeteventFails, Detach, DropWait,
        Dropped, Task, Environment, Over
<1> QED
  BY IInvHolds, <1>1, PTL DEF Spec, OthersUntouched, Untouched

=============================================================================
