---------------------------- MODULE TraceProofs ----------------------------
(***************************************************************************)
(* Proof that Tracer implements SyscallTrace, for every set of pids, every *)
(* kind of call and every bound: each step is a step of SyscallTrace under *)
(* the mapping of Promise, or leaves all of it as it was.                  *)
(***************************************************************************)
EXTENDS TracerProofs

\* The places of all tasks, as SyscallTrace sees them.
Map == [p \in Pid |-> PlaceOf(p)]

\* No task moves, in the eyes of SyscallTrace ...
Still == \A q \in Pid : PlaceOf(q)' = PlaceOf(q)

\* ... or only task p does, from one place to another.
Moves(p, from, to) ==
  /\ PlaceOf(p) = from /\ PlaceOf(p)' = to
  /\ \A q \in Pid : q # p => PlaceOf(q)' = PlaceOf(q)

\* A step of SyscallTrace, or none.
TraceStep == [Promise!TraceNext]_(Promise!traceVars)

-----------------------------------------------------------------------------
(* The mapping.                                                            *)

\* A task that stays where it is keeps its place; at an exit-stop the tracer has
\* served it or not.
LEMMA PlaceKept ==
  ASSUME NEW q \in Pid, at'[q] = at[q], call'[q] = call[q], execs'[q] = execs[q],
         at[q] = "exit" => (Served(q)' <=> Served(q))
  PROVE  PlaceOf(q)' = PlaceOf(q)
<1>1. CASE at[q] = "exit" /\ Served(q)
  BY <1>1 DEF PlaceOf
<1>2. CASE at[q] = "exit" /\ ~Served(q)
  BY <1>2 DEF PlaceOf, Passed
<1>3. CASE at[q] # "exit"
  BY <1>3 DEF PlaceOf
<1> QED
  BY <1>1, <1>2, <1>3

\* What Still says of the function that SyscallTrace has ...
LEMMA MapStill ==
  ASSUME Still
  PROVE  Map' = Map
BY DEF Still, Map

\* ... and what Moves does.
LEMMA MapMoves ==
  ASSUME NEW p \in Pid, NEW from, NEW to, Moves(p, from, to)
  PROVE  Map[p] = from /\ Map' = [Map EXCEPT ![p] = to]
BY DEF Moves, Map

\* A step that moves no task and says nothing is none of SyscallTrace.
LEMMA Stutters ==
  ASSUME Still, follow' = follow, UNCHANGED <<call, log, result>>, kills' = kills
  PROVE  TraceStep
<1>1. Map' = Map
  BY MapStill
<1> QED
  BY <1>1 DEF TraceStep, Promise!traceVars, Map, Reported

\* A step that moves one task and says nothing is an action of SyscallTrace if
\* the move is.
LEMMA OneMoves ==
  ASSUME NEW p \in Pid, NEW from, NEW to, Moves(p, from, to),
         follow' = follow, UNCHANGED <<log, result>>
  PROVE  /\ from # to => Promise!Go(p, from, to)
         /\ Map[p] = from /\ Map' = [Map EXCEPT ![p] = to]
         /\ Promise!Quiet
<1>1. Map[p] = from /\ Map' = [Map EXCEPT ![p] = to]
  BY MapMoves
<1> QED
  BY <1>1 DEF Promise!Go, Promise!Quiet, Map, Reported

-----------------------------------------------------------------------------
(* The steps of the tasks.                                                 *)

\* Each step of a task begins a call, ends one, replaces its program, creates a
\* task, is its end, or none of SyscallTrace's business.
LEMMA TaskTraced ==
  ASSUME IInv, NEW p \in Pid, TaskStep(p), UNCHANGED tracerVars
  PROVE  TraceStep
<1>k. /\ TypeOK /\ KernelTypeOK /\ CallsInSync /\ StatusInSync
      /\ \A n \in execs[p] : n <= call[p]
  BY DEF IInv, TypeOK, CallsInSync
<1>u. /\ follow' = follow /\ UNCHANGED <<log, result>>
      /\ \A q \in Pid : Served(q)' <=> Served(q)
  BY DEF tracerVars, Served
<1>s. at[p] \in {"user", "kernel"} => ~Served(p)
  BY <1>k DEF StatusInSync, Served, Stops
<1>o. ASSUME NEW q \in Pid, q # p, at'[q] = at[q]
      PROVE  PlaceOf(q)' = PlaceOf(q)
  <2>1. call'[q] = call[q] /\ execs'[q] = execs[q]
    BY <1>k, <1>o, TaskEffect
  <2> QED
    BY <1>o, <1>u, <2>1, PlaceKept
<1>1. CASE EnterCall(p)
  <2> USE DEF KernelTypeOK
  <2>1. at[p] = "user" /\ at'[p] = "enter" /\ call'[p] = call[p] + 1
        /\ execs' = execs /\ \A q \in Pid : q # p => at'[q] = at[q]
    BY <1>1, <1>k DEF EnterCall, Stop
  <2>2. call'[p] \notin execs'[p]
    BY <1>k, <2>1
  <2>3. PlaceOf(p) = "between" /\ PlaceOf(p)' = "inside"
    BY <2>1, <2>2 DEF PlaceOf
  <2>4. Moves(p, "between", "inside")
    BY <2>1, <2>3, <1>o DEF Moves
  <2>5. call' = [call EXCEPT ![p] = call[p] + 1] /\ kills' = kills
    BY <1>1 DEF EnterCall
  <2>6. Promise!Make(p)
    BY <1>u, <2>4, <2>5, OneMoves DEF Promise!Make
  <2> QED
    BY <2>6 DEF TraceStep, Promise!TraceNext
<1>2. CASE CreateChild(p)
  <2> USE DEF KernelTypeOK
  <2>1. PICK c \in Pid :
          /\ at[c] = "none" /\ at' = [at EXCEPT ![c] = "user"]
    BY <1>2 DEF CreateChild
  <2>2. at[p] = "kernel" /\ c # p /\ UNCHANGED <<call, execs, kills>>
    BY <1>2, <2>1 DEF CreateChild
  <2>3. PlaceOf(c) = "none" /\ PlaceOf(c)' = "between"
    BY <1>k, <2>1 DEF PlaceOf
  <2>4. ASSUME NEW q \in Pid, q # c PROVE PlaceOf(q)' = PlaceOf(q)
    BY <1>k, <1>u, <2>1, <2>2, <2>4, PlaceKept
  <2>5. Moves(c, "none", "between")
    BY <2>3, <2>4 DEF Moves
  <2>6. Promise!Create(c)
    BY <1>u, <2>2, <2>5, OneMoves DEF Promise!Create
  <2> QED
    BY <2>6 DEF TraceStep, Promise!TraceNext
<1>3. CASE ForkEvent(p) \/ AttachStop(p) \/ SignalStop(p)
  <2> USE DEF KernelTypeOK
  <2>1. /\ \/ at[p] = "kernel" /\ at'[p] = "fork"
           \/ at[p] = "user" /\ at'[p] \in {"attach", "signal"}
        /\ UNCHANGED <<call, execs, kills>>
        /\ \A q \in Pid : q # p => at'[q] = at[q]
    BY <1>3, <1>k DEF ForkEvent, AttachStop, SignalStop, Stop
  <2>2. PlaceOf(p)' = PlaceOf(p)
    BY <2>1 DEF PlaceOf
  <2>3. Still
    BY <2>1, <2>2, <1>o DEF Still
  <2> QED
    BY <1>u, <2>1, <2>3, Stutters
<1>4. CASE ExecEvent(p)
  <2> USE DEF KernelTypeOK
  <2>1. /\ at[p] = "kernel" /\ at'[p] = "exec" /\ call[p] \notin execs[p]
        /\ UNCHANGED <<call, kills>> /\ call[p] \in execs'[p]
        /\ \A q \in Pid : q # p => at'[q] = at[q]
    BY <1>4, <1>k DEF ExecEvent, Stop, CallsInSync
  <2>2. PlaceOf(p) = "inside" /\ PlaceOf(p)' = "replaced"
    BY <2>1 DEF PlaceOf
  <2>3. Moves(p, "inside", "replaced")
    BY <2>1, <2>2, <1>o DEF Moves
  <2>4. Promise!Replace(p)
    BY <1>u, <2>1, <2>3, OneMoves DEF Promise!Replace
  <2> QED
    BY <2>4 DEF TraceStep, Promise!TraceNext
<1>5. CASE ReturnCall(p)
  <2> USE DEF KernelTypeOK
  <2>1. /\ at[p] = "kernel" /\ at'[p] = "exit"
        /\ UNCHANGED <<call, execs, kills>>
        /\ \A q \in Pid : q # p => at'[q] = at[q]
    BY <1>5, <1>k DEF ReturnCall, Stop
  <2>2. ~Served(p)'
    BY <1>u, <1>s, <2>1
  <2>3. CASE call[p] \in execs[p]
    <3>1. PlaceOf(p) = "replaced" /\ PlaceOf(p)' = "replaced"
      BY <2>1, <2>2, <2>3 DEF PlaceOf, Passed
    <3>2. Still
      BY <2>1, <3>1, <1>o DEF Still
    <3> QED
      BY <1>u, <2>1, <3>2, Stutters
  <2>4. CASE call[p] \notin execs[p]
    <3>1. PlaceOf(p) = "inside" /\ PlaceOf(p)' = "returned"
      BY <2>1, <2>2, <2>4 DEF PlaceOf, Passed
    <3>2. Moves(p, "inside", "returned")
      BY <2>1, <3>1, <1>o DEF Moves
    <3>3. Promise!ReturnFrom(p)
      BY <1>u, <2>1, <3>2, OneMoves DEF Promise!ReturnFrom
    <3> QED
      BY <3>3 DEF TraceStep, Promise!TraceNext
  <2> QED
    BY <2>3, <2>4
<1>6. CASE ExitTask(p) \/ FreeExit(p)
  <2> USE DEF KernelTypeOK
  <2>1. /\ at[p] \in {"kernel", "free"} /\ at'[p] \in {"zombie", "gone"}
        /\ UNCHANGED <<call, execs, kills>>
        /\ \A q \in Pid : q # p => at'[q] = at[q]
    BY <1>6, <1>k DEF ExitTask, FreeExit
  <2>2. PlaceOf(p) \in {"inside", "replaced", "left"} /\ PlaceOf(p)' = "dead"
    BY <2>1 DEF PlaceOf
  <2>3. Moves(p, PlaceOf(p), "dead")
    BY <2>1, <2>2, <1>o DEF Moves
  <2>4. Map[p] = PlaceOf(p) /\ Map' = [Map EXCEPT ![p] = "dead"] /\ Promise!Quiet
    BY <1>u, <2>3, OneMoves
  <2>5. Promise!End(p)
    BY <2>1, <2>2, <2>4 DEF Promise!End, Map
  <2> QED
    BY <2>5 DEF TraceStep, Promise!TraceNext
<1> QED
  BY <1>1, <1>2, <1>3, <1>4, <1>5, <1>6 DEF TaskStep
\* A SIGKILL may take an event along; the other signals are nothing to
\* SyscallTrace.
LEMMA EnvironmentTraced ==
  ASSUME IInv, NEW p \in Pid, SendSignal(p) \/ Kill(p), UNCHANGED tracerVars
  PROVE  TraceStep
<1>k. KernelTypeOK
  BY DEF IInv, TypeOK
<1>u. /\ follow' = follow /\ UNCHANGED <<log, result, call, execs>>
      /\ \A q \in Pid : Served(q)' <=> Served(q)
  BY DEF tracerVars, Served, SendSignal, Kill
<1>1. CASE SendSignal(p)
  <2>1. UNCHANGED <<at, kills>>
    BY <1>1 DEF SendSignal
  <2>2. Still
    BY <1>u, <2>1, PlaceKept DEF Still
  <2> QED
    BY <1>u, <2>1, <2>2, Stutters
<1>2. CASE Kill(p)
  <2>1. /\ at'[p] = "zombie" /\ \A q \in Pid : q # p => at'[q] = at[q]
        /\ kills' = kills + 1
    BY <1>2, <1>k DEF Kill, KernelTypeOK
  <2>2. \A q \in Pid : q # p => PlaceOf(q)' = PlaceOf(q)
    BY <1>u, <2>1, PlaceKept
  <2>3. PlaceOf(p)' = "dead"
    BY <2>1 DEF PlaceOf
  <2>4. Moves(p, PlaceOf(p), "dead")
    BY <2>2, <2>3 DEF Moves
  <2>5. Map' = [Map EXCEPT ![p] = "dead"] /\ Promise!Quiet
    BY <1>u, <2>4, OneMoves
  <2>6. (kills' > 0) = TRUE
    BY <1>k, <2>1 DEF KernelTypeOK
  <2>7. Promise!Kill(p)
    BY <1>u, <2>5, <2>6 DEF Promise!Kill, Map
  <2> QED
    BY <2>7 DEF TraceStep, Promise!TraceNext
<1> QED
  BY <1>1, <1>2

-----------------------------------------------------------------------------
(* The steps of the tracer.                                                *)

\* run has a result exactly when it is over: NoResultYet is the other half.
ResultOnceOver == ~Running => result # "none"

LEMMA ResultOnceOverHolds == Spec => []ResultOnceOver
<1> USE DEF ResultOnceOver, Running
<1>1. Init => ResultOnceOver
  BY DEF Init, TracerInit
<1>2. ASSUME ResultOnceOver, [Next]_vars PROVE ResultOnceOver'
  BY <1>2
  DEF Next, TracerStep, Handle, Resume, ResumeFails, Finish, WaitEchild, Wait,
      WaitUnknown, HandleExited, SyscallStopSkipped, SyscallEntry, SyscallExit,
      GetregsFails, ForkStop, GeteventFails, ExecStop, SignalStopped, Detach,
      DropWait, Dropped, Task, Environment, Over, tracerVars, vars, Return,
      EchildResult
<1> QED
  BY <1>1, <1>2, PTL DEF Spec

\* The restart of a task goes on with its call, or with its program; SIGTERM
\* ends it.
LEMMA ResumeTraced ==
  ASSUME IInv, Resume
  PROVE  TraceStep
<1>k. KernelTypeOK
  BY DEF IInv, TypeOK
<1>p. PICK p \in Pid : p = status.pid
  BY DEF IInv, TypeOK, Status
<1>u. /\ follow' = follow /\ UNCHANGED <<log, result, call, execs, kills>>
      /\ at[p] \in Stops /\ Served(p)
      /\ \A q \in Pid : q # p => ~Served(q)
      /\ \A q \in Pid : ~Served(q)'
  BY <1>p DEF Resume, PtraceSyscall, Stopped, Served
<1>1. /\ at'[p] = ResumeTo(p, inject)
      /\ \A q \in Pid : q # p => at'[q] = at[q]
  BY <1>k, <1>p DEF Resume, PtraceSyscall, KernelTypeOK
<1>2. \A q \in Pid : q # p => PlaceOf(q)' = PlaceOf(q)
  BY <1>u, <1>1, PlaceKept
<1>3. CASE at'[p] = "zombie"
  <2>1. at[p] \in {"attach", "signal"}
    BY <1>1, <1>3 DEF ResumeTo
  <2>2. PlaceOf(p) = "between" /\ PlaceOf(p)' = "dead"
    BY <1>3, <2>1 DEF PlaceOf
  <2>3. Moves(p, "between", "dead")
    BY <1>2, <2>2 DEF Moves
  <2>4. Map[p] = "between" /\ Map' = [Map EXCEPT ![p] = "dead"] /\ Promise!Quiet
    BY <1>u, <2>3, OneMoves
  <2>5. Promise!End(p)
    BY <1>u, <2>4 DEF Promise!End, Map
  <2> QED
    BY <2>5 DEF TraceStep, Promise!TraceNext
<1>4. CASE at'[p] # "zombie"
  <2>1. \/ at[p] \in {"enter", "fork", "exec"} /\ at'[p] = "kernel"
        \/ /\ at[p] \in {"exit", "attach", "signal", "group"}
           /\ at'[p] \in {"user", "group"}
    BY <1>u, <1>1, <1>4 DEF ResumeTo, Stops
  <2>2. PlaceOf(p)' = PlaceOf(p)
    BY <1>u, <2>1 DEF PlaceOf
  <2>3. Still
    BY <1>2, <2>2 DEF Still
  <2> QED
    BY <1>u, <2>3, Stutters
<1> QED
  BY <1>3, <1>4

\* What waitpid reports is nothing to SyscallTrace: a task it reaps was dead.
LEMMA ReportStill ==
  ASSUME KernelTypeOK, NEW p \in Pid, Report(p),
         \A q \in Pid : Served(q)' <=> Served(q)
  PROVE  Still /\ UNCHANGED <<call, kills>>
<1>1. UNCHANGED <<call, execs, kills>>
  BY DEF Report
<1>2. /\ at'[p] = at[p] \/ (at[p] = "zombie" /\ at'[p] = "gone")
      /\ \A q \in Pid : q # p => at'[q] = at[q]
  BY DEF Report, KernelTypeOK
<1>3. ASSUME NEW q \in Pid, at'[q] = at[q] PROVE PlaceOf(q)' = PlaceOf(q)
  BY <1>1, <1>3, PlaceKept
<1>4. CASE at[p] = "zombie" /\ at'[p] = "gone"
  <2>1. PlaceOf(p)' = PlaceOf(p)
    BY <1>4 DEF PlaceOf
  <2> QED
    BY <1>1, <1>2, <1>3, <2>1 DEF Still
<1> QED
  BY <1>1, <1>2, <1>3, <1>4 DEF Still
\* The waitpid of run, with a status it can tell.
LEMMA WaitTraced ==
  ASSUME IInv, NEW p \in Pid, Wait(p)
  PROVE  TraceStep
<1>k. KernelTypeOK
  BY DEF IInv, TypeOK
<1>1. /\ Report(p) /\ follow' = follow /\ UNCHANGED <<log, result>>
      /\ \A q \in Pid : Served(q)' <=> Served(q)
  BY DEF Wait, Served
<1>2. Still /\ UNCHANGED <<call, kills>>
  BY <1>k, <1>1, ReportStill
<1> QED
  BY <1>1, <1>2, Stutters

\* The waitpid of Drop, whatever it says.
LEMMA DropWaitTraced ==
  ASSUME IInv, DropWait
  PROVE  TraceStep
<1>k. KernelTypeOK
  BY DEF IInv, TypeOK
<1>p. PICK p \in Pid : p = status.pid
  BY DEF IInv, TypeOK, Status
<1>1. /\ Report(p) \/ UNCHANGED kernelVars
      /\ follow' = follow /\ UNCHANGED <<log, result>>
      /\ \A q \in Pid : Served(q)' <=> Served(q)
  BY <1>p DEF DropWait, Served
<1>2. CASE Report(p)
  <2>1. Still /\ UNCHANGED <<call, kills>>
    BY <1>k, <1>1, <1>2, ReportStill
  <2> QED
    BY <1>1, <2>1, Stutters
<1>3. CASE UNCHANGED kernelVars
  <2>1. UNCHANGED <<at, call, execs, kills>>
    BY <1>3 DEF kernelVars
  <2>2. Still
    BY <1>1, <2>1, PlaceKept DEF Still
  <2> QED
    BY <1>1, <2>1, <2>2, Stutters
<1> QED
  BY <1>1, <1>2, <1>3

\* Drop detaches a task: it dies, or goes on without the tracer.
LEMMA DetachTraced ==
  ASSUME IInv, ResultOnceOver, NEW p \in Pid, Detach(p)
  PROVE  TraceStep
<1>k. KernelTypeOK
  BY DEF IInv, TypeOK
<1>1. /\ follow' = follow /\ UNCHANGED <<log, result>> /\ result # "none"
      /\ \A q \in Pid : ~Served(q) /\ ~Served(q)'
  BY DEF Detach, Served, ResultOnceOver, Running
<1>2. CASE Stopped(p)
  <2>1. /\ UNCHANGED <<call, execs, kills>> /\ at'[p] \in {"zombie", "gone", "free"}
        /\ \A q \in Pid : q # p => at'[q] = at[q]
    BY <1>2, <1>k DEF Detach, PtraceDetach, KernelTypeOK
  <2>2. \A q \in Pid : q # p => PlaceOf(q)' = PlaceOf(q)
    BY <1>1, <2>1, PlaceKept
  <2>3. PICK to \in {"dead", "left"} : PlaceOf(p)' = to
    BY <2>1 DEF PlaceOf
  <2>4. Moves(p, PlaceOf(p), to)
    BY <2>2, <2>3 DEF Moves
  <2>5. Map' = [Map EXCEPT ![p] = to] /\ Promise!Quiet
    BY <1>1, <2>4, OneMoves
  <2>6. (IF result \in {"none", "Ok"} THEN result ELSE "failed") # "none"
    BY <1>1
  <2>7. Promise!Leave(p)
    BY <2>1, <2>5, <2>6 DEF Promise!Leave, Map
  <2> QED
    BY <2>7 DEF TraceStep, Promise!TraceNext
<1>3. CASE ~Stopped(p)
  <2>1. UNCHANGED <<at, call, execs, kills>>
    BY <1>3 DEF Detach, kernelVars
  <2>2. Still
    BY <1>1, <2>1, PlaceKept DEF Still
  <2> QED
    BY <1>1, <2>1, <2>2, Stutters
<1> QED
  BY <1>2, <1>3

\* run has a result: "Ok" needs OkMeansDrained.
LEMMA ReturnTraced ==
  ASSUME IInv, OkMeansDrained', Running,
         result' \in {"Ok", "Ptrace", "Einval", "TraceeGone"}, Still, follow' = follow, UNCHANGED <<call, log, kills>>,
         result' = "Ok" => at' = at
  PROVE  TraceStep
<1> DEFINE Said == IF result \in {"none", "Ok"} THEN result ELSE "failed"
<1>1. Said = "none" /\ Said' \in {"Ok", "failed"} /\ (Said' = "Ok" => result' = "Ok")
  BY DEF IInv, NoResultYet
<1>2. Map' = Map
  BY MapStill
<1>3. ASSUME Said' = "Ok", ~(kills > 0), NEW q \in Pid
      PROVE  Map[q] \in {"none", "dead"}
  <2>1. kills' = 0 /\ result' = "Ok" /\ at' = at
    BY <1>1, <1>3 DEF IInv, TypeOK, KernelTypeOK
  <2>2. at[q] \in {"none", "gone"}
    BY <2>1 DEF OkMeansDrained
  <2>3. PlaceOf(q) \in {"none", "dead"}
    BY <2>2 DEF PlaceOf
  <2> QED
    BY <2>3 DEF Map
<1>4. Promise!Conclude
  BY <1>1, <1>2, <1>3 DEF Promise!Conclude, Map, Reported
<1> QED
  BY <1>4 DEF TraceStep, Promise!TraceNext
\* The ways run ends: the table is empty, waitpid fails, a request fails.
LEMMA EndTraced ==
  ASSUME IInv, IInv',
         \/ ResumeFails \/ Finish \/ WaitEchild \/ GetregsFails \/ GeteventFails
         \/ \E p \in Pid : WaitUnknown(p)
  PROVE  TraceStep
<1>k. KernelTypeOK /\ OkMeansDrained'
  BY DEF IInv, TypeOK
<1>1. CASE ResumeFails \/ Finish \/ WaitEchild \/ GetregsFails \/ GeteventFails
  <2>1. /\ Running /\ result' \in {"Ok", "Ptrace", "Einval", "TraceeGone"}
        /\ follow' = follow /\ UNCHANGED <<at, call, execs, log, kills>>
        /\ pc \in {"start", "resume"} => ~Stopped(status.pid)
        /\ pc' = "drop"
    BY <1>1 DEF ResumeFails, Finish, WaitEchild, GetregsFails, GeteventFails, Return,
       EchildResult, Running, kernelVars, InSyscallStop
  <2>2. ASSUME NEW q \in Pid, at[q] = "exit" PROVE ~Served(q) /\ ~Served(q)'
    BY <2>1, <2>2 DEF Served, Stopped, Stops
  <2>3. Still
    BY <2>1, <2>2, PlaceKept DEF Still
  <2> QED
    BY <1>k, <2>1, <2>3, ReturnTraced
<1>2. ASSUME NEW p \in Pid, WaitUnknown(p)
      PROVE  TraceStep
  <2>1. /\ Running /\ result' = "Einval" /\ Report(p)
        /\ follow' = follow /\ UNCHANGED <<log>>
        /\ \A q \in Pid : Served(q)' <=> Served(q)
    BY <1>2 DEF WaitUnknown, Return, Running, Served
  <2>2. Still /\ UNCHANGED <<call, kills>>
    BY <1>k, <2>1, ReportStill
  <2> QED
    BY <1>k, <2>1, <2>2, ReturnTraced
<1> QED
  BY <1>1, <1>2

\* What a handler does without an event and without a skip is nothing to
\* SyscallTrace: its task is not at an exit-stop.
LEMMA HandlerTraced ==
  ASSUME IInv,
         \/ HandleExited \/ SyscallEntry \/ ForkStop \/ ExecStop \/ SignalStopped
  PROVE  TraceStep
<1>k. /\ TypeOK /\ CallsInSync /\ ChildrenInSync /\ StatusInSync /\ PhaseInSync
      /\ AwaitingInSync /\ tracees \subseteq Pid
  BY DEF IInv, TypeOK
<1>p. PICK p \in Pid : p = status.pid
  BY <1>k DEF TypeOK, Status
<1>1. /\ pc = "handle" /\ pc' \in {"wait", "resume"} /\ status' = status
      /\ follow' = follow /\ UNCHANGED <<at, call, execs, kills, log, result>>
  BY DEF HandleExited, SyscallEntry, ForkStop, ExecStop, SignalStopped, kernelVars,
     InSyscallStop
<1>2. ASSUME SyscallEntry PROVE at[p] # "exit"
  <2>1. /\ at[p] \in {"enter", "exit"} /\ Stopped(status.pid)
        /\ ~or_insert(p).skip_next_syscall_stop /\ or_insert(p).phase.tag = "Entry"
    BY <1>k, <1>p, <1>2
    DEF SyscallEntry, InSyscallStop, StatusInSync, StatusKindAt, Stopped, Stops
  <2>2. p \in tracees /\ or_insert(p) = tracee[p]
    BY <1>k, <1>p, <1>1, <2>1, SyscallStopKnown
  <2>3. at[p] \in Live /\ Running
    BY <1>1, <2>1 DEF Live, Stops, Running
  <2>4. tracee[p].phase # Exit(call[p])
    BY <2>1, <2>2 DEF Exit
  <2>5. ~InCall(p)
    BY <1>k, <2>1, <2>2, <2>3, <2>4, PhaseOf
  <2> QED
    BY <1>p, <1>1, <2>5 DEF InCall, Served
<1>3. at[p] # "exit"
  BY <1>k, <1>p, <1>2
  DEF HandleExited, ForkStop, ExecStop, SignalStopped, StatusInSync, StatusKindAt
<1>4. \A q \in Pid : at[q] = "exit" => ~Served(q) /\ ~Served(q)'
  BY <1>p, <1>1, <1>3 DEF Served
<1>5. Still
  BY <1>1, <1>4, PlaceKept DEF Still
<1> QED
  BY <1>1, <1>5, Stutters
\* A stop that is owed and skipped is the exit-stop of an execve that succeeded.
LEMMA SkipTraced ==
  ASSUME IInv, SyscallStopSkipped
  PROVE  TraceStep
<1>k. /\ TypeOK /\ CallsInSync /\ ChildrenInSync /\ StatusInSync /\ PhaseInSync
      /\ AwaitingInSync /\ KernelTypeOK
  BY DEF IInv, TypeOK
<1>p. PICK p \in Pid : p = status.pid
  BY <1>k DEF TypeOK, Status
<1>1. /\ pc = "handle" /\ pc' = "resume" /\ status' = status
      /\ follow' = follow /\ UNCHANGED <<at, call, execs, kills, log, result>>
      /\ or_insert(p).skip_next_syscall_stop
      /\ at[p] \in {"enter", "exit", "zombie"}
  BY <1>k, <1>p
  DEF SyscallStopSkipped, kernelVars, InSyscallStop, StatusInSync, StatusKindAt
<1>2. ASSUME NEW q \in Pid, q # p PROVE PlaceOf(q)' = PlaceOf(q)
  <2>1. ~Served(q) /\ ~Served(q)'
    BY <1>p, <1>1, <1>2 DEF Served
  <2> QED
    BY <1>1, <2>1, PlaceKept
<1>3. CASE at[p] = "exit"
  <2>1. p \in tracees /\ or_insert(p) = tracee[p]
    BY <1>k, <1>p, <1>1, <1>3, SyscallStopKnown DEF Stopped, Stops
  <2>2. at[p] \in Live /\ Running
    BY <1>1, <1>3 DEF Live, Stops, Running
  <2>3. PastExec(p)
    BY <1>k, <1>1, <2>1, <2>2, PhaseOf
  <2>4. ~Served(p) /\ Served(p)'
    BY <1>p, <1>1 DEF Served
  <2>5. PlaceOf(p) = "replaced" /\ PlaceOf(p)' = "between"
    BY <1>1, <1>3, <2>3, <2>4 DEF PlaceOf, Passed, PastExec
  <2>6. Moves(p, "replaced", "between")
    BY <1>2, <2>5 DEF Moves
  <2>7. Promise!GoOn(p)
    BY <1>1, <2>6, OneMoves DEF Promise!GoOn
  <2> QED
    BY <2>7 DEF TraceStep, Promise!TraceNext
<1>4. CASE at[p] # "exit"
  <2>1. PlaceOf(p)' = PlaceOf(p)
    BY <1>1, <1>4, PlaceKept
  <2>2. Still
    BY <1>2, <2>1 DEF Still
  <2> QED
    BY <1>1, <2>2, Stutters
<1> QED
  BY <1>3, <1>4

\* An exit-stop that is not skipped is that of the call whose event is owed, and
\* that is the event the sink gets.
LEMMA ExitTraced ==
  ASSUME IInv, SyscallExit
  PROVE  TraceStep
<1>k. /\ TypeOK /\ CallsInSync /\ ChildrenInSync /\ StatusInSync /\ PhaseInSync
      /\ AwaitingInSync /\ NoResultYet
  BY DEF IInv
<1>p. PICK p \in Pid : p = status.pid
  BY <1>k DEF TypeOK, Status
<1>1. /\ pc = "handle" /\ pc' = "resume" /\ status' = status
      /\ follow' = follow /\ UNCHANGED <<at, call, execs, kills, result>>
      /\ Stopped(p) /\ ~or_insert(p).skip_next_syscall_stop
      /\ or_insert(p).phase.tag = "Exit"
  BY <1>p DEF SyscallExit, kernelVars, InSyscallStop
<1>2. Running /\ at[p] = "exit" /\ ~Served(p)
  BY <1>k, <1>p, ExitEvent
<1>3. p \in tracees /\ or_insert(p) = tracee[p]
  BY <1>k, <1>p, <1>1, <1>2, SyscallStopKnown
<1>4. at[p] \in Live
  BY <1>2 DEF Live, Stops
<1>5. /\ tracee[p].skip_next_syscall_stop <=> (InCall(p) /\ PastExec(p))
      /\ InCall(p) /\ ~PastExec(p) => tracee[p].phase = Exit(call[p])
  BY <1>k, <1>2, <1>3, <1>4, PhaseOf
<1>6. InCall(p)
  BY <1>2 DEF InCall
<1>7. ~PastExec(p) /\ tracee[p].phase.nr = call[p]
  BY <1>1, <1>3, <1>5, <1>6 DEF Exit
<1>8. call[p] \notin execs[p]
  BY <1>2, <1>7 DEF PastExec
<1>9. Served(p)'
  BY <1>p, <1>1 DEF Served
<1>10. PlaceOf(p) = "returned" /\ PlaceOf(p)' = "between"
  BY <1>1, <1>2, <1>8, <1>9 DEF PlaceOf, Passed
<1>11. ASSUME NEW q \in Pid, q # p PROVE PlaceOf(q)' = PlaceOf(q)
  <2>1. ~Served(q) /\ ~Served(q)'
    BY <1>p, <1>1, <1>11 DEF Served
  <2> QED
    BY <1>1, <2>1, PlaceKept
<1>12. Moves(p, "returned", "between")
  BY <1>10, <1>11 DEF Moves
<1>13. Map[p] = "returned" /\ Map' = [Map EXCEPT ![p] = "between"]
  BY <1>12, MapMoves
<1>14. log' = IF Reported(p)
              THEN [log EXCEPT ![p] =
                      Append(log[p], [entry |-> call[p], exit |-> call[p]])]
              ELSE log
  BY <1>p, <1>3, <1>7 DEF SyscallExit
<1>15. p \in {q \in Pid : Reported(q)} <=> Reported(p)
  OBVIOUS
<1>16. (IF result \in {"none", "Ok"} THEN result ELSE "failed") = "none"
  BY <1>k, <1>2 DEF NoResultYet
<1>17. {q \in Pid : Reported(q)}' = {q \in Pid : Reported(q)}
  BY <1>1 DEF Reported
<1>18. Promise!Report(p)
  BY <1>1, <1>13, <1>14, <1>15, <1>16, <1>17 DEF Promise!Report, Promise!Go, Map
<1> QED
  BY <1>18 DEF TraceStep, Promise!TraceNext

-----------------------------------------------------------------------------

\* Each call of a monitored task is reported once, whole, when it has returned
\* and before its task does anything else, whatever forks, execs, signals and
\* kills come between its stops: run implements SyscallTrace.
THEOREM TraceKept == Spec => KeepsTrace
<1>1. Init => Promise!TraceInit
  <2> SUFFICES ASSUME Init PROVE Promise!TraceInit
    OBVIOUS
  <2>1. ASSUME NEW p \in Pid
        PROVE  PlaceOf(p) = IF p = Root THEN "replaced" ELSE "none"
    BY DEF Init, KernelInit, PlaceOf
  <2> QED
    BY <2>1 DEF Init, KernelInit, TracerInit, Promise!TraceInit
<1>2. ASSUME IInv, IInv', ResultOnceOver, [Next]_vars
      PROVE  TraceStep
  <2>1. ASSUME NEW p \in Pid, Task(p) \/ Environment(p)
        PROVE  TraceStep
    BY <1>2, <2>1, TaskTraced, EnvironmentTraced DEF Task, Environment
  <2>2. ASSUME NEW p \in Pid, Wait(p) \/ WaitUnknown(p) \/ Detach(p)
        PROVE  TraceStep
    BY <1>2, <2>2, WaitTraced, EndTraced, DetachTraced
  <2>3. CASE Resume \/ ResumeFails \/ Finish \/ WaitEchild
    BY <1>2, <2>3, ResumeTraced, EndTraced
  <2>4. CASE Handle
    BY <1>2, <2>4, HandlerTraced, SkipTraced, ExitTraced, EndTraced DEF Handle
  <2>5. CASE DropWait
    BY <1>2, <2>5, DropWaitTraced
  <2>6. CASE Dropped \/ Over \/ UNCHANGED vars
    <3>1. /\ UNCHANGED <<at, call, execs, kills, log, result, follow>>
          /\ \A q \in Pid : Served(q)' <=> Served(q)
      BY <2>6 DEF Dropped, Over, vars, kernelVars, tracerVars, Served
    <3>2. Still
      BY <3>1, PlaceKept DEF Still
    <3> QED
      BY <3>1, <3>2, Stutters
  <2> QED
    BY <1>2, <2>1, <2>2, <2>3, <2>4, <2>5, <2>6 DEF Next, TracerStep
<1> QED
  BY <1>1, <1>2, IInvHolds, ResultOnceOverHolds, PTL
  DEF Spec, KeepsTrace, Promise!TraceSpec, TraceStep
=============================================================================
