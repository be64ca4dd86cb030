------------------------------ MODULE SpawnInv ------------------------------
(***************************************************************************)
(* The inductive invariant behind the safety properties of Spawn.  Its     *)
(* named parts say what the place of the parent tells of the child, and    *)
(* the other way round.  TLC checks it in the run spawn, SpawnProofs       *)
(* proves it.                                                              *)
(***************************************************************************)
EXTENDS Spawn

\* Where the child can be, by the place of the parent: the parent gets past a
\* wait only with the child held or dead, and no stop ends by itself.
PlacesAt(p) ==
  CASE p \in {"start", "fork"} -> {"none"}
    [] p \in {"drop", "wait1"} -> {"running", "stop", "jobstop", "zombie"}
    [] p \in {"setoptions", "cont"} -> {"stop", "zombie"}
    [] p = "wait2" -> {"running", "stop", "event", "zombie"}
    [] p = "read" -> {"gone"}
    [] OTHER -> {"none", "stop", "event", "zombie", "gone"}

InStep ==
  /\ at \in PlacesAt(pc)
  /\ result # "none" <=> pc = "done"

\* Before the fork nothing has happened to a child.
Unforked ==
  at = "none" =>
    /\ cpc = "traceme" /\ errno = NoErrno /\ writers = {} /\ sent = {} /\ kills = 0
    /\ result \in {"none", "InvalidCommand", "Nul", "Ptrace"}

\* The code of the child, and what it did to the process: it cannot be at its
\* execvp, or past it, before the parent has set the options.
TracedInSync ==
  /\ cpc = "traceme" => ~traced
  /\ cpc \in {"raise", "raising", "execvp", "command"} => traced
  /\ at \in {"stop", "event"} \/ pc \in {"setoptions", "cont", "wait2"} => traced
  /\ at = "jobstop" => ~traced

OptionsInSync ==
  /\ pc \in {"cont", "wait2"} \/ at = "event" => options = PTRACE_OPTIONS
  /\ at = "running" /\ pc \in {"drop", "wait1"} => cpc # "execvp"
  /\ cpc = "command" => at \in {"event", "zombie", "gone"}
  /\ at = "event" => cpc = "command" /\ pc \in {"wait2", "done"}

\* A signal-delivery-stop is the child's own or somebody's.
SignalsSent ==
  /\ pending \subseteq sent
  /\ at = "stop" => stopsig = "SIGSTOP" \/ stopsig \in sent

\* Who holds the pipe open.
WritersInSync ==
  /\ "parent" \in writers <=> pc = "drop"
  /\ "child" \in writers <=> at \in Alive /\ cpc # "command"

\* The child failed exactly when it has an errno to report, and the payload is
\* in the pipe or read once it did.
PayloadInSync ==
  /\ errno # NoErrno <=> cpc \in {"report", "exit"}
  /\ pipe + filled = IF cpc = "exit" THEN PayloadLen ELSE 0
  /\ filled > 0 => pc \in {"read", "done"}

\* Without interference the child dies by its own exit only, and its first
\* stop is the one of raise.
QuietChild ==
  Quiet =>
    /\ at \in {"zombie", "gone"} => cpc = "exit"
    /\ at = "stop" => cpc = "execvp" /\ pc \in {"drop", "wait1", "setoptions", "cont"}
    /\ pc \in {"setoptions", "cont"} => at = "stop"
    /\ pc = "wait2" => cpc \notin {"traceme", "raise", "raising"}

IInv ==
  /\ TypeOK
  /\ InStep
  /\ Unforked
  /\ TracedInSync
  /\ OptionsInSync
  /\ SignalsSent
  /\ WritersInSync
  /\ PayloadInSync
  /\ QuietChild
  /\ OkAtExec
  /\ ExecErrnoTrue
  /\ ResultExact
  /\ ReadNeverBlocks
=============================================================================
