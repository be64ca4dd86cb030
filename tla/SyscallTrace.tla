---------------------------- MODULE SyscallTrace ----------------------------
(***************************************************************************)
(* What Tracer::run promises to its caller: each call of a monitored task  *)
(* is reported once, whole, when it has returned and before its task does  *)
(* anything else.  An execve that succeeds is passed over, and what a      *)
(* SIGKILL or the end of run overtakes.  "Ok" is said when no task is left *)
(* that nobody killed.                                                     *)
(***************************************************************************)
EXTENDS Naturals, Sequences

CONSTANTS
  Tasks,      \* every task there may be
  First       \* the one the run starts with, in its execve

VARIABLES
  monitored,  \* the tasks whose calls the caller wants
  place,      \* where each task is, as far as its calls go
  made,       \* how many calls it has made
  reported,   \* the events the caller got, by task
  killed,     \* whether there was a SIGKILL
  verdict     \* what run returns

traceVars == <<monitored, place, made, reported, killed, verdict>>

\* A task is "between" two calls or "inside" one; "returned" says that the event
\* of its call is owed, "replaced" that the call is an execve that succeeded, and
\* "left" that it runs on untraced.

TraceInit ==
  /\ monitored \in SUBSET Tasks
  /\ place = [t \in Tasks |-> IF t = First THEN "replaced" ELSE "none"]
  /\ made = [t \in Tasks |-> 0]
  /\ reported = [t \in Tasks |-> <<>>]
  /\ killed = FALSE
  /\ verdict = "none"

\* Task t goes from one place to another.
Go(t, from, to) == place[t] = from /\ place' = [place EXCEPT ![t] = to]

\* What changes no event and no verdict.
Quiet == UNCHANGED <<monitored, reported, verdict>>

Create(t) == Go(t, "none", "between") /\ UNCHANGED <<made, killed>> /\ Quiet

Make(t) ==
  /\ Go(t, "between", "inside")
  /\ made' = [made EXCEPT ![t] = @ + 1]
  /\ UNCHANGED killed /\ Quiet

ReturnFrom(t) == Go(t, "inside", "returned") /\ UNCHANGED <<made, killed>> /\ Quiet

\* The only way on from a call that has returned.
Report(t) ==
  /\ verdict = "none"
  /\ Go(t, "returned", "between")
  /\ reported' =
       IF t \in monitored
       THEN [reported EXCEPT ![t] = Append(@, [entry |-> made[t], exit |-> made[t]])]
       ELSE reported
  /\ UNCHANGED <<monitored, made, killed, verdict>>

Replace(t) == Go(t, "inside", "replaced") /\ UNCHANGED <<made, killed>> /\ Quiet

GoOn(t) == Go(t, "replaced", "between") /\ UNCHANGED <<made, killed>> /\ Quiet

\* The end of a task takes no event along ...
End(t) ==
  /\ place[t] \notin {"none", "returned"}
  /\ place' = [place EXCEPT ![t] = "dead"]
  /\ UNCHANGED <<made, killed>> /\ Quiet

\* ... unless it is killed ...
Kill(t) ==
  /\ place' = [place EXCEPT ![t] = "dead"]
  /\ killed' = TRUE
  /\ UNCHANGED made /\ Quiet

\* ... or run is over.
Leave(t) ==
  /\ verdict # "none"
  /\ \E to \in {"dead", "left"} : place' = [place EXCEPT ![t] = to]
  /\ UNCHANGED <<made, killed>> /\ Quiet

Conclude ==
  /\ verdict = "none"
  /\ verdict' \in {"Ok", "failed"}
  /\ verdict' = "Ok" /\ ~killed => \A t \in Tasks : place[t] \in {"none", "dead"}
  /\ UNCHANGED <<monitored, place, made, reported, killed>>

TraceNext ==
  \/ \E t \in Tasks :
       \/ Create(t) \/ Make(t) \/ ReturnFrom(t) \/ Report(t)
       \/ Replace(t) \/ GoOn(t) \/ End(t) \/ Kill(t) \/ Leave(t)
  \/ Conclude

TraceSpec == TraceInit /\ [][TraceNext]_traceVars

=============================================================================
