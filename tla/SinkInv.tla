------------------------------ MODULE SinkInv ------------------------------
(***************************************************************************)
(* The inductive invariant behind the safety properties of Sink and behind *)
(* the promise it keeps.  TLC checks it in the run of MCSink, SinkProofs   *)
(* proves it.                                                              *)
(***************************************************************************)
EXTENDS Sink

Handling == pc \in {"run", "write", "finish"}

\* Nothing comes of an invocation before the command line is parsed; then the
\* filter is the one the flags ask for, until main ends.
StartedInSync ==
  /\ pc = "parse" =>
       /\ events = <<>> /\ lines = <<>> /\ buf = <<>> /\ out = <<>>
       /\ ~Silenced /\ faults = 0
  /\ Handling => Usable /\ filter = parse(cli)
  /\ verdict = "none" <=> pc = "parse" \/ Handling
  /\ pc = "drop" => verdict \in {"Ok", "write_failed", "trace_failed"}

\* A line being written is one of an output that still goes on.
WritingInSync ==
  /\ todo # <<>> => pc = "write"
  /\ pc = "write" => ~Silenced
  /\ pc = "write" /\ cli.output = "Pretty" => lines # <<>>

\* What the two flags of the sink, and later the verdict, say of the writes.
ErrorsInSync ==
  /\ closed => reader = "gone"
  /\ Handling => (faults > 0 => first_err)
  /\ first_err /\ cli.output = "Pretty" => faults > 0
  /\ verdict = "Ok" => faults = 0 /\ (buf = <<>> \/ reader = "gone")
  /\ verdict = "write_failed" => first_err

\* What was written, what is buffered and what is left of the line are a
\* beginning of the stream, and all of it as long as no write failed.
Pipeline == (out \o buf) \o todo
StreamInSync ==
  /\ Promise!Begins(Pipeline, Promise!Stream(events))
  /\ Handling /\ ~Silenced => Promise!Completes(Pipeline, Promise!Stream(events))

\* The burst that PrettyState remembers is that of the last lookup written: its
\* head is a line that shows the pid, and no other burst came after it.
HeadIn(n, basename, pid) ==
  \E j \in 1 .. n :
    /\ ~lines[j].arrow /\ lines[j].basename = basename
    /\ \A k \in j .. n : lines[k].basename # NoBasename =>
         lines[k].basename = basename /\ lines[k].pid = pid

Written == IF pc = "write" THEN Len(lines) - 1 ELSE Len(lines)
BurstInSync ==
  cli.output = "Pretty" /\ ~Silenced =>
    /\ pretty_state.last_basename # NoBasename =>
         HeadIn(Written, pretty_state.last_basename, pretty_state.last_pid)
    /\ pc = "write" /\ lines[Len(lines)].arrow =>
         /\ lines[Len(lines)].basename = pretty_state.last_basename
         /\ lines[Len(lines)].pid = pretty_state.last_pid

\* The widths that PrettyState remembers are the widest of the lines so far.
IsWidest(width, lens) ==
  /\ lens \subseteq Nat
  /\ lens = {} => width = 0
  /\ lens # {} => width \in lens /\ \A len \in lens : len <= width
WidthsInSync ==
  /\ IsWidest(pretty_state.pid_width, PidLens(Len(lines)))
  /\ IsWidest(pretty_state.name_width, NameLens(Len(lines)))

\* Only the pretty format has a state of its own.
LinesInSync ==
  /\ lines \in Seq(Range(lines))
  /\ lines # <<>> => cli.output = "Pretty"

IInv ==
  /\ TypeOK
  /\ StartedInSync
  /\ WritingInSync
  /\ ErrorsInSync
  /\ StreamInSync
  /\ LinesInSync
  /\ BurstInSync
  /\ WidthsInSync
  /\ ErrorsReported
  /\ ArrowHasItsHead
  /\ ColumnsAligned
  /\ PlainOffTerminal
  /\ FailuresStandOut
  /\ ColourMeansDecoded

=============================================================================
