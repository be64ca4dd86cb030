-------------------------------- MODULE Sink --------------------------------
(***************************************************************************)
(* src/main.rs: what becomes of the events that Tracer::run hands out.     *)
(* SinkState::handle filters, decodes and formats each into a BufWriter in *)
(* front of stdout, whose reader may leave and whose writes may fail at    *)
(* any point of a line; finish, or the drop after a failed run, flushes.   *)
(***************************************************************************)
EXTENDS Filter, Pretty, Registry, SequencesExt

CONSTANTS
  Event,      \* the events the tracer may emit
  Setups,     \* the command lines, each with or without a terminal
  Cap,        \* the capacity of the BufWriter, in pieces
  MaxEvents,  \* bound: events
  MaxFaults   \* bound: failed writes with the reader still there

\* A line goes out in several writes: here two, the last with the newline.
Parts == 2

\* What clap makes of the command line, and what stdout is.
OutputFormat == {"Pretty", "Json", "Raw"}
Switches == {"fail", "no_category_colors", "no_dim_lookups", "no_group_lookups"}
Cli(s) ==
  /\ s.output \in OutputFormat
  /\ s.syscall \subseteq Segment /\ s.path \subseteq Segment
  /\ \A flag \in Switches \cup {"terminal"} : s[flag] \in BOOLEAN

ASSUME SinkAssumption ==
  /\ Cap \in Nat \ {0} /\ MaxEvents \in Nat /\ MaxFaults \in Nat
  /\ \A s \in Setups : Cli(s)
  /\ \A ev \in Event :
       /\ ev.pid \in DOMAIN PidLen /\ ev.name \in DOMAIN NameLen
       /\ ev.ret \in Int /\ ev.duration \in Nat

VARIABLES
  pc,             \* where main is
  cli,            \* the command line, and whether stdout is a terminal
  filter,         \* its filter flags, parsed
  events,         \* history: the events handled so far
  lines,          \* history: the lines begun in the pretty format
  pretty_state,   \* PrettyState
  todo,           \* the pieces of the current line still to be written
  buf,            \* the contents of the BufWriter
  closed,         \* SinkState.closed
  first_err,      \* SinkState.first_err is some
  out,            \* the pieces that reached stdout
  reader,         \* whether somebody reads stdout
  faults,         \* failed writes with the reader still there
  verdict         \* how main ends

lineVars == <<lines, pretty_state>>
deviceVars == <<out, reader, faults>>
vars == <<pc, cli, filter, events, lineVars, todo, buf, closed, first_err,
          deviceVars, verdict>>

PCs == {"parse", "run", "write", "finish", "drop", "done"}
Verdicts == {"none", "Ok", "usage", "spawn_failed", "trace_failed", "write_failed"}
Piece == Nat \X (1 .. Parts)

TypeOK ==
  /\ pc \in PCs /\ verdict \in Verdicts
  /\ cli \in Setups
  /\ filter.only_fail \in BOOLEAN
  /\ events \in Seq(Event) /\ Len(events) <= MaxEvents
  /\ \A i \in DOMAIN lines : \A k \in DOMAIN lines[i].cells :
       Width(lines[i].cells[k]) \in Nat
  /\ pretty_state.pid_width \in Nat /\ pretty_state.name_width \in Nat
  /\ todo \in Seq(Piece) /\ buf \in Seq(Piece) /\ out \in Seq(Piece)
  /\ Len(todo) <= Parts /\ Len(buf) <= Cap
  /\ closed \in BOOLEAN /\ first_err \in BOOLEAN
  /\ reader \in {"there", "gone"} /\ faults \in 0 .. MaxFaults

Init ==
  /\ pc = "parse" /\ verdict = "none"
  /\ cli \in Setups
  /\ filter = [syscalls |-> NoGate, only_fail |-> FALSE, paths |-> NoGate]
  /\ events = <<>> /\ lines = <<>> /\ pretty_state = NewPretty
  /\ todo = <<>> /\ buf = <<>> /\ out = <<>>
  /\ closed = FALSE /\ first_err = FALSE
  /\ reader = "there" /\ faults = 0

-----------------------------------------------------------------------------
(* main, up to the run                                                     *)

Usable == cli.output # "Raw" /\ ~ParseFails(cli.syscall) /\ ~ParseFails(cli.path)

UsageError ==
  /\ pc = "parse" /\ ~Usable
  /\ pc' = "done"
  /\ verdict' = "usage"
  /\ UNCHANGED <<cli, filter, events, lineVars, todo, buf, closed,
                 first_err, deviceVars>>

\* Tracer::spawn fails, or hands over the tracer.
SpawnFails ==
  /\ pc = "parse" /\ Usable
  /\ pc' = "done"
  /\ verdict' = "spawn_failed"
  /\ UNCHANGED <<cli, filter, events, lineVars, todo, buf, closed, first_err,
                 deviceVars>>

Start ==
  /\ pc = "parse" /\ Usable
  /\ pc' = "run"
  /\ filter' = parse(cli)
  /\ UNCHANGED <<cli, events, lineVars, todo, buf, closed, first_err,
                 deviceVars, verdict>>

\* Mutant: a pipe is coloured as well.
Colored_everywhere == cli.output = "Pretty"

Colored == cli.output = "Pretty" /\ cli.terminal

Config ==
  group_lookups(
    dim_lookups(
      category_colors(PrettyConfig(Colored), ~cli.no_category_colors),
      ~cli.no_dim_lookups),
    ~cli.no_group_lookups)

-----------------------------------------------------------------------------
(* SinkState::decode                                                       *)

fallback_decoded(ev) ==
  [k \in 1 .. 6 |-> <<<<"arg0", "arg1", "arg2", "arg3", "arg4", "arg5">>[k],
                      <<"Uint", ev.regs[k]>>>>]

\* A decoder fails when the memory it points to cannot be read.
Decodes(ev) == ev.nr \in with_default_decoders /\ ev.readable

\* Mutant: the family of the registry, though the decoder failed.
decode_category_anyway(ev) ==
  [args |-> IF Decodes(ev) THEN ev.args ELSE fallback_decoded(ev),
   category |-> IF ev.nr \in with_default_decoders THEN category(ev.nr) ELSE NoCategory]

decode(ev) ==
  IF Decodes(ev) THEN [args |-> ev.args, category |-> category(ev.nr)]
  ELSE [args |-> fallback_decoded(ev), category |-> NoCategory]

\* Of two arguments with one label both are a mode, a path or an argv, or none is:
\* JSON writes a mode as a number, a path as a string and an argv as an array, as
\* it does others.
Labelled(a, b) ==
  \A i \in DOMAIN a \cap DOMAIN b : a[i][1] = b[i][1] =>
    \A variant \in {"Mode", "Path", "Argv"} : a[i][2][1] = variant <=> b[i][2][1] = variant
ASSUME LabelsAssumption ==
  /\ \A ev \in Event : \A i \in DOMAIN decode(ev).args : DecodedArg(decode(ev).args[i][2])
  /\ \A a, b \in Event : Labelled(decode(a).args, decode(b).args)

-----------------------------------------------------------------------------
(* SinkState::handle                                                       *)

\* Mutant: output goes on after an error.
Silenced_never == FALSE

\* Mutant: only a closed pipe ends the output.
Silenced_closed_only == closed

\* `self.closed || self.first_err.is_some()`
Silenced == closed \/ first_err

Passes(ev) ==
  /\ matches_event(filter, ev)
  /\ needs_decode(filter) => matches_decoded(filter, decode(ev).args)

\* The next event arrives.
Handle(ev) ==
  /\ pc = "run" /\ Len(events) < MaxEvents
  /\ events' = Append(events, ev)

Drop(ev) ==
  /\ Handle(ev)
  /\ Silenced \/ ~Passes(ev)
  /\ UNCHANGED <<pc, cli, filter, lineVars, todo, buf, closed, first_err,
                 deviceVars, verdict>>

BeginLine(ev) ==
  /\ Handle(ev)
  /\ ~Silenced /\ Passes(ev)
  /\ pc' = "write"
  /\ todo' = [k \in 1 .. Parts |-> <<Len(events) + 1, k>>]
  /\ IF cli.output = "Pretty"
     THEN /\ lines' = Append(lines, Line(Config, pretty_state, ev, decode(ev).args,
                                        decode(ev).category))
          /\ pretty_state' = Grown(Config, pretty_state, ev)
     ELSE UNCHANGED lineVars
  /\ UNCHANGED <<cli, filter, buf, closed, first_err, deviceVars, verdict>>

-----------------------------------------------------------------------------
(* BufWriter                                                               *)

\* flush_buf: everything is written ...
FlushOk ==
  /\ reader = "there" \/ buf = <<>>
  /\ out' = out \o buf
  /\ UNCHANGED <<reader, faults>>

\* ... or a part of it, before the write fails.  What was not stays buffered.
FlushErr(kind) ==
  /\ buf # <<>>
  /\ IF reader = "gone"
     THEN kind = "BrokenPipe" /\ UNCHANGED <<out, buf, faults>>
     ELSE /\ kind = "Other" /\ faults < MaxFaults
          /\ \E n \in 0 .. Len(buf) - 1 :
               /\ out' = out \o SubSeq(buf, 1, n)
               /\ buf' = SubSeq(buf, n + 1, Len(buf))
          /\ faults' = faults + 1
  /\ UNCHANGED reader

\* Mutant: the latest error counts, and a closed pipe takes the other's place.
Record_latest(kind) ==
  /\ closed' = (kind = "BrokenPipe")
  /\ first_err' = (kind # "BrokenPipe")

\* SinkState::record.
Record(kind) ==
  IF kind = "BrokenPipe" THEN closed' = TRUE /\ UNCHANGED first_err
  ELSE first_err' = TRUE /\ UNCHANGED closed

\* json::write_event wraps what serde_json::to_writer returns, an io::Error of
\* the writer included, with io::Error::other; the newline is written after it.
SeenAs(kind, part) ==
  IF cli.output = "Json" /\ part < Parts THEN "Other" ELSE kind

\* write_all: a piece that does not fit makes the buffer flush first.
WritePiece ==
  /\ pc = "write" /\ todo # <<>>
  /\ todo' = Tail(todo)
  /\ IF Len(buf) < Cap
     THEN buf' = Append(buf, Head(todo)) /\ UNCHANGED deviceVars
     ELSE FlushOk /\ buf' = <<Head(todo)>>
  /\ UNCHANGED <<pc, cli, filter, events, lineVars, closed, first_err, verdict>>

\* The rest of the line is given up.
WriteFails ==
  /\ pc = "write" /\ todo # <<>> /\ Len(buf) = Cap
  /\ \E kind \in {"BrokenPipe", "Other"} :
       FlushErr(kind) /\ Record(SeenAs(kind, Head(todo)[2]))
  /\ todo' = <<>>
  /\ pc' = "run"
  /\ UNCHANGED <<cli, filter, events, lineVars, verdict>>

EndLine ==
  /\ pc = "write" /\ todo = <<>>
  /\ pc' = "run"
  /\ pretty_state' = IF cli.output = "Pretty"
                     THEN Remembered(pretty_state, lines[Len(lines)])
                     ELSE pretty_state
  /\ UNCHANGED <<cli, filter, events, lines, todo, buf, closed, first_err,
                 deviceVars, verdict>>

-----------------------------------------------------------------------------
(* The end                                                                 *)

RunReturns ==
  /\ pc = "run"
  /\ \/ pc' = "finish" /\ UNCHANGED verdict
     \/ pc' = "drop" /\ verdict' = "trace_failed"
  /\ UNCHANGED <<cli, filter, events, lineVars, todo, buf, closed,
                 first_err, deviceVars>>

\* SinkState::finish, and the exit of main.
Finish ==
  /\ pc = "finish"
  /\ \/ FlushOk /\ buf' = <<>> /\ UNCHANGED <<closed, first_err>>
     \/ \E kind \in {"BrokenPipe", "Other"} : FlushErr(kind) /\ Record(kind)
  /\ verdict' = IF first_err' THEN "write_failed" ELSE "Ok"
  /\ pc' = "drop"
  /\ UNCHANGED <<cli, filter, events, lineVars, todo>>

\* Dropping the BufWriter flushes what is left, and ignores the outcome.
DropWriter ==
  /\ pc = "drop"
  /\ \/ FlushOk /\ buf' = <<>>
     \/ \E kind \in {"BrokenPipe", "Other"} : FlushErr(kind)
  /\ pc' = "done"
  /\ UNCHANGED <<cli, filter, events, lineVars, todo, closed, first_err, verdict>>

\* The other end of the pipe is closed.
ReaderLeaves ==
  /\ reader = "there" /\ pc \notin {"parse", "done"}
  /\ reader' = "gone"
  /\ UNCHANGED <<pc, cli, filter, events, lineVars, todo, buf, closed,
                 first_err, out, faults, verdict>>

Over == pc = "done" /\ UNCHANGED vars

Next ==
  \/ UsageError \/ SpawnFails \/ Start
  \/ \E ev \in Event : Drop(ev) \/ BeginLine(ev)
  \/ WritePiece \/ WriteFails \/ EndLine
  \/ RunReturns \/ Finish \/ DropWriter
  \/ ReaderLeaves \/ Over

Spec == Init /\ [][Next]_vars

-----------------------------------------------------------------------------
(* Safety                                                                  *)

\* loi-filter's "an event must satisfy every active filter to pass", from the
\* flags as the user gave them.
SomeGlob(raw, value) == \E g \in raw \cap Glob : value \in Matches[g]
PathsOf(ev) ==
  IF Decodes(ev) THEN UNION {as_path(ev.args[i][2]) : i \in DOMAIN ev.args} ELSE {}
Wanted(ev) ==
  /\ cli.fail => ev.ret < 0
  /\ cli.syscall \cap Glob # {} => SomeGlob(cli.syscall, ev.name)
  /\ cli.path \cap Glob # {} => \E p \in PathsOf(ev) : SomeGlob(cli.path, p)

\* The output is the stream of the wanted events, cut where it failed and
\* never resumed, and Ok means all of it (handle, record, finish, Filter).
Promise == INSTANCE OutputStream
  WITH wanted <- {ev \in Event : Wanted(ev)}, written <- out,
       verdict <- IF verdict \in {"none", "Ok"} THEN verdict ELSE "failed"

KeepsPromise == Promise!StreamSpec

\* In the pretty format main reports a write error exactly when one happened:
\* a reader that left is none, and does not hide one (record, finish).
ErrorsReported ==
  cli.output = "Pretty" /\ verdict \in {"Ok", "write_failed"} =>
    (verdict = "write_failed" <=> faults > 0)

\* A tree prefix always belongs to a bracket: looking back from it over the
\* lookups there is one of the same pid and basename that shows the pid, with
\* nothing but the same burst in between (write_event, PrettyState).
ArrowHasItsHead ==
  \A i \in DOMAIN lines : lines[i].arrow =>
    \E j \in 1 .. i - 1 :
      /\ ~lines[j].arrow
      /\ \A k \in j .. i - 1 : lines[k].basename # NoBasename =>
           lines[k].basename = lines[i].basename /\ lines[k].pid = lines[i].pid
      /\ lines[j].basename = lines[i].basename

\* The characters of a line to the left of its k-th cell, and where the cells
\* of a token start.
LeftOf(cells, k) == UNION {{j} \X (1 .. Width(cells[j])) : j \in 1 .. k - 1}
Columns(cells, token) ==
  {Cardinality(LeftOf(cells, k)) : k \in {j \in DOMAIN cells : Token(cells[j]) = token}}

\* Both columns start where the widest value up to this line makes them, in
\* colour or not, and behind an arrow as behind a pid (module docs of pretty.rs,
\* "running-max"; write_pid_column_color: "stays aligned across burst and
\* non-burst events").
PidLens(n) == {PidLen[lines[k].pid] : k \in 1 .. n}
NameLens(n) == {NameLen[lines[k].name] : k \in 1 .. n}
ColumnsAligned ==
  \A i \in DOMAIN lines :
    LET name_at == Max(PidLens(i)) + 1
    IN  /\ Columns(lines[i].cells, "name") = {name_at}
        /\ Columns(lines[i].cells, "args") = {name_at + Max(NameLens(i))}

StylesOf(line, tokens) ==
  {StyleOf(c) : c \in {d \in Range(line.cells) : Token(d) \in tokens}}

\* Nothing but the text reaches a pipe or a file, whatever else the user asks
\* for (PrettyConfig: "the output stays ANSI-free"; main).
PlainOffTerminal ==
  ~cli.terminal => \A i \in DOMAIN lines :
    StylesOf(lines[i], {Token(c) : c \in Range(lines[i].cells)}) = {"plain"}

\* On a terminal a call that failed shows its errno in red, unless it is a
\* lookup that found nothing: that line has nothing bright in it.  Without an
\* errno a line is never red, nor dimmed (write_ret, name_style, dim_line).
FailuresStandOut ==
  \A i \in DOMAIN lines : cli.terminal =>
    LET spoken == StylesOf(lines[i], {"name", "ret", "errno", "desc"})
        red == "bold_red" \in spoken  dim == "dimmed" \in spoken
    IN  /\ lines[i].errno # NoErrno <=> red \/ dim
        /\ dim => spoken = {"dimmed"} /\ is_path_lookup(lines[i].name)

\* The colour of a family tells that the arguments are decoded: registers that
\* no decoder could make sense of never come with one (decode, name_style).
ColourMeansDecoded ==
  ~cli.no_category_colors => \A i \in DOMAIN lines :
    \/ StylesOf(lines[i], {"name"}) \subseteq {"plain", "bold", "dimmed"}
    \/ \E ev \in Range(events) :
         Decodes(ev) /\ ev.name = lines[i].name /\ PrettyArgs(ev.args) = lines[i].args

\* The two formats agree: what the JSON lines of two events cannot tell apart
\* the pretty ones cannot either, and a longer call never looks shorter
\* (render_arg_text and arg_to_json, fmt_duration).
Unit == [ns |-> 10, us |-> 10 * Thousand, ms |-> Million, s |-> Billion]
Looks(nanos) == fmt_duration(nanos)[2] * Unit[fmt_duration(nanos)[1]]
FormatsAgree ==
  \A i, j \in DOMAIN events :
    LET a == events[i]  b == events[j] IN
    /\ Object(a, decode(a).args) = Object(b, decode(b).args) =>
         PrettyArgs(decode(a).args) = PrettyArgs(decode(b).args)
    /\ a.duration <= b.duration => Looks(a.duration) <= Looks(b.duration)

-----------------------------------------------------------------------------
(* What the docs say and the code does not do.                             *)

\* json.rs:29 "Returns any [`io::Error`] surfaced by `w` while writing": a pipe
\* whose reader left is seen as such, and is not a failure of loi.
ClosedPipeIsNoFailure == verdict = "write_failed" => faults > 0

=============================================================================
