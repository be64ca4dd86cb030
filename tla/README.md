# loi in TLA+

`loi` is a system-call tracer for Linux. It starts a command under `ptrace`,
follows it and its children, and prints one line per finished system call.
This directory specifies it: TLA+ modules translated from the source, TLC
configurations that check them on small instances, and proofs that TLAPS checks
for every instance. `PROJECT.json` maps every definition to the
lines it models.

## The system

| Component | Source | State | Operations |
| --- | --- | --- | --- |
| Tracer loop | `loi-core/src/tracer.rs` (`run`, `handle_*`, `Drop`), `tracee.rs`, `event.rs` | table pid -> phase, `awaiting_initial_sigstop`, `skip_next_syscall_stop` | wait, serve a stop, restart, drop |
| Spawn | `tracer.rs` (`spawn`, `run_child`, `finish_parent`, the pipe helpers) | two processes, an errno pipe | fork, traceme, raise, execvp; two waits, options, continue |
| Registers | `regs.rs` | none | read call and arguments, read result with its sign |
| Sink | `src/main.rs` (`SinkState`) | `closed`, `first_err`, the `BufWriter` | handle, decode, record, finish |
| Filter | `loi-filter` | compiled globs | parse, matches_event, matches_decoded |
| Formatters | `loi-output` | `PrettyState`: widths, last burst; `PrettyConfig` | write_event (pretty, json), one text or JSON value per argument |
| Memory | `loi-memory` | none | read_bytes, read_cstr |
| Decoders | `loi-syscalls` | none | decode one call from registers and tracee memory |
| Registry | `loi-syscalls/src/registry.rs` | a constant table | number to name, to decoder, to family |
| Command line | `main.rs` (`Cli`) | the flags | usage errors, what each flag selects |
| Errors, xtask, benches | | none | wording, tooling |

How they interact. `main` calls `Tracer::spawn`, which hands a root stopped in
its `PTRACE_EVENT_EXEC` to `Tracer::run`. `run` is a loop around `waitpid(-1)`:
each reported stop is handled with a few more `ptrace` requests and answered by
one restart. At the exit-stop of a call the sink callback runs, while that task
is stopped and every other one is not: filter, decoder (which reads the stopped
task's memory), filter again, formatter, buffered stdout. After `run` the sink
is flushed and the recorded error, if any, is the exit of the program. There is
one thread in loi; all concurrency is between loi and the kernel's tasks, and
between loi and the reader of its output.

What is hard, and what makes each part correct:

* **Tracer loop.** Entry- and exit-stops are the same wait status and told apart
  by counting. A child's first stop and its parent's `EVENT_FORK` come in either
  order. The `SIGSTOP` of the automatic attach, a genuine `SIGSTOP` and a
  group-stop have one status. SIGKILL ends any stop between two requests. Correct
  means: the table says at each moment which stop comes next; no event mixes two
  calls; each finished call is reported once and in order; signals are passed on
  and the attach is not; every stop is served; `run` returns, and what it returns
  is true.
* **Spawn.** The child can fail, be stopped or be killed at every step; its
  errno, its wait status and the parent's own errors must give one true result,
  and the pipe must not block the parent.
* **Sink.** A write fails in the middle of a line; the reader leaves; then events
  still come. Output must be the promised stream or a prefix of it.
* **Formatters.** A line depends on earlier lines (widths, the burst of lookups)
  and on six switches. Columns must stay aligned in colour and without, a failure
  must stand out, raw registers must not look decoded, and the two formats must
  tell the same of the same event.
* **Decoders.** Strings and arrays lie in memory the tracee controls, may run
  into unmapped pages, and may change between two reads; an int argument is only
  the lower half of its register.

`PROJECT.json` lists all hazards with their lines and the properties that cover
them, and those that no property covers yet with the reason.

## Modules

| Module | Models | Used by |
| --- | --- | --- |
| `Ptrace` | the kernel's side: where each task is, ptrace-stops, signals, wait; external, derived from what `tracer.rs` relies on | `Tracer` |
| `Tracer` | `run`, every handler, `Drop`, over `Ptrace` | `TracerInv` |
| `TracerInv` | the inductive invariant | `MCTracer`, `TracerProofs` |
| `TracerProofs` | the theorems | `TraceProofs` |
| `SyscallTrace` | what `run` promises to its caller; abstract | refined by `Tracer` |
| `TraceProofs` | the proof of that refinement | |
| `Spawn` | both sides of `Tracer::spawn` | `SpawnInv` |
| `SpawnInv`, `SpawnProofs` | its inductive invariant; its theorems | `MCSpawn` the first |
| `DecodedArg` | the variants of a decoded argument, `as_path` | `Render`, `Registers`, `Filter` |
| `Filter` | `loi-filter` | `Sink` |
| `Registry` | `registry.rs` and `syscall_name` | `Sink` |
| `Render` | `format_common.rs` and the object of a JSON line | `Pretty`, `Sink` |
| `Pretty` | `PrettyConfig` and `write_event` of `pretty.rs` as operators on `PrettyState` | `Sink` |
| `Sink` | `main` and `SinkState` with the buffer and the reader | `SinkInv` |
| `SinkInv`, `SinkProofs` | its inductive invariant; its theorems and the refinement | `MCSink` the first |
| `OutputStream` | what loi promises of its output; abstract | refined by `Sink` |
| `Registers` | `decode_fd`, `decode_flags`, the flag tables, the casts of registers, `extract_ret` | `Decode` |
| `Decode` | `loi-memory` and every decoder | `DecodeInv` |
| `DecodeInv`, `DecodeProofs` | its inductive invariant; its theorems | `MCDecode` the first |

**Tracer.** One action is at most one system call of the tracer with the code up
to the next one, so tasks, signals and SIGKILL interleave with each call it makes.
`pc` is the place in `run` or `Drop`, `status` the `WaitStatus` at hand, `inject`
the signal of the coming `ptrace::syscall`. `tracees` and `tracee` are the table;
`Store(p, t)` with `or_insert(p)` is `entry(p).or_insert_with(new_child)`.
A `?` that returns is an action of its own (`ResumeFails`, `GetregsFails`,
`GeteventFails`), enabled when the task was killed since it was waited for. The
registers are abstracted to the number of the call in the task's life: the
entry-stop saves it, the exit-stop reads it, and an event holds both. A signal is
one of four: SIGSTOP, SIGTERM (kills by default), SIGUSR1 (does not) and SIGRTMIN,
which stands for the real-time signals: nix's `Signal` has no member for them, so
the `waitpid` that reports one takes the report and returns `EINVAL`
(`WaitUnknown`), where a status that decodes is handed to `handle_status` (`Wait`).
`Ptrace` gives a task the places `user`, `kernel`, the stops `enter`, `exit`,
`fork`, `exec`, `attach`, `signal`, `group`, and `zombie`, `gone`, `free` (detached). Calls
are plain, fork, execve, wait (returns when the child ended), pause (never
returns), and the last one exits.

**SyscallTrace.** A task makes a call, returns from it, and its event is owed:
`Report` is then the only step the task can take, unless it is killed or `run` is
over. An execve that succeeds is passed over (`Replace`, `GoOn`). `PlaceOf` maps the
stops of a task to this: at an exit-stop the task is `returned` until the tracer has
served it. `EveryCallReported` is what the comments say beyond that.

**Spawn.** The child runs traceme, raise, execvp, each of which may fail, then
writes its errno and exits; the parent runs the two waits, the options, the
continue, and the read to the end of the pipe. A payload is two bytes here (four
in the code): enough to be absent, short or whole.

**Sink.** A line is two pieces, the last with the newline; the `BufWriter` holds
`Cap` pieces; a write that does not fit flushes first. A flush writes all, or a
part and then fails: with `BrokenPipe` when the reader is gone, else with another
error. `StdoutLock`'s own line buffer behind the `BufWriter` is part of the device.
`cli` is a record of the flags of `Cli` that reach the sink, with whether stdout
is a terminal; `Usable` is what `main` asks before it spawns. The stream that
`OutputStream` promises is a set of pieces with an order, number of the event, then
part of the line: an output keeps the promise when its pieces are in that order and
none before one of them is missing. `Filter` works on
sets: a flag is the set of its segments, blank and bad ones included, a glob the
set of its matches.

**Formatters.** A line of the pretty format is the sequence of its cells, each the
token it is for, its style and its width, so that columns, colours and the tree
prefix can be read off it. `Pretty` gives the coloured and the plain pid column
each their own operator, as the code does. An argument's text, or its JSON value,
is a tuple of its form and what the form is made of: `Render` says which
differences between two arguments each format keeps (the lossy UTF-8 of bytes,
truncation, the unit of a duration), not how they are spelled. A thousand of one
unit of time make the next; ten of them here.

**Decode.** An action is one `process_vm_readv` with the code up to the next one;
between two of them another task may flip a byte, change a slot of argv or unmap a
page. Bytes are NUL or not, pages have two bytes, page 0 is never mapped, and the
page at the end of the address space is there to be pointed into. `u64` wraps as
in the release profile. All twelve decoders are there with every argument they
return, label and variant. `Registers` gives a register more bits than the int in
it; a flag table gives each name its bits, of the simple flags of a table one or
two stand for all, and masks that overlap (`O_TMPFILE`, the masks of `statx`,
`O_ACCMODE`) are kept.

## Runs

| Run | Instance | Shows |
| --- | --- | --- |
| `tracer` | root and one child, three calls each, plain, fork, execve, wait, one signal of four; fair | types, `PhaseInSync`, `AwaitingInSync`, `SignalsFaithful`, `EventsExact`, `OthersUntouched`, `KeepsTrace` (refinement of `SyscallTrace`), `RunSucceeds`, `StopsServed`, `RunReturns` |
| `tree` | three tasks that fork, one SIGKILL at any point; symmetric in the children | the inductive invariant, `Paired`, `OnceInOrder`, `NeverTraceeGone`, `OkMeansDrained` |
| `spawn` | all signals, one SIGKILL; fair | the inductive invariant, `OkAtExec`, `ExecErrnoTrue`, `ResultExact`, `ReadNeverBlocks`, `SpawnReturns` |
| `sink` | three events of seven kinds, twelve command lines, a failed write, a reader that leaves | the inductive invariant, `KeepsPromise` (refinement of `OutputStream`), `ErrorsReported`, `ArrowHasItsHead`, `ColumnsAligned`, `PlainOffTerminal`, `FailuresStandOut`, `ColourMeansDecoded`, `FormatsAgree` |
| `decode` | every memory of three pages, one change by another task; ints of three bits in registers of five | the inductive invariant, `DecodesExactly`, `StringsWereThere`, `ArgvEndsAtSentinel`, `WorkBounded`, `ArgumentsTellTheirRegisters`, `OpenFlagsToldOnce` |

The other seven runs each show one place where a comment says more than the code
does; see the findings below.

Why the bounds are enough. Two tasks have every order of fork event and first
stop, and every mix of one signal, a real-time one too, with fork, execve and wait; three calls per
task hold a call before and after each of them. A third task gives a child that
is a parent itself, two late `EVENT_FORK`s at once and a table that outlives
two deaths. One SIGKILL reaches every window between two requests; a second would
only repeat it on another task, and the proofs have no bound. In `Spawn` the only
bound is one SIGKILL, after which the child is dead. In `Sink` three events make a bracket, an event of
another pid or without a path, and a tree prefix that is right or wrong after it,
and they are more pieces than the buffer holds; one failed write is enough because
the sink is silent afterwards and `finish` and the drop only try once more each.
The events fail with and without a named errno, decode or not, differ in pid and
name length, and take times on both sides of a change of unit. In `Decode` the
caps and page size keep the proportions that matter: a string crosses two page
ends, reaches the cap inside and at the end of a page, starts in the last page of
the address space, and argv fills its cap; three-bit ints in five-bit registers
have each sign with several upper halves, and five bits hold both bits of
`O_TMPFILE` above an access mode.
Counters that are bounded: `MaxCall`, `MaxSig`, `MaxKill`, `MaxEvents`,
`MaxFaults`, `MaxWrites`, each in the guard of the action it bounds.

Deadlock is checked wherever the program may not stop: not in `tracer`, `tree`, `fork_window`
and `drop_leaves`, where a `Drop` after a failed run may wait for good, and not in `spawn`, where
a job-control stop before traceme makes `waitpid` wait until someone continues the
child. `Over` and `Done` are the stuttering of a finished program.

Fairness. `FairSpec` of `Tracer` asks that the tracer's only thread and every
task that can run are run by the scheduler: weak fairness of `TracerStep` and of
each `Task(p)`, nothing of signals or kills. `waitpid` may then report tasks in
any order: `StopsServed` holds because a task in a stop adds no new reports while
the others, in the bounded model, finish after finitely many calls; with endless
others it rests on the order in which the kernel reports, which is not modelled. Both liveness properties except a run that ended in
`EINVAL`: the real-time signal's stop was taken and is never answered, and `Drop`
may then hang on a task that is not in a stop (`drop_leaves`). `FairSpec` of `Spawn` is the same for
parent and child. Weak fairness is enough since no step of one process is
disabled again and again by the other. `Sink` and `Decode` need none: a decoder's
end follows from `WorkBounded` and the absence of deadlock.

## Findings

| Run | Where | What |
| --- | --- | --- |
| `exec_skipped` | `tracer.rs:215` | every successful execve is left out, though only the first one was entered before the tracer attached |
| `group_stop` | `tracer.rs:231` | a group-stop is taken for another delivery of SIGSTOP and the stopped task is restarted |
| `fork_window` | `tracer.rs:134` | a parent killed between making a child and its `EVENT_FORK` lets `run` return Ok with the child alive |
| `drop_leaves` | `tracer.rs:260` | `Drop` waits for good on a tracee that was not in a stop when it tried to detach it |
| `spawn_gone` | `tracer.rs:304` | a signal before the exec makes `spawn` return `TraceeGone` with the child alive |
| `json_pipe` | `json.rs:66` | a closed pipe becomes `ErrorKind::Other`, so `--output json` fails where pretty ends well |
| `wait_pid` | `wait4.rs:53` | the pid is not narrowed to int, so a zero-extended -1 is shown as 4294967295 |

Seen and left without a run: `loi-memory lib.rs:46` says a read that fails on a
later page "does not lose the prefix bytes", but the `?` of line 102 drops them
(`DecodesExactly` has `Vm` as the answer there, as the code does); `execve.rs:13`
says `<unreadable>` comes after at least one readable entry, but a bad first
string gives it alone. `pretty.rs:57` says a failed lookup is rendered "with the
whole line dimmed", but the arguments and the separators stay plain
(`FailuresStandOut` asks it of the other cells). `pretty.rs:151` says the caller
looks the category up in the registry; `SinkState::decode` gives none when the
decoder failed, which `ColourMeansDecoded` wants. `truncated` of a buffer compares
with the length that was asked for, so a short read is called truncated though all
its bytes are shown. `-ret` in `format_common.rs:98` overflows for the least
`i64`, which the kernel does not return; codes like `ERESTARTSYS` have no name and
are shown as numbers without red. Flags with only unknown bits are shown as 0. A glob with a comma inside
braces is cut at the comma (`loi-filter lib.rs:132`). With overflow checks
`loi-memory lib.rs:99` panics on a pointer into the last page, where the release
profile wraps to the right length. A single real-time signal sent to a traced
program ends the trace (`tracer.rs:145`): no comment denies it, `RunSucceeds`
states it.

## Proofs

Each of the four state machines has an inductive invariant `IInv` in a module of
its own (`TracerInv`, `SpawnInv`, `SinkInv`, `DecodeInv`), which a run checks with
TLC, and a module of proofs that derives the properties from it. A proof has one
lemma per group of conjuncts and, in it, one step per action. The bounds of the
models (`MaxCall`, `MaxKill`, `MaxEvents`, `MaxWrites` ...) are arbitrary naturals
there.

**Tracer** (`TracerProofs`), for any set of tasks, kinds of call, signals and
bounds, from `PtraceAssumption` alone (the root is a task, the bounds are
naturals):

* `TypeCorrect`, `PhaseCorrect`, `AwaitingCorrect`, `PairingCorrect`,
  `SignalsCorrect`: the tracer's table is in step with every task, events do not
  mix calls, signals are passed on.
* `ReportedOnceInOrder`: no call of a task is reported twice or behind a later one,
  with any number of kills.
* `EventsAreExact`: without SIGKILL the sink has of every monitored task each
  finished call, successful execves aside, exactly once.
* `RunSucceedsUnlessKilled`, `TraceeNeverGone`, `DrainedWhenOk`: what `run`
  returns is true, as long as nobody sends SIGKILL (the second one always): the only
  error is the `EINVAL` of a real-time signal.
* `OthersAreUntouched`: the action property.
* `TraceKept` (in `TraceProofs`): `Tracer` implements `SyscallTrace`.

`PhaseInSync` is not inductive: whether the exit-stop to come is the
one to skip depends on which call the kernel is in (`CallsInSync`); whether a
status at hand still describes its task depends on kills (`StatusInSync`,
`StoppedUnlessKilled`); a task without an entry must be a child whose parent's
`EVENT_FORK` is still owed, or the table could run empty too early (`NoStranger`,
with `ChildrenInSync`); `NeverTraceeGone` needs that a tracked root is still to be
reaped (`RootTracked`). `OnceInOrder` needs that whatever was reported of a task
lies behind the call it is in (`LogBehind`), and that an exit-stop whose phase is
`Exit` is that call's (`PhaseInSync`, by the lemma `ExitEvent`). For `EventsExact`
the calls that are owed are a set (`Owed`): serving an exit-stop adds one call to it
and the event of that call to the log, and no other step changes either.

`TraceKept` maps every task to its place in `SyscallTrace` (`PlaceOf`) and proves
under `IInv` that a step moves one task as an action there does, or none. The
tracer's own steps are the interesting ones: serving an exit-stop is `Report`, and
by `PhaseInSync` never happens at another stop; skipping one is `GoOn`, and by
`PhaseInSync` the call is an execve that succeeded; everything else a handler does is
a stutter. `Conclude` with "Ok" is `OkMeansDrained`. Unlike `EventsExact` it holds
with kills: what it says then is which events a SIGKILL may take along.

**Spawn** (`SpawnProofs`), for any subset of the four signals and any number of
kills (`SpawnAssumption`): `TypeCorrect`, `OkIsAtExec`, `ExecErrnoIsTrue`,
`ResultIsExact`, `ReadEnds`. The parent never sees the child, only its stops and the
pipe. `PlacesAt` says where the child can be at each place of the parent;
`OptionsInSync` that it cannot be past `execvp` before the options are set, although
nothing but the stop of `raise` holds it; `WritersInSync` and `PayloadInSync` tie the
pipe to the two programs, so that the read ends and finds all four bytes or none;
`QuietChild` is what `ResultExact` needs when nobody interferes.

**Sink** (`SinkProofs`), for any events, command lines, lengths of names and pids,
buffer capacity, and any number of events and failed writes: `TypeCorrect`,
`ErrorsAreReported`, `ArrowsHang`, `PlainIsPlain`, `FailuresShow`,
`ColoursAreDecoded`, `ColumnsAlign`, `FormatsTellTheSame`, and `PromiseKept`: `Spec` implements `Promise!StreamSpec`, each
step of `Sink` being a step of `OutputStream` or a stutter. `Pipeline` is what was
written, what is buffered and what is left of the line, in one sequence; it is at all
times a beginning of the stream and, until the sink falls silent, all of it
(`StreamInSync`): a flush moves its borders, a failed one cuts it, and silence keeps
it from growing past the cut. `BurstInSync` says that the burst `PrettyState`
remembers is that of the last lookup among the written lines (`HeadIn`), which
survives lines of other calls in between. A column is a number of characters, the
cardinality of the set of those to its left (`LeftOf`), so the lemmas add up a line
cell by cell (`Measured`, `ColumnBegins`, `ColumnKept`) without a fold, and
`WidthsInSync` says that the remembered widths are the widest of the lines so far.
`FormatsAgree` goes through the forms of one argument (`LooksAlike`) and the four units
of `fmt_duration`: a duration never leaves the bounds of its unit (`LooksBetween`) and
within one grows with the time (`DividedMonotone`); how many of a unit make the next is
any multiple of ten. `LabelsAssumption` says what the decoders and the raw registers
guarantee and the JSON form needs: a label like `mode`, `pathname` or `argv` never
stands before arguments of different kinds. TLC evaluates it on the events of `MCSink`.
The other assumptions say that the events have
pids and names of known length and a duration, a pid column is never narrower than its brackets and
digit, and `ENOENT` is the number 2 it is on Linux.

**Decode** (`DecodeProofs`), for any page size, number of mapped pages, caps, widths
of registers and ints, memory, and any number of writes by another task:
`TypeCorrect`, `DecodingIsExact`, `StringsAreReal`, `SentinelsEnd`, `WorkIsBounded`,
`RegistersAreTold`, `FlagsAreToldOnce`. `Progress` says how far `read_cstr` is: the
bytes so far are no NULs, each was at its address, and still is when nobody wrote;
the chunk that follows ends at a page or at the cap (lemmas on `\div` and `%`), and
the first NUL in it is the least one of `StringAt`. For the work, every chunk but the
first starts at a page (`WorkOf`), so a string of n bytes costs at most
`ReadsFor(n)` reads, and the entries of argv add up (`WorkBefore`). `WalkedInSync`
makes the walked entries those of the array as long as nobody writes, `ArgsInSync`
ties the arguments to the shape of their call, from which the properties of registers
and flags follow. `RegistersAssumption` and `DecodeAssumption` say of the powers of two
what the proofs need and no prover computes: ranges are even, the range of a register
is a multiple of that of an int and of a page, the mapped pages lie below the last
one, and an argv string is capped no higher than a path. TLC evaluates them on the
instances, and they hold of the code's 64, 32, 4096 and 256.

Only model-checked. The liveness properties (`StopsServed`, `RunReturns`,
`SpawnReturns`): liveness under fairness is out of the prover's reach. Every invariant
and every action property of a passing run has its theorem. The seven runs that expect a violation are counterexamples and need no proof.

## Not modelled

Threads of one process, pids used again, SIGCONT and job control, foreign
children of the tracer's process (the binary has none); which register holds which
argument; the spelling of escapes, quotes and numbers; clap, and the matching of
one glob; xtask and benches, which no run of loi executes. The components of `PROJECT.json` give the reasons.

## Plan

Done in this order, the core first: `Ptrace` and `Tracer`, its invariant and
proofs, `Spawn`, `Sink` with `OutputStream`, `Decode`; then real-time signals and
the order of events in `Tracer` with their proofs, the formatters (`Render`,
`Pretty`, `Registry`) and every argument of every decoder; then the proofs of
`EventsExact`, of `Spawn`, of `Sink` with its refinement, and of `Decode`; then
`SyscallTrace` and its refinement by `Tracer`. Next:

1. `Session`: `Spawn` composed with `Tracer` over one root, to see what `run`
   does after a start that a stray SIGTRAP made too early.
2. Thread groups in `Ptrace`: execve by a thread that is not the leader, a stale
   entry and a pid used again; SIGCONT; a foreign child for `waitpid(-1)`.
