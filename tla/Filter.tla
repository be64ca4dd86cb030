------------------------------- MODULE Filter -------------------------------
(***************************************************************************)
(* crates/loi-filter: the gates of --syscall, --fail and --path.  A flag's *)
(* value is the set of its comma-separated segments; a glob is its set of  *)
(* matches, names of system calls or paths.                                *)
(***************************************************************************)
EXTENDS DecodedArg, Integers

CONSTANTS
  Glob,       \* the valid globs
  Matches     \* [Glob -> what each one matches]

\* A flag that was not given; a blank segment; one that is not a glob.
Blank == ""
BadGlob == "["
NotGiven == "absent"
Absent == {NotGiven}
Segment == Glob \cup {Blank, BadGlob, NotGiven}

\* Option<GlobSet>: no gate, or what passes it.
NoGate == [on |-> FALSE, passes |-> {}]
Gate(globs) == [on |-> TRUE, passes |-> UNION {Matches[g] : g \in globs}]

\* compile_globs gives an error for one bad segment.
ParseFails(raw) == BadGlob \in raw

\* Absent, or nothing but blank segments: no gate.
compile_globs(raw) ==
  IF raw \cap Glob = {} THEN NoGate ELSE Gate(raw \cap Glob)

\* Filter::parse.
parse(flags) ==
  [syscalls |-> compile_globs(flags.syscall), only_fail |-> flags.fail,
   paths |-> compile_globs(flags.path)]

matches_event(filter, ev) ==
  /\ filter.only_fail => ev.ret < 0
  /\ filter.syscalls.on => ev.name \in filter.syscalls.passes

\* Any of the decoded arguments that is a path.
matches_decoded(filter, args) ==
  filter.paths.on =>
    \E i \in DOMAIN args : as_path(args[i][2]) \cap filter.paths.passes # {}

needs_decode(filter) == filter.paths.on

=============================================================================
