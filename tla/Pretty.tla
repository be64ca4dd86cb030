------------------------------- MODULE Pretty -------------------------------
(***************************************************************************)
(* crates/loi-output, pretty.rs: what write_event makes of one event and   *)
(* of the PrettyState its caller keeps.  A line is a sequence of cells;    *)
(* one that has no other aligned below it has width 0.                     *)
(***************************************************************************)
EXTENDS Render

CONSTANTS
  PidLen,     \* [pids -> the length of "[pid]"]
  NameLen,    \* [names -> their length]
  Basename    \* [paths -> the text after the last slash]

ASSUME PrettyAssumption ==
  /\ \A p \in DOMAIN PidLen : PidLen[p] \in Nat /\ PidLen[p] >= 3
  /\ \A n \in DOMAIN NameLen : NameLen[n] \in Nat

\* PrettyConfig::new, and the builders that switch one affordance.
PrettyConfig(color) ==
  [color |-> color, aligned |-> TRUE, category_colors |-> TRUE,
   dim_lookups |-> TRUE, group_lookups |-> TRUE]
category_colors(cfg, on) == [cfg EXCEPT !.category_colors = on]
dim_lookups(cfg, on) == [cfg EXCEPT !.dim_lookups = on]
group_lookups(cfg, on) == [cfg EXCEPT !.group_lookups = on]

NoBasename == "no_basename"
NoPid == 0

\* PrettyState::new
NewPretty == [pid_width |-> 0, name_width |-> 0,
              last_basename |-> NoBasename, last_pid |-> NoPid]

is_path_lookup(name) ==
  name \in {"openat", "open", "newfstatat", "access", "faccessat", "stat", "statx"}

\* Only a decoded pathname has one.
lookup_basename(name, args) ==
  LET paths == UNION {as_path(args[i][2]) : i \in {k \in DOMAIN args : args[k][1] = "pathname"}}
  IN  IF is_path_lookup(name) /\ paths # {}
      THEN Basename[CHOOSE p \in paths : TRUE] ELSE NoBasename

Wider(width, len) == IF len > width THEN len ELSE width

\* The widths grow before the line is written ...
Grown(cfg, state, ev) ==
  IF cfg.aligned
  THEN [state EXCEPT !.pid_width = Wider(@, PidLen[ev.pid]),
                     !.name_width = Wider(@, NameLen[ev.name])]
  ELSE state

\* Mutant: the padding is taken from the widths before they grow.
Padding_early(cfg, state, ev) ==
  [pid |-> state.pid_width - PidLen[ev.pid],
   name |-> state.name_width - NameLen[ev.name]]

Padding(cfg, state, ev) ==
  LET grown == Grown(cfg, state, ev)
  IN  IF cfg.aligned
      THEN [pid |-> grown.pid_width - PidLen[ev.pid],
            name |-> grown.name_width - NameLen[ev.name]]
      ELSE [pid |-> 0, name |-> 0]

\* Mutant: the pid of the burst is not compared.
IsContinuation_any_pid(cfg, state, ev, basename) ==
  cfg.group_lookups /\ basename # NoBasename /\ basename = state.last_basename

IsContinuation(cfg, state, ev, basename) ==
  /\ cfg.group_lookups /\ basename # NoBasename
  /\ basename = state.last_basename /\ state.last_pid = ev.pid

-----------------------------------------------------------------------------
(* The cells                                                               *)

Cell(token, width, style) == <<token, width, style>>
Token(cell) == cell[1]
Width(cell) == cell[2]
StyleOf(cell) == cell[3]

write_spaces(n) == IF n = 0 THEN <<>> ELSE <<Cell("spaces", n, "plain")>>

\* The arrow and its blank stand at the right end of the pid column.
BURST_PREFIX == 2
Lead(pid, pid_pad) == PidLen[pid] + pid_pad - BURST_PREFIX

\* Mutant: the blanks do not leave room for the arrow.
write_pid_column_color_wide(pid, pid_pad, is_continuation) ==
  IF is_continuation
  THEN write_spaces(PidLen[pid] + pid_pad) \o <<Cell("arrow", BURST_PREFIX, "dimmed")>>
  ELSE <<Cell("pid", PidLen[pid], "dimmed")>> \o write_spaces(pid_pad)

write_pid_column_color(pid, pid_pad, is_continuation) ==
  IF is_continuation
  THEN write_spaces(Lead(pid, pid_pad)) \o <<Cell("arrow", BURST_PREFIX, "dimmed")>>
  ELSE <<Cell("pid", PidLen[pid], "dimmed")>> \o write_spaces(pid_pad)

write_pid_column_plain(pid, pid_pad, is_continuation) ==
  IF is_continuation
  THEN write_spaces(Lead(pid, pid_pad)) \o <<Cell("arrow", BURST_PREFIX, "plain")>>
  ELSE <<Cell("pid", PidLen[pid] + pid_pad, "plain")>>

NoCategory == "none"
name_style(cfg, category, dim_line) ==
  CASE dim_line -> "dimmed"
    [] ~dim_line /\ ~cfg.color -> "plain"
    [] ~dim_line /\ cfg.color /\ ~cfg.category_colors -> "bold_cyan"
    [] OTHER -> CASE category = "File" -> "bold_cyan"
                  [] category = "FileMeta" -> "bold_blue"
                  [] category = "Memory" -> "bold_magenta"
                  [] category = "Process" -> "bold_yellow"
                  [] OTHER -> "bold"

write_ret(ret, color, dim) ==
  LET named == errno_of_ret(ret) # NoErrno
      style == IF dim THEN "dimmed"
               ELSE IF ~color THEN "plain" ELSE IF named THEN "bold_red" ELSE "bold"
  IN  <<Cell("ret", 0, style)>> \o
        (IF named THEN <<Cell("errno", 0, style),
                         Cell("desc", 0, IF dim THEN "dimmed" ELSE "plain")>>
         ELSE <<>>)

\* Mutant: whatever the lookup returned.
DimLine_any(cfg, ev) == cfg.dim_lookups /\ cfg.color /\ is_path_lookup(ev.name)

RET_ENOENT == -Enoent
DimLine(cfg, ev) ==
  cfg.dim_lookups /\ cfg.color /\ ev.ret = RET_ENOENT /\ is_path_lookup(ev.name)

Cells(cfg, ev, category, pad, arrow) ==
  LET dim == DimLine(cfg, ev)  space == write_spaces(1)
      name == Cell("name", NameLen[ev.name], name_style(cfg, category, dim))
      args == Cell("args", 0, "plain")
  IN  IF cfg.color
      THEN write_pid_column_color(ev.pid, pad.pid, arrow) \o space \o <<name>>
             \o write_spaces(pad.name) \o <<args>> \o write_ret(ev.ret, TRUE, dim)
             \o <<Cell("duration", 0, "dimmed")>>
      ELSE write_pid_column_plain(ev.pid, pad.pid, arrow) \o space
             \o <<Cell("name", NameLen[ev.name] + pad.name, "plain"), args>>
             \o write_ret(ev.ret, FALSE, FALSE) \o <<Cell("duration", 0, "plain")>>

\* The line of one event, and what its cells say.
Line(cfg, state, ev, args, category) ==
  LET basename == lookup_basename(ev.name, args)
      arrow == IsContinuation(cfg, state, ev, basename)
  IN  [pid |-> ev.pid, name |-> ev.name, basename |-> basename, arrow |-> arrow,
       cells |-> Cells(cfg, ev, category, Padding(cfg, state, ev), arrow),
       args |-> PrettyArgs(args), ret |-> ev.ret,
       errno |-> errno_of_ret(ev.ret), duration |-> fmt_duration(ev.duration)]

\* ... and the burst is remembered once it is written.
Remembered(state, line) ==
  IF line.basename = NoBasename THEN state
  ELSE [state EXCEPT !.last_basename = line.basename, !.last_pid = line.pid]

=============================================================================
