------------------------------- MODULE Render -------------------------------
(***************************************************************************)
(* What both formatters of crates/loi-output make of one decoded argument, *)
(* a return value or a duration (format_common.rs), and the object of a    *)
(* JSON line (json.rs).  A text or a JSON value is a tuple of its form and *)
(* what it is made of; escaping keeps different strings different and is   *)
(* left out, the replacement of invalid UTF-8 does not.                    *)
(***************************************************************************)
EXTENDS DecodedArg, Integers, Sequences

CONSTANTS
  Errnos,       \* the errno numbers that have a name
  InvalidByte,  \* the bytes that no UTF-8 text holds
  Thousand      \* how many of one unit of time make the next

Enoent == 2
ASSUME RenderAssumption ==
  /\ Errnos \subseteq Nat \ {0}
  /\ Enoent \in Errnos
  /\ Thousand \in Nat \ {0} /\ Thousand % 10 = 0

from_utf8_lossy(bytes) ==
  [i \in DOMAIN bytes |-> IF bytes[i] \in InvalidByte THEN "U+FFFD" ELSE bytes[i]]
Truncated(arg) == Len(Carried(arg)) < Total(arg)

render_arg_text(arg) ==
  CASE arg = AtFdCwd -> <<"word", "AT_FDCWD">>
    [] arg = Invalid -> <<"number", -1>>
    [] arg = NULL -> <<"word", "NULL">>
    [] arg[1] = "Flags" ->
         IF Carried(arg) = {} THEN <<"number", 0>> ELSE <<"joined", Carried(arg)>>
    [] arg[1] \in {"Num", "Int", "Uint"} -> <<"number", Carried(arg)>>
    [] arg[1] = "Mode" -> <<"octal", Carried(arg)>>
    [] arg[1] = "Bytes" -> <<"quoted", from_utf8_lossy(Carried(arg)), Truncated(arg)>>
    [] arg[1] = "Path" -> <<"quoted", Carried(arg)>>
    [] arg[1] = "Argv" -> <<"list", Carried(arg)>>
    [] arg[1] \in {"Hex", "Ptr"} /\ arg # NULL -> <<"hex", Carried(arg)>>

\* Mutant: a buffer is the string of what was read.
JsonBytes_inline(arg) == <<"text", from_utf8_lossy(Carried(arg))>>

JsonBytes(arg) == <<"object", from_utf8_lossy(Carried(arg)), Total(arg), Truncated(arg)>>

arg_to_json(arg) ==
  CASE arg = AtFdCwd -> <<"string", "AT_FDCWD">>
    [] arg = Invalid -> <<"number", -1>>
    [] arg = NULL -> <<"null">>
    [] arg[1] \in {"Num", "Int", "Uint", "Mode"} -> <<"number", Carried(arg)>>
    [] arg[1] = "Bytes" -> JsonBytes(arg)
    [] arg[1] \in {"Flags", "Argv"} -> <<"array", Carried(arg)>>
    [] arg[1] = "Path" -> <<"string", Carried(arg)>>
    [] arg[1] \in {"Hex", "Ptr"} /\ arg # NULL -> <<"hex", Carried(arg)>>

\* The name of an errno is its number here.
NoErrno == 0
errno_of_ret(ret) == IF ret < 0 /\ -ret \in Errnos THEN -ret ELSE NoErrno

\* The milliseconds and seconds are rounded to a tenth: a tie up here, in the code
\* to whichever side its f64 is.
Million == Thousand * Thousand
Billion == Million * Thousand
Tenths(nanos, unit) == (20 * nanos + unit) \div (2 * unit)
fmt_duration(nanos) ==
  CASE nanos < Thousand -> <<"ns", nanos>>
    [] nanos \in Thousand .. Million - 1 -> <<"us", nanos \div Thousand>>
    [] nanos \in Million .. Billion - 1 -> <<"ms", Tenths(nanos, Million)>>
    [] nanos >= Billion -> <<"s", Tenths(nanos, Billion)>>

\* The arguments in each of the formats; only JSON shows their labels.
PrettyArgs(args) == [i \in DOMAIN args |-> render_arg_text(args[i][2])]
JsonArgs(args) == [i \in DOMAIN args |-> <<args[i][1], arg_to_json(args[i][2])>>]

\* json::write_event: what the line says, errno_name being absent or not.
Object(ev, args) ==
  [pid |-> ev.pid, syscall_nr |-> ev.nr, syscall_name |-> ev.name, ret |-> ev.ret,
   errno_name |-> errno_of_ret(ev.ret), duration |-> ev.duration,
   args |-> JsonArgs(args)]

=============================================================================
