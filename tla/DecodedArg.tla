----------------------------- MODULE DecodedArg -----------------------------
(***************************************************************************)
(* crates/loi-syscalls, decoder.rs: one decoded argument, as the decoders  *)
(* make it and the filter and the formatters take it: a tuple of the       *)
(* variant and what it carries.  A labelled one is <<label, argument>>.    *)
(***************************************************************************)

Variants == {"Path", "AtFdCwd", "Invalid", "Num", "Flags", "Mode", "Int",
             "Uint", "Bytes", "Hex", "Ptr", "Argv"}

\* FdRepr, besides <<"Num", n>>.
AtFdCwd == <<"AtFdCwd">>
Invalid == <<"Invalid">>

DecodedArg(arg) ==
  /\ arg[1] \in Variants
  /\ arg[1] = "AtFdCwd" => arg = AtFdCwd
  /\ arg[1] = "Invalid" => arg = Invalid

NULL == <<"Ptr", 0>>
Carried(arg) == arg[2]
Total(arg) == arg[3]

\* Option<&str>: the path or nothing.
as_path(arg) == IF arg[1] = "Path" THEN {Carried(arg)} ELSE {}

=============================================================================
