------------------------------- MODULE MCSink -------------------------------
(***************************************************************************)
(* Sink with two pids of different length, calls with and without decoder  *)
(* and errno, two paths of one basename, and the command lines that matter.*)
(***************************************************************************)
EXTENDS SinkInv

Globs == {"open*", "/lib/*"}
MatchesOf == [g \in Globs |-> IF g = "open*" THEN {"openat"} ELSE {"/lib/x"}]

BasenameOf == [p \in {"/lib/x", "/usr/x"} |-> "x"]
Pids == {9, 10}
PidLenOf == [p \in Pids |-> IF p = 9 THEN 3 ELSE 4]
NameLenOf == [n \in {"openat", "read", Unnamed} |->
  CASE n = "openat" -> 6 [] n = "read" -> 4 [] OTHER -> 9]
SysnoOf == [nr \in {0, 257} |-> IF nr = 0 THEN "read" ELSE "openat"]
ErrnosOf == {Enoent}
BadBytes == {"fe", "ff"}

Call(pid, nr, ret, duration, readable, args) ==
  [pid |-> pid, nr |-> nr, name |-> syscall_name(nr), ret |-> ret, regs |-> [k \in 1 .. 6 |-> 0],
   duration |-> duration, readable |-> readable, args |-> args]
OpenAt(pid, ret, duration, path, readable) ==
  Call(pid, 257, ret, duration, readable,
       <<<<"dirfd", AtFdCwd>>, <<"pathname", <<"Path", path>>>>, <<"flags", <<"Flags", {}>>>>>>)
ReadOf(bytes, total, duration) ==
  Call(9, 0, Len(bytes), duration, TRUE,
       <<<<"fd", <<"Num", 3>>>>, <<"buf", <<"Bytes", bytes, total>>>>>>)

Lookups == {OpenAt(p, 3, 994, "/lib/x", TRUE) : p \in Pids}
Unknown == Call(10, 999, -512, 99, TRUE, <<>>)
Events ==
  Lookups \cup {OpenAt(9, -Enoent, 1001, "/usr/x", TRUE), OpenAt(9, 3, 10, "/lib/x", FALSE),
                ReadOf(<<"ff">>, 1, 9), ReadOf(<<"fe">>, 2, 9), Unknown}
PlainEvents == Lookups \cup {Unknown}

Setup(output, terminal, syscall, fail, path, off) ==
  [output |-> output, terminal |-> terminal, syscall |-> syscall, fail |-> fail, path |-> path,
   no_category_colors |-> "colors" \in off, no_dim_lookups |-> "dim" \in off,
   no_group_lookups |-> "group" \in off]
Unfiltered(output, terminal, off) == Setup(output, terminal, Absent, FALSE, Absent, off)
JsonOnly == {Unfiltered("Json", FALSE, {})}
AllSetups ==
  {Unfiltered("Pretty", TRUE, {}), Unfiltered("Pretty", TRUE, {"colors", "group"}),
   Unfiltered("Pretty", FALSE, {}), Unfiltered("Pretty", FALSE, {"dim", "group"}),
   Unfiltered("Json", TRUE, {}), Unfiltered("Raw", FALSE, {})} \cup
  {Setup("Pretty", TRUE, {Blank}, FALSE, Absent, {"dim"}),
   Setup("Json", FALSE, {"open*", Blank}, FALSE, Absent, {}),
   Setup("Pretty", TRUE, Absent, TRUE, Absent, {}),
   Setup("Pretty", FALSE, Absent, FALSE, {"/lib/*"}, {}),
   Setup("Json", FALSE, {"open*"}, TRUE, {"/lib/*"}, {}),
   Setup("Pretty", FALSE, {BadGlob}, FALSE, Absent, {})}
=============================================================================
