------------------------------ MODULE MCDecode ------------------------------
(***************************************************************************)
(* Decode with pages of two bytes, three of them, and calls that start at  *)
(* the beginning or in the middle of a page, at NULL, or in the last page  *)
(* of the address space; ints of three bits in registers of five.          *)
(***************************************************************************)
EXTENDS DecodeInv

Call(kind, registers, ret) ==
  [kind |-> kind, args |-> registers, rax |-> ret % RegRange]

StatCalls == {Call("stat", <<a, 4, 0, 0, 0, 0>>, 0) : a \in {0, 2, 3, 5, 7, 31}}
ExecveCalls == {Call("execve", <<3, 9, 6, 0, 0, 0>>, -2)}
BufferCalls ==
  {Call(k, <<13, a, n, 0, 0, 0>>, r) :
     k \in {"read", "write"}, a \in {0, 3}, n \in {1, 3}, r \in {-4, 0, 1}}
    \cup {Call("write", <<5, 3, 3, 0, 0, 0>>, 3)}
StatusCalls == {Call("wait4", <<31, a, 3, 9, 0, 0>>, r) : a \in {0, 3}, r \in {-4, 0, 3}}
\* The access modes with and without each bit of O_TMPFILE; every three-bit int
\* below one upper half or two; mmap and its like in the last page and elsewhere.
OpenCalls ==
  {Call("openat", <<5, 5, flags, 13, 0, 0>>, 3) : flags \in 0 .. 3 \cup {8, 12, 16} \cup 24 .. 27}
StatxCalls == {Call("statx", <<13, 5, 1, mask, 9, 0>>, 0) : mask \in {0, 3, 5, 7}}
RegisterCalls ==
  {Call("close", <<n, 0, 0, 0, 0, 0>>, 0) : n \in 3 .. 13 \cup {29}} \cup
  {Call(k, <<a, 11, p, 22, 31, 30>>, 0) :
     k \in RegisterKinds \ {"close"}, a \in {7, 26}, p \in {0, 3}}
WaitCalls == {Call("wait4", <<n, 3, 1, 0, 0, 0>>, 1) : n \in Register}

AllCalls ==
  StatCalls \cup ExecveCalls \cup BufferCalls \cup StatusCalls \cup OpenCalls
    \cup StatxCalls \cup RegisterCalls
Fdcwd == -3
StringsAt == {2, 5}
=============================================================================
