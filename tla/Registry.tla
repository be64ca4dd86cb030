------------------------------ MODULE Registry ------------------------------
(***************************************************************************)
(* crates/loi-syscalls, registry.rs: numbers of system calls to names, to  *)
(* decoders and to the families they declare.                              *)
(***************************************************************************)
CONSTANT Sysno    \* [the numbers in the table of the architecture -> names]

\* The tracer names a call outside the table `syscall_{nr}`.
Unnamed == "syscall_N"
syscall_name(nr) == IF nr \in DOMAIN Sysno THEN Sysno[nr] ELSE Unnamed

\* Category, as each decoder declares it.
Families ==
  [File |-> {"openat", "read", "write", "close"},
   FileMeta |-> {"fstat", "statx", "stat"},
   Memory |-> {"mmap", "mprotect"},
   Process |-> {"execve", "clone", "wait4"}]

\* register drops a number outside the table; a name has one decoder.
with_default_decoders ==
  {nr \in DOMAIN Sysno : \E f \in DOMAIN Families : Sysno[nr] \in Families[f]}

\* The family the decoder of nr declares.
category(nr) == CHOOSE f \in DOMAIN Families : syscall_name(nr) \in Families[f]

=============================================================================
