------------------------------- MODULE Decode -------------------------------
(***************************************************************************)
(* crates/loi-memory and the decoders of crates/loi-syscalls: a path       *)
(* (stat, openat, statx), execve's path and argv, the buffers of read and  *)
(* write, the status word of wait4, and the registers beside them or alone *)
(* (see Registers).  The decoded task is in its exit-stop; another one     *)
(* that shares its memory runs on, and writes or unmaps between two calls  *)
(* of process_vm_readv.                                                    *)
(***************************************************************************)
EXTENDS Registers, SequencesExt

CONSTANTS
  PAGE_SIZE,              \* the chunks of read_cstr, and the pages
  UserPages,              \* how many pages a task may map
  PATH_MAX, MAX_ARGV_ENTRY_BYTES, MAX_ARGV, MAX_INLINE_BYTES, STATUS_WORD_BYTES,
  Strings,                \* where the entries of argv may point
  Calls,                  \* the calls [kind, args, rax]: registers at its two stops
  MaxWrites               \* bound: what the other task changes

PathKinds == {"stat", "openat", "statx"}
BufferKinds == {"read", "write", "wait4"}
RegisterKinds == {"close", "fstat", "mmap", "mprotect", "clone"}
Kinds == PathKinds \cup RegisterKinds \cup BufferKinds \cup {"execve"}

ASSUME DecodeAssumption ==
  /\ {PAGE_SIZE, UserPages, PATH_MAX, MAX_ARGV_ENTRY_BYTES, MAX_ARGV,
      MAX_INLINE_BYTES, STATUS_WORD_BYTES} \subseteq Nat \ {0}
  /\ MaxWrites \in Nat /\ MAX_ARGV_ENTRY_BYTES <= PATH_MAX
  /\ RegRange % PAGE_SIZE = 0 /\ PAGE_SIZE * (UserPages + 1) < RegRange
  /\ Strings \subseteq Register
  /\ \A c \in Calls :
       c.kind \in Kinds /\ c.args \in [1 .. 6 -> Register] /\ c.rax \in Register

\* Page 0 is never mapped, nor the last one, which is the kernel's; u64 wraps.
Addr == Register
PageOf(a) == a \div PAGE_SIZE
UserAddr == {a \in Addr : PageOf(a) \in 1 .. UserPages}
NullPtr == 0

\* A slot of argv is a pointer, or cannot be read.
BadSlot == -1
Slot == Strings \cup {NullPtr, BadSlot}

VARIABLES
  mem,        \* [UserAddr -> byte], 0 is the NUL
  mapped,     \* the mapped pages
  argv,       \* the slots of execve's array
  denied,     \* process_vm_readv answers EPERM
  writes,     \* how often the other task changed the memory
  seen,       \* history: every byte each address held, or "unmapped"
  call,       \* the call to decode
  pc,         \* where the decoder is
  cursor, remaining, out,   \* read_cstr
  pathname,   \* execve: the path, while argv is walked
  entries,    \* walk_argv, one per slot done
  reads,      \* history: calls of process_vm_readv
  result,     \* what the decoder answers: Ok or an error
  args        \* ... and with Ok, the arguments of the DecodedCall

memVars == <<mem, mapped, argv, writes, seen>>
cstrVars == <<cursor, remaining, out>>
argvVars == <<pathname, entries>>
vars == <<memVars, denied, call, pc, cstrVars, argvVars, reads, result, args>>

Str(bytes) == [tag |-> "string", bytes |-> bytes]
Tag(name) == [tag |-> name, bytes |-> <<>>]
Vm == Tag("Vm")                     \* MemError
Ptrace == Tag("Ptrace")
TruncatedCstr == Tag("TruncatedCstr")
Errors == {Vm, Ptrace, TruncatedCstr}
Overflow == Tag("...")              \* the sentinels of argv
Unreadable == Tag("<unreadable>")
Ok == Tag("Ok")
None == Tag("none")

Bytes == Seq({0, 1})
TypeOK ==
  /\ mem \in [UserAddr -> {0, 1}] /\ mapped \subseteq 1 .. UserPages
  /\ argv \in [0 .. MAX_ARGV - 1 -> Slot] /\ denied \in BOOLEAN
  /\ writes \in 0 .. MaxWrites
  /\ seen \in [UserAddr -> SUBSET {0, 1}]
  /\ call.kind \in Kinds
  /\ call.args \in [1 .. 6 -> Register] /\ call.rax \in Register
  /\ pc \in {"start", "path", "slot", "entry", "done"}
  /\ cursor \in Addr /\ remaining \in 0 .. PATH_MAX /\ out \in Bytes
  /\ Len(out) + remaining <= PATH_MAX /\ pathname \in Bytes
  /\ Len(entries) <= MAX_ARGV + 1
  /\ reads \in Nat /\ result \in {None, Ok} \cup Errors
  /\ pc = "done" <=> result # None
  /\ \A i \in DOMAIN args : args[i][2][1] \in Variants

Here(bytes, pages) ==
  [a \in UserAddr |-> IF PageOf(a) \in pages THEN {bytes[a]} ELSE {}]

Init ==
  /\ mapped \in SUBSET (1 .. UserPages)
  /\ mem \in {m \in [UserAddr -> {0, 1}] :
               \A a \in UserAddr : PageOf(a) \notin mapped => m[a] = 0}
  /\ call \in Calls
  /\ argv \in IF call.kind = "execve" THEN [0 .. MAX_ARGV - 1 -> Slot]
              ELSE {[i \in 0 .. MAX_ARGV - 1 |-> NullPtr]}
  /\ denied \in BOOLEAN
  /\ writes = 0 /\ seen = Here(mem, mapped)
  /\ pc = "start" /\ cursor = 0 /\ remaining = 0 /\ out = <<>>
  /\ pathname = <<>> /\ entries = <<>> /\ reads = 0 /\ result = None /\ args = <<>>

-----------------------------------------------------------------------------
(* loi-memory                                                              *)

\* process_vm_readv reads up to the first page that is not mapped.
Readable(addr, len) ==
  \A a \in addr .. addr + len - 1 : a \in UserAddr /\ PageOf(a) \in mapped

\* read_bytes: all of it, or an error; EPERM goes to the stub of PEEKDATA.
read_bytes(addr, len) ==
  IF denied THEN Ptrace
  ELSE IF Readable(addr, len)
       THEN Str([i \in 1 .. len |-> mem[addr + i - 1]])
       ELSE Vm

\* How far it is to the end of the page of `at`, which is 0 for the last page
\* of the address space; the difference wraps as well.
NextPage(at) == (PAGE_SIZE * (PageOf(at) + 1)) % RegRange
ToPage(at) == (NextPage(at) - at) % RegRange

\* Mutants: as much as is left, over the end of the page; as much as the page
\* has; the page ends one byte early, and its last byte is a chunk of none.
Chunk_unaligned(at, left) == left
Chunk_past_max(at, left) == ToPage(at)
Chunk_no_plus_one(at, left) == Min({left, ToPage(at) - 1})

Chunk(at, left) == Min({left, ToPage(at)})

\* read_cstr begins ...
OpenCstr(addr, max) == cursor' = addr /\ remaining' = max /\ out' = <<>>

\* ... reads the next chunk, which has the NUL or not ...
Cut(bytes) == SubSeq(bytes, 1, SelectInSeq(bytes, LAMBDA b : b = 0) - 1)

\* Mutant: the NUL is returned with the string.
UpToNul_with_nul(bytes) == Append(Cut(bytes), 0)

UpToNul(bytes) == Cut(bytes)

\* ... and answers.
CstrAnswer ==
  IF remaining = 0 THEN TruncatedCstr
  ELSE LET got == read_bytes(cursor, Chunk(cursor, remaining))
       IN  IF got \in Errors THEN got
           ELSE IF 0 \in Range(got.bytes) THEN Str(out \o UpToNul(got.bytes))
           ELSE None

ReadChunk ==
  /\ pc \in {"path", "entry"} /\ CstrAnswer = None
  /\ out' = out \o read_bytes(cursor, Chunk(cursor, remaining)).bytes
  /\ cursor' = (cursor + Chunk(cursor, remaining)) % RegRange
  /\ remaining' = remaining - Chunk(cursor, remaining)
  /\ reads' = reads + 1
  /\ UNCHANGED <<memVars, denied, call, pc, argvVars, result, args>>

-----------------------------------------------------------------------------
(* The decoders                                                            *)

Ret == extract_ret(call.rax)
Reg(i) == call.args[i]

Fd(label, i) == <<label, FdArg(Reg(i))>>
Flags(label, names) == <<label, <<"Flags", names>>>>
As(variant, label, i) == <<label, <<variant, Reg(i)>>>>
Path(bytes) == <<"pathname", <<"Path", bytes>>>>

StatArgs(path) == <<Path(path), As("Ptr", "statbuf", 2)>>
OpenAtArgs(path) ==
  <<Fd("dirfd", 1), Path(path), Flags("flags", decode_open_flags(Reg(3))),
    <<"mode", <<"Mode", as_u32(Reg(4))>>>>>>
StatxArgs(path) ==
  <<Fd("dirfd", 1), Path(path), Flags("flags", decode_flags(Reg(3), STATX_FLAGS_TABLE)),
    Flags("mask", decode_flags(Reg(4), STATX_MASK_TABLE)), As("Ptr", "statbuf", 5)>>
ExecveArgs(path, strings) ==
  <<Path(path), <<"argv", <<"Argv", strings>>>>, As("Ptr", "envp", 3)>>

\* Read and Write.
BufferArgs(inline) ==
  <<Fd("fd", 1), <<"buf", <<"Bytes", inline, Reg(3)>>>>, As("Uint", "count", 3)>>
\* The status word is shown by its bytes.
Wait4Args(wstatus) ==
  <<<<"pid", <<"Int", as_i64(Reg(1))>>>>, <<"wstatus", wstatus>>,
    Flags("options", decode_flags(Reg(3), OPTIONS_TABLE)), As("Ptr", "rusage", 4)>>

CloseArgs == <<Fd("fd", 1)>>
FstatArgs == <<Fd("fd", 1), As("Ptr", "statbuf", 2)>>
MmapArgs ==
  <<As("Hex", "addr", 1), As("Uint", "length", 2), Flags("prot", decode_prot(Reg(3))),
    Flags("flags", decode_flags(Reg(4), MAP_TABLE)), Fd("fd", 5), As("Hex", "offset", 6)>>
MprotectArgs ==
  <<As("Hex", "addr", 1), As("Uint", "len", 2), Flags("prot", decode_prot(Reg(3)))>>
PTR_LABELS == <<"parent_tid", "child_tid", "tls">>      \* of x86_64
CloneArgs ==
  <<Flags("flags", decode_flags(Reg(1), CLONE_TABLE)), As("Ptr", "stack", 2)>>
    \o [k \in 1 .. 3 |-> As("Ptr", PTR_LABELS[k], k + 2)]

\* Where the path or the buffer of a call is.
Pointer == Reg(IF call.kind \in {"stat", "execve"} THEN 1 ELSE 2)

Answer(shown) == pc' = "done" /\ result' = Ok /\ args' = shown
AnswerError(error) == pc' = "done" /\ result' = error /\ UNCHANGED args

\* decode_path
BeginPath ==
  /\ pc = "start" /\ call.kind \in PathKinds \cup {"execve"}
  /\ OpenCstr(Pointer, PATH_MAX)
  /\ pc' = "path"
  /\ UNCHANGED <<memVars, denied, call, argvVars, reads, result, args>>

Reading == IF remaining > 0 THEN 1 ELSE 0

EndPath ==
  LET path == CstrAnswer.bytes IN
  /\ pc = "path" /\ CstrAnswer # None
  /\ reads' = reads + Reading
  /\ CASE CstrAnswer \in Errors -> AnswerError(CstrAnswer) /\ UNCHANGED pathname
       [] CstrAnswer \notin Errors /\ call.kind = "stat" ->
            Answer(StatArgs(path)) /\ UNCHANGED pathname
       [] CstrAnswer \notin Errors /\ call.kind = "openat" ->
            Answer(OpenAtArgs(path)) /\ UNCHANGED pathname
       [] CstrAnswer \notin Errors /\ call.kind = "statx" ->
            Answer(StatxArgs(path)) /\ UNCHANGED pathname
       \* execve goes on with argv.
       [] CstrAnswer \notin Errors /\ call.kind = "execve" ->
            pc' = "slot" /\ pathname' = path /\ UNCHANGED <<result, args>>
  /\ UNCHANGED <<memVars, denied, call, cstrVars, entries>>

\* walk_argv: the loop over the slots.
Walked(strings) == entries' = strings /\ Answer(ExecveArgs(pathname, strings))

\* Mutant: the cap leaves no mark.
Capped_silently == entries

Capped == Append(entries, Overflow)

CapHit ==
  /\ pc = "slot" /\ Len(entries) = MAX_ARGV
  /\ Walked(Capped)
  /\ UNCHANGED <<memVars, denied, call, cstrVars, pathname, reads>>

\* read_ptr_slot gives the pointer, or fails.
read_ptr_slot == IF denied THEN BadSlot ELSE argv[Len(entries)]

ReadSlot ==
  /\ pc = "slot" /\ Len(entries) < MAX_ARGV
  /\ CASE read_ptr_slot = BadSlot /\ entries = <<>> ->
            AnswerError(IF denied THEN Ptrace ELSE Vm) /\ UNCHANGED <<cstrVars, entries>>
       [] read_ptr_slot = BadSlot /\ entries # <<>> ->
            Walked(Append(entries, Unreadable)) /\ UNCHANGED cstrVars
       [] read_ptr_slot = NullPtr ->
            Walked(entries) /\ UNCHANGED cstrVars
       [] OTHER ->
            /\ OpenCstr(read_ptr_slot, MAX_ARGV_ENTRY_BYTES)
            /\ pc' = "entry" /\ UNCHANGED <<entries, result, args>>
  /\ reads' = reads + 1
  /\ UNCHANGED <<memVars, denied, call, pathname>>

\* decode_argv_entry
EndEntry ==
  /\ pc = "entry" /\ CstrAnswer # None
  /\ IF CstrAnswer \in Errors
     THEN Walked(Append(entries, Unreadable))
     ELSE /\ entries' = Append(entries, CstrAnswer)
          /\ pc' = "slot" /\ UNCHANGED <<result, args>>
  /\ reads' = reads + Reading
  /\ UNCHANGED <<memVars, denied, call, cstrVars, pathname>>

\* How much of the memory Read, Write and Wait4 look at.
ReadWant == IF Ret > 0 THEN Min({Ret, MAX_INLINE_BYTES}) ELSE 0
WriteWant ==
  Min({IF Ret > 0 THEN Min({Ret, Reg(3)}) ELSE Reg(3), MAX_INLINE_BYTES})
StatusWant == IF Ret > 0 /\ Pointer # NullPtr THEN STATUS_WORD_BYTES ELSE 0

Want ==
  CASE call.kind = "read" -> ReadWant
    [] call.kind = "write" -> WriteWant
    [] call.kind = "wait4" -> StatusWant

DecodeBuffer ==
  LET got == IF Want = 0 THEN Str(<<>>) ELSE read_bytes(Pointer, Want) IN
  /\ pc = "start" /\ call.kind \in BufferKinds
  /\ CASE call.kind # "wait4" /\ got \in Errors -> AnswerError(got)
       [] call.kind # "wait4" /\ got \notin Errors -> Answer(BufferArgs(got.bytes))
       \* wait4 falls back to the pointer, without an error.
       [] call.kind = "wait4" /\ (Want = 0 \/ got \in Errors) ->
            Answer(Wait4Args(<<"Ptr", Pointer>>))
       [] call.kind = "wait4" /\ Want > 0 /\ got \notin Errors ->
            Answer(Wait4Args(<<"Hex", got.bytes>>))
  /\ reads' = reads + IF Want = 0 THEN 0 ELSE 1
  /\ UNCHANGED <<memVars, denied, call, cstrVars, argvVars>>

\* These read no memory.
DecodeRegisters ==
  /\ pc = "start" /\ call.kind \in RegisterKinds
  /\ CASE call.kind = "close" -> Answer(CloseArgs)
       [] call.kind = "fstat" -> Answer(FstatArgs)
       [] call.kind = "mmap" -> Answer(MmapArgs)
       [] call.kind = "mprotect" -> Answer(MprotectArgs)
       [] call.kind = "clone" -> Answer(CloneArgs)
  /\ UNCHANGED <<memVars, denied, call, cstrVars, argvVars, reads>>

-----------------------------------------------------------------------------
(* The other task                                                          *)

Interferes ==
  /\ pc # "done" /\ writes < MaxWrites
  /\ writes' = writes + 1
  /\ \/ \E a \in UserAddr : /\ PageOf(a) \in mapped
                            /\ mem' = [mem EXCEPT ![a] = 1 - @]
                            /\ UNCHANGED <<mapped, argv>>
     \/ \E p \in mapped : mapped' = mapped \ {p} /\ UNCHANGED <<mem, argv>>
     \/ /\ call.kind = "execve"
        /\ \E i \in DOMAIN argv, s \in Slot : argv' = [argv EXCEPT ![i] = s]
        /\ UNCHANGED <<mem, mapped>>
  /\ seen' = [a \in UserAddr |-> seen[a] \cup Here(mem', mapped')[a]]
  /\ UNCHANGED <<denied, call, pc, cstrVars, argvVars, reads, result, args>>

Decoder ==
  \/ BeginPath \/ ReadChunk \/ EndPath
  \/ CapHit \/ ReadSlot \/ EndEntry \/ DecodeBuffer \/ DecodeRegisters

Done == pc = "done" /\ UNCHANGED vars

Next == Decoder \/ Interferes \/ Done

Spec == Init /\ [][Next]_vars

-----------------------------------------------------------------------------
(* Properties                                                              *)

\* The arguments of one variant.
Told(variant) == {args[i][2] : i \in {j \in DOMAIN args : args[j][2][1] = variant}}

\* The string at addr as the docs of read_cstr define it, with no chunks.
StringAt(addr, max) ==
  LET ends == {n \in 0 .. max - 1 : Readable(addr, n + 1) /\ mem[addr + n] = 0}
      byte(n) == [i \in 1 .. n |-> mem[addr + i - 1]]
  IN  IF denied THEN Ptrace
      ELSE IF ends # {} THEN Str(byte(Min(ends)))
      ELSE IF Readable(addr, max) THEN TruncatedCstr ELSE Vm

PathTold ==
  LET wanted == StringAt(Pointer, PATH_MAX)
  IN  IF wanted \in Errors THEN result = wanted ELSE Told("Path") = {<<"Path", wanted.bytes>>}

EntryOf(i) == StringAt(argv[i], MAX_ARGV_ENTRY_BYTES)
\* The first slot that is no entry, if any is.
Stop ==
  Min({MAX_ARGV} \cup
      {i \in DOMAIN argv : argv[i] \in {NullPtr, BadSlot} \/ EntryOf(i) \in Errors})
ArgvAs ==
  [i \in 1 .. Stop |-> EntryOf(i - 1)] \o
    (IF Stop = MAX_ARGV THEN <<Overflow>>
     ELSE IF argv[Stop] = NullPtr THEN <<>> ELSE <<Unreadable>>)
ArgvTold ==
  IF argv[0] = BadSlot /\ StringAt(Pointer, PATH_MAX) \notin Errors THEN result = Vm
  ELSE PathTold /\ (result = Ok => Told("Argv") = {<<"Argv", ArgvAs>>})

\* The bytes of a buffer that the kernel looked at, the first few of them, and
\* the status word when it wrote one.
Inspected(n) ==
  IF call.kind = "read" THEN n <= Ret ELSE n <= Reg(3) /\ (Ret > 0 => n <= Ret)
At(addr, n) == [i \in 1 .. n |-> mem[addr + i - 1]]
BufferTold ==
  LET n == Max({0} \cup {k \in 1 .. MAX_INLINE_BYTES : Inspected(k)})
  IN  IF n > 0 /\ denied THEN result = Ptrace
      ELSE IF ~Readable(Pointer, n) THEN result = Vm
      ELSE Told("Bytes") = {<<"Bytes", At(Pointer, n), Reg(3)>>}
StatusTold ==
  Told("Hex") =
    IF Ret > 0 /\ ~denied /\ Readable(Pointer, STATUS_WORD_BYTES)
    THEN {<<"Hex", At(Pointer, STATUS_WORD_BYTES)>>} ELSE {}

\* Whatever the chunks, pages and caps, and at the very end of the address
\* space too, the decoder answers what is in memory when nobody changes it, and
\* of a buffer no byte that the kernel did not look at (read_cstr, decode_path,
\* walk_argv, Read, Write, Wait4).
DecodesExactly ==
  pc = "done" /\ writes = 0 =>
    CASE call.kind \in PathKinds -> PathTold
      [] call.kind = "execve" -> ArgvTold
      [] call.kind \in {"read", "write"} -> BufferTold
      [] call.kind = "wait4" -> StatusTold
      [] OTHER -> reads = 0

\* While another task rewrites the memory, a string is still made of bytes
\* each address held meanwhile, and ends where a NUL was (read_cstr).
Held(addr, byte) == addr \in UserAddr /\ byte \in seen[addr]
WasThere(bytes, addr) ==
  /\ \A i \in DOMAIN bytes : bytes[i] = 1 /\ Held(addr + i - 1, 1)
  /\ Held(addr + Len(bytes), 0)
StringsWereThere ==
  /\ \A path \in Told("Path") : WasThere(Carried(path), Pointer)
  /\ \A k \in DOMAIN entries : entries[k].tag = "string" =>
       \E s \in Strings : WasThere(entries[k].bytes, s)

\* A sentinel ends argv and nothing follows it; "..." stands there exactly
\* when MAX_ARGV entries were shown, and never more than that (walk_argv).
ArgvEndsAtSentinel ==
  /\ \A k \in DOMAIN entries :
       IF entries[k].tag = "string" THEN k <= MAX_ARGV ELSE k = Len(entries)
  /\ \A shown \in Told("Argv") :
       ((\E k \in DOMAIN Carried(shown) : k = MAX_ARGV /\ Carried(shown)[k].tag = "string")
          <=> (\E k \in DOMAIN Carried(shown) : Carried(shown)[k] = Overflow))

\* The tracer's work per call is bounded whatever the tracee does meanwhile,
\* so every decode ends (execve.rs: "to bound the work the tracer performs").
ReadsFor(max) == (max + PAGE_SIZE - 2) \div PAGE_SIZE + 1
WorkBounded ==
  reads <= ReadsFor(PATH_MAX) + MAX_ARGV * (1 + ReadsFor(MAX_ARGV_ENTRY_BYTES))

\* The i-th argument of every call tells the i-th register, and neither another
\* one nor the half of it that the kernel ignores: a descriptor and a mode are
\* ints whatever the caller left in the upper bits, an address and a length
\* have all the bits (decode_fd and the twelve decoders).
SameInt(n, reg) == n % IntRange = reg % IntRange
Tells(arg, reg) ==
  CASE arg = AtFdCwd -> SameInt(AT_FDCWD, reg)
    [] arg = Invalid -> \E n \in -INT_MAX - 1 .. -1 : n # AT_FDCWD /\ SameInt(n, reg)
    [] arg[1] \in {"Num", "Mode"} -> Carried(arg) < IntRange /\ SameInt(Carried(arg), reg)
    [] arg[1] = "Hex" /\ call.kind # "wait4" -> Carried(arg) = reg
    [] arg[1] \in {"Uint", "Ptr"} -> Carried(arg) = reg
    [] OTHER -> TRUE
ArgumentsTellTheirRegisters == \A i \in DOMAIN args : Tells(args[i][2], Reg(i))

\* The flags of openat tell every bit that has a name, once: O_TMPFILE has the
\* bit of O_DIRECTORY, and that name stands only for itself (decode_open_flags).
OpenBits == [n \in DOMAIN OPEN_FLAGS_TABLE \cup DOMAIN ACCESS_MODES |->
  IF n \in DOMAIN ACCESS_MODES THEN ACCESS_MODES[n] ELSE OPEN_FLAGS_TABLE[n]]
TellsOnce(names, bits) ==
  /\ \A m, n \in names : m # n => OpenBits[m] \cap OpenBits[n] = {}
  /\ \A n \in names : OpenBits[n] \subseteq bits
  /\ \A n \in DOMAIN OPEN_FLAGS_TABLE :
       OPEN_FLAGS_TABLE[n] \subseteq bits =>
         \E m \in names : OPEN_FLAGS_TABLE[n] \subseteq OpenBits[m]
  /\ Cardinality(names \cap DOMAIN ACCESS_MODES) = IF O_ACCMODE \subseteq bits THEN 0 ELSE 1
OpenFlagsToldOnce ==
  call.kind = "openat" => \A told \in Told("Flags") : TellsOnce(Carried(told), Bits(Reg(3)))

-----------------------------------------------------------------------------
(* What a comment says and the code does not do.                           *)

\* wait4.rs:50 "pid is `int`; widening through i64 preserves the value".
PidPreserved == \A pid \in Told("Int") : Carried(pid) = as_i32(Reg(1))

=============================================================================
