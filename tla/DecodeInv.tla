----------------------------- MODULE DecodeInv -----------------------------
(***************************************************************************)
(* The inductive invariant behind the properties of Decode.  TLC checks it *)
(* in the run of MCDecode, DecodeProofs proves it.                         *)
(***************************************************************************)
EXTENDS Decode

\* The history has at least what is there.
SeenInSync == \A a \in UserAddr : PageOf(a) \in mapped => mem[a] \in seen[a]

\* How far read_cstr is in the string at s: it has seen no NUL, everything it
\* read was there, and still is when nobody writes.
Progress(s, max) ==
  /\ Len(out) + remaining = max /\ cursor = s + Len(out)
  /\ denied => out = <<>>
  /\ \A i \in DOMAIN out :
       /\ out[i] = 1 /\ Held(s + i - 1, 1)
       /\ writes = 0 => PageOf(s + i - 1) \in mapped /\ mem[s + i - 1] = 1

\* Where the entry that is being read starts: what the slot held when it was
\* read.
EntryAt(s) == writes = 0 => argv[Len(entries)] = s /\ s # NullPtr
CstrInSync ==
  /\ pc = "path" => Progress(Pointer, PATH_MAX) /\ call.kind \in PathKinds \cup {"execve"}
  /\ pc = "entry" => \E s \in Strings : EntryAt(s) /\ Progress(s, MAX_ARGV_ENTRY_BYTES)

\* The chunks of a string are whole pages but for the first and the last.
Chunks(n) == (n + PAGE_SIZE - 1) \div PAGE_SIZE
WorkOf(base, max) ==
  IF remaining = 0 THEN reads <= base + ReadsFor(max)
  ELSE /\ out # <<>> => cursor % PAGE_SIZE = 0
       /\ reads <= base + Chunks(Len(out))
WorkBefore(n) == ReadsFor(PATH_MAX) + n * (1 + ReadsFor(MAX_ARGV_ENTRY_BYTES))
WorkInSync ==
  /\ pc = "start" => reads = 0
  /\ pc = "path" => WorkOf(0, PATH_MAX)
  /\ pc = "slot" => reads <= WorkBefore(Len(entries))
  /\ pc = "entry" => WorkOf(WorkBefore(Len(entries)) + 1, MAX_ARGV_ENTRY_BYTES)

\* argv: strings, up to a sentinel that ends it.
Entry == [tag : {"string"}, bytes : Bytes] \cup {Overflow, Unreadable}
Walking == pc \in {"slot", "entry"}
ArgvInSync ==
  /\ entries \in Seq(Entry)
  /\ pc \in {"start", "path"} => entries = <<>>
  /\ Walking =>
       /\ call.kind = "execve" /\ ~denied /\ WasThere(pathname, Pointer)
       /\ \A k \in DOMAIN entries : entries[k].tag = "string"
       /\ Len(entries) + (IF pc = "entry" THEN 1 ELSE 0) <= MAX_ARGV

\* What was walked is what is in memory, when nobody writes.
IsEntry(i) == argv[i] \notin {NullPtr, BadSlot} /\ EntryOf(i) \notin Errors
WalkedInSync ==
  Walking /\ writes = 0 =>
    /\ Str(pathname) = StringAt(Pointer, PATH_MAX)
    /\ \A k \in DOMAIN entries : entries[k] = EntryOf(k - 1) /\ IsEntry(k - 1)

\* The arguments have the shape of their call.
PathAt == IF call.kind \in {"openat", "statx"} THEN 2 ELSE 1
ShownAt(i) == Carried(args[i][2])
Shown ==
  CASE call.kind = "stat" -> StatArgs(ShownAt(PathAt))
    [] call.kind = "openat" -> OpenAtArgs(ShownAt(PathAt))
    [] call.kind = "statx" -> StatxArgs(ShownAt(PathAt))
    [] call.kind = "execve" -> ExecveArgs(pathname, entries)
    [] call.kind \in {"read", "write"} -> BufferArgs(ShownAt(2))
    [] call.kind = "wait4" -> Wait4Args(args[2][2])
    [] call.kind = "close" -> CloseArgs
    [] call.kind = "fstat" -> FstatArgs
    [] call.kind = "mmap" -> MmapArgs
    [] call.kind = "mprotect" -> MprotectArgs
    [] call.kind = "clone" -> CloneArgs
ArgsInSync ==
  /\ result # Ok => args = <<>>
  /\ result = Ok =>
       /\ args = Shown
       /\ call.kind = "wait4" => args[2][2] = <<"Ptr", Pointer>> \/ args[2][2][1] = "Hex"

IInv ==
  /\ TypeOK /\ SeenInSync /\ CstrInSync /\ WorkInSync
  /\ ArgvInSync /\ WalkedInSync /\ ArgsInSync
  /\ WorkBounded /\ StringsWereThere /\ ArgvEndsAtSentinel /\ DecodesExactly

=============================================================================
