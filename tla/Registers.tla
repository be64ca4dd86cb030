------------------------------ MODULE Registers ------------------------------
(***************************************************************************)
(* What the decoders of crates/loi-syscalls make of registers: descriptors *)
(* and flags.  A register has more bits than an int, and the upper ones of *)
(* an int argument are whatever the caller left there.  A table gives each *)
(* name its bits: of the simple flags, one or two stand for all, and the   *)
(* masks of several bits are kept.                                         *)
(***************************************************************************)
EXTENDS DecodedArg, Integers

CONSTANTS
  IntBits,      \* 32: the width of an int
  RegBits,      \* 64
  AT_FDCWD

RegRange == 2 ^ RegBits
IntRange == 2 ^ IntBits

\* The last conjunct follows from the others, but no prover knows powers.
ASSUME RegistersAssumption ==
  /\ IntBits \in Nat \ {0} /\ RegBits \in Nat /\ IntBits < RegBits
  /\ AT_FDCWD \in -(IntRange \div 2) .. -1
  /\ /\ IntRange \in Nat \ {0} /\ IntRange % 2 = 0
     /\ RegRange \in Nat \ {0} /\ RegRange % 2 = 0 /\ RegRange % IntRange = 0

Register == 0 .. RegRange - 1
INT_MAX == IntRange \div 2 - 1

Signed(n, range) == IF n < range \div 2 THEN n ELSE n - range

\* `as i64`, `as i32` and `as u32`
as_i64(reg) == Signed(reg, RegRange)
as_i32(reg) == Signed(reg % IntRange, IntRange)
as_u32(reg) == reg % IntRange

\* The register of the result: a failure is a negative errno.
extract_ret(reg) == as_i64(reg)

-----------------------------------------------------------------------------
(* Descriptors                                                             *)

FdRepr == {AtFdCwd, Invalid} \cup {<<"Num", n>> : n \in 0 .. INT_MAX}

decode_fd(raw) ==
  IF raw = AT_FDCWD THEN AtFdCwd
  ELSE IF raw < 0 THEN Invalid
  ELSE <<"Num", IF raw <= INT_MAX THEN raw ELSE INT_MAX>>

\* Mutant: the register is taken whole, as wait4 does with its pid.
FdArg_whole(reg) == decode_fd(as_i64(reg))

FdArg(reg) == decode_fd(as_i32(reg))

-----------------------------------------------------------------------------
(* Flags                                                                   *)

Bits(reg) == {b \in 0 .. RegBits - 1 : (reg \div 2 ^ b) % 2 = 1}

\* O_ACCMODE: the two low bits are a number, of which 3 has no name.
O_ACCMODE == {0, 1}
ACCESS_MODES == [O_RDONLY |-> {}, O_WRONLY |-> {0}, O_RDWR |-> {1}]

OPEN_FLAGS_TABLE == [O_CREAT |-> {2}, O_TMPFILE |-> {3, 4}, O_DIRECTORY |-> {4}]
STATX_FLAGS_TABLE == [AT_SYMLINK_NOFOLLOW |-> {0}, AT_STATX_SYNC_AS_STAT |-> {}]
STATX_MASK_TABLE ==
  [STATX_TYPE |-> {0}, STATX_SIZE |-> {1}, STATX_BTIME |-> {2},
   STATX_BASIC_STATS |-> {0, 1}, STATX_ALL |-> {0, 1, 2}]
PROT_TABLE == [PROT_READ |-> {0}, PROT_WRITE |-> {1}]
MAP_TABLE == [MAP_PRIVATE |-> {1}, MAP_FIXED |-> {2}]
CLONE_TABLE == [CLONE_VM |-> {1}, CLONE_THREAD |-> {2}]
OPTIONS_TABLE == [WNOHANG |-> {0}, WUNTRACED |-> {1}]

decode_flags(raw, table) ==
  {name \in DOMAIN table : table[name] # {} /\ table[name] \subseteq Bits(raw)}

decode_prot(raw) == IF raw = 0 THEN {"PROT_NONE"} ELSE decode_flags(raw, PROT_TABLE)

access_mode_name(raw) ==
  {name \in DOMAIN ACCESS_MODES : ACCESS_MODES[name] = Bits(raw) \cap O_ACCMODE}

\* Mutant: any bit of O_TMPFILE will do, and O_DIRECTORY is one.
TmpfileSet_any(raw) == OPEN_FLAGS_TABLE["O_TMPFILE"] \cap Bits(raw) # {}

TmpfileSet(raw) == OPEN_FLAGS_TABLE["O_TMPFILE"] \subseteq Bits(raw)

decode_open_flags(raw) ==
  access_mode_name(raw) \cup
    (decode_flags(raw, OPEN_FLAGS_TABLE) \
       (IF TmpfileSet(raw) THEN {"O_DIRECTORY"} ELSE {}))

=============================================================================
