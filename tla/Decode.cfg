SPECIFICATION Spec
CONSTANTS
  PAGE_SIZE = 2
  UserPages = 3
  PATH_MAX = 4
  MAX_ARGV_ENTRY_BYTES = 3
  MAX_ARGV = 2
  MAX_INLINE_BYTES = 2
  STATUS_WORD_BYTES = 2
  Strings <- StringsAt
  Calls <- AllCalls
  MaxWrites = 1
  IntBits = 3
  RegBits = 5
  AT_FDCWD <- Fdcwd
INVARIANTS
  TypeOK
  IInv
  DecodesExactly
  StringsWereThere
  ArgvEndsAtSentinel
  WorkBounded
  ArgumentsTellTheirRegisters
  OpenFlagsToldOnce
