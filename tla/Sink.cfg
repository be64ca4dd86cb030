SPECIFICATION Spec
CONSTANTS
  Glob <- Globs
  Matches <- MatchesOf
  PidLen <- PidLenOf
  NameLen <- NameLenOf
  Basename <- BasenameOf
  Sysno <- SysnoOf
  Errnos <- ErrnosOf
  InvalidByte <- BadBytes
  Thousand = 10
  Event <- Events
  Setups <- AllSetups
  Cap = 3
  MaxEvents = 3
  MaxFaults = 1
INVARIANTS
  TypeOK
  IInv
  ErrorsReported
  ArrowHasItsHead
  ColumnsAligned
  PlainOffTerminal
  FailuresStandOut
  ColourMeansDecoded
  FormatsAgree
PROPERTIES
  KeepsPromise
