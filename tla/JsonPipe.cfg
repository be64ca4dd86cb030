SPECIFICATION Spec
CONSTANTS
  Glob <- Globs
  Matches <- MatchesOf
  PidLen <- PidLenOf
  NameLen <- NameLenOf
  Basename <- BasenameOf
  Sysno <- SysnoOf
  Errnos <- ErrnosOf
  InvalidByte <- BadBytes
  Thousand = 10
  Event <- PlainEvents
  Setups <- JsonOnly
  Cap = 3
  MaxEvents = 4
  MaxFaults = 0
INVARIANT
  ClosedPipeIsNoFailure
