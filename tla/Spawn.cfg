SPECIFICATION FairSpec
CONSTANTS
  Signals <- EverySignal
  MaxKill = 1
CHECK_DEADLOCK FALSE
INVARIANTS
  TypeOK
  OkAtExec
  ExecErrnoTrue
  ResultExact
  ReadNeverBlocks
  IInv
PROPERTIES
  SpawnReturns
