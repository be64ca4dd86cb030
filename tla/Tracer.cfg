SPECIFICATION FairSpec
CONSTANTS
  r = r
  c1 = c1
  c2 = c2
  Pid <- TwoPids
  Root = r
  Kinds <- CallsAndWait
  Signals <- AllSignals
  MaxCall = 3
  MaxSig = 1
  MaxKill = 0
CHECK_DEADLOCK FALSE
INVARIANTS
  TypeOK
  PhaseInSync
  AwaitingInSync
  SignalsFaithful
  EventsExact
  RunSucceeds
PROPERTIES
  OthersUntouched
  KeepsTrace
  StopsServed
  RunReturns
