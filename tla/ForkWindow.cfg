SPECIFICATION Spec
CONSTANTS
  r = r
  c1 = c1
  c2 = c2
  Pid <- TwoPids
  Root = r
  Kinds <- CallsForkExec
  Signals <- NoSignals
  MaxCall = 3
  MaxSig = 0
  MaxKill = 1
CHECK_DEADLOCK FALSE
INVARIANT
  EveryTaskExited
