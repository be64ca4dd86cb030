SPECIFICATION Spec
CONSTANTS
  r = r
  c1 = c1
  c2 = c2
  Pid <- ThreePids
  Root = r
  Kinds <- CallsFork
  Signals <- NoSignals
  MaxCall = 3
  MaxSig = 0
  MaxKill = 1
SYMMETRY Children
CHECK_DEADLOCK FALSE
INVARIANTS
  IInv
  Paired
  OnceInOrder
  NeverTraceeGone
  OkMeansDrained
