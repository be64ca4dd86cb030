SPECIFICATION Spec
CONSTANTS
  r = r
  c1 = c1
  c2 = c2
  Pid <- TwoPids
  Root = r
  Kinds <- CallsForkExec
  Signals <- StopOnly
  MaxCall = 3
  MaxSig = 1
  MaxKill = 0
INVARIANT
  PassedThroughIsDelivery
