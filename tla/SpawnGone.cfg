SPECIFICATION Spec
CONSTANTS
  Signals <- TermOnly
  MaxKill = 0
INVARIANT
  GoneMeansDied
