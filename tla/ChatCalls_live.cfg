\* Two calls of three limiters, the People limiter never refilling.
SPECIFICATION FairSpec
CONSTANTS
  Calls = {c1, c2}
  Shapes <- MeteredShapes
  Modes <- PlainModes
  MaxRetries = 1
  Burst <- Bursts
PROPERTY LookupsDelayNobody
CHECK_DEADLOCK FALSE
