\* One call of every shape, with two retries.
SPECIFICATION Spec
CONSTANTS
  Calls = {c1}
  Shapes <- AllShapes
  Modes <- AllModes
  MaxRetries = 2
  Burst <- Bursts
INVARIANTS Inv AtMostOnce
PROPERTIES HonestReports SendRunsDown
CHECK_DEADLOCK FALSE
