\* Two calls on one target of every kind.
SPECIFICATION Spec
CONSTANTS
  Callers = {c1, c2}
  Kinds = {"message", "thread", "membership", "section", "pin", "emoji", "space"}
  MaxRetries = 1
INVARIANTS Inv DoneMeansGone DeletedMeansMine
CHECK_DEADLOCK FALSE
