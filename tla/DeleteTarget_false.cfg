\* A delete whose first attempt landed, against the tools' deleted field.
SPECIFICATION Spec
CONSTANTS
  Callers = {c1}
  Kinds = {"message", "section", "membership"}
  MaxRetries = 1
INVARIANT GoneMeansNotMine
CHECK_DEADLOCK FALSE
