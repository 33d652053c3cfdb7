\* A send that landed and whose retry is turned away, against sendFailure.
SPECIFICATION Spec
CONSTANTS
  Sends = {s1}
  Texts = {t1}
  Keyed = {}
  MaxRetries = 1
INVARIANT PostedFailureIsNamed
CHECK_DEADLOCK FALSE
