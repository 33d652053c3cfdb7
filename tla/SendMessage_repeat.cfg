\* One text sent without a key and sent again from its failure, one with a key.
SPECIFICATION Spec
CONSTANTS
  Sends = {s1, s2, s3}
  Texts = {t1, t2}
  Keyed = {t2}
  MaxRetries = 1
INVARIANTS Inv OneCopy SuccessIsPosted
CHECK_DEADLOCK FALSE
