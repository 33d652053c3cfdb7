\* An upload whose bytes Google stops taking, against transfer's comment.
SPECIFICATION FairSpec
CONSTANTS
  Directions = {"upload"}
  Answers = {"success"}
  Chunks = 2
  Limit = 2
PROPERTY StalledTransferIsCut
CHECK_DEADLOCK FALSE
