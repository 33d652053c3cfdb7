\* Uploads and downloads of two pieces, with a Google that may stop at any point.
SPECIFICATION FairSpec
CONSTANTS
  Directions = {"upload", "download"}
  Answers = {"success", "error"}
  Chunks = 2
  Limit = 2
INVARIANTS TypeOK SilenceIsTimed
PROPERTIES SlowIsNotCut SilenceIsCut
CHECK_DEADLOCK FALSE
