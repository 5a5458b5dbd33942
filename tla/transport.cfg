SPECIFICATION FairSpec
CONSTANTS
  N = 5
  Limit = 3
  Banned = {2, 5}
  Unanswered = {5}
  MintFails = TRUE

CHECK_DEADLOCK FALSE
INVARIANTS TypeOK AnswerIsComplete ItemsShared
PROPERTY CallEnds
