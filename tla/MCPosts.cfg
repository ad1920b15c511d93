SPECIFICATION FairSpec
CONSTANTS
  Posts = {p1, p2}
  NoPost = noPost
  Threads = {t1}
  Worker = w
  Operations = {"create", "schedule", "edit", "delete", "remove"}
INVARIANTS CountedOnce SerialCountsMatch
PROPERTIES DeletedStaysHidden EveryDuePostSettles
CHECK_DEADLOCK FALSE
