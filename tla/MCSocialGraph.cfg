SPECIFICATION Spec
CONSTANTS
  Users = {a, b}
  Threads = {t1, t2}
  Operations = {"follow", "unfollow", "request", "accept", "reject", "cancel", "unfriend", "block"}
INVARIANTS SerialCountersMatch SerialRequestsMatch
PROPERTIES AnsweredStaysAnswered
SYMMETRY Symmetry
