SPECIFICATION EngagementSpec
CONSTANTS
  Users = {u1, u2}
  Comments = {c1, c2, c3}
  NoComment = none
  Stories = {s1, s2}
  Threads = {t1, t2}
  Worker = worker
  Workloads <- MCWorkloads
INVARIANTS CountsMatch
PROPERTY EveryStoryEnds
CHECK_DEADLOCK FALSE
