SPECIFICATION Spec
CONSTANTS
  Threads = {t1, t2}
  Users = {owner, u1, u2}
  Owner = owner
  NewRoles = {"moderator", "member"}
  Workloads <- MCWorkloads
INVARIANTS CountsMatch GroupKeepsOwner
PROPERTIES SuspensionHolds
CHECK_DEADLOCK FALSE
CONSTRAINT BeforeConflict
SYMMETRY Symmetry
