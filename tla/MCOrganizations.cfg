SPECIFICATION Spec
CONSTANTS
  Users = {owner, u1}
  Owner = owner
  Invitations = {i1, i2}
  Permissions = {p1, p2}
  Threads = {t1, t2}
  Workloads <- MCWorkloads
INVARIANTS InvitationUsedOnce PermissionsAsRequested
PROPERTIES RemovalKeepsOwner AssignedRoleStays
CHECK_DEADLOCK FALSE
CONSTRAINT BeforeConflict
SYMMETRY Symmetry
