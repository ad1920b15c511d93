SPECIFICATION Spec
CONSTANTS
  Creator = o
  Users = {o, a, b}
  MaxUses = 1
  MaxJoins = 2
  Replicas = {p1, p2}
  Deployments <- MCDeployments
INVARIANTS InviteWithinLimit
PROPERTIES JoinsFit BanHolds
CHECK_DEADLOCK FALSE
SYMMETRY Symmetry
