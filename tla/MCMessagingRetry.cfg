SPECIFICATION Spec
CONSTANTS
  Users = {o, u}
  Owner = o
  Requests = {r1, r2}
  Keys = {k}
  NoKey = noKey
  Replicas = {p1, p2}
  None = none
  Operations = {"send"}
SYMMETRY Symmetry
INVARIANT RetryIsReplayed

