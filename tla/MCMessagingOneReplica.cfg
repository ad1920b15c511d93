SPECIFICATION Spec
CONSTANTS
  Users = {o, u}
  Owner = o
  Requests = {r1, r2, r3}
  Keys = {k}
  NoKey = noKey
  Replicas = {p1}
  None = none
  Operations = {"send", "read", "edit", "delete", "status", "membership", "mute"}
SYMMETRY Symmetry
INVARIANTS NoConflict
PROPERTIES ReadPositionAdvances SendsArePermitted
