SPECIFICATION FairSpec
CONSTANTS
  Users = {o, u}
  Owner = o
  Requests = {r1, r2}
  Keys = {k}
  NoKey = noKey
  Replicas = {p1, p2}
  None = none
  Operations = {"send", "read", "edit", "delete", "status", "membership"}
INVARIANTS AnswersAreDurable ReadPositionHasReceipt
PROPERTIES ImplementsLog EveryRequestEnds
