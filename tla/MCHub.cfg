SPECIFICATION Spec
CONSTANTS
  Users = {u}
  Sockets = {s1, s2}
  Replicas = {p1, p2}
  Events = {e1}
  MaxMishaps = 1
SYMMETRY Symmetry
INVARIANTS IndexesAgree AtMostOnce FanOutComplete PresenceMatches
