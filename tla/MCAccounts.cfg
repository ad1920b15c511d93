SPECIFICATION Spec
CONSTANTS
  Threads = {t1, t2}
  Passwords = {p1, p2}
  MaxFailures = 2
  MaxSessions = 3
  MaxTokens = 3
  MaxCodes = 3
  Workloads <- MCWorkloads
INVARIANTS OneLivePerFamily EndedFamilyStaysEnded PasswordEndsSessions BlockedHasNoSession UsedOnce FailuresLock SecondFactorAgrees
CHECK_DEADLOCK FALSE
CONSTRAINT BeforeConflict
SYMMETRY Symmetry
