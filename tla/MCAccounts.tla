----------------------------- MODULE MCAccounts -----------------------------
(* Instances of Accounts: two threads, and one workload at a time.         *)
EXTENDS Accounts, TLC

MCWorkloads ==
  {{"verify", "login", "refresh", "reuse", "logout", "logout_void", "logout_all", "logout_others"},
   {"verify", "login", "refresh", "forgot", "reset", "change"},
   {"verify", "login", "wrong", "unlock", "status", "suspend"},
   {"verify", "login", "refresh", "status", "delete", "forgot", "reset"},
   {"verify", "resend", "login", "forgot", "request_email", "confirm_email"},
   {"verify", "login", "setup", "confirm", "disable", "regenerate", "challenge"},
   {"verify", "login", "setup", "confirm", "challenge", "change"}}

\* Every property is about the behaviours before a conflict: what follows one is
\* not explored.
BeforeConflict == ~collided

Symmetry == Permutations(Threads) \cup Permutations(Passwords)
=============================================================================
