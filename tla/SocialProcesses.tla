-------------------------- MODULE SocialProcesses ---------------------------
(***************************************************************************)
(* The processes that work on posts and stories: the threads in which the  *)
(* API runs its handlers, and the worker that publishes due posts and ends *)
(* expired stories.  Each has a database session of its own.               *)
(***************************************************************************)
CONSTANTS
  Threads,  \* threads of the API processes
  Worker    \* the process running run_social_worker

ASSUME WorkerIsNoThread == Worker \notin Threads

Sessions == Threads \cup {Worker}
=============================================================================
