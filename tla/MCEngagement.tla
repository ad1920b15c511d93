---------------------------- MODULE MCEngagement -----------------------------
(* Instances of Engagement: two users, two threads and the worker.         *)
EXTENDS Engagement

MCWorkloads ==
  {{"react", "unreact", "save", "delete_post"},
   {"comment", "delete_comment", "remove_comment", "delete_post"},
   {"comment", "react_comment", "unreact_comment"},
   {"view", "delete_story"}}
=============================================================================
