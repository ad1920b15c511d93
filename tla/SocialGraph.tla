---------------------------- MODULE SocialGraph -----------------------------
(***************************************************************************)
(* The social graph (app/routes/social_profiles.py): follow edges, friend  *)
(* requests and friendships, and the counters the profiles keep of them.   *)
(*                                                                         *)
(* The handlers are plain functions that FastAPI runs in threads, so two   *)
(* of them interleave: a handler loads rows into its session, checks them, *)
(* and commits literals computed from what it loaded.  The unique          *)
(* constraints are checked against the rows committed by then.  With one   *)
(* thread the module describes the handlers run one after another.         *)
(***************************************************************************)
EXTENDS Naturals, FiniteSets

CONSTANTS
  Users,      \* active users, each with a profile
  Threads,    \* threads of the API processes that run handlers
  Operations  \* what clients do in this instance

Edges == {e \in Users \X Users : e[1] # e[2]}
Pairs == {{e[1], e[2]} : e \in Edges}
Counters == {"followers", "following", "friends"}
RequestStates == {"none", "pending", "accepted", "rejected", "cancelled"}
ThreadOperations == {"follow", "unfollow", "request", "accept", "reject",
                     "cancel", "unfriend"}

ASSUME OperationsAreKnown == Operations \subseteq ThreadOperations \cup {"block"}

VARIABLES
  follows,   \* the follows rows, as <<follower, followed>>
  friends,   \* the friendships rows, as unordered pairs
  requests,  \* status of the friend_requests row of each <<requester, addressee>>
  blocks,    \* the user_blocks rows, as <<blocker, blocked>>
  profiles,  \* the counters of the social_profiles rows
  task,      \* the handler each thread runs
  seen,      \* what its session loaded
  overlapped \* history: two handlers have run at the same time

vars == <<follows, friends, requests, blocks, profiles, task, seen, overlapped>>

Profiles == [Users -> [Counters -> Nat]]
Tasks == [op : ThreadOperations \cup {"idle"}, edge : Edges \cup {<<>>}]
Reads == [profiles : Profiles, follows : SUBSET Edges,
          gone : BOOLEAN]  \* the row to delete has been deleted by another
Idle == [op |-> "idle", edge |-> <<>>]
NoCounts == [u \in Users |-> [c \in Counters |-> 0]]
NoRead == [profiles |-> NoCounts, follows |-> {}, gone |-> FALSE]

TypeOK ==
  /\ follows \subseteq Edges
  /\ friends \subseteq Pairs
  /\ requests \in [Edges -> RequestStates]
  /\ blocks \subseteq Edges
  /\ profiles \in Profiles
  /\ task \in [Threads -> Tasks]
  /\ seen \in [Threads -> Reads]
  /\ overlapped \in BOOLEAN

Init ==
  /\ follows = {} /\ friends = {} /\ blocks = {}
  /\ requests = [e \in Edges |-> "none"]
  /\ profiles = NoCounts
  /\ task = [t \in Threads |-> Idle]
  /\ seen = [t \in Threads |-> NoRead]
  /\ overlapped = FALSE

Reverse(e) == <<e[2], e[1]>>
PairOf(e) == {e[1], e[2]}

\* is_blocked looks for a block in either direction.
Blocked(e) == e \in blocks \/ Reverse(e) \in blocks

\* What counter c of user u should say of the follow edges F and friendships P.
Tally(u, c, F, P) ==
  CASE c = "followers" -> Cardinality({e \in F : e[2] = u})
    [] c = "following" -> Cardinality({e \in F : e[1] = u})
    [] c = "friends"   -> Cardinality({p \in P : u \in p})

-----------------------------------------------------------------------------
(* A handler on its thread.                                                *)

\* It has passed its checks; those that do not change nothing.
Load(t, op, e) ==
  /\ op \in Operations
  /\ task[t] = Idle
  /\ task' = [task EXCEPT ![t] = [op |-> op, edge |-> e]]
  /\ seen' = [seen EXCEPT ![t] = [profiles |-> profiles, follows |-> follows, gone |-> FALSE]]
  /\ overlapped' = (overlapped \/ \E s \in Threads \ {t} : task[s] # Idle)
  /\ UNCHANGED <<follows, friends, requests, blocks, profiles>>

Committing(t, op) == task[t].op = op

Finish(t) == task' = [task EXCEPT ![t] = Idle] /\ UNCHANGED overlapped

\* Its session is closed.
Close(t) == seen' = [seen EXCEPT ![t] = NoRead]

\* A unique constraint refuses the commit; the transaction is rolled back.
Refuse(t) ==
  /\ Finish(t) /\ Close(t)
  /\ UNCHANGED <<follows, friends, requests, blocks, profiles>>

\* The columns of an UPDATE are those that differ from what was loaded.
Written(t, u, c, value) ==
  IF value = seen[t].profiles[u][c] THEN profiles[u][c] ELSE value

\* The counters after thread t added the edges F and the friendships P to what
\* it loaded, and after it removed them: never below zero.
Raise(t, F, P) ==
  profiles' = [u \in Users |-> [c \in Counters |->
                 Written(t, u, c, seen[t].profiles[u][c] + Tally(u, c, F, P))]]

Lower(t, F, P) ==
  profiles' = [u \in Users |-> [c \in Counters |->
                 LET loaded == seen[t].profiles[u][c]
                     tally == Tally(u, c, F, P)
                 IN Written(t, u, c, IF loaded < tally THEN 0 ELSE loaded - tally)]]

\* The session of t is closed; others that loaded the row it deleted will find
\* it gone.
CloseDeleting(t, op, same(_)) ==
  seen' = [s \in Threads |->
             CASE s = t -> NoRead
               [] s # t /\ task[s].op = op /\ same(task[s].edge) /\ ~seen[t].gone ->
                    [seen[s] EXCEPT !.gone = TRUE]
               [] OTHER -> seen[s]]

-----------------------------------------------------------------------------
(* Follow edges.                                                           *)

BeginFollow(t, e) == ~Blocked(e) /\ e \notin follows /\ Load(t, "follow", e)

CommitFollow(t) ==
  LET e == task[t].edge IN
  /\ Committing(t, "follow")
  /\ \/ /\ e \in follows
        /\ Refuse(t)
     \/ /\ e \notin follows
        /\ follows' = follows \cup {e}
        /\ Raise(t, {e}, {})
        /\ Finish(t) /\ Close(t)
        /\ UNCHANGED <<friends, requests, blocks>>

BeginUnfollow(t, e) == e \in follows /\ Load(t, "unfollow", e)

\* The DELETE names the row's id; if that row is gone it deletes nothing.
CommitUnfollow(t) ==
  LET e == task[t].edge IN
  /\ Committing(t, "unfollow")
  /\ follows' = IF seen[t].gone THEN follows ELSE follows \ {e}
  /\ CloseDeleting(t, "unfollow", LAMBDA f : f = e)
  /\ Lower(t, {e}, {})
  /\ Finish(t)
  /\ UNCHANGED <<friends, requests, blocks>>

-----------------------------------------------------------------------------
(* Friend requests and friendships.                                        *)

BeginRequest(t, e) ==
  /\ ~Blocked(e) /\ PairOf(e) \notin friends
  /\ requests[e] # "pending" /\ requests[Reverse(e)] # "pending"
  /\ Load(t, "request", e)

\* Mutant: the row of an earlier request is used again.
CommitRequestReusing(t) ==
  /\ Committing(t, "request")
  /\ requests' = [requests EXCEPT ![task[t].edge] = "pending"]
  /\ Finish(t) /\ Close(t)
  /\ UNCHANGED <<follows, friends, blocks, profiles>>

\* A row of this requester and addressee, whatever its status, breaks
\* uq_friend_request_direction.
CommitRequest(t) ==
  LET e == task[t].edge IN
  /\ Committing(t, "request")
  /\ \/ /\ requests[e] # "none"
        /\ Refuse(t)
     \/ /\ requests[e] = "none"
        /\ requests' = [requests EXCEPT ![e] = "pending"]
        /\ Finish(t) /\ Close(t)
        /\ UNCHANGED <<follows, friends, blocks, profiles>>

BeginAccept(t, e) == requests[e] = "pending" /\ Load(t, "accept", e)

\* Mutant: edges that existed are counted again.
CommitAcceptRecounting(t) ==
  LET e == task[t].edge
      missing == {e, Reverse(e)} \ seen[t].follows
  IN
  /\ Committing(t, "accept")
  /\ friends' = friends \cup {PairOf(e)}
  /\ follows' = follows \cup missing
  /\ Raise(t, {e, Reverse(e)}, {PairOf(e)})
  /\ requests' = [requests EXCEPT ![e] = "accepted"]
  /\ Finish(t) /\ Close(t)
  /\ UNCHANGED <<blocks>>

\* The friendship, the follow edges that were missing in either direction, the
\* counters of both, and the request's status.
CommitAccept(t) ==
  LET e == task[t].edge
      missing == {e, Reverse(e)} \ seen[t].follows
  IN
  /\ Committing(t, "accept")
  /\ \/ /\ PairOf(e) \in friends \/ missing \cap follows # {}
        /\ Refuse(t)
     \/ /\ PairOf(e) \notin friends /\ missing \cap follows = {}
        /\ friends' = friends \cup {PairOf(e)}
        /\ follows' = follows \cup missing
        /\ Raise(t, missing, {PairOf(e)})
        /\ requests' = [requests EXCEPT ![e] = "accepted"]
        /\ Finish(t) /\ Close(t)
        /\ UNCHANGED <<blocks>>

\* Mutant: any request can be rejected or cancelled.
BeginAnswerAny(t, op, e) == requests[e] # "none" /\ Load(t, op, e)

BeginAnswer(t, op, e) == requests[e] = "pending" /\ Load(t, op, e)

\* reject_friend_request by the addressee, cancel_friend_request by the requester.
CommitAnswer(t, op, status) ==
  /\ Committing(t, op)
  /\ requests' = [requests EXCEPT ![task[t].edge] = status]
  /\ Finish(t) /\ Close(t)
  /\ UNCHANGED <<follows, friends, blocks, profiles>>

BeginUnfriend(t, e) == PairOf(e) \in friends /\ Load(t, "unfriend", e)

\* Follow edges and the request stay.
CommitUnfriend(t) ==
  LET e == task[t].edge IN
  /\ Committing(t, "unfriend")
  /\ friends' = IF seen[t].gone THEN friends ELSE friends \ {PairOf(e)}
  /\ CloseDeleting(t, "unfriend", LAMBDA f : PairOf(f) = PairOf(e))
  /\ Lower(t, {}, {PairOf(e)})
  /\ Finish(t)
  /\ UNCHANGED <<follows, requests, blocks>>

\* block_user and unblock_user, each as one step.
SetBlock(e) ==
  /\ "block" \in Operations
  /\ blocks' = IF e \in blocks THEN blocks \ {e} ELSE blocks \cup {e}
  /\ UNCHANGED <<follows, friends, requests, profiles, task, seen, overlapped>>

-----------------------------------------------------------------------------

Begin(t, e) ==
  \/ BeginFollow(t, e) \/ BeginUnfollow(t, e)
  \/ BeginRequest(t, e) \/ BeginAccept(t, e)
  \/ \E op \in {"reject", "cancel"} : BeginAnswer(t, op, e)
  \/ BeginUnfriend(t, e)

Commit(t) ==
  \/ CommitFollow(t) \/ CommitUnfollow(t)
  \/ CommitRequest(t) \/ CommitAccept(t)
  \/ CommitAnswer(t, "reject", "rejected") \/ CommitAnswer(t, "cancel", "cancelled")
  \/ CommitUnfriend(t)

Next ==
  \/ \E t \in Threads : Commit(t) \/ \E e \in Edges : Begin(t, e)
  \/ \E e \in Edges : SetBlock(e)

Spec == Init /\ [][Next]_vars

-----------------------------------------------------------------------------
(* Properties.                                                             *)

\* As long as no two handlers have overlapped, the counters of a profile are
\* the numbers of its followers, of the users it follows and of its friends,
\* whatever was followed, accepted, unfollowed and unfriended in between.
SerialCountersMatch ==
  ~overlapped =>
    \A u \in Users, c \in Counters : profiles[u][c] = Tally(u, c, follows, friends)

\* As long as no two handlers have overlapped, two users never wait for each
\* other's answer, friends have no request waiting between them, so that the
\* next accept finds no friendship in its way, and a friendship rests on a
\* request that its addressee accepted and that nobody cancelled or rejected.
SerialRequestsMatch ==
  ~overlapped => \A e \in Edges :
    /\ requests[e] = "pending" => requests[Reverse(e)] # "pending" /\ PairOf(e) \notin friends
    /\ PairOf(e) \in friends => requests[e] = "accepted" \/ requests[Reverse(e)] = "accepted"

\* An answered request is never pending again, whatever handlers interleave.
AnsweredStaysAnswered ==
  [][\A e \in Edges : requests[e] \notin {"none", "pending"}
                      => requests'[e] \notin {"none", "pending"}]_vars
=============================================================================
