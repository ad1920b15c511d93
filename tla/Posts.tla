------------------------------- MODULE Posts --------------------------------
(***************************************************************************)
(* The life of one author's posts (app/routes/social_posts.py): created,   *)
(* scheduled, edited, shared and deleted by handlers, removed by           *)
(* moderators (app/routes/social_moderation.py), and published at their    *)
(* time by the worker (scripts/run_social_worker.py), with the counters    *)
(* that the profile and the shared posts keep.                             *)
(*                                                                         *)
(* The handlers run in threads, the worker in a process of its own.  Each  *)
(* loads rows into its session, and commits the columns whose value it     *)
(* changed.  The counters of pages and groups are kept like the profile's. *)
(***************************************************************************)
EXTENDS Naturals, FiniteSets, SocialProcesses

CONSTANTS
  Posts,      \* posts the author ever creates
  NoPost,
  Operations  \* what the author and moderators do in this instance

Handlers == {"create", "edit", "delete", "remove"}

ASSUME PostsAreFinite == IsFiniteSet(Posts)
ASSUME NoPostIsNone == NoPost \notin Posts
ASSUME OperationsAreKnown == Operations \subseteq Handlers \cup {"schedule"}

VARIABLES
  posts,      \* the social_posts rows
  postCount,  \* post_count of the author's profile
  task,       \* what each session is doing
  seen,       \* the rows it loaded
  counted,    \* history: how often a post was added to the profile's count
  overlapped  \* history: two sessions have worked at the same time

vars == <<posts, postCount, task, seen, counted, overlapped>>

Statuses == {"absent", "scheduled", "published", "draft", "archived", "deleted", "removed"}
\* deleted_at is set; scheduled_at has passed; shared_post_id; share_count.
Rows == [status : Statuses, deleted : BOOLEAN, due : BOOLEAN,
         shared : Posts \cup {NoPost}, shares : Nat]
NoRow == [status |-> "absent", deleted |-> FALSE, due |-> FALSE,
          shared |-> NoPost, shares |-> 0]
Tasks == [op : Handlers \cup {"idle", "publish"}, on : SUBSET Posts,
          shared : Posts \cup {NoPost}, status : Statuses]
Idle == [op |-> "idle", on |-> {}, shared |-> NoPost, status |-> "absent"]
NoRead == [posts |-> [p \in Posts |-> NoRow], postCount |-> 0]

TypeOK ==
  /\ posts \in [Posts -> Rows]
  /\ postCount \in Nat
  /\ task \in [Sessions -> Tasks]
  /\ seen \in [Sessions -> [posts : [Posts -> Rows], postCount : Nat]]
  /\ counted \in [Posts -> Nat]
  /\ overlapped \in BOOLEAN

Init ==
  /\ posts = [p \in Posts |-> NoRow]
  /\ postCount = 0
  /\ task = [s \in Sessions |-> Idle]
  /\ seen = [s \in Sessions |-> NoRead]
  /\ counted = [p \in Posts |-> 0]
  /\ overlapped = FALSE

Exists(p) == posts[p].status # "absent"

-----------------------------------------------------------------------------
(* A session: its checks passed, it loads; later it commits.               *)

Load(s, t) ==
  /\ task[s] = Idle
  /\ task' = [task EXCEPT ![s] = t]
  /\ seen' = [seen EXCEPT ![s] = [posts |-> posts, postCount |-> postCount]]
  /\ overlapped' = (overlapped \/ \E r \in Sessions \ {s} : task[r] # Idle)
  /\ UNCHANGED <<posts, postCount, counted>>

\* Mutant: the whole row is written.
WrittenWhole(s, p, row) == row

\* The UPDATE of a row writes the columns that differ from what was loaded.
Written(s, p, row) ==
  [c \in DOMAIN row |-> IF row[c] = seen[s].posts[p][c] THEN posts[p][c] ELSE row[c]]

\* The session commits its rows and the profile's counter, and is closed.
Save(s, rows, count) ==
  /\ posts' = [p \in Posts |-> Written(s, p, rows[p])]
  /\ postCount' = IF count = seen[s].postCount THEN postCount ELSE count
  /\ task' = [task EXCEPT ![s] = Idle]
  /\ seen' = [seen EXCEPT ![s] = NoRead]
  /\ UNCHANGED overlapped

\* rows after the posts in S shared what they share once more.
WithShares(rows, S) ==
  [p \in Posts |->
     [rows[p] EXCEPT !.shares = @ + Cardinality({q \in S : rows[q].shared = p})]]

Count(S) == counted' = [p \in Posts |-> counted[p] + IF p \in S THEN 1 ELSE 0]

-----------------------------------------------------------------------------
(* The handlers.                                                           *)

\* The id is new.  The author sees the own post q whatever its status.
BeginCreate(s, p, q, status) ==
  /\ "create" \in Operations
  /\ status = "scheduled" => "schedule" \in Operations
  /\ ~Exists(p) /\ \A r \in Sessions : p \notin task[r].on
  /\ q # NoPost => Exists(q) /\ ~posts[q].deleted
  /\ Load(s, [op |-> "create", on |-> {p}, shared |-> q, status |-> status])

CommitCreate(s) ==
  LET S == task[s].on
      rows == [p \in Posts |->
                 IF p \in S THEN [NoRow EXCEPT !.status = task[s].status,
                                               !.shared = task[s].shared]
                            ELSE seen[s].posts[p]]
  IN
  /\ task[s].op = "create"
  /\ IF task[s].status = "published"
     THEN Save(s, WithShares(rows, S), seen[s].postCount + 1) /\ Count(S)
     ELSE Save(s, rows, seen[s].postCount) /\ Count({})

\* update_post, by the author; other fields than the status are left out.
BeginEdit(s, p, status) ==
  /\ "edit" \in Operations
  /\ Exists(p) /\ ~posts[p].deleted
  /\ status \in {"published", "draft", "archived"}
  /\ Load(s, [Idle EXCEPT !.op = "edit", !.on = {p}, !.status = status])

CommitEdit(s) ==
  /\ task[s].op = "edit"
  /\ Save(s, [p \in Posts |-> IF p \in task[s].on
                              THEN [seen[s].posts[p] EXCEPT !.status = task[s].status]
                              ELSE seen[s].posts[p]],
             seen[s].postCount)
  /\ Count({})

BeginDelete(s, p) ==
  /\ "delete" \in Operations
  /\ Exists(p) /\ ~posts[p].deleted
  /\ Load(s, [Idle EXCEPT !.op = "delete", !.on = {p}, !.status = "deleted"])

\* resolve_report with remove_content.
BeginRemove(s, p) ==
  /\ "remove" \in Operations
  /\ Exists(p)
  /\ Load(s, [Idle EXCEPT !.op = "remove", !.on = {p}, !.status = "removed"])

\* Only delete_post takes the post off the count, published or not.
CommitDelete(s) ==
  /\ task[s].op \in {"delete", "remove"}
  /\ Save(s, [p \in Posts |-> IF p \in task[s].on
                              THEN [seen[s].posts[p] EXCEPT !.status = task[s].status,
                                                            !.deleted = TRUE]
                              ELSE seen[s].posts[p]],
             IF task[s].op = "delete" /\ seen[s].postCount > 0
             THEN seen[s].postCount - 1 ELSE seen[s].postCount)
  /\ Count({})

-----------------------------------------------------------------------------
(* The worker.                                                             *)

\* scheduled_at passes.
BecomeDue(p) ==
  /\ posts[p].status = "scheduled" /\ ~posts[p].due
  /\ posts' = [posts EXCEPT ![p].due = TRUE]
  /\ UNCHANGED <<postCount, task, seen, counted, overlapped>>

\* Mutant: the status is not part of the selection.
DueWhateverStatus == {p \in Posts : posts[p].due}

Due == {p \in Posts : posts[p].status = "scheduled" /\ posts[p].due}

BeginPublish == Due # {} /\ Load(Worker, [Idle EXCEPT !.op = "publish", !.on = Due])

\* Mutants: the shared posts are forgotten; the transaction is not committed.
CommitPublishUnshared ==
  LET S == task[Worker].on
      loaded == seen[Worker].posts
  IN
  /\ task[Worker].op = "publish"
  /\ Save(Worker, [p \in Posts |-> IF p \in S
                     THEN [loaded[p] EXCEPT !.status = "published"] ELSE loaded[p]],
                  seen[Worker].postCount + Cardinality(S))
  /\ Count(S)

CommitPublishUncommitted ==
  /\ task[Worker].op = "publish"
  /\ Save(Worker, seen[Worker].posts, seen[Worker].postCount)
  /\ Count({})

\* All due posts at once, each counted in the profile and in what it shares.
CommitPublish ==
  LET S == task[Worker].on
      loaded == seen[Worker].posts
  IN
  /\ task[Worker].op = "publish"
  /\ Save(Worker, WithShares([p \in Posts |-> IF p \in S
                                THEN [loaded[p] EXCEPT !.status = "published"]
                                ELSE loaded[p]], S),
                  seen[Worker].postCount + Cardinality(S))
  /\ Count(S)

Begin(s) ==
  \E p \in Posts :
    \/ \E q \in Posts \cup {NoPost}, status \in {"published", "scheduled"} :
         BeginCreate(s, p, q, status)
    \/ \E status \in Statuses : BeginEdit(s, p, status)
    \/ BeginDelete(s, p)
    \/ BeginRemove(s, p)

Commit(s) == CommitCreate(s) \/ CommitEdit(s) \/ CommitDelete(s)

Publish == BeginPublish \/ CommitPublish

Next ==
  \/ \E s \in Threads : Begin(s) \/ Commit(s)
  \/ \E p \in Posts : BecomeDue(p)
  \/ Publish

Spec == Init /\ [][Next]_vars

\* The worker loops for ever, pausing 30 seconds.
FairSpec == Spec /\ WF_vars(Publish)

-----------------------------------------------------------------------------
(* Properties.                                                             *)

\* Readers other than the author see p.
Visible(p) == posts[p].status = "published" /\ ~posts[p].deleted

\* A post is added to its author's count at most once, however the worker and
\* the handlers overlap.
CountedOnce == \A p \in Posts : counted[p] <= 1

\* Once deleted or removed a post is never visible again, even if the worker
\* publishes it, or its author edits it, from a stale read.
DeletedStaysHidden ==
  [][\A p \in Posts : posts[p].deleted => ~Visible(p)']_vars

\* As long as sessions do not overlap the share_count of a post is the number of
\* posts that share it and were counted when they were published, and the
\* profile never counts more than the posts that were counted and not deleted
\* by their author.
SerialCountsMatch ==
  ~overlapped =>
    /\ \A p \in Posts :
         posts[p].shares = Cardinality({q \in Posts : counted[q] > 0 /\ posts[q].shared = p})
    /\ postCount <= Cardinality({p \in Posts : counted[p] > 0 /\ posts[p].status # "deleted"})

\* A scheduled post does not stay so for ever once its time has come.
EveryDuePostSettles ==
  \A p \in Posts : p \in Due ~> posts[p].status # "scheduled"
=============================================================================
