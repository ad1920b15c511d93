----------------------------- MODULE Engagement ------------------------------
(***************************************************************************)
(* What users do with a post: they react, save it, comment, reply and      *)
(* react to comments (app/routes/social_posts.py); and stories, which are  *)
(* viewed until their author, a moderator (app/routes/social_moderation.py)*)
(* or, at their time, the worker (scripts/run_social_worker.py) ends them. *)
(*                                                                         *)
(* Handlers run in threads: each loads rows, checks them, and commits the  *)
(* counters it computed from what it loaded.  Texts, kinds of reaction and *)
(* who wrote a comment are left out.                                       *)
(***************************************************************************)
EXTENDS Naturals, FiniteSets, SocialProcesses

CONSTANTS
  Users,      \* those who may see the post, and may see the stories of others
  Comments,   \* comments ever written
  NoComment,
  Stories,    \* stories ever created
  Workloads   \* sets of operations; one of them is in play in a behaviour

ASSUME NoCommentIsNone == NoComment \notin Comments

VARIABLES
  post,              \* the social_posts row: whether it is deleted, and its counts
  reactions,         \* the users with a post_reactions row
  saved,             \* the users with a saved_posts row
  comments,          \* the post_comments rows
  commentReactions,  \* the users with a comment_reactions row, for each comment
  stories,           \* the stories rows
  views,             \* the users with a story_views row, for each story
  handler,           \* the handler each thread runs, and what the worker does
  loaded,            \* the counts its session loaded
  workload,          \* the operations in play
  deleted,           \* history: the comments that delete_comment took off the counts
  collided           \* history: a handler has committed a count another had changed

tables == <<post, reactions, saved, comments, commentReactions, stories, views>>
engagementVars == <<tables, handler, loaded, workload, deleted, collided>>

SocialPost == [deleted : BOOLEAN, reaction_count : Nat, comment_count : Nat]
PostComment == [status : {"absent", "active", "deleted", "removed"},
                parent : Comments \cup {NoComment}, reaction_count : Nat, reply_count : Nat]
Story == [status : {"absent", "shown", "deleted"}, expired : BOOLEAN, view_count : Nat]

IdleHandler == [op |-> "idle", user |-> Worker, comment |-> NoComment, parent |-> NoComment,
         stories |-> {}, stale |-> FALSE]
NoCounts == [count |-> 0, replies |-> 0]

\* create_post; no comment and no story yet.
EngagementInit ==
  /\ post = [deleted |-> FALSE, reaction_count |-> 0, comment_count |-> 0]
  /\ reactions = {} /\ saved = {}
  /\ comments = [c \in Comments |-> [status |-> "absent", parent |-> NoComment,
                                     reaction_count |-> 0, reply_count |-> 0]]
  /\ commentReactions = [c \in Comments |-> {}]
  /\ stories = [s \in Stories |-> [status |-> "absent", expired |-> FALSE, view_count |-> 0]]
  /\ views = [s \in Stories |-> {}]
  /\ handler = [t \in Sessions |-> IdleHandler]
  /\ loaded = [t \in Sessions |-> NoCounts]
  /\ workload \in Workloads
  /\ deleted = {}
  /\ collided = FALSE

LessOne(n) == IF n > 0 THEN n - 1 ELSE 0

\* The comments whose row exists; a parent is looked for whatever its status.
WrittenComments == {c \in Comments : comments[c].status # "absent"}

-----------------------------------------------------------------------------
(* Handlers.                                                               *)

\* Handlers h and g write the same counter.
SameCount(h, g) ==
  \/ {h.op, g.op} \subseteq {"react", "unreact"}
  \/ {h.op, g.op} \subseteq {"comment", "delete_comment"}
  \/ {h.op, g.op} \subseteq {"react_comment", "unreact_comment"} /\ h.comment = g.comment
  \/ h.op = "view" /\ g.op = "view" /\ h.stories = g.stories

LoadCounts(t, job, count, replies) ==
  /\ handler[t].op = "idle"
  /\ job.op \in workload
  /\ ~collided  \* bound: nothing is said of what follows
  /\ handler' = [handler EXCEPT ![t] = job]
  /\ loaded' = [loaded EXCEPT ![t] = [count |-> count, replies |-> replies]]
  /\ UNCHANGED <<tables, workload, deleted, collided>>

Committing(t, op) == handler[t].op = op

Finish(t) ==
  /\ handler' = [s \in Sessions |->
       IF s = t THEN IdleHandler
       ELSE [handler[s] EXCEPT !.stale = handler[s].stale \/ SameCount(handler[s], handler[t])]]
  /\ loaded' = [loaded EXCEPT ![t] = NoCounts]
  /\ collided' = (collided \/ handler[t].stale)
  /\ UNCHANGED workload

\* A unique constraint: rolled back.
Refuse(t) ==
  /\ handler' = [handler EXCEPT ![t] = IdleHandler]
  /\ loaded' = [loaded EXCEPT ![t] = NoCounts]
  /\ UNCHANGED <<tables, workload, deleted, collided>>

\* An INSERT of a row that is unique for its user.
Insert(t, users, commit) ==
  \/ handler[t].user \in users /\ Refuse(t)
  \/ handler[t].user \notin users /\ commit /\ Finish(t)

-----------------------------------------------------------------------------
(* The post.                                                               *)

\* A second reaction changes the kind of the first only.
BeginReact(t, u) ==
  /\ ~post.deleted /\ u \notin reactions
  /\ LoadCounts(t, [IdleHandler EXCEPT !.op = "react", !.user = u], post.reaction_count, 0)

CommitReact(t) ==
  /\ Committing(t, "react")
  /\ Insert(t, reactions,
       /\ reactions' = reactions \cup {handler[t].user}
       /\ post' = [post EXCEPT !.reaction_count = loaded[t].count + 1]
       /\ UNCHANGED <<saved, comments, commentReactions, stories, views, deleted>>)

BeginUnreact(t, u) ==
  /\ ~post.deleted /\ u \in reactions
  /\ LoadCounts(t, [IdleHandler EXCEPT !.op = "unreact", !.user = u], post.reaction_count, 0)

CommitUnreact(t) ==
  /\ Committing(t, "unreact")
  /\ reactions' = reactions \ {handler[t].user}
  /\ post' = [post EXCEPT !.reaction_count = LessOne(loaded[t].count)]
  /\ Finish(t)
  /\ UNCHANGED <<saved, comments, commentReactions, stories, views, deleted>>

BeginSave(t, u) ==
  /\ ~post.deleted /\ u \notin saved
  /\ LoadCounts(t, [IdleHandler EXCEPT !.op = "save", !.user = u], 0, 0)

CommitSave(t) ==
  /\ Committing(t, "save")
  /\ Insert(t, saved,
       /\ saved' = saved \cup {handler[t].user}
       /\ UNCHANGED <<post, reactions, comments, commentReactions, stories, views, deleted>>)

\* unsave_post, of a deleted post too.
Unsave(u) ==
  /\ "save" \in workload /\ u \in saved
  /\ saved' = saved \ {u}
  /\ UNCHANGED <<post, reactions, comments, commentReactions, stories, views, handler, loaded,
                 workload, deleted, collided>>

\* delete_post, or a moderator: see module Posts.
DeletePost ==
  /\ "delete_post" \in workload /\ ~post.deleted
  /\ post' = [post EXCEPT !.deleted = TRUE]
  /\ UNCHANGED <<reactions, saved, comments, commentReactions, stories, views, handler, loaded,
                 workload, deleted, collided>>

-----------------------------------------------------------------------------
(* Comments.                                                               *)

\* create_comment; the id is new.
BeginComment(t, c, parent) ==
  /\ ~post.deleted
  /\ c \notin WrittenComments /\ \A s \in Threads : handler[s].comment # c
  /\ parent # NoComment => comments[parent].status = "active"
  /\ LoadCounts(t, [IdleHandler EXCEPT !.op = "comment", !.comment = c, !.parent = parent],
          post.comment_count, IF parent = NoComment THEN 0 ELSE comments[parent].reply_count)

\* The rows when the parent of a comment has this many replies.
WithReplies(parent, replies) ==
  [p \in Comments |-> IF p = parent THEN [comments[p] EXCEPT !.reply_count = replies] ELSE comments[p]]

CommitComment(t) ==
  LET c == handler[t].comment
      parent == handler[t].parent
  IN
  /\ Committing(t, "comment")
  /\ comments' = [WithReplies(parent, loaded[t].replies + 1) EXCEPT
       ![c] = [status |-> "active", parent |-> parent, reaction_count |-> 0, reply_count |-> 0]]
  /\ post' = [post EXCEPT !.comment_count = loaded[t].count + 1]
  /\ Finish(t)
  /\ UNCHANGED <<reactions, saved, commentReactions, stories, views, deleted>>

\* delete_comment, by the author of the comment or of the post.
BeginDeleteComment(t, c) ==
  LET parent == comments[c].parent IN
  /\ comments[c].status = "active"
  /\ LoadCounts(t, [IdleHandler EXCEPT !.op = "delete_comment", !.comment = c, !.parent = parent],
          post.comment_count, IF parent = NoComment THEN 0 ELSE comments[parent].reply_count)

\* Mutant: the parent keeps its count.
CommitDeleteCommentOnly(t) ==
  /\ Committing(t, "delete_comment")
  /\ comments' = [comments EXCEPT ![handler[t].comment].status = "deleted"]
  /\ post' = [post EXCEPT !.comment_count = LessOne(loaded[t].count)]
  /\ deleted' = deleted \cup {handler[t].comment}
  /\ Finish(t)
  /\ UNCHANGED <<reactions, saved, commentReactions, stories, views>>

CommitDeleteComment(t) ==
  LET c == handler[t].comment IN
  /\ Committing(t, "delete_comment")
  /\ comments' = [WithReplies(handler[t].parent, LessOne(loaded[t].replies))
                   EXCEPT ![c].status = "deleted"]
  /\ post' = [post EXCEPT !.comment_count = LessOne(loaded[t].count)]
  /\ deleted' = deleted \cup {c}
  /\ Finish(t)
  /\ UNCHANGED <<reactions, saved, commentReactions, stories, views>>

\* resolve_report with remove_content on a comment: the counts stay.
RemoveComment(c) ==
  /\ "remove_comment" \in workload /\ c \in WrittenComments
  /\ comments' = [comments EXCEPT ![c].status = "removed"]
  /\ UNCHANGED <<post, reactions, saved, commentReactions, stories, views, handler, loaded,
                 workload, deleted, collided>>

BeginReactComment(t, c, u) ==
  /\ comments[c].status = "active" /\ ~post.deleted /\ u \notin commentReactions[c]
  /\ LoadCounts(t, [IdleHandler EXCEPT !.op = "react_comment", !.user = u, !.comment = c],
          comments[c].reaction_count, 0)

CommitReactComment(t) ==
  LET c == handler[t].comment IN
  /\ Committing(t, "react_comment")
  /\ Insert(t, commentReactions[c],
       /\ commentReactions' = [commentReactions EXCEPT ![c] = commentReactions[c] \cup {handler[t].user}]
       /\ comments' = [comments EXCEPT ![c].reaction_count = loaded[t].count + 1]
       /\ UNCHANGED <<post, reactions, saved, stories, views, deleted>>)

\* Of a deleted comment, too.
BeginUnreactComment(t, c, u) ==
  /\ u \in commentReactions[c]
  /\ LoadCounts(t, [IdleHandler EXCEPT !.op = "unreact_comment", !.user = u, !.comment = c],
          comments[c].reaction_count, 0)

CommitUnreactComment(t) ==
  LET c == handler[t].comment IN
  /\ Committing(t, "unreact_comment")
  /\ commentReactions' = [commentReactions EXCEPT ![c] = commentReactions[c] \ {handler[t].user}]
  /\ comments' = [comments EXCEPT ![c].reaction_count = LessOne(loaded[t].count)]
  /\ Finish(t)
  /\ UNCHANGED <<post, reactions, saved, stories, views, deleted>>

-----------------------------------------------------------------------------
(* Stories.                                                                *)

CreateStory(s) ==
  /\ "view" \in workload /\ stories[s].status = "absent"
  /\ stories' = [stories EXCEPT ![s].status = "shown"]
  /\ UNCHANGED <<post, reactions, saved, comments, commentReactions, views, handler, loaded,
                 workload, deleted, collided>>

\* expires_at passes.
StoryExpires(s) ==
  /\ stories[s].status # "absent" /\ ~stories[s].expired
  /\ stories' = [stories EXCEPT ![s].expired = TRUE]
  /\ UNCHANGED <<post, reactions, saved, comments, commentReactions, views, handler, loaded,
                 workload, deleted, collided>>

\* get_story by another than its author; the first time it is counted.
BeginView(t, s, u) ==
  /\ stories[s].status = "shown" /\ ~stories[s].expired /\ u \notin views[s]
  /\ LoadCounts(t, [IdleHandler EXCEPT !.op = "view", !.user = u, !.stories = {s}],
                stories[s].view_count, 0)

\* It may have ended since.
CommitView(t) ==
  \E s \in handler[t].stories :
    /\ Committing(t, "view")
    /\ Insert(t, views[s],
         /\ views' = [views EXCEPT ![s] = views[s] \cup {handler[t].user}]
         /\ stories' = [stories EXCEPT ![s].view_count = loaded[t].count + 1]
         /\ UNCHANGED <<post, reactions, saved, comments, commentReactions, deleted>>)

\* delete_story, or resolve_report on a story, of one that has ended, too.
DeleteStory(s) ==
  /\ "delete_story" \in workload /\ stories[s].status # "absent"
  /\ stories' = [stories EXCEPT ![s].status = "deleted"]
  /\ UNCHANGED <<post, reactions, saved, comments, commentReactions, views, handler, loaded,
                 workload, deleted, collided>>

\* The second half of run_once.
BeginExpire ==
  LET ending == {s \in Stories : stories[s].expired /\ stories[s].status = "shown"} IN
  /\ handler[Worker].op = "idle" /\ ending # {}
  /\ handler' = [handler EXCEPT ![Worker] = [IdleHandler EXCEPT !.op = "expire", !.stories = ending]]
  /\ UNCHANGED <<tables, loaded, workload, deleted, collided>>

\* Mutant: the transaction is not committed.
CommitExpireUncommitted ==
  /\ Committing(Worker, "expire")
  /\ Finish(Worker)
  /\ UNCHANGED <<tables, deleted>>

CommitExpire ==
  /\ Committing(Worker, "expire")
  /\ stories' = [s \in Stories |-> IF s \in handler[Worker].stories
                                   THEN [stories[s] EXCEPT !.status = "deleted"] ELSE stories[s]]
  /\ Finish(Worker)
  /\ UNCHANGED <<post, reactions, saved, comments, commentReactions, views, deleted>>

-----------------------------------------------------------------------------

BeginHandler(t) ==
  \/ \E u \in Users :
       \/ BeginReact(t, u) \/ BeginUnreact(t, u) \/ BeginSave(t, u)
       \/ \E c \in Comments : BeginReactComment(t, c, u) \/ BeginUnreactComment(t, c, u)
       \/ \E s \in Stories : BeginView(t, s, u)
  \/ \E c \in Comments :
       BeginDeleteComment(t, c) \/ \E parent \in Comments \cup {NoComment} : BeginComment(t, c, parent)

CommitHandler(t) ==
  \/ CommitReact(t) \/ CommitUnreact(t) \/ CommitSave(t)
  \/ CommitComment(t) \/ CommitDeleteComment(t)
  \/ CommitReactComment(t) \/ CommitUnreactComment(t) \/ CommitView(t)

Expire == BeginExpire \/ CommitExpire

EngagementNext ==
  \/ \E t \in Threads : BeginHandler(t) \/ CommitHandler(t)
  \/ \E u \in Users : Unsave(u)
  \/ \E c \in Comments : RemoveComment(c)
  \/ \E s \in Stories : CreateStory(s) \/ StoryExpires(s) \/ DeleteStory(s)
  \/ DeletePost
  \/ Expire

\* The worker loops for ever, pausing 30 seconds.
EngagementSpec == EngagementInit /\ [][EngagementNext]_engagementVars /\ WF_engagementVars(Expire)

-----------------------------------------------------------------------------
(* Properties.                                                             *)

EngagementTypeOK ==
  /\ post \in SocialPost
  /\ reactions \subseteq Users /\ saved \subseteq Users
  /\ comments \in [Comments -> PostComment]
  /\ commentReactions \in [Comments -> SUBSET Users]
  /\ stories \in [Stories -> Story]
  /\ views \in [Stories -> SUBSET Users]
  /\ deleted \subseteq Comments
  /\ collided \in BOOLEAN

CountedComments == WrittenComments \ deleted

\* As long as no handler commits a count that another one has changed since it
\* was loaded, a post and its comments show as many reactions, comments and
\* replies as there are, those that a moderator removed among them, and a story
\* as many views as it has had.
CountsMatch ==
  ~collided =>
    /\ post.reaction_count = Cardinality(reactions)
    /\ post.comment_count = Cardinality(CountedComments)
    /\ \A c \in Comments :
         /\ comments[c].reaction_count = Cardinality(commentReactions[c])
         /\ comments[c].reply_count = Cardinality({d \in CountedComments : comments[d].parent = c})
    /\ \A s \in Stories : stories[s].view_count = Cardinality(views[s])

\* A story that has expired is deleted in the end.
EveryStoryEnds ==
  \A s \in Stories : stories[s].expired ~> stories[s].status = "deleted"
=============================================================================
