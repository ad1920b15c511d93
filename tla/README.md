# Verification of the Enterprise Social Media Platform API

TLA+ models of the FastAPI application in `src/app` and of its two workers in `src/scripts`, the TLC
configurations that check them, and TLAPS proofs. Every definition is translated from the source;
`PROJECT.json` maps each to its lines, and lists the runs, mutants, hazards and theorems.

## 1. The system

Stateless API replicas (`uvicorn`, one event loop each) share one PostgreSQL database and one Redis.
`docker-compose.yml` starts one API process, one outbox worker and one social worker;
`docs/ARCHITECTURE.md:20` names replicas behind a load balancer as the way to scale out.

| Component | State | Operations | Interacts with | What is hard | Correct when |
|---|---|---|---|---|---|
| Messages (`chat_service.py`, `routes/messages.py`) | conversation row with `next_sequence`, messages, read positions, receipts | send, mark read, edit, delete, (react, pin, search) | outbox in the same transaction; hub after the commit | retries of one `client_message_id`, sends on several replicas, a crash before or after the commit | sequences have no gap or duplicate, a retried send is stored once, an acknowledged message is stored |
| Outbox (`add_outbox`, `run_outbox_worker.py`) | `event_outbox` rows; the worker's session | record, select a batch, publish, count an attempt, commit | handlers write rows, Redis gets events | one commit per batch, crashes, publishes that raise, a head of failing events | at least once, bounded attempts, no starvation |
| Conversations and members (`routes/conversations.py`, `routes/moderation.py`) | conversation, member and invite rows | add, change, remove, leave, ban, unban, invite, accept, archive, delete | `require_member` of every chat handler | checks on rows that another replica changes before the commit; capacity and use limits | limits hold, bans hold |
| Social graph (`routes/social_profiles.py`) | follow edges, requests, friendships, blocks, profile counters | follow, unfollow, request, accept, reject, cancel, unfriend, block | feeds and visibility read it | handlers in a thread pool; counters incremented in Python | counters are the numbers of edges, answered requests stay answered |
| Posts and publishing (`routes/social_posts.py`, `social_moderation.py`, `run_social_worker.py`) | post rows, `post_count`, `share_count` | create, schedule, share, edit, delete, remove, publish | the worker and handlers write the same rows | the worker publishes from an old read | a post is counted once, a deleted post never reappears, a due post is published |
| Hub and presence (`realtime.py`, `routes/websocket.py`, `chat_users.py`) | three indexes of sockets per process, `user_presences` rows | connect, subscribe, send, broadcast, listen, disconnect | Redis channel between replicas | sends await between index reads, failures between steps, Redis echoes | indexes agree, no event twice, presence follows the sockets |
| Identity, MFA, administration (`routes/auth.py`, `sessions.py`, `mfa.py`, `admin.py`, `auth_service.py`) | user row, refresh sessions in families, one-time tokens, MFA method, backup codes | verify, log in, refresh, log out, reset, change, set up MFA, suspend, delete | `get_current_user` of every handler | a rotation in one thread while another revokes, one token used twice, counting failures | a family has one live session, ends when it is ended, tokens and codes are used once, failures lock |
| Organizations and roles (`organizations.py`, `rbac.py`, `rbac_service.py`) | memberships, invitations, a role with permissions and assignments | invite, accept, change, remove, create/update/delete a role, assign | `require_org_permission`; conversations of an organization | counting owners before the commit, rows deleted while they are being referred to | an owner remains, an invitation is used once, a role has the permissions last asked for |
| Communities (`social_communities.py`, `social_moderation.py`) | pages, followers, administrators; groups, members; counters | follow, join, approve, leave, ban, change status, suspend | posts in pages and groups | counters computed from a read; rejoining; a moderator meeting an owner | counters match, the group keeps its owner, suspensions hold |
| Engagement and stories (`social_posts.py`, `run_social_worker.py`) | reactions, saves, comments with replies, stories, views, counters | toggles, comment, delete, view, expire | posts, moderators, the worker | counters on three levels, removal by three actors | counters match, every story ends |
| Uploads, direct conversations | assets and files; conversations with a direct key | presign, upload, complete, delete; create | attachments of messages | a delete between a check and an attachment; a lookup followed by an insert | an attached asset exists |
| Feed, middleware, email, health, scripts | limiter windows | reads, counters, output | | | |

### How the code runs, and how the modules show it

* **Coroutine handlers** (`async def`: sending, reading, editing, deleting, most of the membership
  routes, `ban_member`) have no `await` between their first query and their commit, because the database
  driver is synchronous. A replica runs one of them at a time. `Messaging` and `Membership` keep one handler
  per replica; handlers of different replicas interleave between statements.
* **Plain handlers** (`def`: everything under `routes/social_*`, identity, organizations, `create_invite`) run in
  FastAPI's thread pool, so even one process interleaves them: `SocialGraph`, `Posts`, `Accounts`,
  `Communities`, `Engagement` and `Organizations` have a set of threads.
* **Sessions.** `SessionLocal` is a session per request under READ COMMITTED (`autoflush=False`,
  `expire_on_commit=False`). A handler loads rows, computes in Python, and commits the *columns that differ from
  what it loaded* as literals. Each module with concurrent handlers has a variable `seen` (in `Engagement`, `loaded`) for the loaded rows and
  an operator `Save` or `Written` (or the literals in the commit) for the flush. Rows are loaded in one step when the
  handler's checks pass; statements of a handler that only read further rows are folded into it. The commit
  checks the unique constraints, and the foreign keys, against the rows committed by then.
* **Statements that write by themselves** (`UPDATE ... WHERE`, `DELETE ... WHERE`) see what is committed when they
  run, at some time between load and commit: in `Accounts` they take a prefix of the rows, up to a number `k` between
  those there at the load and those there at the commit.
* **Row lock.** `create_message` flushes its UPDATE of the conversation row long before the commit; the
  lock it takes is the variable `rowLock`, and other flushes wait for it. Handlers whose flush is their commit need none.
* **Processes stop** at any step: what was not committed is gone, what was stays (`Crash`, in `Outbox` `Restart`).

## 2. Modules

| Module | Models | EXTENDS / uses |
|---|---|---|
| `Messaging` | One conversation and its messages, requests on several replicas | instantiates `MessageLog` |
| `MessageLog` | Abstract specification: an append-only log in which a sender's key occurs once | |
| `Outbox` | The outbox table and its workers | |
| `Membership` | Members, roles, capacity, bans and the invite of one group conversation | |
| `SocialGraph` | Follows, friend requests, friendships, blocks and the profile counters | |
| `SocialProcesses` | The processes that work on posts and stories: threads and the social worker | |
| `Posts` | The posts of one author, handlers and the social worker | `SocialProcesses` |
| `Hub` | Sockets, rooms, broadcasts across replicas, presence | |
| `Accounts` | One account: user row, sessions, tokens, second factor, backup codes | |
| `Organizations` | One organization, its invitations and one custom role | |
| `Communities` | A page and a group, and the moderators who suspend them | |
| `Engagement` | What users do with a post and with stories | `SocialProcesses` |
| `MessagingProofs` | Theorems and proofs about messages and about the outbox that their transactions fill | `Messaging`, `Outbox`, `TLAPS` |
| `PostsProofs` | Theorems and proofs about posts, and about engagement with them | `Posts`, `Engagement`, `TLAPS` |
| `MembershipProofs`, `SocialGraphProofs`, `HubProofs`, `AccountsProofs`, `OrganizationsProofs`, `CommunitiesProofs` | Theorems and proofs | the module they name, `TLAPS` |
| `MCMessaging`, `MCMembership`, `MCSocialGraph`, `MCHub`, `MCAccounts`, `MCOrganizations`, `MCCommunities`, `MCEngagement` | Workloads, constraints and symmetry sets for TLC | the module they name |

Every module has one action per handler, split where another process may come in between (`BeginX`, the
checks and the read; `CommitX`, the write). Definitions preceded by "Mutant" are wrong variants of a definition; no
specification uses them. They show that a property would notice that bug.

**Messaging.** A request is one call of a handler; a message is named by the request that created it. `pc`
follows `create_message` through its statements: `BeginSend` reads the conversation and checks the sender
(lines 224-231), `ReplaySend`/`CheckSend` look up the `client_message_id` (233-258), `FlushSend` is `db.flush()`
with the row lock and both unique constraints, `CommitSend` is the rest of the transaction with read position, receipt and
outbox row, `AnnounceSend` the broadcast of the route. `mark_read`, `edit_message` and `delete_message` are
`BeginX`/`CommitX`. Whether the parent or the attachments pass their checks, and whether an edit window has passed, is a free choice.
Archiving and membership changes are single steps here; `Membership` has their detail.

**Outbox.** Events are numbered by `created_at`; the transactions that add them may commit in any order
(`Record`). `Select` takes the first `BatchSize` pending rows; `Publish`, or `FailPublish` with or without the broker having
got the event, go through them in order and change only the session; `Commit` writes what changed; `Restart` loses it. The names `OutboxSpec`,
`OutboxTypeOK` and the like keep the module apart from `Messaging` in the proofs.

**Membership.** `BeginX` is enabled when the handler passes its checks (a refusal changes nothing). One invite link and
one conversation; expiry of the link is a revocation. `update_member` with an omitted field writes the loaded
value, hence nothing. A behaviour takes place in one of the `Deployments`: which users, replicas, capacities and
operations there are. Organization membership, personal settings and direct conversations are left out.

**SocialGraph.** Users have profiles. A request row has a direction and one of four states; a commit that breaks
a unique constraint is rolled back (`Refuse`). The history variable `overlapped` records that two handlers have ever been under
way together.

**Posts.** `due` says that `scheduled_at` has passed. The worker is a session like the threads', its selection is `Due`. Page and
group counters are kept by the same statements as the profile's and are left out.

**Hub.** The methods hold `hub.lock` without awaiting, so each is one step, with the commit of the
presence row that follows. `broadcast_room` takes the list of sockets (`Broadcast`), sends to each (`Send`; a failing send disconnects), then
publishes (`Publish`); the listener of another replica repeats the local part (`Receive`). `FailConnect` is an exception in
the lines of the endpoint between `hub.connect` and its `try`.

**Accounts.** A refresh session has a family and is live, revoked or replaced; `refresh_session` with a live token is
`BeginRefresh`/`CommitRefresh`, with a spent one the reuse detection, which revokes the family. `logout` ends a session that is live; that of one that
was rotated or revoked, or of an API key, answers success and changes nothing (`logout_void`). Password reset and change, `logout_all`,
`logout_others`, status changes and deletion by an administrator revoke with statements (`RevokeAll`). Tokens replace
the unused ones of their purpose (`ReplaceTokens`). A login of an account with a confirmed factor gives an MFA
`ticket`; `challenge` turns it, with a TOTP code or a backup code, into a session. Time is only what the checks tell
apart: a lock that is in the future or past. `method` is the TOTP row, of which each handler writes the columns it changes; what it may set up,
confirm, disable and renew must keep agreeing with `mfa_enabled` and the backup codes. The history variables are `ended` (families whose current
session was logged out or revoked, in which a reuse was detected, or that a reset, a lock, a disabling or a deletion ended), `misses` (wrong passwords since the count was last reset) and `collided`: two handlers under way
that *conflict* (`Conflict`: one opens what the other ends, both write the failure count, both use up or replace the same rows, or one starts over the factor that the other confirms).

**Organizations.** Memberships of users, invitations, one custom role with `role_permissions` and
`user_roles` rows. `update_role` deletes the permissions and inserts those requested. The status of the organization is set by an owner or administrator; its deletion, which is the owner's, sets it too. Deleting a role that a membership, an
invitation or an assignment refers to, and referring to a role that has been deleted since it was loaded,
fails at the commit on the foreign key. `collided` is set when two handlers overlap of which one changes a membership
that the other has read or counted (`Cross`), and when a handler commits after one of those that write what it has read (`Touch`).

**Communities.** A page with followers, `follower_count` and `page_admins`; a group, open or by approval, with members that are
active, pending, muted or banned, `member_count`, managers who change them, and the moderators' suspension. A request to change a membership says
whether it is one's `own`; `resigned` records that the owner's own has been committed. `drifted` records that a
member became active or inactive in a way that the code does not count; `collided` that handlers for different users that write one counter
overlapped, or that a handler committed after another wrote what it had read.

**Engagement.** Reactions, saves, comments with replies and reactions, in a post that may be deleted; stories with views, deleted
by author or moderator, or by the worker when they have expired. `handler[t].stale` says that a count loaded by `t` has been changed
since; `collided`, that such a handler committed.

## 3. Runs

| Run | Question | Bounds, and why they are enough |
|---|---|---|
| `messaging_sends` | Are answers, receipts and the log right when sends, retries, reads, edits and deletions interleave with crashes and with changes of the conversation, and does every request end though flushes wait for the row lock? | 2 replicas, 2 requests: a holder of the lock and a waiter, a send and its retry. A conflict needs two requests. One key and no key cover equal and absent keys |
| `messaging_one_replica` | What does the single event loop guarantee that replicas do not? | 1 replica, 3 requests, all operations |
| `messaging_retry` | Is an overlapping retry always a replay? No | see findings |
| `outbox` | At-least-once, attempts, no starvation | 3 events in batches of 2, so that one event is always outside the batch; 2 attempts; 1 crash, before or after the broker got events |
| `membership` | Capacity, invite limit and bans | One replica: 3 users, every operation, `max_members` 2 or 3 and changed at any time, so that adding one user is refused and allowed; a link for one use, two joins tried. Two replicas, each with one handler under way: 2 users, the operations that race |
| `graph` | Counters and states of requests | 2 users in both directions, 2 threads, every handler. A counter is compared after any sequence of handlers, not after a fixed one |
| `posts` | Publishing against deletes, edits and removals | 2 posts (one may share the other), a thread and the worker: every race here has the worker or a second handler as its partner, and the worker is one |
| `hub` | Indexes, duplicates, delivery, presence | 1 user, 2 sockets, 2 replicas, an event, one mishap. Two sockets on the same or on different replicas are all the cases of "last socket" |
| `accounts` | Rotation, reuse, revocation, lockout, one-time tokens, the second factor | 2 threads, 2 passwords (old and new), lockout after 2 failures (so that one failure is not enough), 3 sessions: two generations of a family, or two families; 3 tokens, 3 batches of codes; seven workloads |
| `organizations` | Owners, invitations, permissions, deletion of a role that is in use | the owner and another user, 2 invitations (two for one user), 2 permissions, 2 threads; five workloads |
| `communities` | Counters, the owner, suspensions | an owner and 2 users, so that a manager and the member he changes may both differ from the owner, 2 threads; four workloads |
| `engagement` | Counters on posts, comments and stories; the end of stories | 2 users, 3 comments (a reply and its sibling), 2 stories (a batch of more than one), 2 threads and the worker; four workloads |

**Workloads.** All operations of a large module together are more than TLC can explore in minutes, so `Accounts`, `Organizations`,
`Communities` and `Engagement` take one of the sets of operations in `Workloads` in `Init`; each groups the operations
that write the same rows. The theorems hold for every set, hence for all operations together.

**Constraint.** `BeforeConflict` (`~collided`) stops the exploration where every property of the module has become vacuous. It cuts no
behaviour that a property speaks about, `GroupKeepsOwner` of `Communities` excepted: what follows a conflict is covered for it by the proof alone.
`Engagement.LoadCounts` has the same bound as a guard: no handler begins after a conflict.

Counters are bounded by the requests, events, posts, comments and joins of the instance, `MaxCrashes` (`Outbox`),
`MaxMishaps` (`Hub`), `MaxJoins` (`Membership`), `MaxSessions`, `MaxTokens`, `MaxCodes` (`Accounts`); with the constraint and the guard above these are all the bounds.
`CHECK_DEADLOCK FALSE` is given for `Membership`, where a deleted conversation with no member left really offers nothing to do, and
for `Posts`, `Accounts`, `Organizations`, `Communities` and `Engagement`, where the finite rows of the instance may be used up
or everything be deleted.

### Properties

* *Every interleaving*: `AnswersAreDurable`, `ReadPositionHasReceipt`, `ImplementsLog`; `PublishedWasDelivered`; `AnsweredStaysAnswered`;
  `CountedOnce`, `DeletedStaysHidden`; `IndexesAgree`, `AtMostOnce`; `GroupKeepsOwner`; the first part of `InviteWithinLimit`.
* *The deployment of `docker-compose.yml`* (one API process, one worker of each kind): `NoConflict`,
  `ReadPositionAdvances`, `SendsArePermitted`; `DuplicatesNeedACrash`; `JoinsFit`, `InviteWithinLimit`, `BanHolds` (Membership). With a second
  replica or worker these fail, which the hazards note.
* *Handlers that do not overlap* (`Serial...`): the counters, the requests and the friendships.
* *Until a conflict* (`~collided`): what `Accounts`, `Organizations`, `Communities` and `Engagement` promise otherwise. Handlers of different
  operations may overlap freely; what is excluded is exactly the overlaps that break the property: a handler that
  commits what it computed from rows another has changed since, and the pairs of `Conflict` (`Accounts`) and `Cross` (`Organizations`).
  What those lead to is in section 5.
* *Without failures* (`mishaps = 0`): `FanOutComplete`, `PresenceMatches`. With them delivery is best effort:
  events published while a listener is down are lost, and clients are expected to fetch by sequence.

`CountsMatch` of `Communities` further stops at `drifted`.

What some of them do *not* say: `EndedFamilyStaysEnded` is about the session that is current when the family is ended (the logout of a rotated one ends
nothing); `BlockedHasNoSession` is about the status of the account, not about `deleted_at`, which outlives it; `SecondFactorAgrees` does not say
that an authenticator is accepted whenever one is asked for; `AssignedRoleStays` is about `user_roles`, not about memberships with the role;
`CountedOnce` allows a post that is never counted.

### Fairness

* `Messaging`: weak fairness of the steps of a request already taken. The event loop runs a coroutine on, and the
  holder of a row lock is itself such a request or dead, in which case PostgreSQL rolls back (`Crash`). Nothing forces
  clients to send.
* `Outbox`: weak fairness of the worker's steps: the worker loops for ever and is restarted by compose
  (`restart: unless-stopped`).
* `Posts` and `Engagement`: weak fairness of the social worker only, of publishing and of expiring stories: it polls every 30
  seconds. Handlers have none.

## 4. Proofs

What follows holds for all values of the constants, by TLAPS. Where a theorem is about a checked property, `PROJECT.json` says so.

**Messaging** (assumptions: those of the module's constants). None of the safety properties is
inductive alone. `IInv` adds what holds of a request at each step of its handler: what it read of `next_sequence` is never ahead of
the row (`ReadIsOld`); a request between flush and commit holds the row lock and does not collide with a stored row
(`TransactionIsCurrent`). The point of the proof: stored sequences have no gap, so a stale read of `next_sequence` repeats a
stored sequence, and the unique constraint refuses it. The lock keeps that true until the commit. Hence the commit appends exactly one sequence.
From `Invariance` follow `TypeCorrect`, `GapFree`, `Idempotent`, `AllOrNothing`, `ReadPositionsBacked`, `Durable`, `Announced`; and
`Refinement` (`Spec => ImplementsLog`): a commit of a send is an append of `MessageLog`, every other step leaves the log alone.

*One replica* (`OneReplica`: any two replicas are equal; requests, users, keys and members are arbitrary). `OneAtATime`: while a request
is under way no other is (`Running`), and what it has read of the conversation, of its sender's membership, of the messages
and of the read position is still so (`Current`). It is inductive because a step begins a request when none runs, or continues the one that
runs (`StepOfOne`); the steps that change rows by themselves are handlers too and wait for the loop. `Conflictless`, `Permitted`,
`ReadsAdvance` and `DeletedStays` follow. With two replicas each of the four is false, which is why they are theorems with this hypothesis.

**Outbox.** `AtLeastOnce` holds for any set of workers, from the invariant `Delivery`: what a
session has marked published was delivered. `Deliveries`, `Failures` and `Settled` assume `OneWorker`, the deployment of compose; their
invariant `Accounted` says that the rows of the worker's batch are still as it selected them, and that its session is
at most one attempt ahead of each.

**Membership** (finite users and replicas, `MaxUses` positive). The invariant joins the types with `Counted` (the uses of the invite never
exceed its limit nor the joins, and of one replica equal them), `Passed` (what a handler under way has checked, whatever others
committed since) and `Fresh` (on one replica what it has loaded is still so). `WithinLimit`, `Banned`, `Fitting`.

**SocialGraph** (any users, any threads). `Answered` needs only the types. `CountersMatch` and `RequestsMatch` rest on `Serial`: as
long as nothing overlapped at most one handler is under way, and what it loaded is `Fresh`; then each commit moves a counter and the set
it counts by the same one element.

**Posts** (finite posts). `Counting`: a post that is absent or waits for its time was never counted. `Working`: the posts a session
creates are its own, and those the worker publishes are not counted yet, whatever the handlers have done to
them since it selected them. Hence `Counted` and `Hidden` under every interleaving;
`SerialCounts` adds the sets that `share_count` and `post_count` count.

**Hub** (somebody somewhere: users and replicas are not empty). `Once` needs `Coming`: an event comes to each replica once, to the one it began on when it is broadcast, to
the others when they take it out of the inbox, and until then nothing of it has reached the sockets there. `Complete` follows the event through `Delivering`, `Reaching`, `Reached`. `Presence` rests on
`Registered` (a registered connection is open).

**Accounts** (`MaxFailures` positive; any threads, sessions, tokens, codes and workloads). Until two handlers conflicted no two handlers
under way do (`Apart`). Then: `Locks` relates `misses`, `failed_login_count` and the lock, with those of the
handler that counts; `TokensOnce` and `CodesOnce` say that what a handler is about to use up is still there; `SessionsSound`
says that what a handler is about to open belongs to a family that has no other live session, is not ended and has the present password;
`FactorSound` says, besides `SecondFactorAgrees`, what a handler of the factor has loaded of the method and how far the codes it is to delete reach,
which makes each column-wise commit (`FactorCommit`) leave the three rows in agreement.

**Organizations** (finite users only for `OwnerKept`). `Unused`: an invitation that a fresh handler is about to accept has not been used;
`RoleReads`: what a fresh handler has read of the role is so; `Removals`: no membership changes while a member is being removed,
so the owners that were counted are there.

**Communities** (the owner is a user, and no member is given the role of owner). `TypeCorrect` needs only types. The rest is about what a handler that nothing has
overtaken may rely on: until it is `stale`, what it loaded of its page, group or member row is so, and the checks it passed (that the page may be
managed) would still pass. A commit is then a change of one member or follower: `OneMore` gives the
cardinality on one side and the written literal the other, `drifted` records the two ways in which the code's rule for `member_count` is not
that of the set. `Counted`, `Suspended`. `OwnerKept` holds after conflicts too, from `OwnerSound`: a handler under way about another member has neither
loaded nor been asked to write the role of owner, and one about the owner's membership is the owner's own (`OwnerHandler`); a commit gives the row a role it had, one
the handler loaded, or the one asked for (`RowChanges`).

**Engagement** (`NoComment` and the worker are nobody else). `CountsMatch` is about counters that several actors write on three levels, and about rows that
two kinds of deletion treat differently. `EngagementInv` adds: what a handler that is not stale has loaded is so (`UpToDate`); what it
works on is there, whatever became of it (`WorksOn`); a comment is under its parent for good, its parent was there before, and what `delete_comment`
has taken off the counts is never active again (`CommentsFit`), so a removal by a moderator and a deletion cannot both uncount it;
sessions that write new comments write different ones (`NewIds`). `Frame` says what a commit may change of the rows others rely on, and
`HandlerKeeps` that a handler whose counter was not written keeps its facts; each commit is shown to stay in its frame once, and
not once per pair of handlers. `EngagementTypeCorrect`, `EngagementCounts`.

**Model-checked only**: the liveness properties (`EveryRequestEnds`, `EveryEventSettles`, `EveryDuePostSettles`, `EveryStoryEnds`), which
rest on ENABLED. Every invariant and every action property that a passing run checks is stated by a theorem.

## 5. Findings

* `messaging_retry`: a retry that overlaps its first send on another replica passes the lookup, and `db.flush()`, which stands outside the `try`
  that turns an `IntegrityError` into a replay, raises. The client gets an error for a message that is stored; a further retry is a replay.

The models follow the code where it does less than one may expect. Where a document speaks of it, it is quoted:

* Overlapping handlers lose increments of the counters (`docs/ARCHITECTURE.md:16` has them updated in the transaction of their source, which they are, but from an old read). Every property on
  counters therefore stops where handlers overlap or commit over each other.
* Two refreshes of one token at once both succeed; and a refresh under way while its family is logged out, its reuse is detected
  or the password is reset leaves a live session behind. The token is checked when it is loaded and nothing
  checks it again. This is `Conflict`. For reuse this falls short of `docs/INTEGRATION_GUIDE.md:9` ("If reuse is detected, the token family is
  revoked and the user must authenticate again") and `SECURITY.md:9` ("Refresh-token family revocation after reuse"): of a session opened while the
  family is being revoked the family is not rid.
* Logging out or revoking a session that has been rotated already answers success; the session that was derived from it goes on
  (`auth.py:186`, `sessions.py:46`).
* An MFA ticket obtained before a password change or reset stays valid until it expires, and opens a session.
* `reset_password` and `verify_email` set the status to active, that of a disabled or deleted account too, and so does a login after a moderator's
  suspension of one: the account then logs in and refreshes with `deleted_at` set. Resolving a report with a suspension revokes no session.
* `setup_totp` over a confirmed factor keeps it required but unconfirmed: until it is confirmed only backup codes pass. When it overlaps `confirm_totp`,
  the new secret is in force without having been confirmed.
* A request that uses a backup code to disable the factor or to renew the codes always fails at its commit: it updates a row that it has deleted.
* Members of a group who are banned may leave, which deletes the banned row, and join again, unbanned. The owner of a group may give up the role; `leave_group` asks
  to transfer the ownership first, but no endpoint does. A muted member who joins again is not counted, and
  `member_count` never falls below one.
* A page update that overlaps a moderator's suspension writes back the status it loaded.
* `add_members` with the id of an active owner overwrites the owner's role, although `update_member` refuses that (`conversations.py:280`, `:310`);
  `update_member` of organizations may demote the last owner; a second pending invitation
  restores or demotes a member who has joined by the first.
* Nothing checks the status of an organization.

## 6. Not modelled

* *Uploads*: what can go wrong is between a row and a file (`messages.py:344`); the file system is outside the models.
* *Direct conversations*: lookup by key and insertion (`conversations.py:83`).
* *API keys*: their creation, rotation and revocation. `Accounts` has requests made with one.
* *Reports*: their own state. What resolving one does to its subject is modelled.
* Hidden groups, which nobody may join, and the `view_count` of posts, which every `get_post` increments.
* Poll votes, hashtags, collections, edits of comments, pins, forwarding, message reactions, typing, presence set by hand, broadcasts to a user.
* Notifications and audit rows: written in the transaction of their handler, read by nothing that changes state.
* Feeds, listings and search: read-only.
* Validation of payloads, token signatures and expiry, rate limiting, email, health, seed and export scripts.

## 7. Plan

In this order:

1. `Uploads` and `DirectConversations`: check-then-act on rows and files; the unique direct key after a deletion.
2. A composition of `Messaging` and `Outbox`: a stored message is delivered to the broker in the end.
3. What two replicas of the API still guarantee in `Membership` and `Messaging`, as theorems without `OneReplica`.
4. API keys and reports in `Accounts` and `Posts`.
