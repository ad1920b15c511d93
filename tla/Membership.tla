----------------------------- MODULE Membership -----------------------------
(***************************************************************************)
(* The members of one group conversation and one invite link to it         *)
(* (app/routes/conversations.py, and banning in app/routes/moderation.py). *)
(*                                                                         *)
(* The handlers that change members are coroutines without an await        *)
(* between their first query and their commit: a replica runs one of them  *)
(* at a time, handlers of different replicas interleave, each committing   *)
(* the columns that it changed in the rows its session loaded.  Handlers   *)
(* of the conversation row commit in one step on an idle replica; those    *)
(* that create or revoke the link run in a thread, at any time.            *)
(***************************************************************************)
EXTENDS Naturals, FiniteSets

CONSTANTS
  Users,
  Creator,     \* who created the conversation
  MaxUses,     \* max_uses of the invite
  MaxJoins,    \* bound on the accepted invites
  Replicas,    \* API processes
  Deployments  \* the instances one run checks, see below

Handlers == {"add", "update", "remove", "leave", "accept", "ban", "unban"}
Roles == {"owner", "admin", "moderator", "member"}
Statuses == {"none", "active", "left", "removed", "banned"}  \* "none": no row

ASSUME CreatorIsAUser == Creator \in Users
ASSUME InstanceIsFinite == IsFiniteSet(Users) /\ IsFiniteSet(Replicas)
ASSUME MaxUsesIsPositive == MaxUses \in Nat \ {0}

\* Who takes part, on which replicas, with which values of max_members (at
\* least 2), which roles managers give and what members and moderators do.
ASSUME DeploymentsAreKnown ==
  \A d \in Deployments : /\ DOMAIN d = {"users", "replicas", "capacities", "granted", "operations"}
                         /\ Creator \in d.users /\ d.users \subseteq Users
                         /\ d.replicas \subseteq Replicas
                         /\ d.capacities \subseteq Nat \ {0, 1}
                         /\ d.granted \subseteq Roles
                         /\ d.operations \subseteq Handlers \cup {"invite", "revoke", "resize", "status"}

VARIABLES
  deployment,    \* the instance checked in this behaviour
  members,       \* the conversation_members rows
  conversation,  \* status and max_members of the conversations row
  invite,        \* the conversation_invites row
  task,          \* the handler each replica runs
  seen,          \* the rows its session loaded
  joins          \* history: invites accepted so far

vars == <<deployment, members, conversation, invite, task, seen, joins>>

MemberRows == [role : Roles, status : Statuses]
InviteRows == [state : {"none", "open", "revoked"}, uses : Nat]
NoTask == [op |-> "idle", actor |-> Creator, targets |-> {},
           role |-> "member", status |-> "active"]
Tasks == [op : Handlers \cup {"idle"}, actor : Users, targets : SUBSET Users,
          role : Roles, status : Statuses]
NoMember == [role |-> "member", status |-> "none"]
NoRead == [members |-> [u \in Users |-> NoMember], uses |-> 0]

TypeOK ==
  /\ deployment \in Deployments
  /\ members \in [Users -> MemberRows]
  /\ conversation \in [status : {"active", "archived", "deleted"}, capacity : Nat]
  /\ invite \in InviteRows
  /\ task \in [Replicas -> Tasks]
  /\ seen \in [Replicas -> [members : [Users -> MemberRows], uses : Nat]]
  /\ joins \in Nat

ActiveIn(rows) == {u \in Users : rows[u].status = "active"}
Managers(rows) == {u \in ActiveIn(rows) : rows[u].role \in {"owner", "admin"}}

\* create_conversation: the creator owns it, the participants are members.
Init ==
  /\ deployment \in Deployments
  /\ \E S \in SUBSET (deployment.users \ {Creator}), n \in deployment.capacities :
       /\ Cardinality(S) + 1 <= n
       /\ members = [u \in Users |->
            IF u = Creator THEN [role |-> "owner", status |-> "active"]
            ELSE [role |-> "member", status |-> IF u \in S THEN "active" ELSE "none"]]
       /\ conversation = [status |-> "active", capacity |-> n]
  /\ invite = [state |-> "none", uses |-> 0]
  /\ task = [p \in Replicas |-> NoTask]
  /\ seen = [p \in Replicas |-> NoRead]
  /\ joins = 0

\* require_member, and require_manager with admin_only.
IsMember(u) == conversation.status # "deleted" /\ members[u].status = "active"
IsAdmin(u) == IsMember(u) /\ members[u].role \in {"owner", "admin"}

-----------------------------------------------------------------------------
(* A handler on its replica.                                               *)

\* It has passed its checks; those that do not change nothing.
Load(p, t) ==
  /\ p \in deployment.replicas /\ t.op \in deployment.operations
  /\ task[p] = NoTask
  /\ task' = [task EXCEPT ![p] = t]
  /\ seen' = [seen EXCEPT ![p] = [members |-> members, uses |-> invite.uses]]
  /\ UNCHANGED <<deployment, members, conversation, invite, joins>>

Finish(p) == /\ task' = [task EXCEPT ![p] = NoTask]
             /\ seen' = [seen EXCEPT ![p] = NoRead]

\* The row of u after replica p committed new values: the columns that differ
\* from what p loaded.
Written(p, u, new) ==
  LET loaded == seen[p].members[u] IN
  [role   |-> IF new.role = loaded.role THEN members[u].role ELSE new.role,
   status |-> IF new.status = loaded.status THEN members[u].status ELSE new.status]

\* Every row p would insert is still missing (uq_conversation_member).
Insertable(p, S) ==
  \A u \in S : seen[p].members[u].status = "none" => members[u].status = "none"

Refuse(p) == Finish(p) /\ UNCHANGED <<deployment, members, conversation, invite, joins>>

\* Replica p gives each user of S the row new(u).
CommitRows(p, S, new(_)) ==
  \/ /\ Insertable(p, S)
     /\ members' = [u \in Users |-> IF u \in S THEN Written(p, u, new(u)) ELSE members[u]]
     /\ Finish(p)
     /\ UNCHANGED <<deployment, conversation, invite, joins>>
  \/ ~Insertable(p, S) /\ Refuse(p)

-----------------------------------------------------------------------------
(* The handlers.                                                           *)

\* Mutant: the capacity is compared before the new members are counted.
BeginAddBeforeCount(p, actor, S, role) ==
  /\ S # {} /\ role # "owner"
  /\ IsAdmin(actor)
  /\ Cardinality(ActiveIn(members)) < conversation.capacity
  /\ \A u \in S \ {actor} : members[u].status # "banned"
  /\ Load(p, [NoTask EXCEPT !.op = "add", !.actor = actor,
                            !.targets = S \ {actor}, !.role = role])

\* Mutant: a banned member may be added again.
BeginAddBanned(p, actor, S, role) ==
  /\ S # {} /\ role # "owner"
  /\ IsAdmin(actor)
  /\ Cardinality(ActiveIn(members)) + Cardinality(S) <= conversation.capacity
  /\ Load(p, [NoTask EXCEPT !.op = "add", !.actor = actor,
                            !.targets = S \ {actor}, !.role = role])

\* The capacity is compared with the ids given, the actor's own is skipped.
BeginAdd(p, actor, S, role) ==
  /\ S # {} /\ role # "owner"
  /\ IsAdmin(actor)
  /\ Cardinality(ActiveIn(members)) + Cardinality(S) <= conversation.capacity
  /\ \A u \in S \ {actor} : members[u].status # "banned"
  /\ Load(p, [NoTask EXCEPT !.op = "add", !.actor = actor,
                            !.targets = S \ {actor}, !.role = role])

CommitAdd(p) ==
  /\ task[p].op = "add"
  /\ CommitRows(p, task[p].targets, LAMBDA u : [role |-> task[p].role, status |-> "active"])

\* The payload gives a role, a status or both; an omitted one stays as loaded.
BeginUpdate(p, actor, u, role, status) ==
  /\ IsAdmin(actor)
  /\ members[u].status # "none"
  /\ members[u].role = "owner" => actor = u
  /\ Load(p, [NoTask EXCEPT !.op = "update", !.actor = actor, !.targets = {u},
                            !.role = role, !.status = status])

CommitUpdate(p) ==
  /\ task[p].op = "update"
  /\ CommitRows(p, task[p].targets, LAMBDA u : [role |-> task[p].role, status |-> task[p].status])

BeginRemove(p, actor, u) ==
  /\ IsAdmin(actor)
  /\ members[u].status # "none" /\ members[u].role # "owner"
  /\ Load(p, [NoTask EXCEPT !.op = "remove", !.actor = actor, !.targets = {u},
                            !.status = "removed"])

\* An owner may go only if another owner or admin stays.
BeginLeave(p, u) ==
  /\ IsMember(u)
  /\ members[u].role = "owner" => Managers(members) \ {u} # {}
  /\ Load(p, [NoTask EXCEPT !.op = "leave", !.actor = u, !.targets = {u}, !.status = "left"])

\* ban_member and unban_member: a global permission, no membership asked.
BeginBan(p, u) ==
  /\ members[u].status # "none" /\ members[u].role # "owner"
  /\ Load(p, [NoTask EXCEPT !.op = "ban", !.targets = {u}, !.status = "banned"])

BeginUnban(p, u) ==
  /\ members[u].status # "none"
  /\ Load(p, [NoTask EXCEPT !.op = "unban", !.targets = {u}, !.status = "removed"])

\* remove_member, leave_conversation, ban_member and unban_member set the status.
CommitStatus(p) ==
  /\ task[p].op \in {"remove", "leave", "ban", "unban"}
  /\ CommitRows(p, task[p].targets,
       LAMBDA u : [role |-> seen[p].members[u].role, status |-> task[p].status])

\* Mutant: one use too many is allowed.
BeginAcceptOneMore(p, u) ==
  /\ joins < MaxJoins
  /\ invite.state = "open" /\ invite.uses <= MaxUses
  /\ conversation.status = "active"
  /\ Cardinality(ActiveIn(members)) < conversation.capacity
  /\ members[u].status # "banned"
  /\ Load(p, [NoTask EXCEPT !.op = "accept", !.actor = u, !.targets = {u}])

BeginAccept(p, u) ==
  /\ joins < MaxJoins
  /\ invite.state = "open" /\ invite.uses < MaxUses
  /\ conversation.status = "active"
  /\ Cardinality(ActiveIn(members)) < conversation.capacity
  /\ members[u].status # "banned"
  /\ Load(p, [NoTask EXCEPT !.op = "accept", !.actor = u, !.targets = {u}])

\* The use is counted even if the user was an active member already.
CommitAccept(p) ==
  LET u == task[p].actor IN
  /\ task[p].op = "accept"
  /\ \/ /\ Insertable(p, {u})
        /\ members' = [members EXCEPT ![u] =
             Written(p, u, [role |-> seen[p].members[u].role, status |-> "active"])]
        /\ invite' = [invite EXCEPT !.uses = seen[p].uses + 1]
        /\ joins' = joins + 1
        /\ Finish(p)
        /\ UNCHANGED <<deployment, conversation>>
     \/ ~Insertable(p, {u}) /\ Refuse(p)

\* create_invite and revoke_invite (which stands for expiry, too).
CreateInvite ==
  /\ "invite" \in deployment.operations
  /\ invite.state = "none" /\ \E u \in Users : IsAdmin(u)
  /\ invite' = [state |-> "open", uses |-> 0]
  /\ UNCHANGED <<deployment, members, conversation, task, seen, joins>>

RevokeInvite ==
  /\ "revoke" \in deployment.operations
  /\ invite.state = "open"
  /\ invite' = [invite EXCEPT !.state = "revoked"]
  /\ UNCHANGED <<deployment, members, conversation, task, seen, joins>>

\* update_conversation with max_members.
Resize(p) ==
  /\ "resize" \in deployment.operations
  /\ p \in deployment.replicas /\ task[p] = NoTask
  /\ \E u \in Users : IsAdmin(u)
  /\ \E n \in deployment.capacities : conversation' = [conversation EXCEPT !.capacity = n]
  /\ UNCHANGED <<deployment, members, invite, task, seen, joins>>

\* archive_conversation, unarchive_conversation, delete_conversation.
SetStatus(p) ==
  /\ "status" \in deployment.operations
  /\ p \in deployment.replicas /\ task[p] = NoTask
  /\ \E u \in Users : IsAdmin(u)
  /\ \E s \in {"active", "archived", "deleted"} :
       conversation' = [conversation EXCEPT !.status = s]
  /\ UNCHANGED <<deployment, members, invite, task, seen, joins>>

Begin(p) ==
  \E u \in deployment.users :
    \/ BeginLeave(p, u) \/ BeginBan(p, u) \/ BeginUnban(p, u) \/ BeginAccept(p, u)
    \/ \E S \in SUBSET deployment.users, role \in deployment.granted : BeginAdd(p, u, S, role)
    \/ \E actor \in deployment.users : BeginRemove(p, actor, u)
    \/ \E actor \in deployment.users, role \in deployment.granted \cup {members[u].role},
          status \in {"active", "removed", "banned", members[u].status} :
         BeginUpdate(p, actor, u, role, status)

Commit(p) == CommitAdd(p) \/ CommitUpdate(p) \/ CommitStatus(p) \/ CommitAccept(p)

Next ==
  \/ \E p \in Replicas : Begin(p) \/ Commit(p) \/ Resize(p) \/ SetStatus(p)
  \/ CreateInvite \/ RevokeInvite

Spec == Init /\ [][Next]_vars

-----------------------------------------------------------------------------
(* Properties.                                                             *)

\* Replica p commits the handler op in this step.
Commits(p, op) == task[p].op = op /\ task'[p] = NoTask

\* One replica serves the conversation.
Alone == Cardinality(deployment.replicas) = 1

\* Neither add_members nor accept_invite of the only replica fills the
\* conversation beyond max_members.
JoinsFit ==
  [][\A p \in Replicas :
       /\ Alone
       /\ Commits(p, "add") \/ Commits(p, "accept")
       /\ Cardinality(ActiveIn(members')) > Cardinality(ActiveIn(members))
       => Cardinality(ActiveIn(members')) <= conversation.capacity]_vars

\* accept_invite of one replica lets in no more users than the invite allows.
\* Replicas lose increments of uses to one another, so that more come in, but
\* the count never exceeds the limit nor the users who joined.
InviteWithinLimit ==
  /\ invite.uses <= MaxUses /\ invite.uses <= joins
  /\ Alone => joins <= MaxUses

\* On one replica only update_member makes a banned member active; with more,
\* a change of role alone keeps the ban that another replica committed after
\* the member was loaded.
BanHolds ==
  [][\A u \in Users, p \in Replicas :
       members[u].status = "banned" /\ members'[u].status = "active" /\ task'[p] # task[p]
       => IF Commits(p, "update") THEN task[p].status # seen[p].members[u].status ELSE ~Alone]_vars
=============================================================================
