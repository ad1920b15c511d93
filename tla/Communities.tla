---------------------------- MODULE Communities -----------------------------
(***************************************************************************)
(* A page with its followers and administrators and a group with its       *)
(* members (app/routes/social_communities.py), and the moderators who      *)
(* suspend them (app/routes/social_moderation.py).                         *)
(*                                                                         *)
(* Handlers run in threads: each loads rows, checks them, and commits the  *)
(* columns it changed, with literals computed from what it loaded.         *)
(***************************************************************************)
EXTENDS Naturals, FiniteSets

CONSTANTS
  Users,     \* active users
  Owner,     \* the one who created the page and the group
  Threads,   \* threads of the API processes
  NewRoles,  \* bound: the roles that requests give to members
  Workloads  \* sets of operations; one of them is in play in a behaviour

ASSUME OwnerIsUser == Owner \in Users

PageStatuses == {"active", "hidden", "suspended"}
GroupStatuses == {"active", "archived", "suspended"}
MemberRoles == {"owner", "admin", "moderator", "member"}
MemberStatuses == {"active", "pending", "muted", "banned"}

\* GroupMemberUpdate has no role of owner to give.
ASSUME NewRolesAreGiven == NewRoles \subseteq MemberRoles \ {"owner"}

\* A page_admins or group_members row that does not exist.
NoAdmin == "none"
NoMember == [role |-> "none", status |-> "none"]

\* How one joins: "approval" stands for approval_required or a private group.
Entries == {"open", "approval"}

\* What a request asks to set; own: of the one who makes the request.
Nothing == [role |-> "none", status |-> "none", entry |-> "none", own |-> FALSE]
SetStatus(status) == [Nothing EXCEPT !.status = status]

VARIABLES
  page,      \* the social_pages row: its status and its number of followers
  follows,   \* the users with a page_follows row
  admins,    \* the role of each user's page_admins row
  group,     \* the social_groups row
  members,   \* the group_members rows
  task,      \* the handler each thread runs
  seen,      \* what its session loaded
  workload,  \* the operations in play
  drifted,   \* history: a member has become active or inactive without being counted
  resigned,  \* history: the owner has changed his own membership of the group
  collided   \* history: two handlers that conflict have run at the same time, or one has
             \* committed what it computed from what another had changed

rows == <<page, follows, admins, group, members>>
vars == <<page, follows, admins, group, members, task, seen, workload, drifted, resigned, collided>>

SocialPage == [status : PageStatuses, follower_count : Nat]
SocialGroup == [status : GroupStatuses, entry : Entries, member_count : Nat]
GroupMember == [role : MemberRoles, status : MemberStatuses] \cup {NoMember}
AdminRoles == {"admin", "editor", "analyst", NoAdmin}

Idle == [op |-> "idle", target |-> Owner, value |-> Nothing, stale |-> FALSE]
NoRead == [page |-> [status |-> "active", follower_count |-> 0],
           group |-> [status |-> "active", entry |-> "open", member_count |-> 1],
           member |-> NoMember, admin |-> NoAdmin]

\* The membership of the one who created the group.
Owning == [role |-> "owner", status |-> "active"]

\* create_page and create_group.
Init ==
  /\ page = [status |-> "active", follower_count |-> 0]
  /\ follows = {}
  /\ admins = [u \in Users |-> IF u = Owner THEN "admin" ELSE NoAdmin]
  /\ \E entry \in Entries :
       group = [status |-> "active", entry |-> entry, member_count |-> 1]
  /\ members = [u \in Users |-> IF u = Owner THEN Owning ELSE NoMember]
  /\ task = [t \in Threads |-> Idle]
  /\ seen = [t \in Threads |-> NoRead]
  /\ workload \in Workloads
  /\ drifted = FALSE
  /\ resigned = FALSE
  /\ collided = FALSE

Active(m) == m.status = "active"

-----------------------------------------------------------------------------
(* Handlers.                                                               *)

\* What a handler loads and writes: when another one commits to the same, what
\* it has loaded is stale.
Writes(op) ==
  CASE op \in {"follow", "unfollow"} -> {"follower_count"}
    [] op \in {"join", "leave", "member"} -> {"member_count"}
    [] op \in {"page", "hide", "suspend_page"} -> {"page"}
    [] op \in {"group", "suspend_group"} -> {"group"}
    [] op \in {"add_admin", "remove_admin"} -> {"admins"}
    [] OTHER -> {}

\* The operations that write the page or the group row.
PageOps == {"follow", "unfollow", "page", "hide", "suspend_page"}
GroupOps == {"join", "leave", "member", "group", "suspend_group"}

Load(t, op, target, value) ==
  /\ op \in workload
  /\ task[t].op = "idle"
  /\ task' = [task EXCEPT ![t] = [op |-> op, target |-> target, value |-> value, stale |-> FALSE]]
  /\ seen' = [seen EXCEPT ![t] =
                [page |-> IF op \in PageOps THEN page ELSE NoRead.page,
                 admin |-> IF op = "add_admin" THEN admins[target] ELSE NoAdmin,
                 group |-> IF op \in GroupOps THEN group ELSE NoRead.group,
                 member |-> IF op \in {"join", "leave", "member"} THEN members[target] ELSE NoMember]]
  /\ collided' = (collided \/ \E s \in Threads :
                     /\ Writes(op) \cap Writes(task[s].op) # {}
                     /\ task[s].target # target \/ {op, task[s].op} = {"member"})
  /\ UNCHANGED <<rows, workload, drifted, resigned>>

Committing(t, op) == task[t].op = op

Finish(t) ==
  /\ task' = [s \in Threads |->
       IF s = t THEN Idle
       ELSE [task[s] EXCEPT !.stale = task[s].stale \/ Writes(task[s].op) \cap Writes(task[t].op) # {}]]
  /\ seen' = [seen EXCEPT ![t] = NoRead]
  /\ resigned' = (resigned \/ (task[t].value.own /\ task[t].target = Owner))
  /\ collided' = (collided \/ task[t].stale)
  /\ UNCHANGED workload

\* A unique constraint, or an UPDATE that finds no row: rolled back.
Refuse(t) ==
  /\ task' = [task EXCEPT ![t] = Idle]
  /\ seen' = [seen EXCEPT ![t] = NoRead]
  /\ UNCHANGED <<rows, workload, drifted, resigned, collided>>

\* The columns of an UPDATE are those that differ from what was loaded.
Written(loaded, new, old) == IF new = loaded THEN old ELSE new

SavePage(t, new) ==
  page' = [c \in DOMAIN page |-> Written(seen[t].page[c], new[c], page[c])]
SaveGroup(t, new) ==
  group' = [c \in DOMAIN group |-> Written(seen[t].group[c], new[c], group[c])]
SaveMember(t, u, new) ==
  members' = [members EXCEPT ![u] =
    [c \in {"role", "status"} |-> Written(seen[t].member[c], new[c], members[u][c])]]

-----------------------------------------------------------------------------
(* The page.                                                               *)

\* Mutant: the status of the page is not looked at.
MayManageAnyPage(u, roles) == u = Owner \/ admins[u] \in roles

\* ensure_page_access.
MayManagePage(u, roles) ==
  /\ page.status # "suspended"
  /\ u = Owner \/ admins[u] \in roles

BeginFollow(t, u) == page.status = "active" /\ u \notin follows /\ Load(t, "follow", u, Nothing)

CommitFollow(t) ==
  /\ Committing(t, "follow")
  /\ \/ task[t].target \in follows /\ Refuse(t)
     \/ /\ task[t].target \notin follows
        /\ follows' = follows \cup {task[t].target}
        /\ SavePage(t, [seen[t].page EXCEPT !.follower_count = seen[t].page.follower_count + 1])
        /\ Finish(t)
        /\ UNCHANGED <<admins, group, members, drifted>>

BeginUnfollow(t, u) == u \in follows /\ Load(t, "unfollow", u, Nothing)

LessOne(n, least) == IF n > least THEN n - 1 ELSE least

\* The DELETE of a row that is gone deletes nothing.
CommitUnfollow(t) ==
  /\ Committing(t, "unfollow")
  /\ follows' = follows \ {task[t].target}
  /\ SavePage(t, [seen[t].page EXCEPT !.follower_count = LessOne(seen[t].page.follower_count, 0)])
  /\ Finish(t)
  /\ UNCHANGED <<admins, group, members, drifted>>

\* update_page with a status, and delete_page, which is the owner's.
BeginUpdatePage(t, u, status) ==
  MayManagePage(u, {"admin", "editor"}) /\ Load(t, "page", Owner, SetStatus(status))
BeginHidePage(t, u) == MayManagePage(u, {}) /\ Load(t, "hide", Owner, SetStatus("hidden"))

CommitUpdatePage(t, op) ==
  /\ Committing(t, op)
  /\ SavePage(t, [seen[t].page EXCEPT !.status = task[t].value.status])
  /\ Finish(t)
  /\ UNCHANGED <<follows, admins, group, members, drifted>>

BeginAddAdmin(t, u, target, role) ==
  MayManagePage(u, {"admin"}) /\ Load(t, "add_admin", target, [Nothing EXCEPT !.role = role])

\* A row that was loaded is updated, else one is inserted; the row may have been
\* created or deleted in between.
CommitAddAdmin(t) ==
  LET u == task[t].target
      loaded == seen[t].admin
  IN
  /\ Committing(t, "add_admin")
  /\ \/ (loaded = NoAdmin) # (admins[u] = NoAdmin) /\ Refuse(t)
     \/ /\ (loaded = NoAdmin) = (admins[u] = NoAdmin)
        /\ admins' = [admins EXCEPT ![u] = Written(loaded, task[t].value.role, admins[u])]
        /\ Finish(t)
        /\ UNCHANGED <<page, follows, group, members, drifted>>

BeginRemoveAdmin(t, u, target) ==
  /\ MayManagePage(u, {}) /\ target # Owner
  /\ admins[target] # NoAdmin
  /\ Load(t, "remove_admin", target, Nothing)

CommitRemoveAdmin(t) ==
  /\ Committing(t, "remove_admin")
  /\ admins' = [admins EXCEPT ![task[t].target] = NoAdmin]
  /\ Finish(t)
  /\ UNCHANGED <<page, follows, group, members, drifted>>

-----------------------------------------------------------------------------
(* The group.                                                              *)

\* ensure_group_member.
MayManageGroup(u, roles) ==
  group.status # "suspended" /\ Active(members[u]) /\ members[u].role \in roles

BeginUpdateGroup(t, u, status, entry) ==
  /\ MayManageGroup(u, {"owner", "admin"})
  /\ Load(t, "group", Owner, [SetStatus(status) EXCEPT !.entry = entry])

CommitUpdateGroup(t) ==
  /\ Committing(t, "group")
  /\ SaveGroup(t, [seen[t].group EXCEPT !.status = task[t].value.status,
                                        !.entry = task[t].value.entry])
  /\ Finish(t)
  /\ UNCHANGED <<page, follows, admins, members, drifted>>

\* Of the members there are, join_group changes a muted one only.
BeginJoin(t, u) ==
  /\ group.status = "active"
  /\ members[u] = NoMember \/ members[u].status = "muted"
  /\ Load(t, "join", u, Nothing)

\* A new member is counted; one whose row exists is not.
CommitJoin(t) ==
  LET u == task[t].target
      desired == IF seen[t].group.entry = "approval" THEN "pending" ELSE "active"
  IN
  /\ Committing(t, "join")
  /\ \/ (seen[t].member = NoMember) # (members[u] = NoMember) /\ Refuse(t)
     \/ /\ seen[t].member = NoMember /\ members[u] = NoMember
        /\ members' = [members EXCEPT ![u] = [role |-> "member", status |-> desired]]
        /\ SaveGroup(t, IF desired = "active"
                        THEN [seen[t].group EXCEPT !.member_count = seen[t].group.member_count + 1]
                        ELSE seen[t].group)
        /\ Finish(t)
        /\ UNCHANGED <<page, follows, admins, drifted>>
     \/ /\ seen[t].member # NoMember /\ members[u] # NoMember
        /\ SaveMember(t, u, [seen[t].member EXCEPT !.status = desired])
        /\ drifted' = (drifted \/ desired = "active")
        /\ Finish(t)
        /\ UNCHANGED <<page, follows, admins, group>>

BeginLeave(t, u) ==
  /\ members[u] # NoMember /\ members[u].role # "owner"
  /\ Load(t, "leave", u, Nothing)

\* The count when an active member ceases to be one: never below one.
OneMemberLess(t) ==
  [seen[t].group EXCEPT !.member_count = LessOne(seen[t].group.member_count, 1)]

\* Mutant: everyone who leaves is taken off the count.
CommitLeaveCountingAll(t) ==
  /\ Committing(t, "leave")
  /\ members' = [members EXCEPT ![task[t].target] = NoMember]
  /\ SaveGroup(t, OneMemberLess(t))
  /\ Finish(t)
  /\ UNCHANGED <<page, follows, admins, drifted>>

CommitLeave(t) ==
  /\ Committing(t, "leave")
  /\ members' = [members EXCEPT ![task[t].target] = NoMember]
  /\ SaveGroup(t, IF Active(seen[t].member) THEN OneMemberLess(t) ELSE seen[t].group)
  /\ drifted' = (drifted \/ (Active(seen[t].member) /\ seen[t].group.member_count = 1))
  /\ Finish(t)
  /\ UNCHANGED <<page, follows, admins>>

\* Mutant: whose membership it is is not looked at.
BeginUpdateAnyMember(t, u, target, role, status) ==
  /\ MayManageGroup(u, {"owner", "admin", "moderator"})
  /\ members[target] # NoMember
  /\ Load(t, "member", target,
          [Nothing EXCEPT !.role = role, !.status = status, !.own = (u = target)])

\* update_group_member: a role, a status or both; what is omitted stays.
BeginUpdateMember(t, u, target, role, status) ==
  /\ MayManageGroup(u, {"owner", "admin", "moderator"})
  /\ members[target] # NoMember
  /\ members[target].role = "owner" => members[u].role = "owner"
  /\ Load(t, "member", target,
          [Nothing EXCEPT !.role = role, !.status = status, !.own = (u = target)])

CommitUpdateMember(t) ==
  LET u == task[t].target
      new == [role |-> task[t].value.role, status |-> task[t].value.status]
      was == Active(seen[t].member)
  IN
  /\ Committing(t, "member")
  /\ \/ members[u] = NoMember /\ new # seen[t].member /\ Refuse(t)
     \/ /\ members[u] # NoMember \/ new = seen[t].member
        /\ IF members[u] = NoMember THEN UNCHANGED members ELSE SaveMember(t, u, new)
        /\ SaveGroup(t, CASE ~was /\ Active(new) ->
                               [seen[t].group EXCEPT !.member_count = seen[t].group.member_count + 1]
                          [] was /\ ~Active(new) -> OneMemberLess(t)
                          [] OTHER -> seen[t].group)
        /\ drifted' = (drifted \/ (was /\ ~Active(new) /\ seen[t].group.member_count = 1))
        /\ Finish(t)
        /\ UNCHANGED <<page, follows, admins>>

-----------------------------------------------------------------------------
(* resolve_report with remove_content, on the page or the group.           *)

BeginSuspend(t, op) == Load(t, op, Owner, Nothing)

CommitSuspend(t) ==
  /\ \/ /\ Committing(t, "suspend_page")
        /\ SavePage(t, [seen[t].page EXCEPT !.status = "suspended"])
        /\ UNCHANGED group
     \/ /\ Committing(t, "suspend_group")
        /\ SaveGroup(t, [seen[t].group EXCEPT !.status = "suspended"])
        /\ UNCHANGED page
  /\ Finish(t)
  /\ UNCHANGED <<follows, admins, members, drifted>>

-----------------------------------------------------------------------------

Begin(t) ==
  \/ \E u \in Users :
       \/ BeginFollow(t, u) \/ BeginUnfollow(t, u) \/ BeginHidePage(t, u)
       \/ BeginJoin(t, u) \/ BeginLeave(t, u)
       \/ \E status \in PageStatuses : BeginUpdatePage(t, u, status)
       \/ \E status \in GroupStatuses, entry \in Entries : BeginUpdateGroup(t, u, status, entry)
       \/ \E target \in Users, role \in AdminRoles \ {NoAdmin} : BeginAddAdmin(t, u, target, role)
       \/ \E target \in Users : BeginRemoveAdmin(t, u, target)
       \/ \E target \in Users :
            \E role \in NewRoles \cup {members[target].role},
               status \in MemberStatuses \cup {members[target].status} :
              BeginUpdateMember(t, u, target, role, status)
  \/ \E op \in {"suspend_page", "suspend_group"} : BeginSuspend(t, op)

Commit(t) ==
  \/ CommitFollow(t) \/ CommitUnfollow(t)
  \/ CommitUpdatePage(t, "page") \/ CommitUpdatePage(t, "hide")
  \/ CommitAddAdmin(t) \/ CommitRemoveAdmin(t)
  \/ CommitUpdateGroup(t) \/ CommitJoin(t) \/ CommitLeave(t) \/ CommitUpdateMember(t)
  \/ CommitSuspend(t)

Next == \E t \in Threads : Begin(t) \/ Commit(t)

Spec == Init /\ [][Next]_vars

-----------------------------------------------------------------------------
(* Properties.                                                             *)

TypeOK ==
  /\ page \in SocialPage
  /\ follows \subseteq Users
  /\ admins \in [Users -> AdminRoles]
  /\ group \in SocialGroup
  /\ members \in [Users -> GroupMember]
  /\ workload \in Workloads
  /\ drifted \in BOOLEAN
  /\ resigned \in BOOLEAN
  /\ collided \in BOOLEAN

\* As long as no handler commits a count it computed from one that another was
\* changing, a page shows as many followers as it has; and a group as many
\* members as are active, until a muted member joins again, who is not counted,
\* or the last active member ceases to be one.
CountsMatch ==
  ~collided =>
    /\ page.follower_count = Cardinality(follows)
    /\ ~drifted => group.member_count = Cardinality({u \in Users : Active(members[u])})

\* Whatever managers and members do at the same time, the group has its creator as
\* its one owner and as an active member until he changes his own membership.
GroupKeepsOwner ==
  /\ \A u \in Users \ {Owner} : members[u].role # "owner"
  /\ ~resigned => members[Owner] = Owning

\* Nobody lifts the suspension of a page or a group.
SuspensionHolds ==
  [][~collided' =>
       /\ page.status = "suspended" => page'.status = "suspended"
       /\ group.status = "suspended" => group'.status = "suspended"]_vars
=============================================================================
