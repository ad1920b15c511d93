---------------------------- MODULE Organizations ----------------------------
(***************************************************************************)
(* An organization with its memberships and invitations                    *)
(* (app/routes/organizations.py), and one role that administrators create, *)
(* give permissions, assign to users and delete (app/routes/rbac.py,       *)
(* app/services/rbac_service.py).                                          *)
(*                                                                         *)
(* Handlers run in threads: each loads rows, checks them, and commits the  *)
(* columns it changed; the constraints of the tables are checked then.     *)
(***************************************************************************)
EXTENDS Naturals, FiniteSets

CONSTANTS
  Users,
  Owner,        \* the one who created the organization
  Invitations,  \* invitations ever created
  Permissions,
  Threads,      \* threads of the API processes
  Workloads     \* sets of operations; one of them is in play in a behaviour

ASSUME OwnerIsUser == Owner \in Users

\* The three roles that are there from the start, and the one of this model.
OrgRoles == {"owner", "admin", "member", "custom"}
Scopes == {"global", "organization"}

VARIABLES
  org,          \* status of the organizations row
  memberships,  \* the memberships row of each user
  invitations,  \* the invitations rows
  role,         \* the roles row of the custom role
  permissions,  \* its role_permissions rows
  holders,      \* the users with a user_roles row for it
  task,         \* the handler each thread runs
  seen,         \* what its session loaded
  workload,     \* the operations in play
  requested,    \* history: the permissions of the latest request that was committed
  collided      \* history: two handlers that are not to overlap have overlapped, or one has
                \* committed what it computed from what another had changed

rows == <<org, memberships, invitations, role, permissions, holders>>
vars == <<rows, task, seen, workload, requested, collided>>

NoMembership == [role |-> "none", status |-> "none"]
Membership == [role : OrgRoles, status : {"active", "suspended", "removed"}] \cup {NoMembership}
Invitation == [status : {"absent", "pending", "accepted"}, user : Users, role : OrgRoles,
               expired : BOOLEAN, uses : Nat]
Role == [state : {"absent", "present", "deleted"}, scope : Scopes]

\* What a request names: a user, what to set, permissions or an invitation.
Nothing == [user |-> Owner, role |-> "none", status |-> "none", items |-> {}]
Idle == [op |-> "idle", on |-> Nothing, stale |-> FALSE]
NoRead == [membership |-> NoMembership, permissions |-> {}]

\* create_organization.
Init ==
  /\ org = "active"
  /\ memberships = [u \in Users |-> IF u = Owner THEN [role |-> "owner", status |-> "active"]
                                    ELSE NoMembership]
  /\ invitations = [i \in Invitations |-> [status |-> "absent", user |-> Owner, role |-> "member",
                                           expired |-> FALSE, uses |-> 0]]
  /\ role = [state |-> "absent", scope |-> "global"]
  /\ permissions = {} /\ holders = {}
  /\ task = [t \in Threads |-> Idle]
  /\ seen = [t \in Threads |-> NoRead]
  /\ workload \in Workloads
  /\ requested = {}
  /\ collided = FALSE

-----------------------------------------------------------------------------
(* Handlers.                                                               *)

\* Handlers that are not to overlap: one changes a membership that the other
\* has read or counted.
Cross(h, g) ==
  {h, g} \subseteq {"accept", "member", "remove"} /\ {h, g} # {"accept"}

\* One of two such handlers may write what the other has read: when it commits
\* first, the other is stale.
Touch(h, g) ==
  \/ {h, g} = {"accept"}
  \/ {h, g} \subseteq {"assign", "unassign", "delete_role"}
  \/ {h, g} = {"update_role"}

Load(t, op, on) ==
  /\ op \in workload /\ task[t].op = "idle"
  /\ task' = [task EXCEPT ![t] = [op |-> op, on |-> on, stale |-> FALSE]]
  /\ seen' = [seen EXCEPT ![t] =
       [membership |-> IF op \in {"accept", "member", "remove"} THEN memberships[on.user]
                       ELSE NoMembership,
        permissions |-> IF op = "update_role" THEN permissions ELSE {}]]
  /\ collided' = (collided \/ \E s \in Threads : Cross(op, task[s].op))
  /\ UNCHANGED <<rows, workload, requested>>

Committing(t, op) == task[t].op = op

Finish(t) ==
  /\ task' = [s \in Threads |->
       IF s = t THEN Idle
       ELSE [task[s] EXCEPT !.stale = task[s].stale \/ Touch(task[s].op, task[t].op)]]
  /\ seen' = [seen EXCEPT ![t] = NoRead]
  /\ collided' = (collided \/ task[t].stale)
  /\ UNCHANGED workload

\* A unique or foreign key constraint: rolled back.
Refuse(t) ==
  /\ task' = [task EXCEPT ![t] = Idle]
  /\ seen' = [seen EXCEPT ![t] = NoRead]
  /\ UNCHANGED <<rows, workload, requested, collided>>

\* The foreign key of a row that refers to a role.
Referable(r) == r = "custom" => role.state = "present"

\* A role that may be given in the organization.
OrgRole(r) == r = "custom" => role.state = "present" /\ role.scope = "organization"

SaveMembership(t, u, new) ==
  memberships' = [memberships EXCEPT ![u] =
    [c \in DOMAIN new |-> IF new[c] = seen[t].membership[c] THEN memberships[u][c] ELSE new[c]]]

-----------------------------------------------------------------------------
(* The organization.                                                       *)

\* require_org_roles.
Acts(u, allowed) == memberships[u].status = "active" /\ memberships[u].role \in allowed

\* update_organization with a status; suspend_organization, which is the owner's,
\* does nothing that it does not.
BeginOrg(t, u, status) ==
  Acts(u, {"owner", "admin"}) /\ Load(t, "org", [Nothing EXCEPT !.status = status])

CommitOrg(t) ==
  /\ Committing(t, "org")
  /\ org' = task[t].on.status
  /\ Finish(t)
  /\ UNCHANGED <<memberships, invitations, role, permissions, holders, requested>>

\* create_invitation: not for one who has a membership, whatever its status.
BeginInvite(t, u, target, r) ==
  /\ Acts(u, {"owner", "admin"}) /\ OrgRole(r)
  /\ memberships[target] = NoMembership
  /\ Load(t, "invite", [Nothing EXCEPT !.user = target, !.role = r])

CommitInvite(t, i) ==
  LET r == task[t].on.role IN
  /\ Committing(t, "invite")
  /\ invitations[i].status = "absent"
  /\ \/ ~Referable(r) /\ Refuse(t)
     \/ /\ Referable(r)
        /\ invitations' = [invitations EXCEPT ![i].status = "pending",
                             ![i].user = task[t].on.user, ![i].role = r]
        /\ Finish(t)
        /\ UNCHANGED <<org, memberships, role, permissions, holders, requested>>

InvitationExpires(i) ==
  /\ invitations[i].status = "pending" /\ ~invitations[i].expired
  /\ invitations' = [invitations EXCEPT ![i].expired = TRUE]
  /\ UNCHANGED <<org, memberships, role, permissions, holders, task, seen, workload, requested, collided>>

BeginAccept(t, i) ==
  /\ invitations[i].status = "pending" /\ ~invitations[i].expired
  /\ Load(t, "accept", [Nothing EXCEPT !.user = invitations[i].user, !.items = {i}])

\* Mutant: the invitation stays pending.
MarkNothing(i) == [invitations EXCEPT ![i].uses = invitations[i].uses + 1]

MarkAccepted(i) ==
  [invitations EXCEPT ![i].status = "accepted", ![i].uses = invitations[i].uses + 1]

\* accept_invitation: a membership that is there is made active with the role of
\* the invitation, whatever it was.
CommitAccept(t, i) ==
  LET u == task[t].on.user
      joined == [role |-> invitations[i].role, status |-> "active"]
      isNew == seen[t].membership = NoMembership
  IN
  /\ Committing(t, "accept") /\ i \in task[t].on.items
  /\ \/ isNew /\ memberships[u] # NoMembership /\ Refuse(t)
     \/ /\ ~(isNew /\ memberships[u] # NoMembership)
        /\ IF isNew THEN memberships' = [memberships EXCEPT ![u] = joined]
           ELSE SaveMembership(t, u, joined)
        /\ invitations' = MarkAccepted(i)
        /\ Finish(t)
        /\ UNCHANGED <<org, role, permissions, holders, requested>>

\* update_member: a role, a status or both; what is omitted stays.
BeginUpdateMember(t, u, target, r, status) ==
  /\ Acts(u, {"owner", "admin"})
  /\ memberships[target] # NoMembership
  /\ r = memberships[target].role \/ OrgRole(r)
  /\ Load(t, "member", [Nothing EXCEPT !.user = target, !.role = r, !.status = status])

CommitUpdateMember(t) ==
  LET on == task[t].on IN
  /\ Committing(t, "member")
  /\ \/ ~Referable(on.role) /\ Refuse(t)
     \/ /\ Referable(on.role)
        /\ SaveMembership(t, on.user, [role |-> on.role, status |-> on.status])
        /\ Finish(t)
        /\ UNCHANGED <<org, invitations, role, permissions, holders, requested>>

\* Mutant: owners that are suspended or removed are counted.
AllOwners == {u \in Users : memberships[u].role = "owner"}

Owners == {u \in Users : memberships[u].role = "owner" /\ memberships[u].status = "active"}

BeginRemoveMember(t, u, target) ==
  /\ Acts(u, {"owner", "admin"})
  /\ memberships[target] # NoMembership
  /\ memberships[target].role = "owner" => Cardinality(Owners) > 1
  /\ Load(t, "remove", [Nothing EXCEPT !.user = target])

CommitRemoveMember(t) ==
  LET u == task[t].on.user IN
  /\ Committing(t, "remove")
  /\ SaveMembership(t, u, [seen[t].membership EXCEPT !.status = "removed"])
  /\ Finish(t)
  /\ UNCHANGED <<org, invitations, role, permissions, holders, requested>>

-----------------------------------------------------------------------------
(* The role, by users that may administer roles.                           *)

\* Its name is unique, and it is created once.
CreateRole(scope, codes) ==
  /\ "create_role" \in workload /\ role.state = "absent"
  /\ role' = [state |-> "present", scope |-> scope]
  /\ permissions' = codes /\ requested' = codes
  /\ UNCHANGED <<org, memberships, invitations, holders, task, seen, workload, collided>>

BeginUpdateRole(t, codes) ==
  role.state = "present" /\ Load(t, "update_role", [Nothing EXCEPT !.items = codes])

\* Mutant: what the role had before stays.
CommitUpdateRoleAdding(t) ==
  /\ Committing(t, "update_role")
  /\ role.state = "present"
  /\ permissions' = permissions \cup task[t].on.items
  /\ requested' = task[t].on.items
  /\ Finish(t)
  /\ UNCHANGED <<org, memberships, invitations, role, holders>>

\* replace_role_permissions: the DELETE runs when the request is handled, and
\* deletes what is there then; the INSERTs run at the commit.
CommitUpdateRole(t) ==
  LET codes == task[t].on.items IN
  /\ Committing(t, "update_role")
  /\ \/ role.state # "present" /\ Refuse(t)
     \/ /\ role.state = "present"
        /\ \E kept \in {permissions \ seen[t].permissions, {}} :
             \/ kept \cap codes # {} /\ Refuse(t)
             \/ /\ kept \cap codes = {}
                /\ permissions' = kept \cup codes
                /\ requested' = codes
                /\ Finish(t)
                /\ UNCHANGED <<org, memberships, invitations, role, holders>>

\* Mutant: a role can be deleted while users hold it.
BeginDeleteAnyRole(t) == role.state = "present" /\ Load(t, "delete_role", Nothing)

BeginDeleteRole(t) ==
  role.state = "present" /\ holders = {} /\ Load(t, "delete_role", Nothing)

Referred ==
  \/ \E u \in Users : memberships[u].role = "custom"
  \/ \E i \in Invitations : invitations[i].status # "absent" /\ invitations[i].role = "custom"

\* Memberships and invitations restrict the DELETE, assignments go with it.
CommitDeleteRole(t) ==
  /\ Committing(t, "delete_role")
  /\ \/ (Referred \/ role.state # "present") /\ Refuse(t)
     \/ /\ ~Referred /\ role.state = "present"
        /\ role' = [role EXCEPT !.state = "deleted"]
        /\ permissions' = {} /\ requested' = {} /\ holders' = {}
        /\ Finish(t)
        /\ UNCHANGED <<org, memberships, invitations>>

\* assign_user_role; who has it already keeps it.
BeginAssign(t, u) ==
  /\ role.state = "present" /\ role.scope = "global" /\ u \notin holders
  /\ Load(t, "assign", [Nothing EXCEPT !.user = u])

CommitAssign(t) ==
  LET u == task[t].on.user IN
  /\ Committing(t, "assign")
  /\ \/ (u \in holders \/ role.state # "present") /\ Refuse(t)
     \/ /\ u \notin holders /\ role.state = "present"
        /\ holders' = holders \cup {u}
        /\ Finish(t)
        /\ UNCHANGED <<org, memberships, invitations, role, permissions, requested>>

BeginUnassign(t, u) == u \in holders /\ Load(t, "unassign", [Nothing EXCEPT !.user = u])

CommitUnassign(t) ==
  /\ Committing(t, "unassign")
  /\ holders' = holders \ {task[t].on.user}
  /\ Finish(t)
  /\ UNCHANGED <<org, memberships, invitations, role, permissions, requested>>

-----------------------------------------------------------------------------

Begin(t) ==
  \/ \E u \in Users :
       \/ \E status \in {"active", "suspended"} : BeginOrg(t, u, status)
       \/ \E target \in Users :
            \/ \E r \in OrgRoles : BeginInvite(t, u, target, r)
            \/ \E r \in OrgRoles \cup {memberships[target].role},
                  status \in {"active", "suspended", memberships[target].status} :
                 BeginUpdateMember(t, u, target, r, status)
            \/ BeginRemoveMember(t, u, target)
       \/ BeginAssign(t, u) \/ BeginUnassign(t, u)
  \/ \E i \in Invitations : BeginAccept(t, i)
  \/ \E codes \in SUBSET Permissions : BeginUpdateRole(t, codes)
  \/ BeginDeleteRole(t)

Commit(t) ==
  \/ CommitOrg(t) \/ CommitUpdateMember(t) \/ CommitRemoveMember(t)
  \/ \E i \in Invitations : CommitInvite(t, i) \/ CommitAccept(t, i)
  \/ CommitUpdateRole(t) \/ CommitDeleteRole(t) \/ CommitAssign(t) \/ CommitUnassign(t)

Next ==
  \/ \E t \in Threads : Begin(t) \/ Commit(t)
  \/ \E i \in Invitations : InvitationExpires(i)
  \/ \E scope \in Scopes, codes \in SUBSET Permissions : CreateRole(scope, codes)

Spec == Init /\ [][Next]_vars

-----------------------------------------------------------------------------
(* Properties.                                                             *)

TypeOK ==
  /\ org \in {"active", "suspended"}
  /\ memberships \in [Users -> Membership]
  /\ invitations \in [Invitations -> Invitation]
  /\ role \in Role
  /\ permissions \subseteq Permissions /\ requested \subseteq Permissions
  /\ holders \subseteq Users
  /\ workload \in Workloads
  /\ collided \in BOOLEAN

HasOwner == \E u \in Users : memberships[u] = [role |-> "owner", status |-> "active"]

\* Removing a member leaves an organization that had an active owner with one,
\* as long as no membership changes between the count and the commit.
RemovalKeepsOwner ==
  [][(\E t \in Threads : task[t].op = "remove" /\ task'[t].op = "idle")
     /\ HasOwner /\ ~collided' => HasOwner']_vars

\* An invitation is good for joining once, unless a membership changes while it
\* is being accepted.
InvitationUsedOnce == ~collided => \A i \in Invitations : invitations[i].uses <= 1

\* A role has the permissions of the latest request, all and no others, as long
\* as requests do not overlap.
PermissionsAsRequested == ~collided => permissions = requested

\* A user loses a role only when it is taken from that user: deleting a role
\* takes it from nobody, unless it is assigned meanwhile.
AssignedRoleStays ==
  [][\A u \in holders \ holders' :
       ~collided' => \E t \in Threads : task[t].op = "unassign" /\ task[t].on.user = u]_vars
=============================================================================
