------------------------- MODULE OrganizationsProofs -------------------------
(***************************************************************************)
(* What an organization and its roles promise for any number of users,     *)
(* invitations, permissions and threads, and whatever operations are in    *)
(* play.                                                                   *)
(***************************************************************************)
EXTENDS Organizations, FiniteSetTheorems, TLAPS

Joined == [role : OrgRoles, status : {"active", "suspended", "removed"}]

Ops == {"idle", "org", "invite", "accept", "member", "remove", "update_role", "delete_role",
        "assign", "unassign"}

Requests ==
  [user : Users, role : OrgRoles \cup {"none"},
   status : {"none", "active", "suspended", "removed"},
   items : SUBSET (Invitations \cup Permissions)]

\* What a handler works on is what its operation needs, and a membership it has
\* loaded is still there: memberships are never deleted.
Prepared(t) ==
  LET on == task[t].on IN
  /\ task[t].op = "org" => on.status \in {"active", "suspended"}
  /\ task[t].op \in {"invite", "member"} => on.role \in OrgRoles
  /\ task[t].op = "member" => on.status # "none"
  /\ task[t].op \in {"member", "remove"} => seen[t].membership \in Joined
  /\ task[t].op = "update_role" => on.items \subseteq Permissions
  /\ seen[t].membership \in Joined => memberships[on.user] \in Joined

Typed ==
  /\ TypeOK
  /\ task \in [Threads -> [op : Ops, on : Requests, stale : BOOLEAN]]
  /\ seen \in [Threads -> [membership : Membership, permissions : SUBSET Permissions]]
  /\ \A t \in Threads : Prepared(t)

\* An invitation that was never accepted was never used, and nobody who may
\* still accept one undisturbed finds it used.
Unused ==
  ~collided =>
    \A i \in Invitations :
      /\ invitations[i].uses <= 1
      /\ invitations[i].status # "accepted" => invitations[i].uses = 0
      /\ \A t \in Threads :
           task[t].op = "accept" /\ i \in task[t].on.items /\ ~task[t].stale
             => invitations[i].uses = 0

\* An undisturbed replacement of permissions has read those that are there, and
\* an undisturbed deletion of the role has found it without holders.
RoleReads ==
  ~collided =>
    /\ permissions = requested
    /\ \A t \in Threads : ~task[t].stale =>
         /\ task[t].op = "update_role" =>
              /\ role.state # "absent"
              /\ role.state = "present" => seen[t].permissions = permissions
         /\ task[t].op = "delete_role" => holders = {}

\* No membership changes while a member is being removed, so the owners that
\* were counted are there.
Removals ==
  ~collided =>
    /\ \A s, t \in Threads : s # t => ~Cross(task[s].op, task[t].op)
    /\ \A t \in Threads : task[t].op = "remove" =>
         /\ seen[t].membership = memberships[task[t].on.user]
         /\ memberships[task[t].on.user].role = "owner" => Cardinality(Owners) > 1

\* What a handler that begins has checked of the rows.
Fits(op, on) ==
  /\ op = "org" => on.status \in {"active", "suspended"}
  /\ op \in {"invite", "member"} => on.role \in OrgRoles
  /\ op = "member" => on.status # "none"
  /\ op \in {"member", "remove"} => memberships[on.user] \in Joined
  /\ op = "accept" => \A i \in on.items \cap Invitations : invitations[i].status = "pending"
  /\ op = "update_role" => on.items \subseteq Permissions /\ role.state = "present"
  /\ op = "delete_role" => holders = {}
  /\ op = "remove" /\ memberships[on.user].role = "owner" => Cardinality(Owners) > 1

-----------------------------------------------------------------------------
(* Types.                                                                  *)

\* Every membership is one of those, or none.
LEMMA JoinedOrNone == Membership = Joined \cup {NoMembership} /\ NoMembership \notin Joined
  BY DEF Membership, Joined, NoMembership, OrgRoles

\* What an idle thread holds has the types of what others hold.
LEMMA IdleTypes ==
  /\ Idle \in [op : Ops, on : Requests, stale : BOOLEAN]
  /\ NoRead \in [membership : Membership, permissions : SUBSET Permissions]
<1>1. Nothing \in Requests
  BY OwnerIsUser DEF Nothing, Requests
<1>2. Idle \in [op : Ops, on : Requests, stale : BOOLEAN]
  BY <1>1 DEF Idle, Ops
<1>3. NoRead \in [membership : Membership, permissions : SUBSET Permissions]
  BY DEF NoRead, Membership
<1> QED BY <1>2, <1>3

\* A handler that begins: the others and the rows stay.
LEMMA LoadFacts ==
  ASSUME Typed, NEW t \in Threads, NEW op, NEW on \in Requests, Load(t, op, on)
  PROVE  /\ op \in workload /\ task[t].op = "idle"
         /\ task'[t] = [op |-> op, on |-> on, stale |-> FALSE]
         /\ \A s \in Threads \ {t} : task'[s] = task[s] /\ seen'[s] = seen[s]
         /\ seen'[t].membership = IF op \in {"accept", "member", "remove"}
                                  THEN memberships[on.user] ELSE NoMembership
         /\ seen'[t].permissions = IF op = "update_role" THEN permissions ELSE {}
         /\ UNCHANGED <<rows, workload, requested>>
  BY DEF Load, Typed

\* A handler that ends: it is idle, the others keep what they work on.
LEMMA FinishFacts ==
  ASSUME Typed, NEW t \in Threads, Finish(t)
  PROVE  /\ task'[t] = Idle /\ seen'[t] = NoRead
         /\ \A s \in Threads \ {t} :
              /\ task'[s].op = task[s].op /\ task'[s].on = task[s].on /\ seen'[s] = seen[s]
              /\ task'[s].stale = (task[s].stale \/ Touch(task[s].op, task[t].op))
         /\ collided' = (collided \/ task[t].stale) /\ workload' = workload
  BY DEF Finish, Typed

\* What a handler saves of a membership is a membership, and only of its user.
LEMMA Saved ==
  ASSUME Typed, NEW t \in Threads, NEW u \in Users, NEW new \in Joined,
         memberships[u] \in Joined, SaveMembership(t, u, new)
  PROVE  /\ memberships' \in [Users -> Membership] /\ memberships'[u] \in Joined
         /\ \A v \in Users \ {u} : memberships'[v] = memberships[v]
<1> DEFINE saved == [c \in DOMAIN new |-> IF new[c] = seen[t].membership[c]
                                          THEN memberships[u][c] ELSE new[c]]
<1>1. DOMAIN new = {"role", "status"}
  BY DEF Joined
<1>2. saved = [role |-> IF new.role = seen[t].membership.role THEN memberships[u].role
                        ELSE new.role,
               status |-> IF new.status = seen[t].membership.status THEN memberships[u].status
                          ELSE new.status]
  BY <1>1
<1>3. saved \in Joined
  BY <1>2 DEF Joined
<1>4. memberships' = [memberships EXCEPT ![u] = saved]
  BY DEF SaveMembership
<1> QED BY <1>3, <1>4, JoinedOrNone DEF Typed, TypeOK

\* A row that is saved leaves every other handler prepared.
LEMMA OthersPrepared ==
  ASSUME Typed, NEW t \in Threads, Finish(t),
         \A u \in Users : memberships[u] \in Joined => memberships'[u] \in Joined
  PROVE  /\ task' \in [Threads -> [op : Ops, on : Requests, stale : BOOLEAN]]
         /\ seen' \in [Threads -> [membership : Membership, permissions : SUBSET Permissions]]
         /\ \A s \in Threads : Prepared(s)'
<1>1. \A s \in Threads : task[s].op \in Ops /\ task[s].on \in Requests
  BY DEF Typed
<1>4. task' \in [Threads -> [op : Ops, on : Requests, stale : BOOLEAN]]
  <2>1. \A s \in Threads :
          [task[s] EXCEPT !.stale = task[s].stale \/ Touch(task[s].op, task[t].op)]
            \in [op : Ops, on : Requests, stale : BOOLEAN]
    BY DEF Typed, Touch
  <2> QED BY IdleTypes, <2>1 DEF Finish
<1>5. seen' \in [Threads -> [membership : Membership, permissions : SUBSET Permissions]]
  BY IdleTypes DEF Finish, Typed
<1>6. Prepared(t)'
  BY FinishFacts, JoinedOrNone DEF Prepared, Idle, NoRead
<1>7. ASSUME NEW s \in Threads \ {t} PROVE Prepared(s)'
  <2>1. task'[s].op = task[s].op /\ task'[s].on = task[s].on /\ seen'[s] = seen[s]
    BY FinishFacts
  <2>2. Prepared(s) /\ task[s].on.user \in Users
    BY DEF Typed, Requests
  <2> QED BY <2>1, <2>2 DEF Prepared
<1> QED BY <1>4, <1>5, <1>6, <1>7

\* A handler that begins with what it needs keeps the types.
LEMMA LoadTyped ==
  ASSUME Typed, NEW t \in Threads, NEW op \in Ops, NEW on \in Requests, Load(t, op, on),
         Fits(op, on)
  PROVE  Typed'
<1> DEFINE read == [membership |-> IF op \in {"accept", "member", "remove"}
                                   THEN memberships[on.user] ELSE NoMembership,
                    permissions |-> IF op = "update_role" THEN permissions ELSE {}]
<1>1. /\ on.user \in Users
      /\ op = "org" => on.status \in {"active", "suspended"}
      /\ op \in {"invite", "member"} => on.role \in OrgRoles
      /\ op = "member" => on.status # "none"
      /\ op \in {"member", "remove"} => memberships[on.user] \in Joined
      /\ op = "update_role" => on.items \subseteq Permissions
  BY DEF Requests, Fits
<1>2. read \in [membership : Membership, permissions : SUBSET Permissions]
  BY <1>1 DEF Typed, TypeOK, Membership
<1>3. /\ task' \in [Threads -> [op : Ops, on : Requests, stale : BOOLEAN]]
      /\ seen' \in [Threads -> [membership : Membership, permissions : SUBSET Permissions]]
  BY <1>2 DEF Load, Typed
<1>4. memberships' = memberships
  BY DEF Load, rows
<1>5. Prepared(t)'
  <2>1. /\ task'[t].op = op /\ task'[t].on = on
        /\ seen'[t].membership = IF op \in {"accept", "member", "remove"}
                                 THEN memberships[on.user] ELSE NoMembership
    BY DEF Load, Typed
  <2>2. op \in {"member", "remove"} => seen'[t].membership \in Joined
    BY <1>1, <2>1
  <2>3. seen'[t].membership \in Joined => memberships'[on.user] \in Joined
    BY <1>4, <2>1, JoinedOrNone
  <2> QED BY <1>1, <2>1, <2>2, <2>3 DEF Prepared
<1>6. ASSUME NEW s \in Threads \ {t} PROVE Prepared(s)'
  <2>1. task'[s] = task[s] /\ seen'[s] = seen[s] /\ Prepared(s)
    BY LoadFacts DEF Typed
  <2> QED BY <1>4, <2>1 DEF Prepared
<1>7. TypeOK'
  BY DEF Load, rows, Typed, TypeOK
<1> QED BY <1>3, <1>5, <1>6, <1>7 DEF Typed

\* A refused handler changes nothing but itself.
LEMMA RefuseTyped ==
  ASSUME Typed, NEW t \in Threads, Refuse(t)
  PROVE  Typed'
<1>3. TypeOK'
  BY DEF Refuse, rows, Typed, TypeOK
<1>4. /\ task' \in [Threads -> [op : Ops, on : Requests, stale : BOOLEAN]]
      /\ seen' \in [Threads -> [membership : Membership, permissions : SUBSET Permissions]]
  BY IdleTypes DEF Refuse, Typed
<1>5. ASSUME NEW s \in Threads PROVE Prepared(s)'
  BY JoinedOrNone DEF Refuse, rows, Typed, Prepared, Idle, NoRead
<1> QED BY <1>3, <1>4, <1>5 DEF Typed

\* A handler that ends and saved rows of their types keeps the types.
LEMMA FinishTyped ==
  ASSUME Typed, NEW t \in Threads, Finish(t),
         org' \in {"active", "suspended"}, memberships' \in [Users -> Membership],
         invitations' \in [Invitations -> Invitation], role' \in Role,
         permissions' \subseteq Permissions, requested' \subseteq Permissions,
         holders' \subseteq Users,
         \A u \in Users : memberships[u] \in Joined => memberships'[u] \in Joined
  PROVE  Typed'
<1>1. workload' \in Workloads /\ collided' \in BOOLEAN
  BY DEF Finish, Typed, TypeOK
<1> QED BY <1>1, OthersPrepared DEF Typed, TypeOK

\* A handler begins with what its operation needs.
LEMMA BeginFits ==
  ASSUME Typed, NEW t \in Threads, Begin(t)
  PROVE  \E op \in Ops, on \in Requests : Load(t, op, on) /\ Fits(op, on)
<1>1. /\ \A u \in Users : memberships[u] \in Membership
      /\ \A i \in Invitations : invitations[i].user \in Users
      /\ \A u \in Users : memberships[u].status \in {"none", "active", "suspended", "removed"}
  BY DEF Typed, TypeOK, Invitation, Membership, NoMembership
<1> DEFINE Goal == \E op \in Ops, on \in Requests : Load(t, op, on) /\ Fits(op, on)
<1>2. Nothing \in Requests
  BY OwnerIsUser DEF Nothing, Requests
<1>3. ASSUME NEW u \in Users, NEW status \in {"active", "suspended"}, BeginOrg(t, u, status)
      PROVE  Goal
  <2> DEFINE on == [Nothing EXCEPT !.status = status]
  <2>1. on \in Requests /\ on.status = status
    BY <1>2 DEF Requests
  <2>2. Load(t, "org", on)
    BY <1>3 DEF BeginOrg
  <2> HIDE DEF on
  <2> QED BY <2>1, <2>2 DEF Ops, Fits
<1>4. ASSUME NEW target \in Users, NEW u \in Users, NEW r \in OrgRoles,
             BeginInvite(t, u, target, r)
      PROVE Goal
  <2> DEFINE on == [Nothing EXCEPT !.user = target, !.role = r]
  <2>1. on \in Requests /\ on.role = r
    BY <1>2 DEF Requests
  <2>2. Load(t, "invite", on)
    BY <1>4 DEF BeginInvite
  <2> HIDE DEF on
  <2> QED BY <2>1, <2>2 DEF Ops, Fits
<1>5. ASSUME NEW target \in Users, NEW u \in Users, NEW r \in OrgRoles \cup {memberships[target].role},
             NEW status \in {"active", "suspended", memberships[target].status},
             BeginUpdateMember(t, u, target, r, status)
      PROVE Goal
  <2> DEFINE on == [Nothing EXCEPT !.user = target, !.role = r, !.status = status]
  <2>1. memberships[target] \in Joined
    BY <1>1, <1>5, JoinedOrNone DEF BeginUpdateMember
  <2>2. r \in OrgRoles /\ status \in {"active", "suspended", "removed"}
    BY <2>1 DEF Joined
  <2>3. on \in Requests /\ on.role = r /\ on.status = status /\ on.user = target
    BY <1>2, <2>2 DEF Requests
  <2>4. Load(t, "member", on)
    BY <1>5 DEF BeginUpdateMember
  <2> HIDE DEF on
  <2> QED BY <2>1, <2>2, <2>3, <2>4 DEF Ops, Fits
<1>6. ASSUME NEW target \in Users, NEW u \in Users, BeginRemoveMember(t, u, target)
      PROVE Goal
  <2> DEFINE on == [Nothing EXCEPT !.user = target]
  <2>1. memberships[target] \in Joined
    BY <1>1, <1>6, JoinedOrNone DEF BeginRemoveMember
  <2>2. on \in Requests /\ on.user = target
    BY <1>2 DEF Requests
  <2>3. Load(t, "remove", on) /\ (memberships[target].role = "owner" => Cardinality(Owners) > 1)
    BY <1>6 DEF BeginRemoveMember
  <2> HIDE DEF on
  <2> QED BY <2>1, <2>2, <2>3 DEF Ops, Fits
<1>7. ASSUME NEW u \in Users, NEW op \in {"assign", "unassign"},
             Load(t, op, [Nothing EXCEPT !.user = u])
      PROVE Goal
  <2> DEFINE on == [Nothing EXCEPT !.user = u]
  <2>1. on \in Requests
    BY <1>2 DEF Requests
  <2>2. Load(t, op, on)
    BY <1>7
  <2> HIDE DEF on
  <2> QED BY <2>1, <2>2 DEF Ops, Fits
<1>8. ASSUME NEW i \in Invitations, BeginAccept(t, i) PROVE Goal
  <2> DEFINE on == [Nothing EXCEPT !.user = invitations[i].user, !.items = {i}]
  <2>1. on \in Requests /\ on.items = {i}
    BY <1>1, <1>2 DEF Requests
  <2>2. Load(t, "accept", on) /\ invitations[i].status = "pending"
    BY <1>8 DEF BeginAccept
  <2> HIDE DEF on
  <2> QED BY <2>1, <2>2 DEF Ops, Fits
<1>9. ASSUME NEW codes \in SUBSET Permissions, BeginUpdateRole(t, codes) PROVE Goal
  <2> DEFINE on == [Nothing EXCEPT !.items = codes]
  <2>1. on \in Requests /\ on.items \subseteq Permissions
    BY <1>2 DEF Requests
  <2>2. Load(t, "update_role", on) /\ role.state = "present"
    BY <1>9 DEF BeginUpdateRole
  <2> HIDE DEF on
  <2> QED BY <2>1, <2>2 DEF Ops, Fits
<1>10. ASSUME BeginDeleteRole(t) PROVE Goal
  BY <1>2, <1>10 DEF BeginDeleteRole, Ops, Fits
<1> QED
  BY <1>3, <1>4, <1>5, <1>6, <1>7, <1>8, <1>9, <1>10 DEF Begin, BeginAssign, BeginUnassign

\* A handler commits rows of their types, or is refused.
LEMMA CommitTyped == ASSUME Typed, NEW t \in Threads, Commit(t) PROVE Typed'
<1>1. /\ task[t].on \in Requests /\ task[t].on.user \in Users /\ Prepared(t)
      /\ seen[t].membership \in Membership
  BY DEF Typed, Requests
<1>2. CASE CommitOrg(t)
  BY <1>1, <1>2, FinishTyped DEF CommitOrg, Committing, Prepared, Typed, TypeOK
<1>3. CASE CommitUpdateMember(t)
  <2>1. CASE Refuse(t)
    BY <2>1, RefuseTyped
  <2>2. CASE ~Refuse(t)
    <3> DEFINE on == task[t].on
               new == [role |-> on.role, status |-> on.status]
    <3>1. new \in Joined /\ memberships[on.user] \in Joined
      BY <1>1, <1>3 DEF CommitUpdateMember, Committing, Prepared, Joined, Requests
    <3>2. SaveMembership(t, on.user, new) /\ Finish(t)
      BY <1>3, <2>2 DEF CommitUpdateMember
    <3> HIDE DEF new
    <3>3. /\ memberships' \in [Users -> Membership]
          /\ \A u \in Users : memberships[u] \in Joined => memberships'[u] \in Joined
      BY <1>1, <3>1, <3>2, Saved
    <3> QED BY <1>3, <2>2, <3>2, <3>3, FinishTyped DEF CommitUpdateMember, Typed, TypeOK
  <2> QED BY <2>1, <2>2
<1>4. CASE CommitRemoveMember(t)
  <2> DEFINE u == task[t].on.user
             new == [seen[t].membership EXCEPT !.status = "removed"]
  <2>1. new \in Joined /\ memberships[u] \in Joined
    BY <1>1, <1>4 DEF CommitRemoveMember, Committing, Prepared, Joined
  <2>2. SaveMembership(t, u, new) /\ Finish(t)
    BY <1>4 DEF CommitRemoveMember
  <2> HIDE DEF new
  <2>3. /\ memberships' \in [Users -> Membership]
        /\ \A v \in Users : memberships[v] \in Joined => memberships'[v] \in Joined
    BY <1>1, <2>1, <2>2, Saved
  <2> QED BY <1>4, <2>2, <2>3, FinishTyped DEF CommitRemoveMember, Typed, TypeOK
<1>5. ASSUME NEW i \in Invitations, CommitInvite(t, i) PROVE Typed'
  <2>1. CASE Refuse(t)
    BY <2>1, RefuseTyped
  <2>2. CASE ~Refuse(t)
    <3>1. task[t].on.role \in OrgRoles
      BY <1>1, <1>5 DEF CommitInvite, Committing, Prepared
    <3>2. invitations' \in [Invitations -> Invitation]
      BY <1>1, <1>5, <2>2, <3>1 DEF CommitInvite, Typed, TypeOK, Invitation
    <3> QED BY <1>5, <2>2, <3>2, FinishTyped DEF CommitInvite, Typed, TypeOK
  <2> QED BY <2>1, <2>2
<1>6. ASSUME NEW i \in Invitations, CommitAccept(t, i) PROVE Typed'
  <2> DEFINE u == task[t].on.user
             joined == [role |-> invitations[i].role, status |-> "active"]
  <2>1. joined \in Joined
    BY DEF Joined, Typed, TypeOK, Invitation
  <2>2. CASE Refuse(t)
    BY <2>2, RefuseTyped
  <2>3. CASE ~Refuse(t)
    <3>1. Finish(t) /\ invitations' = MarkAccepted(i)
      BY <1>6, <2>3 DEF CommitAccept
    <3>2. invitations' \in [Invitations -> Invitation]
      <4>1. invitations \in [Invitations -> Invitation] /\ invitations[i].uses + 1 \in Nat
        BY DEF Typed, TypeOK, Invitation
      <4> QED BY <3>1, <4>1 DEF MarkAccepted, Invitation
    <3>3. /\ memberships' \in [Users -> Membership]
          /\ \A v \in Users : memberships[v] \in Joined => memberships'[v] \in Joined
      <4>1. CASE seen[t].membership = NoMembership
        <5>1. memberships' = [memberships EXCEPT ![u] = joined]
          BY <1>6, <2>3, <4>1 DEF CommitAccept
        <5> QED BY <1>1, <2>1, <5>1, JoinedOrNone DEF Typed, TypeOK
      <4>2. CASE seen[t].membership # NoMembership
        <5>1. memberships[u] \in Joined
          BY <1>1, <4>2, JoinedOrNone DEF Prepared
        <5>2. SaveMembership(t, u, joined)
          BY <1>6, <2>3, <4>2 DEF CommitAccept
        <5> HIDE DEF joined
        <5> QED BY <1>1, <2>1, <5>1, <5>2, Saved
      <4> QED BY <4>1, <4>2
    <3> QED BY <1>6, <2>3, <3>1, <3>2, <3>3, FinishTyped DEF CommitAccept, Typed, TypeOK
  <2> QED BY <2>2, <2>3
<1>7. CASE CommitUpdateRole(t)
  <2>1. CASE Refuse(t)
    BY <2>1, RefuseTyped
  <2>2. CASE ~Refuse(t)
    <3>1. task[t].on.items \subseteq Permissions
      BY <1>1, <1>7 DEF CommitUpdateRole, Committing, Prepared
    <3> QED BY <1>7, <2>2, <3>1, FinishTyped DEF CommitUpdateRole, Typed, TypeOK
  <2> QED BY <2>1, <2>2
<1>8. CASE CommitDeleteRole(t)
  <2>1. CASE Refuse(t)
    BY <2>1, RefuseTyped
  <2>2. CASE ~Refuse(t)
    <3>1. role' \in Role
      BY <1>8, <2>2 DEF CommitDeleteRole, Typed, TypeOK, Role
    <3> QED BY <1>8, <2>2, <3>1, FinishTyped DEF CommitDeleteRole, Typed, TypeOK
  <2> QED BY <2>1, <2>2
<1>9. CASE CommitAssign(t)
  BY <1>1, <1>9, RefuseTyped, FinishTyped DEF CommitAssign, Typed, TypeOK
<1>10. CASE CommitUnassign(t)
  BY <1>10, FinishTyped DEF CommitUnassign, Typed, TypeOK
<1> QED BY <1>2, <1>3, <1>4, <1>5, <1>6, <1>7, <1>8, <1>9, <1>10 DEF Commit

\* Every step keeps the types.
LEMMA TypedStep == Typed /\ [Next]_vars => Typed'
<1> SUFFICES ASSUME Typed, [Next]_vars PROVE Typed'
  OBVIOUS
<1>1. ASSUME NEW i \in Invitations, InvitationExpires(i) PROVE Typed'
  <2>1. invitations' \in [Invitations -> Invitation]
    BY <1>1 DEF InvitationExpires, Typed, TypeOK, Invitation
  <2> QED BY <1>1, <2>1 DEF InvitationExpires, Typed, TypeOK, Prepared
<1>2. ASSUME NEW scope \in Scopes, NEW codes \in SUBSET Permissions, CreateRole(scope, codes)
      PROVE Typed'
  BY <1>2 DEF CreateRole, Typed, TypeOK, Prepared, Role
<1>3. CASE UNCHANGED vars
  BY <1>3 DEF vars, rows, Typed, TypeOK, Prepared
<1> QED BY <1>1, <1>2, <1>3, BeginFits, LoadTyped, CommitTyped DEF Next

\* The initial states have the types.
LEMMA TypedInit == Init => Typed
<1> SUFFICES ASSUME Init PROVE Typed
  OBVIOUS
<1>1. memberships \in [Users -> Membership]
  BY DEF Init, Membership, OrgRoles, NoMembership
<1>2. invitations \in [Invitations -> Invitation]
  BY OwnerIsUser DEF Init, Invitation, OrgRoles
<1>3. role \in Role
  BY DEF Init, Role, Scopes
<1>4. \A t \in Threads : Prepared(t)
  BY JoinedOrNone DEF Init, Prepared, Idle, NoRead
<1> QED BY <1>1, <1>2, <1>3, <1>4, IdleTypes DEF Init, Typed, TypeOK

\* The type invariant holds for every set of users, invitations, permissions,
\* threads and operations.
THEOREM TypeCorrect == Spec => []TypeOK
<1>1. Typed => TypeOK
  BY DEF Typed
<1> QED BY <1>1, TypedInit, TypedStep, PTL DEF Spec

-----------------------------------------------------------------------------
(* Invitations.                                                            *)

\* No step lets an invitation be used again.
LEMMA UnusedStep == Typed /\ Unused /\ [Next]_vars => Unused'
<1> SUFFICES ASSUME Typed, Unused, [Next]_vars, ~collided' PROVE Unused'
  BY DEF Unused
<1> DEFINE Free(i) ==
      /\ invitations[i].uses <= 1
      /\ invitations[i].status # "accepted" => invitations[i].uses = 0
      /\ \A t \in Threads :
           task[t].op = "accept" /\ i \in task[t].on.items /\ ~task[t].stale
             => invitations[i].uses = 0
<1> SUFFICES ASSUME NEW i \in Invitations PROVE Free(i)'
  BY DEF Unused
<1>1. ~collided => Free(i)
  BY DEF Unused
<1> HIDE DEF Free
<1>2. ASSUME NEW t \in Threads, Begin(t) PROVE Free(i)'
  <2>1. PICK op \in Ops, on \in Requests : Load(t, op, on) /\ Fits(op, on)
    BY <1>2, BeginFits
  <2>2. Free(i) /\ invitations' = invitations
    BY <1>1, <2>1 DEF Load, rows
  <2>3. op = "accept" /\ i \in on.items => invitations[i].uses = 0
    BY <2>1, <2>2 DEF Fits, Free
  <2>4. /\ task'[t].op = op /\ task'[t].on = on
        /\ \A s \in Threads \ {t} : task'[s] = task[s]
    BY <2>1 DEF Load, Typed
  <2> QED BY <2>2, <2>3, <2>4 DEF Free
<1>3. ASSUME NEW t \in Threads, Refuse(t) PROVE Free(i)'
  <2>1. /\ Free(i) /\ invitations' = invitations
        /\ task' = [task EXCEPT ![t] = Idle]
    BY <1>1, <1>3 DEF Refuse, rows
  <2> QED BY <2>1 DEF Free, Idle, Typed
<1>4. ASSUME NEW t \in Threads, Finish(t),
             \/ invitations'[i] = invitations[i]
             \/ invitations[i].status = "absent" /\ invitations'[i].uses = invitations[i].uses
      PROVE  Free(i)'
  <2>1. Free(i)
    BY <1>1, <1>4 DEF Finish
  <2>2. /\ task'[t].op = "idle"
        /\ \A s \in Threads \ {t} :
             /\ task'[s].op = task[s].op /\ task'[s].on = task[s].on
             /\ task'[s].stale = (task[s].stale \/ Touch(task[s].op, task[t].op))
    BY <1>4, FinishFacts DEF Idle
  <2> QED BY <1>4, <2>1, <2>2 DEF Free
<1>5. ASSUME NEW t \in Threads, NEW j \in Invitations, CommitAccept(t, j), ~Refuse(t)
      PROVE  Free(i)'
  <2>1. /\ Finish(t) /\ invitations' = MarkAccepted(j)
        /\ task[t].op = "accept" /\ j \in task[t].on.items
    BY <1>5 DEF CommitAccept, Committing
  <2>2. Free(i) /\ ~task[t].stale
    BY <1>1, <2>1 DEF Finish
  <2>3. CASE i # j
    BY <1>4, <2>1, <2>2, <2>3 DEF MarkAccepted, Typed, TypeOK
  <2>4. CASE i = j
    <3>1. invitations[i].uses = 0
      BY <2>1, <2>2, <2>4 DEF Free
    <3>2. invitations'[i].uses = 1 /\ invitations'[i].status = "accepted"
      BY <2>1, <2>4, <3>1 DEF MarkAccepted, Typed, TypeOK, Invitation
    <3>3. /\ task'[t].op = "idle"
          /\ \A s \in Threads \ {t} :
               /\ task'[s].op = task[s].op
               /\ task'[s].op = "accept" => task'[s].stale
      <4>1. \A s \in Threads \ {t} :
              /\ task'[s].op = task[s].op
              /\ task'[s].stale = (task[s].stale \/ Touch(task[s].op, task[t].op))
        BY <2>1, FinishFacts
      <4>2. Touch("accept", "accept")
        BY DEF Touch
      <4>3. task'[t].op = "idle"
        BY <2>1, FinishFacts DEF Idle
      <4> QED BY <2>1, <4>1, <4>2, <4>3
    <3> QED BY <3>2, <3>3 DEF Free
  <2> QED BY <2>3, <2>4
<1>6. ASSUME NEW t \in Threads, NEW j \in Invitations, CommitInvite(t, j), ~Refuse(t)
      PROVE  Free(i)'
  <2>1. Finish(t) /\ invitations[j].status = "absent" /\ ~task[t].stale
    BY <1>6 DEF CommitInvite, Finish
  <2>2. invitations'[j].uses = invitations[j].uses /\ (i # j => invitations'[i] = invitations[i])
    BY <1>6 DEF CommitInvite, Typed, TypeOK, Invitation
  <2> QED BY <1>4, <2>1, <2>2
<1>7. ASSUME NEW t \in Threads, Commit(t) PROVE Free(i)'
  <2>1. CASE \E j \in Invitations : CommitAccept(t, j) \/ CommitInvite(t, j)
    BY <1>3, <1>5, <1>6, <2>1
  <2>2. CASE ~\E j \in Invitations : CommitAccept(t, j) \/ CommitInvite(t, j)
    <3>1. CASE CommitOrg(t) \/ CommitUpdateMember(t) \/ CommitRemoveMember(t)
      BY <1>3, <1>4, <3>1 DEF CommitOrg, CommitUpdateMember, CommitRemoveMember
    <3>2. CASE CommitUpdateRole(t) \/ CommitDeleteRole(t) \/ CommitAssign(t) \/ CommitUnassign(t)
      BY <1>3, <1>4, <3>2 DEF CommitUpdateRole, CommitDeleteRole, CommitAssign, CommitUnassign
    <3> QED BY <1>7, <2>2, <3>1, <3>2 DEF Commit
  <2> QED BY <2>1, <2>2
<1>8. ASSUME NEW j \in Invitations, InvitationExpires(j) PROVE Free(i)'
  <2>1. /\ Free(i) /\ task' = task
        /\ invitations'[i].uses = invitations[i].uses
        /\ invitations'[i].status = invitations[i].status
    BY <1>1, <1>8 DEF InvitationExpires, Typed, TypeOK, Invitation
  <2> QED BY <2>1 DEF Free
<1>9. ASSUME UNCHANGED <<invitations, task, collided>> PROVE Free(i)'
  BY <1>1, <1>9 DEF Free
<1> QED BY <1>2, <1>7, <1>8, <1>9 DEF Next, CreateRole, vars, rows

\* An invitation is good for joining once, whatever else the administrators do
\* with it, until a handler commits what it had read before another changed it.
THEOREM UsedOnce == Spec => []InvitationUsedOnce
<1>1. Init => Unused
  BY DEF Init, Unused, Idle
<1>2. Unused => InvitationUsedOnce
  BY DEF Unused, InvitationUsedOnce
<1> QED BY <1>1, <1>2, TypedInit, TypedStep, UnusedStep, PTL DEF Spec

-----------------------------------------------------------------------------
(* The role.                                                               *)

\* No step separates the permissions from the latest request, or assigns the
\* role behind a deletion that goes through.
LEMMA RoleReadsStep == Typed /\ RoleReads /\ [Next]_vars => RoleReads'
<1> SUFFICES ASSUME Typed, RoleReads, [Next]_vars, ~collided' PROVE RoleReads'
  BY DEF RoleReads
<1> DEFINE Read(t) == ~task[t].stale =>
      /\ task[t].op = "update_role" =>
           /\ role.state # "absent"
           /\ role.state = "present" => seen[t].permissions = permissions
      /\ task[t].op = "delete_role" => holders = {}
<1> SUFFICES (permissions = requested)' /\ \A t \in Threads : Read(t)'
  BY DEF RoleReads
<1>1. ~collided => permissions = requested /\ \A t \in Threads : Read(t)
  BY DEF RoleReads
<1> HIDE DEF Read
<1> DEFINE Goal == (permissions = requested)' /\ \A t \in Threads : Read(t)'
<1>2. ASSUME NEW t \in Threads, Begin(t) PROVE Goal
  <2>1. PICK op \in Ops, on \in Requests : Load(t, op, on) /\ Fits(op, on)
    BY <1>2, BeginFits
  <2>2. ~collided /\ UNCHANGED <<role, permissions, holders, requested>>
    BY <2>1 DEF Load, rows
  <2>3. /\ task'[t].op = op
        /\ op = "update_role" => seen'[t].permissions = permissions
        /\ \A s \in Threads \ {t} : task'[s] = task[s] /\ seen'[s] = seen[s]
    BY <2>1 DEF Load, Typed
  <2>4. ASSUME NEW s \in Threads PROVE Read(s)'
    BY <1>1, <2>1, <2>2, <2>3 DEF Read, Fits
  <2> QED BY <1>1, <2>2, <2>4
<1>3. ASSUME NEW t \in Threads, Refuse(t) PROVE Goal
  <2>1. /\ ~collided /\ UNCHANGED <<role, permissions, holders, requested>>
        /\ \A s \in Threads : s # t => task'[s] = task[s] /\ seen'[s] = seen[s]
        /\ task'[t].op = "idle"
    BY <1>3 DEF Refuse, rows, Idle, Typed
  <2> QED BY <1>1, <2>1 DEF Read
<1>4. ASSUME NEW t \in Threads, Finish(t), (permissions = requested)',
             \/ UNCHANGED <<role, permissions>>
             \/ task[t].op = "update_role" /\ role' = role
             \/ role'.state = "deleted",
             holders' \subseteq holders \/ task[t].op = "assign"
      PROVE  Goal
  <2>1. ~collided /\ ~task[t].stale
    BY <1>4 DEF Finish
  <2>2. Read(t)'
    BY <1>4, FinishFacts DEF Read, Idle
  <2>3. ASSUME NEW s \in Threads \ {t} PROVE Read(s)'
    <3>1. /\ Read(s) /\ task'[s].op = task[s].op /\ seen'[s] = seen[s]
          /\ task'[s].stale = (task[s].stale \/ Touch(task[s].op, task[t].op))
      BY <1>1, <1>4, <2>1, FinishFacts
    <3> QED BY <1>4, <3>1 DEF Read, Touch
  <2> QED BY <1>4, <2>2, <2>3
<1>5. ASSUME NEW t \in Threads, CommitUpdateRole(t), ~Refuse(t) PROVE Goal
  <2>1. /\ Finish(t) /\ task[t].op = "update_role" /\ role' = role /\ holders' = holders
        /\ role.state = "present"
        /\ \E kept \in {permissions \ seen[t].permissions, {}} :
             permissions' = kept \cup task[t].on.items
        /\ requested' = task[t].on.items
    BY <1>5 DEF CommitUpdateRole, Committing
  <2>2. ~collided /\ ~task[t].stale
    BY <2>1 DEF Finish
  <2>3. seen[t].permissions = permissions
    BY <1>1, <2>1, <2>2 DEF Read
  <2>4. permissions' = requested'
    BY <2>1, <2>3
  <2> QED BY <1>4, <2>1, <2>4
<1>6. ASSUME NEW t \in Threads, CommitDeleteRole(t), ~Refuse(t) PROVE Goal
  <2>1. Finish(t) /\ (permissions = requested)' /\ role'.state = "deleted" /\ holders' = {}
    BY <1>6 DEF CommitDeleteRole, Typed, TypeOK, Role
  <2> QED BY <1>4, <2>1
<1>7. ASSUME NEW t \in Threads, CommitAssign(t) \/ CommitUnassign(t), ~Refuse(t) PROVE Goal
  <2>1. /\ Finish(t) /\ UNCHANGED <<role, permissions, requested>>
        /\ holders' \subseteq holders \/ task[t].op = "assign"
    BY <1>7 DEF CommitAssign, CommitUnassign, Committing
  <2>2. ~collided
    BY <2>1 DEF Finish
  <2> QED BY <1>1, <1>4, <2>1, <2>2
<1>8. ASSUME NEW t \in Threads, Commit(t) PROVE Goal
  <2>1. CASE CommitUpdateRole(t) \/ CommitDeleteRole(t) \/ CommitAssign(t) \/ CommitUnassign(t)
    BY <1>3, <1>5, <1>6, <1>7, <2>1
  <2>2. CASE ~(CommitUpdateRole(t) \/ CommitDeleteRole(t) \/ CommitAssign(t) \/ CommitUnassign(t))
    <3>1. Finish(t) /\ UNCHANGED <<role, permissions, holders, requested>> => Goal
      <4>1. Finish(t) => ~collided
        BY DEF Finish
      <4> QED BY <1>1, <1>4, <4>1
    <3> HIDE DEF Goal
    <3>2. CASE CommitOrg(t) \/ CommitUpdateMember(t) \/ CommitRemoveMember(t)
      BY <1>3, <3>1, <3>2 DEF CommitOrg, CommitUpdateMember, CommitRemoveMember
    <3>3. CASE \E i \in Invitations : CommitInvite(t, i)
      BY <1>3, <3>1, <3>3 DEF CommitInvite
    <3>4. CASE \E i \in Invitations : CommitAccept(t, i)
      BY <1>3, <3>1, <3>4 DEF CommitAccept
    <3> QED BY <1>8, <2>2, <3>2, <3>3, <3>4 DEF Commit
  <2> QED BY <2>1, <2>2
<1>9. ASSUME NEW scope \in Scopes, NEW codes \in SUBSET Permissions, CreateRole(scope, codes)
      PROVE Goal
  <2>1. /\ ~collided /\ role.state = "absent" /\ UNCHANGED <<task, seen, holders>>
        /\ permissions' = requested'
    BY <1>9 DEF CreateRole
  <2> QED BY <1>1, <2>1 DEF Read
<1>10. ASSUME UNCHANGED <<role, permissions, requested, holders, task, seen, collided>> PROVE Goal
  BY <1>1, <1>10 DEF Read
<1> QED BY <1>2, <1>8, <1>9, <1>10 DEF Next, InvitationExpires, vars, rows

\* The types and what role administration has read hold together.
LEMMA RoleInvariant == Spec => [](Typed /\ RoleReads)
<1>1. Init => RoleReads
  BY DEF Init, RoleReads, Idle
<1> QED BY <1>1, TypedInit, TypedStep, RoleReadsStep, PTL DEF Spec

\* A role has the permissions of the latest request, for any set of permissions
\* and any number of administrators.
THEOREM Permitted == Spec => []PermissionsAsRequested
<1>1. RoleReads => PermissionsAsRequested
  BY DEF RoleReads, PermissionsAsRequested
<1> QED BY <1>1, RoleInvariant, PTL

\* Nobody loses a role that was not taken away.
THEOREM Assigned == Spec => AssignedRoleStays
<1> DEFINE Kept == \A u \in holders \ holders' :
      ~collided' => \E t \in Threads : task[t].op = "unassign" /\ task[t].on.user = u
<1>1. ASSUME Typed, RoleReads, [Next]_vars PROVE Kept
  <2> SUFFICES ASSUME NEW u \in holders \ holders', ~collided'
               PROVE  \E t \in Threads : task[t].op = "unassign" /\ task[t].on.user = u
    OBVIOUS
  <2>1. PICK t \in Threads : CommitDeleteRole(t) \/ CommitUnassign(t) \/ CommitAssign(t)
    BY <1>1, BeginFits DEF Next, Commit, CommitOrg, CommitUpdateMember, CommitRemoveMember,
         CommitInvite, CommitAccept, CommitUpdateRole, Load, Refuse, InvitationExpires, CreateRole,
         vars, rows
  <2>2. ~CommitAssign(t)
    BY DEF CommitAssign, Refuse, rows
  <2>3. CASE CommitDeleteRole(t)
    <3>1. Finish(t) /\ task[t].op = "delete_role"
      BY <2>3 DEF CommitDeleteRole, Committing, Refuse, rows
    <3>2. ~collided /\ ~task[t].stale
      BY <3>1 DEF Finish
    <3>3. holders = {}
      BY <1>1, <3>1, <3>2 DEF RoleReads
    <3> QED BY <3>3
  <2>4. CASE CommitUnassign(t)
    BY <2>4 DEF CommitUnassign, Committing
  <2> QED BY <2>1, <2>2, <2>3, <2>4
<1>2. Typed /\ RoleReads /\ [Next]_vars => [Kept]_vars
  BY <1>1
<1> QED BY <1>2, RoleInvariant, PTL DEF Spec, AssignedRoleStays

-----------------------------------------------------------------------------
(* Owners.                                                                 *)

\* Handlers that touch memberships.
Members == {"accept", "member", "remove"}

\* What is not a commit on memberships leaves them alone.
LEMMA MembershipsStay ==
  ASSUME Typed, NEW t \in Threads, Commit(t)
  PROVE  \/ Refuse(t)
         \/ Finish(t) /\ UNCHANGED memberships
         \/ Finish(t) /\ task[t].op \in Members
  BY DEF Commit, CommitOrg, CommitUpdateMember, CommitRemoveMember, CommitInvite, CommitAccept,
         CommitUpdateRole, CommitDeleteRole, CommitAssign, CommitUnassign, Committing, Members

\* No step changes a membership behind a removal.
LEMMA RemovalsStep == Typed /\ Removals /\ [Next]_vars => Removals'
<1> SUFFICES ASSUME Typed, Removals, [Next]_vars, ~collided' PROVE Removals'
  BY DEF Removals
<1> DEFINE Apart == \A s, t \in Threads : s # t => ~Cross(task[s].op, task[t].op)
           Counted(t) == task[t].op = "remove" =>
             /\ seen[t].membership = memberships[task[t].on.user]
             /\ memberships[task[t].on.user].role = "owner" => Cardinality(Owners) > 1
<1> SUFFICES Apart' /\ \A t \in Threads : Counted(t)'
  BY DEF Removals
<1>1. ~collided => Apart /\ \A t \in Threads : Counted(t)
  BY DEF Removals
<1> HIDE DEF Apart, Counted
<1>2. ASSUME NEW t \in Threads, Begin(t) PROVE Apart' /\ \A s \in Threads : Counted(s)'
  <2>1. PICK op \in Ops, on \in Requests : Load(t, op, on) /\ Fits(op, on)
    BY <1>2, BeginFits
  <2>2. ~collided /\ memberships' = memberships /\ Owners' = Owners
    BY <2>1 DEF Load, rows, Owners
  <2>3. \A s \in Threads : ~Cross(op, task[s].op)
    BY <2>1 DEF Load
  <2>4. /\ task'[t].op = op /\ task'[t].on = on
        /\ \A s \in Threads \ {t} : task'[s] = task[s] /\ seen'[s] = seen[s]
        /\ op = "remove" => seen'[t].membership = memberships[on.user]
    BY <2>1 DEF Load, Typed
  <2>5. Apart'
    <3>1. \A s \in Threads : ~Cross(task[s].op, op)
      BY <2>3 DEF Cross
    <3> QED BY <1>1, <2>2, <2>3, <2>4, <3>1 DEF Apart
  <2>6. Counted(t)'
    BY <2>1, <2>2, <2>4 DEF Counted, Fits
  <2>7. ASSUME NEW s \in Threads \ {t} PROVE Counted(s)'
    BY <1>1, <2>2, <2>4 DEF Counted
  <2> QED BY <2>5, <2>6, <2>7
<1>3. ASSUME NEW t \in Threads, Refuse(t) \/ Finish(t),
             UNCHANGED memberships \/ task[t].op \in Members
      PROVE  Apart' /\ \A s \in Threads : Counted(s)'
  <2>1. /\ ~collided /\ task'[t].op = "idle"
        /\ \A s \in Threads \ {t} :
             task'[s].op = task[s].op /\ task'[s].on = task[s].on /\ seen'[s] = seen[s]
    <3>1. CASE Refuse(t)
      BY <3>1 DEF Refuse, Idle, Typed
    <3>2. CASE Finish(t)
      BY <3>2, FinishFacts DEF Finish, Idle
    <3> QED BY <1>3, <3>1, <3>2
  <2>2. Apart'
    BY <1>1, <2>1 DEF Apart, Cross
  <2>3. ASSUME NEW s \in Threads \ {t}, task[s].op = "remove" PROVE Counted(s)'
    <3>1. ~Cross(task[s].op, task[t].op)
      BY <1>1, <2>1 DEF Apart
    <3>2. task[t].op \notin Members
      BY <2>3, <3>1 DEF Cross, Members
    <3>3. memberships' = memberships /\ Owners' = Owners
      BY <1>3, <3>2 DEF Owners
    <3> QED BY <1>1, <2>1, <3>3 DEF Counted
  <2>4. \A s \in Threads : Counted(s)'
    BY <2>1, <2>3 DEF Counted
  <2> QED BY <2>2, <2>4
<1>4. ASSUME NEW t \in Threads, Commit(t) PROVE Apart' /\ \A s \in Threads : Counted(s)'
  BY <1>3, <1>4, MembershipsStay DEF Refuse, rows
<1>5. ASSUME UNCHANGED <<memberships, task, seen, collided>>
      PROVE  Apart' /\ \A s \in Threads : Counted(s)'
  BY <1>1, <1>5 DEF Apart, Counted, Owners
<1> QED BY <1>2, <1>4, <1>5 DEF Next, InvitationExpires, CreateRole, vars, rows

\* Two owners are needed for one to be among several.
LEMMA AnotherOwner ==
  ASSUME IsFiniteSet(Users), Cardinality(Owners) > 1, NEW u \in Users
  PROVE  \E v \in Owners : v # u
<1> SUFFICES ASSUME Owners \subseteq {u} PROVE FALSE
  OBVIOUS
<1>1. Cardinality(Owners) <= Cardinality({u})
  BY FS_Subset, FS_Singleton
<1>2. IsFiniteSet(Owners)
  BY FS_Subset DEF Owners
<1>3. Cardinality({u}) = 1 /\ Cardinality(Owners) \in Nat
  BY <1>2, FS_Singleton, FS_CardinalityType
<1> QED BY <1>1, <1>3

\* However many users there are, removing a member leaves an owner when there
\* was one, as long as no membership changes meanwhile.
THEOREM OwnerKept == ASSUME IsFiniteSet(Users) PROVE Spec => RemovalKeepsOwner
<1> DEFINE Kept == (\E t \in Threads : task[t].op = "remove" /\ task'[t].op = "idle")
                   /\ HasOwner /\ ~collided' => HasOwner'
<1>1. ASSUME Typed, Removals, [Next]_vars PROVE Kept
  <2> SUFFICES ASSUME NEW t \in Threads, task[t].op = "remove", task'[t].op = "idle",
                      HasOwner, ~collided'
               PROVE  HasOwner'
    OBVIOUS
  <2>1. CommitRemoveMember(t)
    <3>1. ASSUME NEW s \in Threads, Begin(s) PROVE FALSE
      <4>1. PICK op \in Ops, on \in Requests : Load(s, op, on)
        BY <1>1, <3>1, BeginFits
      <4>2. task[s].op = "idle" /\ (s # t => task'[t] = task[t])
        BY <1>1, <4>1, LoadFacts
      <4> QED BY <4>2
    <3>2. ASSUME NEW s \in Threads, s # t, Refuse(s) \/ Finish(s) PROVE FALSE
      BY <1>1, <3>2, FinishFacts DEF Refuse, Typed
    <3>3. ASSUME UNCHANGED task PROVE FALSE
      BY <3>3
    <3>4. PICK s \in Threads : Commit(s)
      BY <1>1, <3>1, <3>3 DEF Next, InvitationExpires, CreateRole, vars
    <3>5. s = t
      BY <1>1, <3>2, <3>4, MembershipsStay
    <3> QED BY <3>4, <3>5 DEF Commit, CommitOrg, CommitUpdateMember, CommitInvite, CommitAccept,
          CommitUpdateRole, CommitDeleteRole, CommitAssign, CommitUnassign, Committing
  <2> DEFINE u == task[t].on.user
             new == [seen[t].membership EXCEPT !.status = "removed"]
  <2>2. ~collided /\ Finish(t)
    BY <2>1 DEF CommitRemoveMember, Finish
  <2>3. /\ seen[t].membership = memberships[u]
        /\ memberships[u].role = "owner" => Cardinality(Owners) > 1
    BY <1>1, <2>2 DEF Removals
  <2>4. u \in Users /\ memberships[u] \in Joined /\ new \in Joined
    BY <1>1 DEF Typed, Prepared, Requests, Joined
  <2>5. SaveMembership(t, u, new)
    BY <2>1 DEF CommitRemoveMember
  <2> HIDE DEF new, u
  <2>6. \A v \in Users \ {u} : memberships'[v] = memberships[v]
    BY <1>1, <2>4, <2>5, Saved
  <2>7. PICK v \in Users : memberships[v] = [role |-> "owner", status |-> "active"]
    BY DEF HasOwner
  <2>8. CASE v # u
    BY <2>6, <2>7, <2>8 DEF HasOwner
  <2>9. CASE v = u
    <3>1. PICK w \in Owners : w # u
      BY <2>3, <2>4, <2>7, <2>9, AnotherOwner
    <3>2. /\ w \in Users /\ memberships[w] \in Membership
          /\ memberships[w].role = "owner" /\ memberships[w].status = "active"
      BY <1>1, <3>1 DEF Owners, Typed, TypeOK
    <3>3. memberships[w] = [role |-> "owner", status |-> "active"]
      BY <3>2 DEF Membership, NoMembership
    <3> QED BY <2>6, <3>1, <3>2, <3>3 DEF HasOwner
  <2> QED BY <2>8, <2>9
<1>2. Typed /\ Removals /\ [Next]_vars => [Kept]_vars
  BY <1>1
<1>3. Init => Removals
  BY DEF Init, Removals, Idle, Cross
<1> QED BY <1>2, <1>3, TypedInit, TypedStep, RemovalsStep, PTL DEF Spec, RemovalKeepsOwner

=============================================================================
