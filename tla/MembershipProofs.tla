-------------------------- MODULE MembershipProofs --------------------------
(***************************************************************************)
(* What the members of a conversation and an invite to it promise for any  *)
(* number of users, replicas and uses of the invite, and whatever takes    *)
(* part: the types, the limits, and that a ban holds.                      *)
(***************************************************************************)
EXTENDS Membership, FiniteSetTheorems, TLAPS

\* What the handler of replica p has passed, whatever others committed since.
Passed(p) ==
  /\ task[p].op # "idle" => p \in deployment.replicas /\ seen[p].uses <= joins
  /\ task[p].op \in {"remove", "leave", "ban", "unban"} => task[p].status # "active"
  /\ task[p].op = "accept" =>
       /\ seen[p].uses < MaxUses /\ task[p].targets = {task[p].actor}
       /\ invite.state # "none"

\* What it has passed still holds when no other replica interferes.
Fresh(p) ==
  /\ seen[p].members = members
  /\ task[p].op \in {"add", "accept"} => \A u \in task[p].targets : members[u].status # "banned"
  /\ task[p].op = "add" =>
       Cardinality(ActiveIn(members)) + Cardinality(task[p].targets) <= conversation.capacity
  /\ task[p].op = "accept" =>
       /\ Cardinality(ActiveIn(members)) < conversation.capacity
       /\ seen[p].uses = invite.uses

\* The uses counted are at most those there were, and equal when nobody else
\* counts; a link that does not exist was not used.
Counted ==
  /\ invite.uses <= MaxUses /\ invite.uses <= joins
  /\ Alone => joins = invite.uses
  /\ invite.state = "none" => invite.uses = 0

IInv ==
  /\ TypeOK
  /\ Counted
  /\ \A p \in Replicas : Passed(p)
  /\ Alone => \A p \in deployment.replicas : task[p].op # "idle" => Fresh(p)

-----------------------------------------------------------------------------
(* What the two halves of a handler do.                                    *)

\* The values that a handler begins and ends with have the types.
LEMMA IdleTypes == NoTask \in Tasks /\ NoRead \in [members : [Users -> MemberRows], uses : Nat]
<1>1. NoTask \in Tasks
  BY CreatorIsAUser DEF NoTask, Tasks, Roles, Statuses
<1>2. NoMember \in MemberRows
  BY DEF NoMember, MemberRows, Roles, Statuses
<1> QED BY <1>1, <1>2 DEF NoRead

\* A handler that begins leaves the rows alone and keeps what it read.
LEMMA LoadFacts ==
  ASSUME TypeOK, NEW p \in Replicas, NEW t \in Tasks, Load(p, t)
  PROVE  /\ TypeOK'
         /\ p \in deployment.replicas /\ task[p] = NoTask
         /\ task'[p] = t /\ seen'[p].members = members /\ seen'[p].uses = invite.uses
         /\ \A q \in Replicas \ {p} : task'[q] = task[q] /\ seen'[q] = seen[q]
         /\ UNCHANGED <<deployment, members, conversation, invite, joins>>
<1>1. invite.uses \in Nat /\ members \in [Users -> MemberRows]
  BY DEF TypeOK, InviteRows
<1>2. seen' \in [Replicas -> [members : [Users -> MemberRows], uses : Nat]]
  BY <1>1 DEF Load, TypeOK
<1>3. task' \in [Replicas -> Tasks]
  BY DEF Load, TypeOK
<1>4. TypeOK'
  BY <1>2, <1>3 DEF Load, TypeOK
<1> QED BY <1>4 DEF Load, TypeOK

\* What a handler gives the status of its targets.
Given(p) == IF task[p].op \in {"add", "accept"} THEN "active" ELSE task[p].status

\* A handler that ends frees its replica; of the members it touches its targets
\* alone, whose status it sets only if it differs from the one it loaded; and
\* accept_invite counts one use more than it loaded.
LEMMA CommitFacts ==
  ASSUME TypeOK, NEW p \in Replicas, Passed(p), Commit(p)
  PROVE  /\ TypeOK'
         /\ task[p].op # "idle" /\ task'[p] = NoTask /\ seen'[p] = NoRead
         /\ \A q \in Replicas \ {p} : task'[q] = task[q] /\ seen'[q] = seen[q]
         /\ UNCHANGED <<deployment, conversation>>
         /\ \A u \in Users :
              \/ members'[u].status = members[u].status
              \/ /\ u \in task[p].targets /\ members'[u].status = Given(p)
                 /\ Given(p) # seen[p].members[u].status
         /\ \/ UNCHANGED <<invite, joins>>
            \/ /\ task[p].op = "accept" /\ joins' = joins + 1
               /\ invite'.state = invite.state /\ invite'.uses = seen[p].uses + 1
<1> DEFINE Rows == \A u \in Users :
              \/ members'[u].status = members[u].status
              \/ /\ u \in task[p].targets /\ members'[u].status = Given(p)
                 /\ Given(p) # seen[p].members[u].status
<1>0. /\ task[p] \in Tasks /\ members \in [Users -> MemberRows] /\ seen[p].members \in [Users -> MemberRows]
      /\ seen[p].uses \in Nat /\ joins \in Nat /\ invite \in InviteRows
  BY DEF TypeOK
<1>1. ASSUME Finish(p)
      PROVE  /\ task'[p] = NoTask /\ seen'[p] = NoRead
             /\ \A q \in Replicas \ {p} : task'[q] = task[q] /\ seen'[q] = seen[q]
             /\ task' \in [Replicas -> Tasks]
             /\ seen' \in [Replicas -> [members : [Users -> MemberRows], uses : Nat]]
  BY <1>1, IdleTypes DEF Finish, TypeOK
<1>2. ASSUME NEW u \in Users, NEW role \in Roles, NEW status \in Statuses
      PROVE  /\ Written(p, u, [role |-> role, status |-> status]) \in MemberRows
             /\ Written(p, u, [role |-> role, status |-> status]).status =
                  IF status = seen[p].members[u].status THEN members[u].status ELSE status
  BY <1>0 DEF Written, MemberRows
<1>3. ASSUME Refuse(p)
      PROVE  Finish(p) /\ UNCHANGED <<deployment, members, conversation, invite, joins>>
  BY <1>3 DEF Refuse
<1>4. ASSUME CommitAdd(p)
      PROVE  /\ Finish(p) /\ UNCHANGED <<deployment, conversation, invite, joins>> /\ task[p].op # "idle"
             /\ members' \in [Users -> MemberRows] /\ Rows
  <2>1. CASE Refuse(p)
    BY <1>0, <1>3, <1>4, <2>1 DEF CommitAdd
  <2>2. CASE ~Refuse(p)
    <3>1. /\ members' = [u \in Users |-> IF u \in task[p].targets
               THEN Written(p, u, [role |-> task[p].role, status |-> "active"]) ELSE members[u]]
          /\ Finish(p) /\ UNCHANGED <<deployment, conversation, invite, joins>> /\ task[p].op = "add"
      BY <1>4, <2>2 DEF CommitAdd, CommitRows
    <3>2. task[p].role \in Roles /\ "active" \in Statuses /\ Given(p) = "active"
      BY <1>0, <3>1 DEF Tasks, Statuses, Given
    <3> QED BY <1>0, <1>2, <3>1, <3>2
  <2> QED BY <2>1, <2>2
<1>5. ASSUME CommitUpdate(p)
      PROVE  /\ Finish(p) /\ UNCHANGED <<deployment, conversation, invite, joins>> /\ task[p].op # "idle"
             /\ members' \in [Users -> MemberRows] /\ Rows
  <2>1. CASE Refuse(p)
    BY <1>0, <1>3, <1>5, <2>1 DEF CommitUpdate
  <2>2. CASE ~Refuse(p)
    <3>1. /\ members' = [u \in Users |-> IF u \in task[p].targets
               THEN Written(p, u, [role |-> task[p].role, status |-> task[p].status]) ELSE members[u]]
          /\ Finish(p) /\ UNCHANGED <<deployment, conversation, invite, joins>> /\ task[p].op = "update"
      BY <1>5, <2>2 DEF CommitUpdate, CommitRows
    <3>2. task[p].role \in Roles /\ task[p].status \in Statuses /\ Given(p) = task[p].status
      BY <1>0, <3>1 DEF Tasks, Given
    <3> QED BY <1>0, <1>2, <3>1, <3>2
  <2> QED BY <2>1, <2>2
<1>6. ASSUME CommitStatus(p)
      PROVE  /\ Finish(p) /\ UNCHANGED <<deployment, conversation, invite, joins>> /\ task[p].op # "idle"
             /\ members' \in [Users -> MemberRows] /\ Rows
  <2>1. CASE Refuse(p)
    BY <1>0, <1>3, <1>6, <2>1 DEF CommitStatus
  <2>2. CASE ~Refuse(p)
    <3>1. /\ members' = [u \in Users |-> IF u \in task[p].targets
               THEN Written(p, u, [role |-> seen[p].members[u].role, status |-> task[p].status])
               ELSE members[u]]
          /\ Finish(p) /\ UNCHANGED <<deployment, conversation, invite, joins>>
          /\ task[p].op \in {"remove", "leave", "ban", "unban"}
      BY <1>6, <2>2 DEF CommitStatus, CommitRows
    <3>2. /\ \A u \in Users : seen[p].members[u].role \in Roles
          /\ task[p].status \in Statuses /\ Given(p) = task[p].status
      BY <1>0, <3>1 DEF Tasks, Given, MemberRows
    <3> QED BY <1>0, <1>2, <3>1, <3>2
  <2> QED BY <2>1, <2>2
<1>7. ASSUME CommitAccept(p)
      PROVE  /\ Finish(p) /\ UNCHANGED <<deployment, conversation>> /\ task[p].op = "accept"
             /\ members' \in [Users -> MemberRows] /\ Rows
             /\ \/ UNCHANGED <<invite, joins>>
                \/ joins' = joins + 1 /\ invite' = [invite EXCEPT !.uses = seen[p].uses + 1]
  <2>1. CASE Refuse(p)
    BY <1>0, <1>3, <1>7, <2>1 DEF CommitAccept
  <2>2. CASE ~Refuse(p)
    <3> DEFINE u == task[p].actor
    <3>1. /\ members' = [members EXCEPT ![u] =
               Written(p, u, [role |-> seen[p].members[u].role, status |-> "active"])]
          /\ invite' = [invite EXCEPT !.uses = seen[p].uses + 1] /\ joins' = joins + 1
          /\ Finish(p) /\ UNCHANGED <<deployment, conversation>> /\ task[p].op = "accept"
      BY <1>7, <2>2 DEF CommitAccept
    <3>2. /\ u \in Users /\ seen[p].members[u].role \in Roles /\ "active" \in Statuses
          /\ Given(p) = "active" /\ task[p].targets = {u}
      BY <1>0, <3>1 DEF Tasks, Given, MemberRows, Statuses, Passed
    <3> QED BY <1>0, <1>2, <3>1, <3>2
  <2> QED BY <2>1, <2>2
<1>8. /\ Finish(p) /\ UNCHANGED <<deployment, conversation>> /\ task[p].op # "idle"
      /\ members' \in [Users -> MemberRows] /\ Rows
      /\ \/ UNCHANGED <<invite, joins>>
         \/ /\ task[p].op = "accept" /\ joins' = joins + 1
            /\ invite' = [invite EXCEPT !.uses = seen[p].uses + 1]
  BY <1>4, <1>5, <1>6, <1>7 DEF Commit
<1>9. joins' \in Nat /\ invite' \in InviteRows
  BY <1>0, <1>8 DEF InviteRows
<1>10. TypeOK'
  BY <1>1, <1>8, <1>9 DEF TypeOK
<1>11. \/ UNCHANGED <<invite, joins>>
       \/ /\ task[p].op = "accept" /\ joins' = joins + 1
          /\ invite'.state = invite.state /\ invite'.uses = seen[p].uses + 1
  BY <1>0, <1>8 DEF InviteRows
<1> QED BY <1>1, <1>8, <1>10, <1>11

\* What a handler t has checked of the rows when it begins.
Checked(t) ==
  /\ t.op # "idle"
  /\ t.op \in {"remove", "leave", "ban", "unban"} => t.status # "active"
  /\ t.op = "accept" => t.targets = {t.actor} /\ invite.state = "open" /\ invite.uses < MaxUses
  /\ t.op \in {"add", "accept"} => \A u \in t.targets : members[u].status # "banned"
  /\ t.op = "add" => Cardinality(ActiveIn(members)) + Cardinality(t.targets) <= conversation.capacity
  /\ t.op = "accept" => Cardinality(ActiveIn(members)) < conversation.capacity

\* The number of members, and of the targets of add_members.
LEMMA Sizes ==
  /\ \A rows : IsFiniteSet(ActiveIn(rows)) /\ Cardinality(ActiveIn(rows)) \in Nat
  /\ \A S \in SUBSET Users : IsFiniteSet(S) /\ Cardinality(S) \in Nat
<1>1. \A S \in SUBSET Users : IsFiniteSet(S) /\ Cardinality(S) \in Nat
  BY InstanceIsFinite, FS_Subset, FS_CardinalityType
<1>2. \A rows : ActiveIn(rows) \in SUBSET Users
  BY DEF ActiveIn
<1> QED BY <1>1, <1>2

\* Every handler that begins has checked what it needs.
LEMMA BeginFacts ==
  ASSUME TypeOK, NEW p \in Replicas, Begin(p)
  PROVE  \E t \in Tasks : Load(p, t) /\ Checked(t)
<1>0. /\ deployment.users \subseteq Users /\ deployment.granted \subseteq Roles
      /\ members \in [Users -> MemberRows] /\ conversation.capacity \in Nat
      /\ NoTask \in Tasks
  BY DeploymentsAreKnown, IdleTypes DEF TypeOK
<1>1. PICK u \in deployment.users :
        \/ BeginLeave(p, u) \/ BeginBan(p, u) \/ BeginUnban(p, u) \/ BeginAccept(p, u)
        \/ \E S \in SUBSET deployment.users, role \in deployment.granted : BeginAdd(p, u, S, role)
        \/ \E actor \in deployment.users : BeginRemove(p, actor, u)
        \/ \E actor \in deployment.users, role \in deployment.granted \cup {members[u].role},
              status \in {"active", "removed", "banned", members[u].status} :
             BeginUpdate(p, actor, u, role, status)
  BY DEF Begin
<1>2. CASE BeginLeave(p, u)
  <2> DEFINE t == [NoTask EXCEPT !.op = "leave", !.actor = u, !.targets = {u}, !.status = "left"]
  <2>1. t \in Tasks
    BY <1>0 DEF NoTask, Tasks, Handlers, Statuses
  <2>2. Checked(t) /\ Load(p, t)
    BY <1>2 DEF Checked, BeginLeave, NoTask
  <2> QED BY <2>1, <2>2
<1>3. CASE BeginBan(p, u)
  <2> DEFINE t == [NoTask EXCEPT !.op = "ban", !.targets = {u}, !.status = "banned"]
  <2>1. t \in Tasks
    BY <1>0 DEF NoTask, Tasks, Handlers, Statuses
  <2>2. Checked(t) /\ Load(p, t)
    BY <1>3 DEF Checked, BeginBan, NoTask
  <2> QED BY <2>1, <2>2
<1>4. CASE BeginUnban(p, u)
  <2> DEFINE t == [NoTask EXCEPT !.op = "unban", !.targets = {u}, !.status = "removed"]
  <2>1. t \in Tasks
    BY <1>0 DEF NoTask, Tasks, Handlers, Statuses
  <2>2. Checked(t) /\ Load(p, t)
    BY <1>4 DEF Checked, BeginUnban, NoTask
  <2> QED BY <2>1, <2>2
<1>5. CASE BeginAccept(p, u)
  <2> DEFINE t == [NoTask EXCEPT !.op = "accept", !.actor = u, !.targets = {u}]
  <2>1. t \in Tasks
    BY <1>0 DEF NoTask, Tasks, Handlers, Statuses
  <2>2. Checked(t) /\ Load(p, t)
    BY <1>5 DEF Checked, BeginAccept, NoTask
  <2> QED BY <2>1, <2>2
<1>6. ASSUME NEW S \in SUBSET deployment.users, NEW role \in deployment.granted, BeginAdd(p, u, S, role)
      PROVE  \E t \in Tasks : Load(p, t) /\ Checked(t)
  <2> DEFINE t == [NoTask EXCEPT !.op = "add", !.actor = u, !.targets = S \ {u}, !.role = role]
  <2>1. t \in Tasks
    BY <1>0 DEF NoTask, Tasks, Handlers, Statuses
  <2>2. Cardinality(S \ {u}) <= Cardinality(S)
    BY <1>0, Sizes, FS_Subset
  <2>3. /\ Cardinality(S) \in Nat /\ Cardinality(S \ {u}) \in Nat
        /\ Cardinality(ActiveIn(members)) \in Nat
    BY <1>0, Sizes
  <2>4. Cardinality(ActiveIn(members)) + Cardinality(S \ {u}) <= conversation.capacity
    BY <1>0, <1>6, <2>2, <2>3 DEF BeginAdd
  <2>5. /\ t.op = "add" /\ t.targets = S \ {u} /\ Load(p, t)
        /\ \A v \in S \ {u} : members[v].status # "banned"
    BY <1>6 DEF BeginAdd, NoTask
  <2>6. Checked(t)
    BY <2>4, <2>5 DEF Checked
  <2> QED BY <2>1, <2>5, <2>6
<1>7. ASSUME NEW actor \in deployment.users, BeginRemove(p, actor, u)
      PROVE  \E t \in Tasks : Load(p, t) /\ Checked(t)
  <2> DEFINE t == [NoTask EXCEPT !.op = "remove", !.actor = actor, !.targets = {u}, !.status = "removed"]
  <2>1. t \in Tasks
    BY <1>0 DEF NoTask, Tasks, Handlers, Statuses
  <2>2. Checked(t) /\ Load(p, t)
    BY <1>7 DEF Checked, BeginRemove, NoTask
  <2> QED BY <2>1, <2>2
<1>8. ASSUME NEW actor \in deployment.users, NEW role \in deployment.granted \cup {members[u].role},
             NEW status \in {"active", "removed", "banned", members[u].status},
             BeginUpdate(p, actor, u, role, status)
      PROVE  \E t \in Tasks : Load(p, t) /\ Checked(t)
  <2> DEFINE t == [NoTask EXCEPT !.op = "update", !.actor = actor, !.targets = {u},
                                 !.role = role, !.status = status]
  <2>1. role \in Roles /\ status \in Statuses
    BY <1>0 DEF MemberRows, Statuses
  <2>2. t \in Tasks
    BY <1>0, <2>1 DEF NoTask, Tasks, Handlers
  <2>3. Checked(t) /\ Load(p, t)
    BY <1>8 DEF Checked, BeginUpdate, NoTask
  <2> QED BY <2>2, <2>3
<1> QED BY <1>1, <1>2, <1>3, <1>4, <1>5, <1>6, <1>7, <1>8

-----------------------------------------------------------------------------
(* The invariant.                                                          *)

\* When one replica serves the conversation, nobody else commits.
LEMMA AloneIsOne ==
  ASSUME TypeOK, Alone, NEW p \in deployment.replicas, NEW q \in deployment.replicas
  PROVE  p = q
<1>1. IsFiniteSet(deployment.replicas)
  BY DeploymentsAreKnown, InstanceIsFinite, FS_Subset DEF TypeOK
<1>2. \E x : deployment.replicas = {x}
  BY <1>1, FS_Singleton DEF Alone
<1> QED BY <1>2

\* A handler that begins has passed, and is fresh.
LEMMA BeginKeeps == ASSUME IInv, NEW p \in Replicas, Begin(p) PROVE IInv'
<1>0. TypeOK /\ Counted /\ \A q \in Replicas : Passed(q)
  BY DEF IInv
<1>1. PICK t \in Tasks : Load(p, t) /\ Checked(t)
  BY <1>0, BeginFacts
<1>2. /\ TypeOK'
      /\ p \in deployment.replicas
      /\ task'[p] = t /\ seen'[p].members = members /\ seen'[p].uses = invite.uses
      /\ \A q \in Replicas \ {p} : task'[q] = task[q] /\ seen'[q] = seen[q]
      /\ UNCHANGED <<deployment, members, conversation, invite, joins>>
  BY <1>0, <1>1, LoadFacts
<1>3. Counted' /\ (Alone' <=> Alone)
  BY <1>0, <1>2 DEF Counted, Alone
<1>4. Passed(p)'
  BY <1>0, <1>1, <1>2 DEF Passed, Checked, Counted
<1>5. \A q \in Replicas \ {p} : Passed(q)'
  BY <1>0, <1>2 DEF Passed
<1>6. Fresh(p)'
  BY <1>1, <1>2 DEF Fresh, Checked
<1>7. ASSUME Alone', NEW q \in deployment'.replicas PROVE Fresh(q)'
  <2>1. q = p
    BY <1>0, <1>2, <1>3, <1>7, AloneIsOne
  <2> QED BY <1>6, <2>1
<1> QED BY <1>2, <1>3, <1>4, <1>5, <1>7 DEF IInv

\* A handler that ends counts no use that its replica alone has not seen.
LEMMA CommitKeeps == ASSUME IInv, NEW p \in Replicas, Commit(p) PROVE IInv'
<1>0. /\ TypeOK /\ Counted /\ \A q \in Replicas : Passed(q)
      /\ invite.uses \in Nat /\ joins \in Nat /\ seen[p].uses \in Nat /\ MaxUses \in Nat
  BY MaxUsesIsPositive DEF IInv, TypeOK, InviteRows
<1>1. /\ TypeOK'
      /\ task[p].op # "idle" /\ task'[p] = NoTask
      /\ \A q \in Replicas \ {p} : task'[q] = task[q] /\ seen'[q] = seen[q]
      /\ UNCHANGED <<deployment, conversation>>
      /\ \/ UNCHANGED <<invite, joins>>
         \/ /\ task[p].op = "accept" /\ joins' = joins + 1
            /\ invite'.state = invite.state /\ invite'.uses = seen[p].uses + 1
  BY <1>0, CommitFacts
<1>2. p \in deployment.replicas /\ seen[p].uses <= joins
  BY <1>0, <1>1 DEF Passed
<1>3. Alone => Fresh(p)
  BY <1>1, <1>2 DEF IInv
<1>4. joins <= joins'
  BY <1>0, <1>1
<1>5. Counted'
  <2>1. CASE UNCHANGED <<invite, joins>>
    BY <1>0, <1>1, <2>1 DEF Counted, Alone
  <2>2. CASE /\ task[p].op = "accept" /\ joins' = joins + 1
             /\ invite'.state = invite.state /\ invite'.uses = seen[p].uses + 1
    <3>1. seen[p].uses < MaxUses
      BY <1>0, <2>2 DEF Passed
    <3>2. invite'.uses <= MaxUses /\ invite'.uses <= joins'
      BY <1>0, <1>2, <2>2, <3>1
    <3>3. Alone' => joins' = invite'.uses
      BY <1>0, <1>1, <1>3, <2>2 DEF Counted, Fresh, Alone
    <3>4. invite'.state # "none"
      BY <1>0, <2>2 DEF Passed
    <3> QED BY <3>2, <3>3, <3>4 DEF Counted
  <2> QED BY <1>1, <2>1, <2>2
<1>6. \A q \in Replicas : Passed(q)'
  <2>1. Passed(p)'
    BY <1>1 DEF Passed, NoTask
  <2>2. ASSUME NEW q \in Replicas \ {p} PROVE Passed(q)'
    <3>1. seen[q].uses \in Nat /\ joins' \in Nat
      BY <1>0, <1>1 DEF TypeOK
    <3> QED BY <1>0, <1>1, <1>4, <3>1 DEF Passed
  <2> QED BY <2>1, <2>2
<1>7. ASSUME Alone', NEW q \in deployment'.replicas, task'[q].op # "idle" PROVE Fresh(q)'
  <2>1. Alone
    BY <1>1, <1>7 DEF Alone
  <2>2. q = p
    BY <1>0, <1>1, <1>2, <1>7, <2>1, AloneIsOne
  <2> QED BY <1>1, <1>7, <2>2 DEF NoTask
<1> QED BY <1>1, <1>5, <1>6, <1>7 DEF IInv

\* The invite is created unused, and revoked with the uses it had.
LEMMA InviteKeeps == ASSUME IInv, CreateInvite \/ RevokeInvite PROVE IInv'
<1>0. TypeOK /\ Counted /\ (\A q \in Replicas : Passed(q)) /\ invite.uses \in Nat
  BY DEF IInv, TypeOK, InviteRows
<1>1. UNCHANGED <<deployment, members, conversation, task, seen, joins>>
  BY DEF CreateInvite, RevokeInvite
<1>2. invite' \in InviteRows /\ invite'.uses = invite.uses /\ invite'.state # "none"
  <2>1. CASE CreateInvite
    BY <1>0, <2>1 DEF CreateInvite, InviteRows, Counted
  <2>2. CASE RevokeInvite
    BY <1>0, <2>2 DEF RevokeInvite, InviteRows, TypeOK
  <2> QED BY <2>1, <2>2
<1>3. TypeOK' /\ Counted' /\ (Alone' <=> Alone)
  BY <1>0, <1>1, <1>2 DEF TypeOK, Counted, Alone
<1>4. \A q \in Replicas : Passed(q)'
  BY <1>0, <1>1, <1>2 DEF Passed
<1>5. ASSUME Alone', NEW q \in deployment'.replicas, task'[q].op # "idle" PROVE Fresh(q)'
  <2>1. Fresh(q)
    BY <1>1, <1>3, <1>5 DEF IInv
  <2> QED BY <1>1, <1>2, <2>1 DEF Fresh
<1> QED BY <1>3, <1>4, <1>5 DEF IInv

\* The conversation row changes only on an idle replica.
LEMMA ConversationKeeps ==
  ASSUME IInv, NEW p \in Replicas, Resize(p) \/ SetStatus(p) PROVE IInv'
<1>0. TypeOK /\ Counted /\ \A q \in Replicas : Passed(q)
  BY DEF IInv
<1>1. /\ UNCHANGED <<deployment, members, invite, task, seen, joins>>
      /\ p \in deployment.replicas /\ task[p] = NoTask
  BY DEF Resize, SetStatus
<1>2. conversation' \in [status : {"active", "archived", "deleted"}, capacity : Nat]
  <2>1. CASE Resize(p)
    <3>1. PICK n \in deployment.capacities : conversation' = [conversation EXCEPT !.capacity = n]
      BY <2>1 DEF Resize
    <3>2. n \in Nat
      BY <1>0, DeploymentsAreKnown DEF TypeOK
    <3> QED BY <1>0, <3>1, <3>2 DEF TypeOK
  <2>2. CASE SetStatus(p)
    <3>1. PICK s \in {"active", "archived", "deleted"} : conversation' = [conversation EXCEPT !.status = s]
      BY <2>2 DEF SetStatus
    <3> QED BY <1>0, <3>1 DEF TypeOK
  <2> QED BY <2>1, <2>2
<1>3. TypeOK' /\ Counted' /\ (Alone' <=> Alone)
  BY <1>0, <1>1, <1>2 DEF TypeOK, Counted, Alone
<1>4. \A q \in Replicas : Passed(q)'
  BY <1>0, <1>1 DEF Passed
<1>5. ASSUME Alone', NEW q \in deployment'.replicas, task'[q].op # "idle" PROVE Fresh(q)'
  <2>1. q = p
    BY <1>0, <1>1, <1>3, <1>5, AloneIsOne
  <2> QED BY <1>1, <1>5, <2>1 DEF NoTask
<1> QED BY <1>3, <1>4, <1>5 DEF IInv

\* The invariant holds at first.
LEMMA Starts == Init => IInv
<1> SUFFICES ASSUME Init PROVE IInv
  OBVIOUS
<1>1. deployment \in Deployments /\ deployment.capacities \subseteq Nat
  BY DeploymentsAreKnown DEF Init
<1>2. members \in [Users -> MemberRows]
  BY DEF Init, MemberRows, Roles, Statuses
<1>3. conversation \in [status : {"active", "archived", "deleted"}, capacity : Nat]
  BY <1>1 DEF Init
<1>4. /\ task = [p \in Replicas |-> NoTask] /\ seen = [p \in Replicas |-> NoRead]
      /\ invite = [state |-> "none", uses |-> 0] /\ joins = 0
  BY DEF Init
<1>5. invite \in InviteRows /\ joins \in Nat
  BY <1>4 DEF InviteRows
<1>6. TypeOK
  BY <1>1, <1>2, <1>3, <1>4, <1>5, IdleTypes DEF TypeOK
<1>7. Counted
  BY <1>4, MaxUsesIsPositive DEF Counted
<1>8. \A p \in Replicas : task[p].op = "idle" /\ Passed(p)
  BY <1>4 DEF Passed, NoTask
<1>9. deployment.replicas \subseteq Replicas
  BY <1>1, DeploymentsAreKnown
<1> QED BY <1>6, <1>7, <1>8, <1>9 DEF IInv

\* Every step keeps the invariant.
LEMMA Keeps == IInv /\ [Next]_vars => IInv'
<1> SUFFICES ASSUME IInv, [Next]_vars PROVE IInv'
  OBVIOUS
<1>1. CASE UNCHANGED vars
  BY <1>1 DEF vars, IInv, TypeOK, Counted, Passed, Fresh, Alone, ActiveIn
<1>2. CASE Next
  BY <1>2, BeginKeeps, CommitKeeps, InviteKeeps, ConversationKeeps DEF Next
<1> QED BY <1>1, <1>2

LEMMA Inductive == Spec => []IInv
  BY Starts, Keeps, PTL DEF Spec

\* The type invariant holds for every deployment.
THEOREM TypeCorrect == Spec => []TypeOK
<1>1. IInv => TypeOK
  BY DEF IInv
<1> QED BY <1>1, Inductive, PTL

\* The uses of an invite never exceed its limit nor the users it let in; and on
\* one replica it lets in no more users than that.
THEOREM WithinLimit == Spec => []InviteWithinLimit
<1>1. IInv => InviteWithinLimit
  <2> SUFFICES ASSUME IInv PROVE InviteWithinLimit
    OBVIOUS
  <2> QED BY DEF IInv, Counted, InviteWithinLimit
<1> QED BY <1>1, Inductive, PTL

\* Only handlers that commit change the members.
LEMMA OnlyCommits ==
  ASSUME IInv, [Next]_vars, members' # members
  PROVE  \E p \in Replicas : Commit(p)
<1>1. ASSUME NEW p \in Replicas, Begin(p) PROVE members' = members
  <2>1. PICK t \in Tasks : Load(p, t)
    BY <1>1, BeginFacts DEF IInv
  <2> QED BY <2>1 DEF Load
<1> QED BY <1>1 DEF Next, Resize, SetStatus, CreateInvite, RevokeInvite, vars

\* On one replica only update_member lets a banned member back; on several, only
\* a handler that read the member before the ban.
THEOREM Banned == Spec => BanHolds
<1>1. ASSUME IInv, [Next]_vars, NEW u \in Users, NEW p \in Replicas,
             members[u].status = "banned", members'[u].status = "active", task'[p] # task[p]
      PROVE  IF Commits(p, "update") THEN task[p].status # seen[p].members[u].status ELSE ~Alone
  <2>0. TypeOK /\ (\A r \in Replicas : Passed(r)) /\ members' # members
    BY <1>1 DEF IInv
  <2>1. PICK q \in Replicas : Commit(q)
    BY <1>1, <2>0, OnlyCommits
  <2>2. /\ task[q].op # "idle" /\ task'[q] = NoTask
        /\ \A r \in Replicas \ {q} : task'[r] = task[r]
        /\ u \in task[q].targets /\ Given(q) = "active" /\ Given(q) # seen[q].members[u].status
    BY <1>1, <2>0, <2>1, CommitFacts
  <2>3. p = q
    BY <1>1, <2>2
  <2>4. task[p].op \in {"add", "accept", "update"}
    <3>1. task[p].op \in Handlers
      BY <2>0, <2>2, <2>3 DEF TypeOK, Tasks
    <3> QED BY <2>0, <2>2, <2>3, <3>1 DEF Handlers, Given, Passed
  <2>5. CASE task[p].op = "update"
    BY <2>2, <2>3, <2>5 DEF Commits, Given
  <2>6. CASE task[p].op \in {"add", "accept"}
    <3>1. Alone => members[u].status # "banned"
      BY <1>1, <2>0, <2>2, <2>3, <2>6 DEF IInv, Fresh, Passed
    <3> QED BY <1>1, <2>6, <3>1 DEF Commits
  <2> QED BY <2>4, <2>5, <2>6
<1>2. IInv /\ [Next]_vars =>
        [\A u \in Users, p \in Replicas :
           members[u].status = "banned" /\ members'[u].status = "active" /\ task'[p] # task[p]
           => IF Commits(p, "update") THEN task[p].status # seen[p].members[u].status ELSE ~Alone]_vars
  BY <1>1
<1> QED BY <1>2, Inductive, PTL DEF Spec, BanHolds

\* On one replica neither add_members nor accept_invite fills the conversation
\* beyond its capacity.
THEOREM Fitting == Spec => JoinsFit
<1>1. ASSUME IInv, [Next]_vars, NEW p \in Replicas, Alone,
             Commits(p, "add") \/ Commits(p, "accept"),
             Cardinality(ActiveIn(members')) > Cardinality(ActiveIn(members))
      PROVE  Cardinality(ActiveIn(members')) <= conversation.capacity
  <2>0. TypeOK /\ (\A r \in Replicas : Passed(r)) /\ conversation.capacity \in Nat
    BY <1>1 DEF IInv, TypeOK
  <2>1. PICK q \in Replicas : Commit(q)
    <3>1. ActiveIn(members') # ActiveIn(members)
      BY <1>1, Sizes
    <3>2. members' # members
      BY <3>1
    <3> QED BY <1>1, <3>2, OnlyCommits
  <2>2. /\ \A r \in Replicas \ {q} : task'[r] = task[r]
        /\ \A u \in Users : \/ members'[u].status = members[u].status
                            \/ u \in task[q].targets
    BY <2>0, <2>1, CommitFacts
  <2>3. p = q
    BY <1>1, <2>2 DEF Commits, NoTask
  <2>4. Fresh(p)
    BY <1>1, <2>0 DEF IInv, Passed, Commits
  <2>5. task[p].targets \in SUBSET Users
    BY <2>0 DEF TypeOK, Tasks
  <2> DEFINE A == ActiveIn(members)
             B == ActiveIn(members')
             T == task[p].targets
  <2>6. B \subseteq A \cup T
    BY <2>2, <2>3 DEF ActiveIn
  <2>7. /\ IsFiniteSet(A) /\ IsFiniteSet(B) /\ IsFiniteSet(T)
        /\ Cardinality(A) \in Nat /\ Cardinality(B) \in Nat /\ Cardinality(T) \in Nat
    BY <2>5, Sizes
  <2>8. Cardinality(A) + Cardinality(T) <= conversation.capacity
    <3>1. CASE task[p].op = "add"
      BY <2>4, <3>1 DEF Fresh
    <3>2. CASE task[p].op = "accept"
      <4>1. T = {task[p].actor}
        BY <2>0, <3>2 DEF Passed
      <4>2. Cardinality(T) = 1
        BY <4>1, FS_Singleton
      <4>3. Cardinality(A) < conversation.capacity
        BY <2>4, <3>2 DEF Fresh
      <4> HIDE DEF A, T
      <4> QED BY <2>0, <2>7, <4>2, <4>3
    <3> QED BY <1>1, <3>1, <3>2 DEF Commits
  <2> HIDE DEF A, B, T
  <2>9. /\ IsFiniteSet(A \cup T) /\ Cardinality(A \cap T) \in Nat
        /\ Cardinality(A \cup T) = Cardinality(A) + Cardinality(T) - Cardinality(A \cap T)
    <3>1. IsFiniteSet(A \cap T)
      BY <2>7, FS_Subset
    <3> QED BY <2>7, <3>1, FS_Union, FS_CardinalityType
  <2>10. Cardinality(B) <= Cardinality(A \cup T)
    BY <2>6, <2>9, FS_Subset
  <2>11. Cardinality(A \cup T) \in Nat
    BY <2>9, FS_CardinalityType
  <2>12. Cardinality(B) <= conversation.capacity
    BY <2>0, <2>7, <2>8, <2>9, <2>10, <2>11
  <2> QED BY <2>12 DEF B
<1>2. IInv /\ [Next]_vars =>
        [\A p \in Replicas :
           /\ Alone
           /\ Commits(p, "add") \/ Commits(p, "accept")
           /\ Cardinality(ActiveIn(members')) > Cardinality(ActiveIn(members))
           => Cardinality(ActiveIn(members')) <= conversation.capacity]_vars
  BY <1>1
<1> QED BY <1>2, Inductive, PTL DEF Spec, JoinsFit

=============================================================================
