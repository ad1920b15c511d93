-------------------------- MODULE CommunitiesProofs --------------------------
(***************************************************************************)
(* What pages and groups promise for any number of users and of threads.   *)
(*                                                                         *)
(* The argument: a commit makes every other handler of the same counter or *)
(* row stale, so what a handler that is not stale has loaded is still so   *)
(* (Fresh), and what it checked when it loaded (Checked) holds when it     *)
(* commits.  The properties then follow from the commits of handlers that  *)
(* are not stale, for a stale one collides.                                *)
(***************************************************************************)
EXTENDS Communities, FiniteSetTheorems, TLAPS

Ops == {"idle", "follow", "unfollow", "page", "hide", "suspend_page", "add_admin",
        "remove_admin", "join", "leave", "member", "group", "suspend_group"}

Values == [role : AdminRoles \cup MemberRoles,
           status : PageStatuses \cup GroupStatuses \cup MemberStatuses \cup {"none"},
           entry : Entries \cup {"none"},
           own : BOOLEAN]
Tasks == [op : Ops, target : Users, value : Values, stale : BOOLEAN]
Reads == [page : SocialPage, admin : AdminRoles, group : SocialGroup, member : GroupMember]

\* What a handler is asked to set is what its column takes.
Asked(op, value) ==
  /\ op \in {"page", "hide"} => value.status \in PageStatuses
  /\ op = "group" => value.status \in GroupStatuses /\ value.entry \in Entries
  /\ op = "add_admin" => value.role \in AdminRoles \ {NoAdmin}
  /\ op = "member" => value.role \in MemberRoles /\ value.status \in MemberStatuses

Typed == /\ TypeOK
         /\ task \in [Threads -> Tasks]
         /\ seen \in [Threads -> Reads]
         /\ \A t \in Threads : Asked(task[t].op, task[t].value)

\* What a handler checked when it loaded, whatever has happened since.
Checked(t) ==
  /\ task[t].op \in {"page", "hide"} => seen[t].page.status # "suspended"
  /\ task[t].op = "group" => seen[t].group.status # "suspended"
  /\ task[t].op = "join" => seen[t].member = NoMember \/ seen[t].member.status = "muted"
  /\ task[t].op \in {"leave", "member"} => seen[t].member # NoMember

\* What a handler that is not stale has loaded is still so.
Fresh(t) == ~task[t].stale =>
  /\ task[t].op \in {"follow", "unfollow"} => seen[t].page.follower_count = page.follower_count
  /\ task[t].op = "unfollow" => task[t].target \in follows
  /\ task[t].op \in {"page", "hide", "suspend_page"} => seen[t].page.status = page.status
  /\ task[t].op \in {"group", "suspend_group"} => seen[t].group.status = group.status
  /\ task[t].op \in {"join", "leave", "member"} =>
       /\ seen[t].group.member_count = group.member_count
       /\ seen[t].member = members[task[t].target]

Joined == {u \in Users : Active(members[u])}

\* Rows are inserted one at a time.
Finite == IsFiniteSet(follows) /\ IsFiniteSet(Joined)

Handlers == \A t \in Threads : Checked(t) /\ Fresh(t)

IInv == Typed /\ Finite /\ Handlers /\ CountsMatch

-----------------------------------------------------------------------------
(* Rows and columns.                                                       *)

\* The default rows are rows.
LEMMA Defaults ==
  /\ NoMember \in GroupMember /\ NoRead \in Reads /\ Nothing \in Values
  /\ OwnerIsUser => Idle \in Tasks
<1>1. NoMember \in GroupMember /\ NoAdmin \in AdminRoles
  BY DEF GroupMember, AdminRoles
<1>2. NoRead.page \in SocialPage /\ NoRead.group \in SocialGroup
  BY DEF NoRead, SocialPage, SocialGroup, PageStatuses, GroupStatuses, Entries
<1>3. NoRead \in Reads
  BY <1>1, <1>2 DEF NoRead, Reads
<1>4. Nothing \in Values
  BY DEF Nothing, Values, AdminRoles, NoAdmin
<1> QED BY <1>1, <1>3, <1>4 DEF Idle, Tasks, Ops

\* Two operations on the same counter or row conflict.
LEMMA Conflicts ==
  /\ \A a, b \in {"follow", "unfollow"} : Writes(a) \cap Writes(b) # {}
  /\ \A a, b \in {"join", "leave", "member"} : Writes(a) \cap Writes(b) # {}
  /\ \A a, b \in {"page", "hide", "suspend_page"} : Writes(a) \cap Writes(b) # {}
  /\ \A a, b \in {"group", "suspend_group"} : Writes(a) \cap Writes(b) # {}
<1>1. \A a \in {"follow", "unfollow"} : "follower_count" \in Writes(a)
  BY DEF Writes
<1>2. \A a \in {"join", "leave", "member"} : "member_count" \in Writes(a)
  BY DEF Writes
<1>3. \A a \in {"page", "hide", "suspend_page"} : "page" \in Writes(a)
  BY DEF Writes
<1>4. \A a \in {"group", "suspend_group"} : "group" \in Writes(a)
  BY DEF Writes
<1> QED BY <1>1, <1>2, <1>3, <1>4

\* An UPDATE of the page writes the columns that changed.
LEMMA PageSaved ==
  ASSUME Typed, NEW t \in Threads, NEW new \in SocialPage, SavePage(t, new)
  PROVE  /\ page' \in SocialPage
         /\ page'.status = Written(seen[t].page.status, new.status, page.status)
         /\ page'.follower_count = Written(seen[t].page.follower_count, new.follower_count,
                                           page.follower_count)
<1>1. page \in SocialPage /\ DOMAIN page = {"status", "follower_count"}
  BY DEF Typed, TypeOK, SocialPage
<1>2. page' = [c \in {"status", "follower_count"} |-> Written(seen[t].page[c], new[c], page[c])]
  BY <1>1 DEF SavePage
<1>3. /\ page' = [status |-> page'.status, follower_count |-> page'.follower_count]
      /\ page'.status = Written(seen[t].page.status, new.status, page.status)
      /\ page'.follower_count = Written(seen[t].page.follower_count, new.follower_count,
                                        page.follower_count)
  BY <1>2
<1>4. page'.status \in PageStatuses /\ page'.follower_count \in Nat
  BY <1>1, <1>3 DEF Written, SocialPage
<1> HIDE DEF SocialPage
<1>5. page' \in SocialPage
  BY <1>3, <1>4 DEF SocialPage
<1> QED BY <1>3, <1>5

\* An UPDATE of the group writes the columns that changed.
LEMMA GroupSaved ==
  ASSUME Typed, NEW t \in Threads, NEW new \in SocialGroup, SaveGroup(t, new)
  PROVE  /\ group' \in SocialGroup
         /\ group'.status = Written(seen[t].group.status, new.status, group.status)
         /\ group'.member_count = Written(seen[t].group.member_count, new.member_count,
                                          group.member_count)
<1>1. group \in SocialGroup /\ DOMAIN group = {"status", "entry", "member_count"}
  BY DEF Typed, TypeOK, SocialGroup
<1>2. group' = [c \in {"status", "entry", "member_count"} |->
                  Written(seen[t].group[c], new[c], group[c])]
  BY <1>1 DEF SaveGroup
<1>3. /\ group' = [status |-> group'.status, entry |-> group'.entry,
                   member_count |-> group'.member_count]
      /\ group'.status = Written(seen[t].group.status, new.status, group.status)
      /\ group'.entry = Written(seen[t].group.entry, new.entry, group.entry)
      /\ group'.member_count = Written(seen[t].group.member_count, new.member_count,
                                       group.member_count)
  BY <1>2
<1>4. group'.status \in GroupStatuses /\ group'.entry \in Entries /\ group'.member_count \in Nat
  BY <1>1, <1>3 DEF Written, SocialGroup
<1>5. group' \in SocialGroup
  BY <1>3, <1>4 DEF SocialGroup
<1> QED BY <1>3, <1>5

\* An UPDATE of a member writes that row only, and its columns that changed.
LEMMA MemberSaved ==
  ASSUME Typed, NEW t \in Threads, NEW u \in Users, NEW new \in GroupMember \ {NoMember},
         seen[t].member # NoMember, members[u] # NoMember, SaveMember(t, u, new)
  PROVE  /\ members' \in [Users -> GroupMember]
         /\ \A v \in Users \ {u} : members'[v] = members[v]
         /\ seen[t].member = members[u] => members'[u] = new
<1> DEFINE row == [c \in {"role", "status"} |-> Written(seen[t].member[c], new[c], members[u][c])]
<1>1. members' = [members EXCEPT ![u] = row] /\ members \in [Users -> GroupMember]
  BY DEF SaveMember, Typed, TypeOK
<1>2. members[u] \in [role : MemberRoles, status : MemberStatuses]
  BY <1>1 DEF GroupMember
<1>3. new \in [role : MemberRoles, status : MemberStatuses]
  BY DEF GroupMember
<1>4. row = [role |-> Written(seen[t].member.role, new.role, members[u].role),
             status |-> Written(seen[t].member.status, new.status, members[u].status)]
  OBVIOUS
<1>5. row \in [role : MemberRoles, status : MemberStatuses]
  BY <1>2, <1>3, <1>4 DEF Written
<1>6. seen[t].member = members[u] => row = new
  <2>1. SUFFICES ASSUME seen[t].member = members[u] PROVE row = new
    OBVIOUS
  <2>2. row = [role |-> new.role, status |-> new.status]
    BY <1>4, <2>1 DEF Written
  <2> QED BY <1>3, <2>2
<1> HIDE DEF row
<1>7. row \in GroupMember
  BY <1>5 DEF GroupMember
<1> QED BY <1>1, <1>6, <1>7

-----------------------------------------------------------------------------
(* The steps, by what they change.                                         *)

\* What a handler was let through with.
Let(op, target) ==
  /\ op = "unfollow" => target \in follows
  /\ op \in {"page", "hide"} => page.status # "suspended"
  /\ op = "group" => group.status # "suspended"
  /\ op = "join" => members[target] = NoMember \/ members[target].status = "muted"
  /\ op \in {"leave", "member"} => members[target] # NoMember

\* A handler that begins loads for an operation it may do.
LEMMA BeginLoads ==
  ASSUME Typed, NEW t \in Threads, Begin(t)
  PROVE  \E op \in Ops \ {"idle"}, target \in Users, value \in Values :
           Load(t, op, target, value) /\ Asked(op, value) /\ Let(op, target)
<1> DEFINE Goal == \E op \in Ops \ {"idle"}, target \in Users, value \in Values :
                     Load(t, op, target, value) /\ Asked(op, value) /\ Let(op, target)
<1> USE DEF Ops
<1>1. Nothing \in Values /\ Owner \in Users
  BY Defaults, OwnerIsUser
<1>2. ASSUME NEW u \in Users, BeginFollow(t, u) \/ BeginUnfollow(t, u) \/ BeginJoin(t, u) \/ BeginLeave(t, u)
      PROVE  Goal
  BY <1>1, <1>2 DEF BeginFollow, BeginUnfollow, BeginJoin, BeginLeave, Asked, Let
<1>3. ASSUME NEW status \in PageStatuses
      PROVE  SetStatus(status) \in Values /\ SetStatus(status).status = status
  BY DEF SetStatus, Nothing, Values, AdminRoles, NoAdmin
<1>4. ASSUME NEW u \in Users, BeginHidePage(t, u) PROVE Goal
  BY <1>1, <1>3, <1>4 DEF BeginHidePage, MayManagePage, Asked, Let, PageStatuses
<1>5. ASSUME NEW u \in Users, NEW status \in PageStatuses, BeginUpdatePage(t, u, status) PROVE Goal
  BY <1>1, <1>3, <1>5 DEF BeginUpdatePage, MayManagePage, Asked, Let
<1>6. ASSUME NEW u \in Users, NEW status \in GroupStatuses, NEW entry \in Entries,
             BeginUpdateGroup(t, u, status, entry)
      PROVE  Goal
  <2> DEFINE value == [SetStatus(status) EXCEPT !.entry = entry]
  <2>1. value \in Values /\ value.status = status /\ value.entry = entry
    BY DEF SetStatus, Nothing, Values, AdminRoles, NoAdmin
  <2> HIDE DEF value
  <2>2. Asked("group", value)
    BY <2>1 DEF Asked
  <2>3. Load(t, "group", Owner, value) /\ Let("group", Owner)
    BY <1>6 DEF BeginUpdateGroup, MayManageGroup, Let, value
  <2> QED BY <1>1, <2>1, <2>2, <2>3
<1>7. ASSUME NEW u \in Users, NEW target \in Users, NEW role \in AdminRoles \ {NoAdmin},
             BeginAddAdmin(t, u, target, role)
      PROVE  Goal
  <2> DEFINE value == [Nothing EXCEPT !.role = role]
  <2>1. value \in Values /\ value.role = role
    BY DEF Nothing, Values
  <2> HIDE DEF value
  <2>2. Load(t, "add_admin", target, value) /\ Asked("add_admin", value) /\ Let("add_admin", target)
    BY <1>7, <2>1 DEF BeginAddAdmin, Asked, Let, value
  <2> QED BY <2>1, <2>2
<1>8. ASSUME NEW u \in Users, NEW target \in Users, BeginRemoveAdmin(t, u, target) PROVE Goal
  BY <1>1, <1>8 DEF BeginRemoveAdmin, Asked, Let
<1>9. ASSUME NEW u \in Users, NEW target \in Users,
             NEW role \in NewRoles \cup {members[target].role},
             NEW status \in MemberStatuses \cup {members[target].status},
             BeginUpdateMember(t, u, target, role, status)
      PROVE  Goal
  <2> DEFINE value == [Nothing EXCEPT !.role = role, !.status = status, !.own = (u = target)]
  <2>1. members[target] \in [role : MemberRoles, status : MemberStatuses] /\ members[target] # NoMember
    BY <1>9 DEF BeginUpdateMember, Typed, TypeOK, GroupMember
  <2>2. role \in MemberRoles /\ status \in MemberStatuses
    BY <2>1, NewRolesAreGiven
  <2>3. value \in Values /\ value.role = role /\ value.status = status
    BY <2>2 DEF Nothing, Values
  <2> HIDE DEF value
  <2>4. Asked("member", value) /\ Let("member", target)
    BY <2>1, <2>2, <2>3 DEF Asked, Let
  <2>5. Load(t, "member", target, value)
    BY <1>9 DEF BeginUpdateMember, value
  <2> QED BY <2>3, <2>4, <2>5
<1>10. ASSUME NEW op \in {"suspend_page", "suspend_group"}, BeginSuspend(t, op) PROVE Goal
  BY <1>1, <1>10 DEF BeginSuspend, Asked, Let
<1> QED BY <1>2, <1>4, <1>5, <1>6, <1>7, <1>8, <1>9, <1>10 DEF Begin

\* What a commit may change, by its operation.
Bounded(op, target) ==
  /\ page' \in SocialPage /\ follows' \subseteq Users /\ admins' \in [Users -> AdminRoles]
  /\ group' \in SocialGroup /\ members' \in [Users -> GroupMember] /\ drifted' \in BOOLEAN
  /\ op \notin {"follow", "unfollow"} =>
       page'.follower_count = page.follower_count /\ follows' = follows
  /\ op \notin {"page", "hide", "suspend_page"} => page'.status = page.status
  /\ op \notin {"group", "suspend_group"} => group'.status = group.status
  /\ op \notin {"join", "leave", "member"} =>
       group'.member_count = group.member_count /\ members' = members /\ drifted' = drifted
  /\ follows' = follows \/ follows' = follows \cup {target} \/ follows' = follows \ {target}
  /\ \A u \in Users \ {target} : members'[u] = members[u]

\* A count that is loaded, and one more or less, is a number.
LEMMA Counts ==
  ASSUME Typed, NEW t \in Threads
  PROVE  LET p == seen[t].page g == seen[t].group IN
         /\ p \in SocialPage /\ g \in SocialGroup
         /\ [p EXCEPT !.follower_count = p.follower_count + 1] \in SocialPage
         /\ [p EXCEPT !.follower_count = LessOne(p.follower_count, 0)] \in SocialPage
         /\ [g EXCEPT !.member_count = g.member_count + 1] \in SocialGroup
         /\ OneMemberLess(t) \in SocialGroup
<1>1. seen[t].page \in SocialPage /\ seen[t].group \in SocialGroup
  BY DEF Typed, Reads
<1>2. /\ seen[t].page.follower_count \in Nat /\ seen[t].group.member_count \in Nat
      /\ \A n \in Nat : LessOne(n, 0) \in Nat /\ LessOne(n, 1) \in Nat
  BY <1>1 DEF SocialPage, SocialGroup, LessOne
<1> HIDE DEF LessOne
<1> QED BY <1>1, <1>2 DEF OneMemberLess, SocialPage, SocialGroup

\* What the commit of a handler that is not stale does.
Exact(t) ==
  LET op == task[t].op
      u == task[t].target
      was == Active(members[u])
      is == Active(members'[u])
      n == group.member_count
  IN ~task[t].stale =>
       /\ op = "follow" => /\ u \notin follows /\ follows' = follows \cup {u}
                           /\ page'.follower_count = page.follower_count + 1
       /\ op = "unfollow" => /\ u \in follows /\ follows' = follows \ {u}
                             /\ page'.follower_count = LessOne(page.follower_count, 0)
       /\ op = "suspend_page" => page'.status = "suspended"
       /\ op = "suspend_group" => group'.status = "suspended"
       /\ op = "leave" => ~is
       /\ op \in {"join", "leave", "member"} /\ ~drifted' =>
            /\ ~drifted
            /\ was = is => group'.member_count = n
            /\ ~was /\ is => group'.member_count = n + 1
            /\ was /\ ~is => n # 1 /\ group'.member_count = LessOne(n, 1)

\* A handler that finishes: it changes what its operation may, and exactly that
\* if it is not stale.
Finishes(t) ==
  Finish(t) /\ task[t].op \in Ops \ {"idle"} /\ Bounded(task[t].op, task[t].target) /\ Exact(t)

LEMMA FollowFinishes ==
  ASSUME Typed, NEW t \in Threads, Fresh(t), CommitFollow(t) \/ CommitUnfollow(t)
  PROVE  Refuse(t) \/ Finishes(t)
<1> DEFINE u == task[t].target
           p == seen[t].page
           more == [p EXCEPT !.follower_count = p.follower_count + 1]
           less == [p EXCEPT !.follower_count = LessOne(p.follower_count, 0)]
<1>1. u \in Users /\ p \in SocialPage /\ more \in SocialPage /\ less \in SocialPage
  BY Counts DEF Typed, Tasks
<1>2. /\ more.follower_count = p.follower_count + 1 /\ more.status = p.status
      /\ less.follower_count = LessOne(p.follower_count, 0) /\ less.status = p.status
      /\ p.follower_count \in Nat
  BY <1>1 DEF SocialPage
<1>3. page \in SocialPage /\ page.follower_count \in Nat
  BY DEF Typed, TypeOK, SocialPage
<1> HIDE DEF more, less
<1>4. CASE CommitFollow(t)
  <2>1. SUFFICES ASSUME u \notin follows, follows' = follows \cup {u}, SavePage(t, more), Finish(t),
                        task[t].op = "follow", UNCHANGED <<admins, group, members, drifted>>
                 PROVE  Finishes(t)
    BY <1>4 DEF CommitFollow, Committing, more
  <2>2. /\ page' \in SocialPage /\ page'.status = page.status
        /\ ~task[t].stale => page'.follower_count = page.follower_count + 1
    <3>1. /\ page' \in SocialPage
          /\ page'.status = Written(p.status, more.status, page.status)
          /\ page'.follower_count = Written(p.follower_count, more.follower_count, page.follower_count)
      BY <1>1, <2>1, PageSaved
    <3>2. ~task[t].stale => p.follower_count = page.follower_count
      BY <2>1 DEF Fresh
    <3> QED BY <1>2, <3>1, <3>2 DEF Written
  <2>3. Bounded(task[t].op, u)
    BY <1>1, <2>1, <2>2 DEF Bounded, Typed, TypeOK
  <2>4. Exact(t)
    BY <2>1, <2>2 DEF Exact
  <2> QED BY <2>1, <2>3, <2>4 DEF Finishes, Ops
<1>5. CASE CommitUnfollow(t)
  <2>1. /\ follows' = follows \ {u} /\ SavePage(t, less) /\ Finish(t)
        /\ task[t].op = "unfollow" /\ UNCHANGED <<admins, group, members, drifted>>
    BY <1>5 DEF CommitUnfollow, Committing, less
  <2>2. /\ page' \in SocialPage /\ page'.status = page.status
        /\ ~task[t].stale => page'.follower_count = LessOne(page.follower_count, 0)
    <3>1. /\ page' \in SocialPage
          /\ page'.status = Written(p.status, less.status, page.status)
          /\ page'.follower_count = Written(p.follower_count, less.follower_count, page.follower_count)
      BY <1>1, <2>1, PageSaved
    <3>2. ~task[t].stale => p.follower_count = page.follower_count
      BY <2>1 DEF Fresh
    <3> QED BY <1>2, <3>1, <3>2 DEF Written
  <2>3. Bounded(task[t].op, u)
    BY <1>1, <2>1, <2>2 DEF Bounded, Typed, TypeOK
  <2>4. Exact(t)
    BY <2>1, <2>2 DEF Exact, Fresh
  <2> QED BY <2>1, <2>3, <2>4 DEF Finishes, Ops
<1> QED BY <1>4, <1>5

\* Saving another status of the page changes nothing else.
LEMMA PageFinishes ==
  ASSUME Typed, NEW t \in Threads, Fresh(t),
         NEW status \in PageStatuses, SavePage(t, [seen[t].page EXCEPT !.status = status]),
         Finish(t), task[t].op \in {"page", "hide", "suspend_page"},
         task[t].op = "suspend_page" => status = "suspended",
         UNCHANGED <<follows, admins, group, members, drifted>>
  PROVE  Finishes(t)
<1> DEFINE p == seen[t].page
           new == [p EXCEPT !.status = status]
<1>1. p \in SocialPage /\ new \in SocialPage
  BY DEF Typed, Reads, SocialPage
<1>2. new.status = status /\ new.follower_count = p.follower_count
  BY <1>1 DEF SocialPage
<1>3. /\ page' \in SocialPage /\ page'.follower_count = page.follower_count
      /\ page'.status = Written(p.status, status, page.status)
  <2> HIDE DEF new
  <2>1. SavePage(t, new)
    BY DEF new
  <2> QED BY <1>1, <1>2, <2>1, PageSaved DEF Written
<1>4. Bounded(task[t].op, task[t].target)
  BY <1>3 DEF Bounded, Typed, TypeOK
<1>5. Exact(t)
  BY <1>3 DEF Exact, Fresh, Written
<1> QED BY <1>4, <1>5 DEF Finishes, Ops

\* Saving another status or entry of the group changes nothing else.
LEMMA GroupFinishes ==
  ASSUME Typed, NEW t \in Threads, Fresh(t),
         NEW new \in SocialGroup, SaveGroup(t, new),
         new.member_count = seen[t].group.member_count,
         Finish(t), task[t].op \in {"group", "suspend_group"},
         task[t].op = "suspend_group" => new.status = "suspended",
         UNCHANGED <<page, follows, admins, members, drifted>>
  PROVE  Finishes(t)
<1>1. /\ group' \in SocialGroup /\ group'.member_count = group.member_count
      /\ group'.status = Written(seen[t].group.status, new.status, group.status)
  BY GroupSaved DEF Written
<1>2. Bounded(task[t].op, task[t].target)
  BY <1>1 DEF Bounded, Typed, TypeOK
<1>3. Exact(t)
  BY <1>1 DEF Exact, Fresh, Written
<1> QED BY <1>2, <1>3 DEF Finishes, Ops

\* Administrators are in no other table.
LEMMA AdminFinishes ==
  ASSUME Typed, NEW t \in Threads, CommitAddAdmin(t) \/ CommitRemoveAdmin(t)
  PROVE  Refuse(t) \/ Finishes(t)
<1>1. /\ task[t].target \in Users /\ task[t].op = "add_admin" => task[t].value.role \in AdminRoles
  BY DEF Typed, Tasks, Asked
<1>2. SUFFICES ASSUME ~Refuse(t) PROVE Finishes(t)
  OBVIOUS
<1>3. /\ Finish(t) /\ UNCHANGED <<page, follows, group, members, drifted>>
      /\ task[t].op \in {"add_admin", "remove_admin"}
  BY <1>2 DEF CommitAddAdmin, CommitRemoveAdmin, Committing
<1>4. admins' \in [Users -> AdminRoles]
  BY <1>1, <1>2 DEF CommitAddAdmin, CommitRemoveAdmin, Committing, Typed, TypeOK, Written,
                    AdminRoles, NoAdmin
<1>5. Bounded(task[t].op, task[t].target)
  BY <1>3, <1>4 DEF Bounded, Typed, TypeOK
<1>6. Exact(t)
  BY <1>3 DEF Exact
<1> QED BY <1>3, <1>5, <1>6 DEF Finishes, Ops

\* What the commits about a member change, of the members and of the count.
LEMMA MemberFinishes ==
  ASSUME Typed, NEW t \in Threads, Fresh(t), Finish(t), task[t].op \in {"join", "leave", "member"},
         NEW new \in SocialGroup, SaveGroup(t, new) \/ UNCHANGED group,
         new.status = seen[t].group.status,
         members' \in [Users -> GroupMember], drifted' \in BOOLEAN, drifted => drifted',
         \A u \in Users \ {task[t].target} : members'[u] = members[u],
         UNCHANGED <<page, follows, admins>>,
         task[t].op = "leave" => ~Active(members'[task[t].target]),
         ~task[t].stale /\ ~drifted' =>
           LET was == Active(members[task[t].target])
               is == Active(members'[task[t].target])
               n == seen[t].group.member_count
           IN \/ was = is /\ new.member_count = n
              \/ was = is /\ UNCHANGED group
              \/ ~was /\ is /\ SaveGroup(t, new) /\ new.member_count = n + 1
              \/ was /\ ~is /\ n # 1 /\ SaveGroup(t, new) /\ new.member_count = LessOne(n, 1)
  PROVE  Finishes(t)
<1> DEFINE u == task[t].target
           n == seen[t].group.member_count
<1>1. u \in Users /\ group \in SocialGroup /\ n \in Nat /\ group.member_count \in Nat
  BY DEF Typed, TypeOK, Tasks, Reads, SocialGroup
<1>2. group' \in SocialGroup /\ group'.status = group.status
  BY <1>1, GroupSaved DEF Written
<1>3. ~task[t].stale => n = group.member_count
  BY DEF Fresh
<1>4. SaveGroup(t, new) => group'.member_count = Written(n, new.member_count, group.member_count)
  BY GroupSaved
<1>5. Bounded(task[t].op, u)
  BY <1>2 DEF Bounded, Typed, TypeOK
<1>6. Exact(t)
  <2>1. SUFFICES ASSUME ~task[t].stale, ~drifted'
        PROVE  LET was == Active(members[u])
                   is == Active(members'[u])
               IN /\ was = is => group'.member_count = n
                  /\ ~was /\ is => group'.member_count = n + 1
                  /\ was /\ ~is => n # 1 /\ group'.member_count = LessOne(n, 1)
    BY <1>3 DEF Exact
  <2>2. n = group.member_count /\ (Active(members[u]) \in BOOLEAN) /\ (Active(members'[u]) \in BOOLEAN)
    BY <1>3, <2>1 DEF Active
  <2>3. SaveGroup(t, new) => group'.member_count = new.member_count
    BY <1>4, <2>2 DEF Written
  <2> QED BY <2>1, <2>2, <2>3
<1> QED BY <1>5, <1>6 DEF Finishes, Ops

LEMMA JoinFinishes ==
  ASSUME Typed, NEW t \in Threads, Fresh(t), Checked(t), CommitJoin(t)
  PROVE  Refuse(t) \/ Finishes(t)
<1> DEFINE u == task[t].target
           m == seen[t].member
           g == seen[t].group
           desired == IF g.entry = "approval" THEN "pending" ELSE "active"
           more == [g EXCEPT !.member_count = g.member_count + 1]
<1>1. SUFFICES ASSUME ~Refuse(t) PROVE Finishes(t)
  OBVIOUS
<1>2. /\ u \in Users /\ g \in SocialGroup /\ more \in SocialGroup /\ m \in GroupMember
      /\ members \in [Users -> GroupMember] /\ drifted \in BOOLEAN
  BY Counts DEF Typed, TypeOK, Tasks, Reads
<1>3. more.member_count = g.member_count + 1 /\ more.status = g.status
  BY <1>2 DEF SocialGroup
<1>4. /\ task[t].op = "join" /\ Finish(t) /\ UNCHANGED <<page, follows, admins>>
  BY <1>1 DEF CommitJoin, Committing
<1>5. /\ ~task[t].stale => m = members[u]
      /\ m = NoMember \/ m.status = "muted"
  BY <1>4 DEF Fresh, Checked
<1>6. desired \in {"pending", "active"}
  OBVIOUS
<1> HIDE DEF more, desired
<1>7. CASE m = NoMember /\ members[u] = NoMember
  <2> DEFINE row == [role |-> "member", status |-> desired]
             new == IF desired = "active" THEN more ELSE g
  <2>1. members' = [members EXCEPT ![u] = row] /\ SaveGroup(t, new) /\ UNCHANGED drifted
    BY <1>1, <1>7 DEF CommitJoin, desired, more
  <2>2. row \in GroupMember /\ (Active(row) <=> desired = "active")
    BY <1>6 DEF GroupMember, MemberRoles, MemberStatuses, Active
  <2>3. /\ members' \in [Users -> GroupMember] /\ members'[u] = row
        /\ \A v \in Users \ {u} : members'[v] = members[v]
    BY <1>2, <2>1, <2>2
  <2>4. ~Active(members[u])
    BY <1>7 DEF Active, NoMember
  <2>5. /\ new \in SocialGroup /\ new.status = g.status
        /\ new.member_count = IF desired = "active" THEN g.member_count + 1 ELSE g.member_count
    BY <1>2, <1>3
  <2> HIDE DEF new, row
  <2>6. \/ Active(members[u]) = Active(members'[u]) /\ new.member_count = g.member_count
        \/ ~Active(members[u]) /\ Active(members'[u]) /\ new.member_count = g.member_count + 1
    BY <2>2, <2>3, <2>4, <2>5 DEF Active
  <2> QED BY <1>2, <1>4, <2>1, <2>3, <2>4, <2>5, <2>6, MemberFinishes
<1>8. CASE m # NoMember /\ members[u] # NoMember
  <2> DEFINE row == [m EXCEPT !.status = desired]
  <2>1. SaveMember(t, u, row) /\ drifted' = (drifted \/ desired = "active") /\ UNCHANGED group
    BY <1>1, <1>8 DEF CommitJoin, desired
  <2>2. row \in GroupMember /\ row.status = desired /\ row # NoMember
    BY <1>2, <1>6, <1>8 DEF GroupMember, MemberStatuses, NoMember
  <2> HIDE DEF row
  <2>3. /\ members' \in [Users -> GroupMember]
        /\ \A v \in Users \ {u} : members'[v] = members[v]
        /\ ~task[t].stale => members'[u] = row
    BY <1>2, <1>5, <1>8, <2>1, <2>2, MemberSaved
  <2>4. ~task[t].stale => members[u].status = "muted"
    BY <1>5, <1>8
  <2>5. ~task[t].stale /\ ~drifted' => Active(members[u]) = Active(members'[u])
    BY <1>6, <2>1, <2>2, <2>3, <2>4 DEF Active
  <2> QED BY <1>2, <1>4, <2>1, <2>3, <2>4, <2>5, MemberFinishes
<1> QED BY <1>1, <1>7, <1>8 DEF CommitJoin

LEMMA LeaveFinishes ==
  ASSUME Typed, NEW t \in Threads, Fresh(t), CommitLeave(t)
  PROVE  Finishes(t)
<1> DEFINE u == task[t].target
           m == seen[t].member
           g == seen[t].group
           new == IF Active(m) THEN OneMemberLess(t) ELSE g
<1>1. /\ u \in Users /\ g \in SocialGroup /\ OneMemberLess(t) \in SocialGroup
      /\ members \in [Users -> GroupMember] /\ drifted \in BOOLEAN
  BY Counts DEF Typed, TypeOK, Tasks, Reads
<1>2. OneMemberLess(t).status = g.status /\ OneMemberLess(t).member_count = LessOne(g.member_count, 1)
  BY <1>1 DEF OneMemberLess, SocialGroup
<1>3. /\ task[t].op = "leave" /\ Finish(t) /\ UNCHANGED <<page, follows, admins>>
      /\ members' = [members EXCEPT ![u] = NoMember] /\ SaveGroup(t, new)
      /\ drifted' = (drifted \/ (Active(m) /\ g.member_count = 1))
  BY DEF CommitLeave, Committing
<1>4. /\ members' \in [Users -> GroupMember] /\ members'[u] = NoMember
      /\ \A v \in Users \ {u} : members'[v] = members[v]
  BY <1>1, <1>3, Defaults
<1>5. ~Active(members'[u])
  BY <1>4 DEF Active, NoMember
<1>6. ~task[t].stale => m = members[u]
  BY <1>3 DEF Fresh
<1>7. /\ new \in SocialGroup /\ new.status = g.status
      /\ new.member_count = IF Active(m) THEN LessOne(g.member_count, 1) ELSE g.member_count
  BY <1>1, <1>2
<1> HIDE DEF new
<1>8. ~task[t].stale /\ ~drifted' =>
        \/ Active(members[u]) = Active(members'[u]) /\ new.member_count = g.member_count
        \/ /\ Active(members[u]) /\ ~Active(members'[u]) /\ g.member_count # 1
           /\ new.member_count = LessOne(g.member_count, 1)
  BY <1>3, <1>5, <1>6, <1>7 DEF Active
<1> QED BY <1>1, <1>3, <1>4, <1>5, <1>7, <1>8, MemberFinishes

LEMMA UpdateFinishes ==
  ASSUME Typed, NEW t \in Threads, Fresh(t), Checked(t), CommitUpdateMember(t)
  PROVE  Refuse(t) \/ Finishes(t)
<1> DEFINE u == task[t].target
           m == seen[t].member
           g == seen[t].group
           row == [role |-> task[t].value.role, status |-> task[t].value.status]
           more == [g EXCEPT !.member_count = g.member_count + 1]
           new == CASE ~Active(m) /\ Active(row) -> more
                    [] Active(m) /\ ~Active(row) -> OneMemberLess(t)
                    [] OTHER -> g
<1>1. SUFFICES ASSUME ~Refuse(t) PROVE Finishes(t)
  OBVIOUS
<1>2. /\ u \in Users /\ g \in SocialGroup /\ m \in GroupMember
      /\ OneMemberLess(t) \in SocialGroup /\ more \in SocialGroup
      /\ members \in [Users -> GroupMember] /\ drifted \in BOOLEAN
  BY Counts DEF Typed, TypeOK, Tasks, Reads
<1>3. /\ OneMemberLess(t).status = g.status /\ more.status = g.status
      /\ OneMemberLess(t).member_count = LessOne(g.member_count, 1)
      /\ more.member_count = g.member_count + 1
  BY <1>2 DEF OneMemberLess, SocialGroup
<1>4. /\ task[t].op = "member" /\ Finish(t) /\ UNCHANGED <<page, follows, admins>>
      /\ IF members[u] = NoMember THEN UNCHANGED members ELSE SaveMember(t, u, row)
      /\ SaveGroup(t, new)
      /\ drifted' = (drifted \/ (Active(m) /\ ~Active(row) /\ g.member_count = 1))
  BY <1>1 DEF CommitUpdateMember, Committing
<1>5. /\ ~task[t].stale => m = members[u]
      /\ m # NoMember
  BY <1>4 DEF Fresh, Checked
<1>6. row \in GroupMember \ {NoMember}
  BY <1>4 DEF Typed, Asked, GroupMember, NoMember, MemberStatuses
<1>7. /\ new \in SocialGroup /\ new.status = g.status
      /\ new.member_count = CASE ~Active(m) /\ Active(row) -> g.member_count + 1
                              [] Active(m) /\ ~Active(row) -> LessOne(g.member_count, 1)
                              [] OTHER -> g.member_count
  BY <1>2, <1>3
<1> HIDE DEF new, more, row
<1>8. /\ members' \in [Users -> GroupMember]
      /\ \A v \in Users \ {u} : members'[v] = members[v]
      /\ ~task[t].stale => members'[u] = row
  BY <1>2, <1>4, <1>5, <1>6, MemberSaved
<1>9. ~task[t].stale /\ ~drifted' =>
        \/ Active(members[u]) = Active(members'[u]) /\ new.member_count = g.member_count
        \/ ~Active(members[u]) /\ Active(members'[u]) /\ new.member_count = g.member_count + 1
        \/ /\ Active(members[u]) /\ ~Active(members'[u]) /\ g.member_count # 1
           /\ new.member_count = LessOne(g.member_count, 1)
  BY <1>4, <1>5, <1>7, <1>8 DEF Active
<1> QED BY <1>2, <1>4, <1>7, <1>8, <1>9, MemberFinishes

\* Every commit is refused or finishes.
LEMMA CommitFinishes ==
  ASSUME Typed, NEW t \in Threads, Fresh(t), Checked(t), Commit(t)
  PROVE  Refuse(t) \/ Finishes(t)
<1>1. CASE CommitFollow(t) \/ CommitUnfollow(t)
  BY <1>1, FollowFinishes
<1>2. ASSUME NEW op \in {"page", "hide"}, CommitUpdatePage(t, op) PROVE Finishes(t)
  <2>1. task[t].value.status \in PageStatuses
    BY <1>2 DEF CommitUpdatePage, Committing, Typed, Asked
  <2> QED BY <1>2, <2>1, PageFinishes DEF CommitUpdatePage, Committing
<1>3. CASE CommitAddAdmin(t) \/ CommitRemoveAdmin(t)
  BY <1>3, AdminFinishes
<1>4. CASE CommitUpdateGroup(t)
  <2> DEFINE g == seen[t].group
             new == [g EXCEPT !.status = task[t].value.status, !.entry = task[t].value.entry]
  <2>1. task[t].value.status \in GroupStatuses /\ task[t].value.entry \in Entries /\ g \in SocialGroup
    BY <1>4 DEF CommitUpdateGroup, Committing, Typed, Asked, Reads
  <2>2. new \in SocialGroup /\ new.member_count = g.member_count
    BY <2>1 DEF SocialGroup
  <2>3. SaveGroup(t, new)
    BY <1>4 DEF CommitUpdateGroup
  <2> HIDE DEF new
  <2> QED BY <1>4, <2>2, <2>3, GroupFinishes DEF CommitUpdateGroup, Committing
<1>5. CASE CommitJoin(t) BY <1>5, JoinFinishes
<1>6. CASE CommitLeave(t) BY <1>6, LeaveFinishes
<1>7. CASE CommitUpdateMember(t) BY <1>7, UpdateFinishes
<1>8. CASE CommitSuspend(t)
  <2>1. CASE Committing(t, "suspend_page")
    <3>1. "suspended" \in PageStatuses
      BY DEF PageStatuses
    <3> QED BY <1>8, <2>1, <3>1, PageFinishes DEF CommitSuspend, Committing
  <2>2. CASE Committing(t, "suspend_group")
    <3> DEFINE g == seen[t].group
               new == [g EXCEPT !.status = "suspended"]
    <3>1. g \in SocialGroup
      BY DEF Typed, Reads
    <3>2. new \in SocialGroup /\ new.member_count = g.member_count /\ new.status = "suspended"
      BY <3>1 DEF SocialGroup, GroupStatuses
    <3>3. /\ SaveGroup(t, new) /\ Finish(t) /\ task[t].op = "suspend_group"
          /\ UNCHANGED <<page, follows, admins, members, drifted>>
      BY <1>8, <2>2 DEF CommitSuspend, Committing
    <3> HIDE DEF new
    <3> QED BY <3>2, <3>3, GroupFinishes
  <2> QED BY <1>8, <2>1, <2>2 DEF CommitSuspend
<1> QED BY <1>1, <1>2, <1>3, <1>4, <1>5, <1>6, <1>7, <1>8 DEF Commit

\* The three kinds of steps: a handler loads, is refused, or finishes.
LEMMA Kinds ==
  ASSUME IInv, [Next]_vars, ~UNCHANGED vars
  PROVE  \E t \in Threads :
           \/ \E op \in Ops \ {"idle"}, target \in Users, value \in Values :
                Load(t, op, target, value) /\ Asked(op, value) /\ Let(op, target)
           \/ Refuse(t)
           \/ Finishes(t)
<1>1. PICK t \in Threads : Begin(t) \/ Commit(t)
  BY DEF Next
<1>2. Typed /\ Fresh(t) /\ Checked(t)
  BY DEF IInv, Handlers
<1> QED BY <1>1, <1>2, BeginLoads, CommitFinishes

-----------------------------------------------------------------------------
(* The invariant.                                                          *)

\* A handler that loads.
LEMMA LoadStep ==
  ASSUME IInv, NEW t \in Threads, NEW op \in Ops \ {"idle"}, NEW target \in Users,
         NEW value \in Values, Load(t, op, target, value), Asked(op, value), Let(op, target)
  PROVE  IInv'
<1> DEFINE job == [op |-> op, target |-> target, value |-> value, stale |-> FALSE]
           read == [page |-> IF op \in PageOps THEN page ELSE NoRead.page,
                    admin |-> IF op = "add_admin" THEN admins[target] ELSE NoAdmin,
                    group |-> IF op \in GroupOps THEN group ELSE NoRead.group,
                    member |-> IF op \in {"join", "leave", "member"} THEN members[target] ELSE NoMember]
<1>1. /\ UNCHANGED <<page, follows, admins, group, members, workload, drifted, resigned>>
      /\ task' = [task EXCEPT ![t] = job] /\ seen' = [seen EXCEPT ![t] = read]
      /\ collided' \in BOOLEAN /\ (collided => collided')
  BY DEF Load, rows, IInv, Typed, TypeOK
<1>2. job \in Tasks /\ read \in Reads
  <2>1. NoRead.page \in SocialPage /\ NoRead.group \in SocialGroup /\ NoMember \in GroupMember
        /\ NoAdmin \in AdminRoles
    BY Defaults DEF Reads, AdminRoles
  <2> QED BY <2>1 DEF IInv, Typed, TypeOK, Tasks, Reads
<1>3. Typed'
  <2>1. TypeOK'
    BY <1>1 DEF IInv, Typed, TypeOK
  <2>2. task' \in [Threads -> Tasks] /\ seen' \in [Threads -> Reads]
    BY <1>1, <1>2 DEF IInv, Typed
  <2>3. \A s \in Threads : Asked(task'[s].op, task'[s].value)
    BY <1>1 DEF IInv, Typed
  <2> QED BY <2>1, <2>2, <2>3 DEF Typed, Asked
<1>4. Finite' /\ CountsMatch'
  BY <1>1 DEF IInv, Finite, Joined, CountsMatch, Active
<1>5. ASSUME NEW s \in Threads PROVE Checked(s)' /\ Fresh(s)'
  <2>1. CASE s = t
    <3>1. task'[s] = job /\ seen'[s] = read
      BY <1>1, <2>1 DEF IInv, Typed
    <3>2. Checked(s)'
      BY <3>1 DEF Checked, Let, PageOps, GroupOps
    <3>3. Fresh(s)'
      BY <1>1, <3>1 DEF Fresh, Let, PageOps, GroupOps
    <3> QED BY <3>2, <3>3
  <2>2. CASE s # t
    <3>1. task'[s] = task[s] /\ seen'[s] = seen[s] /\ Checked(s) /\ Fresh(s)
      BY <1>1, <2>2 DEF IInv, Typed, Handlers
    <3> QED BY <1>1, <3>1 DEF Checked, Fresh
  <2> QED BY <2>1, <2>2
<1> QED BY <1>3, <1>4, <1>5 DEF IInv, Handlers

\* A transaction that is rolled back.
LEMMA RefuseStep ==
  ASSUME IInv, NEW t \in Threads, Refuse(t)
  PROVE  IInv'
<1>1. /\ UNCHANGED <<page, follows, admins, group, members, workload, drifted, resigned, collided>>
      /\ task' = [task EXCEPT ![t] = Idle] /\ seen' = [seen EXCEPT ![t] = NoRead]
  BY DEF Refuse, rows
<1>2. Typed'
  <2>1. TypeOK'
    BY <1>1 DEF IInv, Typed, TypeOK
  <2>2. task' \in [Threads -> Tasks] /\ seen' \in [Threads -> Reads]
    BY <1>1, Defaults, OwnerIsUser DEF IInv, Typed
  <2>3. \A s \in Threads : Asked(task'[s].op, task'[s].value)
    BY <1>1 DEF IInv, Typed, Idle, Asked
  <2> QED BY <2>1, <2>2, <2>3 DEF Typed, Asked
<1>3. Finite' /\ CountsMatch'
  BY <1>1 DEF IInv, Finite, Joined, CountsMatch, Active
<1>4. ASSUME NEW s \in Threads PROVE Checked(s)' /\ Fresh(s)'
  <2>1. CASE s = t
    <3>1. task'[s].op = "idle"
      BY <1>1, <2>1 DEF IInv, Typed, Idle
    <3> QED BY <3>1 DEF Checked, Fresh
  <2>2. CASE s # t
    <3>1. task'[s] = task[s] /\ seen'[s] = seen[s] /\ Checked(s) /\ Fresh(s)
      BY <1>1, <2>2 DEF IInv, Typed, Handlers
    <3> QED BY <1>1, <3>1 DEF Checked, Fresh
  <2> QED BY <2>1, <2>2
<1> QED BY <1>2, <1>3, <1>4 DEF IInv, Handlers

\* What a commit leaves of the other handlers: they run on, and those that
\* conflict with it are stale.
LEMMA Others ==
  ASSUME Typed, NEW t \in Threads, Finish(t)
  PROVE  /\ task' \in [Threads -> Tasks] /\ task'[t] = Idle
         /\ seen' \in [Threads -> Reads]
         /\ \A s \in Threads \ {t} :
              /\ task'[s].op = task[s].op /\ task'[s].target = task[s].target
              /\ task'[s].value = task[s].value /\ seen'[s] = seen[s]
              /\ ~task'[s].stale => /\ ~task[s].stale
                                    /\ Writes(task[s].op) \cap Writes(task[t].op) = {}
<1> DEFINE stale(s) == task[s].stale \/ Writes(task[s].op) \cap Writes(task[t].op) # {}
<1>1. /\ task' = [s \in Threads |-> IF s = t THEN Idle ELSE [task[s] EXCEPT !.stale = stale(s)]]
      /\ seen' = [seen EXCEPT ![t] = NoRead]
  BY DEF Finish
<1>2. seen' \in [Threads -> Reads] /\ \A s \in Threads \ {t} : seen'[s] = seen[s]
  BY <1>1, Defaults DEF Typed
<1>3. ASSUME NEW s \in Threads
      PROVE  LET new == [task[s] EXCEPT !.stale = stale(s)] IN
             /\ new \in Tasks /\ new.op = task[s].op /\ new.target = task[s].target
             /\ new.value = task[s].value /\ new.stale = stale(s)
  <2>1. task[s] \in Tasks /\ stale(s) \in BOOLEAN
    BY DEF Typed, Tasks
  <2> HIDE DEF stale
  <2> QED BY <2>1 DEF Tasks
<1> HIDE DEF stale
<1>4. /\ task' \in [Threads -> Tasks] /\ task'[t] = Idle
      /\ \A s \in Threads \ {t} : task'[s] = [task[s] EXCEPT !.stale = stale(s)]
  BY <1>1, <1>3, Defaults, OwnerIsUser
<1>5. ASSUME NEW s \in Threads \ {t}
      PROVE  /\ task'[s].op = task[s].op /\ task'[s].target = task[s].target
             /\ task'[s].value = task[s].value /\ task'[s].stale = stale(s)
  BY <1>3, <1>4
<1> QED BY <1>2, <1>4, <1>5 DEF stale

\* No commit makes what a handler has checked or, if it is not stale, has
\* loaded untrue.
LEMMA HandlersKeep ==
  ASSUME IInv, NEW t \in Threads, Finishes(t)
  PROVE  Handlers'
<1>1. Typed /\ Handlers /\ Finish(t) /\ task[t].op \in Ops \ {"idle"}
      /\ Bounded(task[t].op, task[t].target)
  BY DEF IInv, Finishes
<1>2. ASSUME NEW s \in Threads PROVE Checked(s)' /\ Fresh(s)'
  <2>1. CASE s = t
    <3>1. task'[s].op = "idle"
      BY <1>1, <2>1, Others DEF Idle
    <3> QED BY <3>1 DEF Checked, Fresh
  <2>2. CASE s # t
    <3>1. /\ task'[s].op = task[s].op /\ task'[s].target = task[s].target /\ seen'[s] = seen[s]
          /\ ~task'[s].stale => /\ ~task[s].stale
                                /\ Writes(task[s].op) \cap Writes(task[t].op) = {}
          /\ Checked(s) /\ Fresh(s)
      BY <1>1, <2>2, Others DEF Handlers
    <3>2. Checked(s)'
      BY <3>1 DEF Checked
    <3>3. Fresh(s)'
      <4>1. SUFFICES ASSUME ~task'[s].stale PROVE Fresh(s)'
        BY DEF Fresh
      <4>2. Writes(task[s].op) \cap Writes(task[t].op) = {} /\ ~task[s].stale
        BY <3>1, <4>1
      <4>3. /\ task[s].op \in {"follow", "unfollow"} =>
                 page'.follower_count = page.follower_count /\ follows' = follows
            /\ task[s].op \in {"page", "hide", "suspend_page"} => page'.status = page.status
            /\ task[s].op \in {"group", "suspend_group"} => group'.status = group.status
            /\ task[s].op \in {"join", "leave", "member"} =>
                 group'.member_count = group.member_count /\ members' = members
        BY <1>1, <4>2, Conflicts DEF Bounded
      <4> QED BY <3>1, <4>2, <4>3 DEF Fresh
    <3> QED BY <3>2, <3>3
  <2> QED BY <2>1, <2>2
<1> QED BY <1>2 DEF Handlers

\* One element more or less.
LEMMA OneMore ==
  ASSUME NEW S, NEW e, IsFiniteSet(S)
  PROVE  /\ IsFiniteSet(S \cup {e}) /\ IsFiniteSet(S \ {e})
         /\ Cardinality(S) \in Nat
         /\ e \notin S => Cardinality(S \cup {e}) = Cardinality(S) + 1
         /\ e \in S => Cardinality(S) > 0 /\ Cardinality(S \ {e}) = Cardinality(S) - 1
<1>1. /\ IsFiniteSet(S \cup {e}) /\ IsFiniteSet(S \ {e}) /\ Cardinality(S) \in Nat
      /\ Cardinality(S \ {e}) \in Nat
  BY FS_AddElement, FS_RemoveElement, FS_CardinalityType
<1> QED BY <1>1, FS_AddElement, FS_RemoveElement

\* Followers and members change by one, and so do their counts.
LEMMA CountsKeep ==
  ASSUME IInv, NEW t \in Threads, Finishes(t)
  PROVE  Finite' /\ CountsMatch'
<1> DEFINE u == task[t].target
<1>1. /\ Typed /\ Finite /\ Bounded(task[t].op, u) /\ Exact(t) /\ u \in Users
      /\ collided' = (collided \/ task[t].stale) /\ task[t].op \in Ops \ {"idle"}
  BY DEF IInv, Finishes, Finish, Typed, Tasks
<1>2. IsFiniteSet(follows')
  <2>1. follows' = follows \/ follows' = follows \cup {u} \/ follows' = follows \ {u}
    BY <1>1 DEF Bounded
  <2>2. IsFiniteSet(follows)
    BY <1>1 DEF Finite
  <2>3. IsFiniteSet(follows \cup {u}) /\ IsFiniteSet(follows \ {u})
    BY <2>2, OneMore
  <2> QED BY <2>1, <2>2, <2>3
<1>3. /\ Active(members'[u]) => Joined' = Joined \cup {u}
      /\ ~Active(members'[u]) => Joined' = Joined \ {u}
  BY <1>1 DEF Bounded, Joined
<1>4. Finite'
  <2>1. IsFiniteSet(Joined \cup {u}) /\ IsFiniteSet(Joined \ {u})
    BY <1>1, OneMore DEF Finite
  <2> QED BY <1>2, <1>3, <2>1 DEF Finite
<1>5. CountsMatch'
  <2>1. SUFFICES ASSUME ~collided'
                 PROVE  /\ page'.follower_count = Cardinality(follows')
                        /\ ~drifted' => group'.member_count = Cardinality(Joined')
    BY DEF CountsMatch, Joined
  <2>2. /\ ~collided /\ ~task[t].stale
        /\ page.follower_count = Cardinality(follows)
        /\ ~drifted => group.member_count = Cardinality(Joined)
    BY <1>1, <2>1 DEF IInv, CountsMatch, Joined
  <2>3. page'.follower_count = Cardinality(follows')
    <3>1. CASE task[t].op = "follow"
      BY <1>1, <2>2, <3>1, OneMore DEF Exact, Finite
    <3>2. CASE task[t].op = "unfollow"
      BY <1>1, <2>2, <3>2, OneMore DEF Exact, Finite, LessOne
    <3>3. CASE task[t].op \notin {"follow", "unfollow"}
      BY <1>1, <2>2, <3>3 DEF Bounded
    <3> QED BY <3>1, <3>2, <3>3
  <2>4. ASSUME ~drifted' PROVE group'.member_count = Cardinality(Joined')
    <3>1. CASE task[t].op \in {"join", "leave", "member"}
      <4> DEFINE was == Active(members[u])
                 is == Active(members'[u])
                 n == group.member_count
      <4>1. /\ ~drifted
            /\ was = is => group'.member_count = n
            /\ ~was /\ is => group'.member_count = n + 1
            /\ was /\ ~is => n # 1 /\ group'.member_count = LessOne(n, 1)
        BY <1>1, <2>2, <2>4, <3>1 DEF Exact
      <4>2. n = Cardinality(Joined) /\ IsFiniteSet(Joined) /\ (was <=> u \in Joined)
            /\ was \in BOOLEAN /\ is \in BOOLEAN
        BY <1>1, <2>2, <4>1 DEF Finite, Joined, Active
      <4>3. /\ is => Joined' = Joined \cup {u}
            /\ ~is => Joined' = Joined \ {u}
        BY <1>3
      <4> HIDE DEF was, is
      <4>4. CASE was /\ is
        <5>1. Joined' = Joined
          BY <4>2, <4>3, <4>4
        <5> QED BY <4>1, <4>2, <4>4, <5>1
      <4>5. CASE ~was /\ ~is
        <5>1. Joined' = Joined
          BY <4>2, <4>3, <4>5
        <5> QED BY <4>1, <4>2, <4>5, <5>1
      <4>6. CASE ~was /\ is
        BY <4>1, <4>2, <4>3, <4>6, OneMore
      <4>7. CASE was /\ ~is
        <5>1. u \in Joined /\ Joined' = Joined \ {u}
          BY <4>2, <4>3, <4>7
        <5>2. /\ Cardinality(Joined) \in Nat /\ Cardinality(Joined) > 0
              /\ Cardinality(Joined') = Cardinality(Joined) - 1
          BY <4>2, <5>1, OneMore
        <5>3. n # 1 /\ group'.member_count = LessOne(n, 1)
          BY <4>1, <4>7
        <5> QED BY <4>2, <5>2, <5>3 DEF LessOne
      <4> QED BY <4>2, <4>4, <4>5, <4>6, <4>7
    <3>2. CASE task[t].op \notin {"join", "leave", "member"}
      BY <1>1, <2>2, <2>4, <3>2 DEF Bounded, Joined
    <3> QED BY <3>1, <3>2
  <2> QED BY <2>3, <2>4
<1> QED BY <1>4, <1>5

\* A handler that finishes.
LEMMA FinishStep ==
  ASSUME IInv, NEW t \in Threads, Finishes(t)
  PROVE  IInv'
<1>1. Typed'
  <2>1. Typed /\ Finish(t) /\ Bounded(task[t].op, task[t].target)
    BY DEF IInv, Finishes
  <2>2. TypeOK'
    <3>1. resigned' \in BOOLEAN
      BY <2>1 DEF Finish, Typed, TypeOK
    <3> QED BY <2>1, <3>1 DEF Bounded, Finish, Typed, TypeOK, Tasks
  <2>3. task' \in [Threads -> Tasks] /\ seen' \in [Threads -> Reads] /\ task'[t] = Idle
    BY <2>1, Others
  <2>4. ASSUME NEW s \in Threads PROVE Asked(task'[s].op, task'[s].value)
    <3>1. CASE s = t
      BY <2>3, <3>1 DEF Idle, Asked
    <3>2. CASE s # t
      BY <2>1, <3>2, Others DEF Typed
    <3> QED BY <3>1, <3>2
  <2> QED BY <2>2, <2>3, <2>4 DEF Typed, Asked
<1> QED BY <1>1, HandlersKeep, CountsKeep DEF IInv

LEMMA Inductive == IInv /\ [Next]_vars => IInv'
<1> SUFFICES ASSUME IInv, [Next]_vars PROVE IInv'
  OBVIOUS
<1>1. CASE UNCHANGED vars
  BY <1>1 DEF vars, rows, IInv, Typed, TypeOK, Asked, Finite, Joined, Active, Handlers, Checked,
              Fresh, CountsMatch
<1>2. CASE ~UNCHANGED vars
  BY <1>2, Kinds, LoadStep, RefuseStep, FinishStep
<1> QED BY <1>1, <1>2

LEMMA Initially == Init => IInv
<1> SUFFICES ASSUME Init PROVE IInv
  OBVIOUS
<1>1. TypeOK
  <2>1. page \in SocialPage /\ group \in SocialGroup
    BY DEF Init, SocialPage, SocialGroup, PageStatuses, GroupStatuses
  <2>2. Owning \in GroupMember
    BY DEF Owning, GroupMember, MemberRoles, MemberStatuses
  <2>3. members \in [Users -> GroupMember]
    BY <2>2, Defaults DEF Init
  <2>4. admins \in [Users -> AdminRoles]
    BY DEF Init, AdminRoles, NoAdmin
  <2> QED BY <2>1, <2>3, <2>4 DEF Init, TypeOK
<1>2. /\ task \in [Threads -> Tasks] /\ seen \in [Threads -> Reads]
      /\ \A t \in Threads : task[t].op = "idle" /\ Asked(task[t].op, task[t].value)
  BY Defaults, OwnerIsUser DEF Init, Idle, Asked
<1>3. Handlers
  BY <1>2 DEF Handlers, Checked, Fresh
<1>4. follows = {} /\ Joined = {Owner}
  BY OwnerIsUser DEF Init, Joined, Active, NoMember, Owning
<1>5. Finite /\ Cardinality(follows) = 0 /\ Cardinality(Joined) = 1
  BY <1>4, FS_EmptySet, FS_Singleton DEF Finite
<1>6. CountsMatch
  BY <1>5 DEF Init, CountsMatch, Joined
<1> QED BY <1>1, <1>2, <1>3, <1>5, <1>6 DEF IInv, Typed

LEMMA Invariance == Spec => []IInv
BY Initially, Inductive, PTL DEF Spec

-----------------------------------------------------------------------------
(* The owner of the group.                                                 *)

MemberOps == {"join", "leave", "member"}

\* A request that changes a membership gives the role of owner to nobody else, and
\* is about the owner's own only if it is his.
OwnerHandler(t) ==
  /\ task[t].op \in MemberOps /\ task[t].target # Owner =>
       seen[t].member.role # "owner" /\ (task[t].op = "member" => task[t].value.role # "owner")
  /\ task[t].op \in MemberOps /\ task[t].target = Owner /\ ~resigned =>
       task[t].op = "member" /\ task[t].value.own = TRUE

OwnerSound == GroupKeepsOwner /\ \A t \in Threads : OwnerHandler(t)

\* What a request was let through with, of roles.
Claims(op, target, value) ==
  /\ op = "join" => members[target] # Owning
  /\ op = "leave" => members[target].role # "owner"
  /\ op = "member" =>
       /\ value.role \in NewRoles \cup {members[target].role}
       /\ members[target].role = "owner" =>
            value.own = TRUE \/ \E u \in Users \ {target} : members[u].role = "owner"

LEMMA BeginClaims ==
  ASSUME NEW t \in Threads, Begin(t)
  PROVE  \E op \in Ops \ {"idle"}, target \in Users : \E value :
           Load(t, op, target, value) /\ Claims(op, target, value)
<1> DEFINE Goal == \E op \in Ops \ {"idle"}, target \in Users : \E value :
                     Load(t, op, target, value) /\ Claims(op, target, value)
<1> USE DEF Ops
<1>1. ASSUME NEW op \in Ops \ (MemberOps \cup {"idle"}), NEW target \in Users, NEW value,
             Load(t, op, target, value)
      PROVE  Goal
  BY <1>1 DEF Claims, MemberOps
<1>2. CASE \/ \E u \in Users :
                 \/ BeginFollow(t, u) \/ BeginUnfollow(t, u) \/ BeginHidePage(t, u)
                 \/ \E status \in PageStatuses : BeginUpdatePage(t, u, status)
                 \/ \E status \in GroupStatuses, entry \in Entries : BeginUpdateGroup(t, u, status, entry)
                 \/ \E target \in Users, role \in AdminRoles \ {NoAdmin} : BeginAddAdmin(t, u, target, role)
                 \/ \E target \in Users : BeginRemoveAdmin(t, u, target)
           \/ \E op \in {"suspend_page", "suspend_group"} : BeginSuspend(t, op)
  <2>1. \E op \in Ops \ (MemberOps \cup {"idle"}), target \in Users : \E value :
          Load(t, op, target, value)
    BY <1>2, OwnerIsUser DEF BeginFollow, BeginUnfollow, BeginHidePage, BeginUpdatePage,
       BeginUpdateGroup, BeginAddAdmin, BeginRemoveAdmin, BeginSuspend, MemberOps
  <2> QED BY <1>1, <2>1
<1>3. ASSUME NEW u \in Users, BeginJoin(t, u) PROVE Goal
  <2>1. Load(t, "join", u, Nothing) /\ members[u] # Owning
    BY <1>3 DEF BeginJoin, NoMember, Owning
  <2> QED BY <2>1 DEF Claims
<1>4. ASSUME NEW u \in Users, BeginLeave(t, u) PROVE Goal
  <2>1. Load(t, "leave", u, Nothing) /\ members[u].role # "owner"
    BY <1>4 DEF BeginLeave
  <2> QED BY <2>1 DEF Claims
<1>5. ASSUME NEW u \in Users, NEW target \in Users,
             NEW role \in NewRoles \cup {members[target].role},
             NEW status \in MemberStatuses \cup {members[target].status},
             BeginUpdateMember(t, u, target, role, status)
      PROVE  Goal
  <2> DEFINE value == [Nothing EXCEPT !.role = role, !.status = status, !.own = (u = target)]
  <2>1. value.role = role /\ (u = target => value.own = TRUE)
    BY DEF Nothing
  <2> HIDE DEF value
  <2>2. /\ Load(t, "member", target, value)
        /\ members[target].role = "owner" => members[u].role = "owner"
    BY <1>5 DEF BeginUpdateMember, value
  <2>3. Claims("member", target, value)
    BY <2>1, <2>2 DEF Claims
  <2> QED BY <2>2, <2>3
<1> QED BY <1>2, <1>3, <1>4, <1>5 DEF Begin

LEMMA OwnerBegin ==
  ASSUME Typed, OwnerSound, NEW t \in Threads, Begin(t)
  PROVE  OwnerSound'
<1>0. PICK op \in Ops \ {"idle"}, target \in Users :
        \E value : Load(t, op, target, value) /\ Claims(op, target, value)
  BY BeginClaims
<1>1. PICK value : Load(t, op, target, value) /\ Claims(op, target, value)
  BY <1>0
<1> DEFINE job == [op |-> op, target |-> target, value |-> value, stale |-> FALSE]
           read == [page |-> IF op \in PageOps THEN page ELSE NoRead.page,
                    admin |-> IF op = "add_admin" THEN admins[target] ELSE NoAdmin,
                    group |-> IF op \in GroupOps THEN group ELSE NoRead.group,
                    member |-> IF op \in {"join", "leave", "member"} THEN members[target] ELSE NoMember]
<1>2. /\ members' = members /\ resigned' = resigned
      /\ task' = [task EXCEPT ![t] = job] /\ seen' = [seen EXCEPT ![t] = read]
  BY <1>1 DEF Load, rows
<1>3. GroupKeepsOwner'
  BY <1>2 DEF OwnerSound, GroupKeepsOwner
<1>4. ASSUME NEW s \in Threads \ {t} PROVE OwnerHandler(s)'
  <2>1. task'[s] = task[s] /\ seen'[s] = seen[s] /\ OwnerHandler(s)
    BY <1>2 DEF Typed, OwnerSound
  <2> QED BY <1>2, <2>1 DEF OwnerHandler
<1>5. OwnerHandler(t)'
  <2>1. task'[t] = job /\ seen'[t] = read
    BY <1>2 DEF Typed
  <2>2. /\ task'[t].op = op /\ task'[t].target = target /\ task'[t].value = value
        /\ op \in MemberOps => seen'[t].member = members[target]
    BY <2>1 DEF MemberOps
  <2> HIDE DEF job, read
  <2>3. GroupKeepsOwner
    BY DEF OwnerSound
  <2>4. ASSUME op \in MemberOps, target # Owner
        PROVE  members[target].role # "owner" /\ (op = "member" => value.role # "owner")
    BY <1>1, <2>3, <2>4, NewRolesAreGiven DEF Claims, GroupKeepsOwner
  <2>5. ASSUME op \in MemberOps, target = Owner, ~resigned
        PROVE  op = "member" /\ value.own = TRUE
    BY <1>1, <2>3, <2>5 DEF Claims, GroupKeepsOwner, MemberOps, Owning
  <2> QED BY <1>2, <2>2, <2>4, <2>5 DEF OwnerHandler
<1> QED BY <1>3, <1>4, <1>5 DEF OwnerSound

\* What becomes of a membership's role when a request about it is committed.
Roles(t) ==
  {members[task[t].target].role, seen[t].member.role, "member", "none"}
    \cup (IF task[t].op = "member" THEN {task[t].value.role} ELSE {})

LEMMA RowChanges ==
  ASSUME NEW t \in Threads, Commit(t), members \in [Users -> GroupMember], task[t].target \in Users
  PROVE  \/ members' = members
         \/ /\ task[t].op \in MemberOps
            /\ \A u \in Users \ {task[t].target} : members'[u] = members[u]
            /\ members'[task[t].target].role \in Roles(t)
<1> DEFINE u == task[t].target
           Goal == /\ task[t].op \in MemberOps
                   /\ \A v \in Users \ {u} : members'[v] = members[v]
                   /\ members'[u].role \in Roles(t)
<1>1. ASSUME NEW new, SaveMember(t, u, new), new.role \in Roles(t), task[t].op \in MemberOps
      PROVE  Goal
  <2> DEFINE row == [c \in {"role", "status"} |-> Written(seen[t].member[c], new[c], members[u][c])]
  <2>1. members' = [members EXCEPT ![u] = row]
    BY <1>1 DEF SaveMember
  <2>2. row.role \in {new.role, members[u].role}
    BY DEF Written
  <2> HIDE DEF row
  <2>3. members'[u] = row /\ \A v \in Users \ {u} : members'[v] = members[v]
    BY <2>1
  <2> QED BY <1>1, <2>2, <2>3 DEF Roles
<1>2. CASE CommitJoin(t)
  <2> DEFINE desired == IF seen[t].group.entry = "approval" THEN "pending" ELSE "active"
  <2>1. task[t].op \in MemberOps
    BY <1>2 DEF CommitJoin, Committing, MemberOps
  <2>2. CASE Refuse(t)
    BY <2>2 DEF Refuse, rows
  <2>3. CASE members' = [members EXCEPT ![u] = [role |-> "member", status |-> desired]]
    BY <2>1, <2>3 DEF Roles
  <2>4. CASE SaveMember(t, u, [seen[t].member EXCEPT !.status = desired])
    <3> DEFINE new == [seen[t].member EXCEPT !.status = desired]
    <3>1. new.role \in Roles(t)
      BY DEF Roles
    <3> HIDE DEF new
    <3>2. SaveMember(t, u, new)
      BY <2>4 DEF new
    <3> QED BY <1>1, <2>1, <3>1, <3>2
  <2> QED BY <1>2, <2>2, <2>3, <2>4 DEF CommitJoin
<1>3. CASE CommitLeave(t)
  <2>1. task[t].op \in MemberOps /\ members' = [members EXCEPT ![u] = NoMember]
    BY <1>3 DEF CommitLeave, Committing, MemberOps
  <2> QED BY <2>1 DEF Roles, NoMember
<1>4. CASE CommitUpdateMember(t)
  <2> DEFINE new == [role |-> task[t].value.role, status |-> task[t].value.status]
  <2>1. task[t].op = "member" /\ task[t].op \in MemberOps
    BY <1>4 DEF CommitUpdateMember, Committing, MemberOps
  <2>2. new.role \in Roles(t)
    BY <2>1 DEF Roles
  <2>3. members' = members \/ SaveMember(t, u, new)
    BY <1>4 DEF CommitUpdateMember, Refuse, rows
  <2> HIDE DEF new
  <2> QED BY <1>1, <2>1, <2>2, <2>3
<1>5. CASE \/ CommitFollow(t) \/ CommitUnfollow(t)
           \/ CommitUpdatePage(t, "page") \/ CommitUpdatePage(t, "hide")
           \/ CommitAddAdmin(t) \/ CommitRemoveAdmin(t)
           \/ CommitUpdateGroup(t) \/ CommitSuspend(t)
  BY <1>5 DEF CommitFollow, CommitUnfollow, CommitUpdatePage, CommitAddAdmin, CommitRemoveAdmin,
     CommitUpdateGroup, CommitSuspend, Refuse, rows
<1> QED BY <1>2, <1>3, <1>4, <1>5 DEF Commit

LEMMA OwnerCommit ==
  ASSUME IInv, OwnerSound, NEW t \in Threads, Commit(t)
  PROVE  OwnerSound'
<1>1. /\ Typed /\ task[t].target \in Users /\ members \in [Users -> GroupMember]
      /\ GroupKeepsOwner /\ OwnerHandler(t) /\ (Refuse(t) \/ Finish(t))
  BY CommitFinishes DEF IInv, Handlers, Finishes, Typed, TypeOK, Tasks, OwnerSound
<1>2. /\ task'[t].op = "idle"
      /\ \A s \in Threads \ {t} :
           /\ task'[s].op = task[s].op /\ task'[s].target = task[s].target
           /\ task'[s].value = task[s].value /\ seen'[s] = seen[s]
  <2>1. CASE Finish(t)
    BY <1>1, <2>1, Others DEF Idle
  <2>2. CASE Refuse(t)
    BY <1>1, <2>2 DEF Refuse, Typed, Idle
  <2> QED BY <1>1, <2>1, <2>2
<1>3. /\ resigned => resigned'
      /\ ~resigned' /\ task[t].target = Owner /\ task[t].value.own = TRUE => members' = members
  <2>1. CASE Refuse(t)
    BY <2>1 DEF Refuse, rows
  <2>2. CASE Finish(t)
    <3>1. resigned' = (resigned \/ (task[t].value.own /\ task[t].target = Owner))
      BY <2>2 DEF Finish
    <3>2. ~(~resigned' /\ task[t].target = Owner /\ task[t].value.own = TRUE)
      BY <3>1, Zenon
    <3> QED BY <3>1, <3>2, Zenon
  <2> QED BY <1>1, <2>1, <2>2
<1>4. GroupKeepsOwner'
  <2>1. CASE members' = members
    BY <1>1, <1>3, <2>1 DEF GroupKeepsOwner
  <2>2. CASE /\ task[t].op \in MemberOps
             /\ \A u \in Users \ {task[t].target} : members'[u] = members[u]
             /\ members'[task[t].target].role \in Roles(t)
    <3>1. CASE task[t].target = Owner
      <4>1. CASE resigned'
        BY <1>1, <2>2, <3>1, <4>1 DEF GroupKeepsOwner
      <4>2. CASE ~resigned'
        BY <1>1, <1>3, <2>2, <3>1, <4>2 DEF GroupKeepsOwner, OwnerHandler
      <4> QED BY <4>1, <4>2
    <3>2. CASE task[t].target # Owner
      <4>1. "owner" \notin Roles(t)
        BY <1>1, <2>2, <3>2 DEF GroupKeepsOwner, OwnerHandler, Roles
      <4> QED BY <1>1, <1>3, <2>2, <3>2, <4>1, OwnerIsUser DEF GroupKeepsOwner
    <3> QED BY <3>1, <3>2
  <2> QED BY <1>1, <2>1, <2>2, RowChanges
<1>5. ASSUME NEW s \in Threads PROVE OwnerHandler(s)'
  <2>1. CASE s = t
    BY <1>2, <2>1 DEF OwnerHandler, MemberOps
  <2>2. CASE s # t
    <3>1. OwnerHandler(s)
      BY DEF OwnerSound
    <3> QED BY <1>2, <1>3, <2>2, <3>1 DEF OwnerHandler
  <2> QED BY <2>1, <2>2
<1> QED BY <1>4, <1>5 DEF OwnerSound

-----------------------------------------------------------------------------
(* What pages and groups promise.                                          *)

\* The type invariant, for every set of users and of threads.
THEOREM TypeCorrect == Spec => []TypeOK
<1>1. IInv => TypeOK
  BY DEF IInv, Typed
<1> QED BY <1>1, Invariance, PTL

\* The followers of a page and the active members of a group are as many as
\* their counters say, until a handler commits over another's count or a muted
\* member joins again.
THEOREM Counted == Spec => []CountsMatch
<1>1. IInv => CountsMatch
  BY DEF IInv
<1> QED BY <1>1, Invariance, PTL

\* While the owner has not changed his own membership he is the one owner of the
\* group and active in it, in every interleaving (update_group_member, leave_group).
THEOREM OwnerKept == Spec => []GroupKeepsOwner
<1>1. Init => OwnerSound
  <2> SUFFICES ASSUME Init PROVE OwnerSound
    OBVIOUS
  <2>1. \A t \in Threads : task[t].op = "idle"
    BY DEF Init, Idle
  <2>2. GroupKeepsOwner
    BY OwnerIsUser DEF Init, GroupKeepsOwner, NoMember
  <2> QED BY <2>1, <2>2 DEF OwnerSound, OwnerHandler, MemberOps
<1>2. IInv /\ OwnerSound /\ [Next]_vars => OwnerSound'
  <2> SUFFICES ASSUME IInv, OwnerSound, [Next]_vars PROVE OwnerSound'
    OBVIOUS
  <2>1. ASSUME NEW t \in Threads, Begin(t) PROVE OwnerSound'
    BY <2>1, OwnerBegin DEF IInv
  <2>2. ASSUME NEW t \in Threads, Commit(t) PROVE OwnerSound'
    BY <2>2, OwnerCommit
  <2>3. CASE UNCHANGED vars
    BY <2>3 DEF vars, rows, OwnerSound, OwnerHandler, GroupKeepsOwner
  <2> QED BY <2>1, <2>2, <2>3 DEF Next
<1>3. OwnerSound => GroupKeepsOwner
  BY DEF OwnerSound
<1> QED BY <1>1, <1>2, <1>3, Invariance, PTL DEF Spec

\* Nobody lifts a suspension with a check made after it.
THEOREM Suspended == Spec => SuspensionHolds
<1> DEFINE Held == ~collided' =>
             /\ page.status = "suspended" => page'.status = "suspended"
             /\ group.status = "suspended" => group'.status = "suspended"
<1>1. ASSUME IInv, [Next]_vars, ~UNCHANGED vars PROVE Held
  <2>1. SUFFICES ASSUME ~collided', page' # page \/ group' # group PROVE Held
    OBVIOUS
  <2>2. PICK t \in Threads : Finishes(t)
    BY <1>1, <2>1, Kinds DEF Load, Refuse, rows
  <2>3. /\ ~task[t].stale /\ Bounded(task[t].op, task[t].target) /\ Exact(t)
        /\ Checked(t) /\ Fresh(t)
    BY <1>1, <2>1, <2>2 DEF Finishes, Finish, IInv, Handlers
  <2>4. page.status = "suspended" => page'.status = "suspended"
    <3>1. CASE task[t].op \in {"page", "hide"}
      BY <2>3, <3>1 DEF Checked, Fresh
    <3>2. CASE task[t].op = "suspend_page"
      BY <2>3, <3>2 DEF Exact
    <3>3. CASE task[t].op \notin {"page", "hide", "suspend_page"}
      BY <2>3, <3>3 DEF Bounded
    <3> QED BY <3>1, <3>2, <3>3
  <2>5. group.status = "suspended" => group'.status = "suspended"
    <3>1. CASE task[t].op = "group"
      BY <2>3, <3>1 DEF Checked, Fresh
    <3>2. CASE task[t].op = "suspend_group"
      BY <2>3, <3>2 DEF Exact
    <3>3. CASE task[t].op \notin {"group", "suspend_group"}
      BY <2>3, <3>3 DEF Bounded
    <3> QED BY <3>1, <3>2, <3>3
  <2> QED BY <2>4, <2>5
<1>2. IInv /\ [Next]_vars => [Held]_vars
  BY <1>1
<1>3. Spec => [][Held]_vars
  BY <1>2, Invariance, PTL DEF Spec
<1> QED BY <1>3 DEF SuspensionHolds
=============================================================================
