----------------------------- MODULE PostsProofs -----------------------------
(***************************************************************************)
(* What the life of an author's posts promises for any number of posts and *)
(* of overlapping handlers, what the counters promise as long as sessions  *)
(* do not overlap, and what those of a post, of its comments and of        *)
(* stories promise as long as no handler overwrites the count of another.  *)
(***************************************************************************)
EXTENDS Posts, Engagement, FiniteSetTheorems, TLAPS

\* A post that is not there has no row and was never counted; one that waits
\* for its time was not counted yet.
Counting ==
  \A p \in Posts :
    /\ counted[p] <= 1
    /\ posts[p].status = "absent" => posts[p] = NoRow
    /\ posts[p].status \in {"absent", "scheduled"} => counted[p] = 0

\* The posts a session works on: one it creates is its own, one it publishes was
\* scheduled and is not counted yet.
Working(s) ==
  LET t == task[s] IN
  /\ t.op = "create" =>
       /\ t.status \in {"published", "scheduled"}
       /\ t.shared \notin t.on
       /\ \A p \in t.on :
            /\ posts[p].status = "absent" /\ seen[s].posts[p] = NoRow
            /\ \A r \in Sessions \ {s} : p \notin task[r].on
  /\ t.op \in {"edit", "delete", "remove"} => t.status \notin {"absent", "scheduled"}
  /\ t.op = "edit" => t.status # "deleted"
  /\ t.op \in {"create", "delete"} => \E p \in Posts : t.on = {p}
  /\ t.op = "remove" => t.status = "removed"
  /\ t.op \in {"edit", "delete", "remove", "publish"} => \A p \in t.on : Exists(p)
  /\ t.op = "publish" => s = Worker
  /\ t.op = "publish" =>
       \A p \in t.on : seen[s].posts[p].status = "scheduled" /\ counted[p] = 0

\* What is shared is there: posts are never taken out of the table.
Sharable == {NoPost} \cup {q \in Posts : Exists(q)}

Sharing ==
  /\ \A p \in Posts : posts[p].shared \in Sharable
  /\ \A s \in Sessions : /\ task[s].shared \in Sharable
                         /\ \A p \in Posts : seen[s].posts[p].shared \in Sharable

IInv == TypeOK /\ Counting /\ Sharing /\ \A s \in Sessions : Working(s)

-----------------------------------------------------------------------------
(* Sessions.                                                               *)

\* A row and an idle session have their types.
LEMMA IdleTypes ==
  /\ NoRow \in Rows /\ Idle \in Tasks
  /\ NoRead \in [posts : [Posts -> Rows], postCount : Nat]
<1>1. NoRow \in Rows
  BY DEF NoRow, Rows, Statuses
<1> QED BY <1>1 DEF Idle, Tasks, Statuses, NoRead, Handlers

\* An UPDATE writes each column that differs from what was loaded.
LEMMA WrittenFields ==
  ASSUME TypeOK, NEW s \in Sessions, NEW p \in Posts, NEW row \in Rows
  PROVE  LET old == seen[s].posts[p]
             new == Written(s, p, row)
         IN /\ new \in Rows
            /\ new.status = IF row.status = old.status THEN posts[p].status ELSE row.status
            /\ new.deleted = IF row.deleted = old.deleted THEN posts[p].deleted ELSE row.deleted
            /\ new.shared = IF row.shared = old.shared THEN posts[p].shared ELSE row.shared
            /\ new.shares = IF row.shares = old.shares THEN posts[p].shares ELSE row.shares
            /\ new.due = IF row.due = old.due THEN posts[p].due ELSE row.due
<1>1. DOMAIN row = {"status", "deleted", "due", "shared", "shares"}
  BY DEF Rows
<1> DEFINE old == seen[s].posts[p]
<1>2. Written(s, p, row) =
        [status |-> IF row.status = old.status THEN posts[p].status ELSE row.status,
         deleted |-> IF row.deleted = old.deleted THEN posts[p].deleted ELSE row.deleted,
         due |-> IF row.due = old.due THEN posts[p].due ELSE row.due,
         shared |-> IF row.shared = old.shared THEN posts[p].shared ELSE row.shared,
         shares |-> IF row.shares = old.shares THEN posts[p].shares ELSE row.shares]
  BY <1>1 DEF Written
<1>3. posts[p] \in Rows
  BY DEF TypeOK
<1> QED BY <1>2, <1>3 DEF Rows

\* A post is shared by finitely many others.
LEMMA SharedBy ==
  ASSUME NEW S \in SUBSET Posts
  PROVE  IsFiniteSet(S) /\ Cardinality(S) \in Nat
  BY PostsAreFinite, FS_Subset, FS_CardinalityType

\* Sharing a post changes the shares alone.
LEMMA SharesFields ==
  ASSUME NEW rows \in [Posts -> Rows], NEW S \in SUBSET Posts
  PROVE  /\ WithShares(rows, S) \in [Posts -> Rows]
         /\ \A p \in Posts :
              LET new == WithShares(rows, S)[p] IN
              /\ new.status = rows[p].status /\ new.deleted = rows[p].deleted
              /\ new.shared = rows[p].shared /\ new.due = rows[p].due
              /\ new.shares = rows[p].shares + Cardinality({q \in S : rows[q].shared = p})
<1> DEFINE n(p) == Cardinality({q \in S : rows[q].shared = p})
           new(p) == [rows[p] EXCEPT !.shares = rows[p].shares + n(p)]
<1>1. WithShares(rows, S) = [p \in Posts |-> new(p)]
  BY DEF WithShares
<1>2. ASSUME NEW p \in Posts
      PROVE  /\ new(p) \in Rows
             /\ new(p).status = rows[p].status /\ new(p).deleted = rows[p].deleted
             /\ new(p).shared = rows[p].shared /\ new(p).due = rows[p].due
             /\ new(p).shares = rows[p].shares + n(p)
  <2>1. rows[p] \in Rows /\ n(p) \in Nat
    BY SharedBy
  <2> HIDE DEF n
  <2> QED BY <2>1 DEF Rows
<1> HIDE DEF new
<1> QED BY <1>1, <1>2

\* What a session saves: the fields it changed, the rest is as it is.
LEMMA SaveFields ==
  ASSUME TypeOK, NEW s \in Sessions, NEW rows \in [Posts -> Rows], NEW count \in Nat,
         Save(s, rows, count)
  PROVE  /\ posts' \in [Posts -> Rows] /\ postCount' \in Nat
         /\ \A p \in Posts :
              LET old == seen[s].posts[p] row == rows[p] new == posts'[p] IN
              /\ new.status = IF row.status = old.status THEN posts[p].status ELSE row.status
              /\ new.deleted = IF row.deleted = old.deleted THEN posts[p].deleted ELSE row.deleted
              /\ new.shared = IF row.shared = old.shared THEN posts[p].shared ELSE row.shared
              /\ new.shares = IF row.shares = old.shares THEN posts[p].shares ELSE row.shares
              /\ new.due = IF row.due = old.due THEN posts[p].due ELSE row.due
         /\ task' \in [Sessions -> Tasks] /\ task'[s] = Idle
         /\ seen' \in [Sessions -> [posts : [Posts -> Rows], postCount : Nat]]
         /\ \A r \in Sessions \ {s} : task'[r] = task[r] /\ seen'[r] = seen[r]
<1>1. posts' = [p \in Posts |-> Written(s, p, rows[p])]
  BY DEF Save
<1>2. \A p \in Posts : rows[p] \in Rows
  OBVIOUS
<1>3. /\ task' = [task EXCEPT ![s] = Idle] /\ seen' = [seen EXCEPT ![s] = NoRead]
      /\ postCount' = IF count = seen[s].postCount THEN postCount ELSE count
  BY DEF Save
<1>4. /\ posts' \in [Posts -> Rows]
      /\ \A p \in Posts : posts'[p] = Written(s, p, rows[p])
  BY <1>1, <1>2, WrittenFields
<1>5. postCount' \in Nat
  BY <1>3 DEF TypeOK
<1>6. /\ task' \in [Sessions -> Tasks] /\ task'[s] = Idle
      /\ seen' \in [Sessions -> [posts : [Posts -> Rows], postCount : Nat]]
      /\ \A r \in Sessions \ {s} : task'[r] = task[r] /\ seen'[r] = seen[r]
  BY <1>3, IdleTypes DEF TypeOK
<1> QED BY <1>2, <1>4, <1>5, <1>6, WrittenFields

-----------------------------------------------------------------------------
(* What a commit saves.                                                    *)

\* The rows that session s saves, counting the posts in C: of posts it does not
\* work on only the shares change.
Saves(s, rows, count, C) ==
  LET t == task[s] old == seen[s].posts IN
  /\ Save(s, rows, count) /\ Count(C)
  /\ t # Idle /\ t.op # "idle"
  /\ \A p \in Posts :
       /\ rows[p].shares = old[p].shares + Cardinality({q \in C : rows[q].shared = p})
       /\ rows[p].due = old[p].due
       /\ p \notin t.on => /\ rows[p].status = old[p].status
                           /\ rows[p].deleted = old[p].deleted
                           /\ rows[p].shared = old[p].shared
       /\ p \in t.on => /\ rows[p].status \notin {"absent"}
                        /\ rows[p].status = "scheduled" => t.op = "create" /\ C = {}
                        /\ rows[p].status = "deleted" => t.op = "delete"
                        /\ rows[p].shared = IF t.op = "create" THEN t.shared ELSE old[p].shared
                        /\ old[p].deleted => rows[p].deleted
  /\ \/ C = {} /\ count = seen[s].postCount /\ t.op # "delete"
     \/ /\ C = {} /\ t.op = "delete"
        /\ count = IF seen[s].postCount > 0 THEN seen[s].postCount - 1 ELSE 0
     \/ /\ C = t.on /\ t.op \in {"create", "publish"}
        /\ count = seen[s].postCount + Cardinality(C)

\* Every commit saves in this way.
LEMMA CommitSaves ==
  ASSUME IInv, NEW s \in Sessions, Commit(s) \/ (s = Worker /\ CommitPublish)
  PROVE  \E rows \in [Posts -> Rows], count \in Nat, C \in SUBSET task[s].on :
           Saves(s, rows, count, C)
<1> DEFINE t == task[s]
           old == seen[s].posts
           was == seen[s].postCount
           Goal == \E rows \in [Posts -> Rows], count \in Nat, C \in SUBSET t.on :
                     Saves(s, rows, count, C)
<1>1. /\ t \in Tasks /\ t.on \in SUBSET Posts /\ t.status \in Statuses
      /\ t.shared \in Posts \cup {NoPost}
      /\ old \in [Posts -> Rows] /\ was \in Nat /\ Working(s)
      /\ \A p \in Posts : old[p] \in Rows /\ old[p].shares \in Nat
  BY DEF IInv, TypeOK, Tasks, Rows
<1>2. ASSUME NEW rows \in [Posts -> Rows] PROVE \A p \in Posts : rows[p].shares \in Nat
  BY DEF Rows
<1>3. Cardinality({}) = 0 /\ \A p : Cardinality({q \in {} : FALSE}) = 0
  BY FS_EmptySet
<1>4. CASE CommitCreate(s)
  <2> DEFINE made == [NoRow EXCEPT !.status = t.status, !.shared = t.shared]
             rows == [p \in Posts |-> IF p \in t.on THEN made ELSE old[p]]
  <2>1. /\ t.op = "create" /\ t # Idle /\ t.status \in {"published", "scheduled"}
        /\ \A p \in t.on : old[p] = NoRow
    BY <1>1, <1>4 DEF CommitCreate, Working, Idle
  <2>2. /\ made \in Rows /\ made.status = t.status /\ made.shared = t.shared
        /\ made.shares = 0 /\ made.deleted = FALSE /\ made.due = FALSE
    BY <1>1 DEF NoRow, Rows
  <2>3. rows \in [Posts -> Rows]
    BY <1>1, <2>2
  <2>4. \A p \in Posts : /\ rows[p].shares = old[p].shares /\ rows[p].due = old[p].due
                         /\ p \notin t.on => rows[p] = old[p]
                         /\ p \in t.on => /\ rows[p].status = t.status
                                          /\ rows[p].shared = t.shared
                                          /\ ~old[p].deleted
    BY <2>1, <2>2 DEF NoRow
  <2> HIDE DEF rows, made
  <2>5. CASE t.status = "published"
    <3> DEFINE new == WithShares(rows, t.on)
    <3>1. /\ new \in [Posts -> Rows]
          /\ \A p \in Posts :
               /\ new[p].status = rows[p].status /\ new[p].deleted = rows[p].deleted
               /\ new[p].shared = rows[p].shared /\ new[p].due = rows[p].due
               /\ new[p].shares = rows[p].shares + Cardinality({q \in t.on : rows[q].shared = p})
      BY <1>1, <2>3, SharesFields
    <3>2. \A p \in Posts : {q \in t.on : rows[q].shared = p} = {q \in t.on : new[q].shared = p}
      BY <1>1, <3>1
    <3>3. Save(s, new, was + 1) /\ Count(t.on)
      BY <1>4, <2>5 DEF CommitCreate, rows, made
    <3>4. Cardinality(t.on) = 1
      BY <1>1, <2>1, FS_Singleton DEF Working
    <3> HIDE DEF new
    <3>5. \A p \in Posts :
            /\ new[p].shares = old[p].shares + Cardinality({q \in t.on : new[q].shared = p})
            /\ new[p].due = old[p].due
            /\ p \notin t.on => /\ new[p].status = old[p].status
                                /\ new[p].deleted = old[p].deleted
                                /\ new[p].shared = old[p].shared
            /\ p \in t.on => /\ new[p].status = "published" /\ ~old[p].deleted
                             /\ new[p].shared = t.shared
      BY <2>4, <2>5, <3>1, <3>2
    <3>6. Saves(s, new, was + 1, t.on)
      BY <2>1, <3>3, <3>4, <3>5 DEF Saves
    <3> QED BY <1>1, <3>1, <3>6
  <2>6. CASE t.status = "scheduled"
    <3>1. Save(s, rows, was) /\ Count({})
      BY <1>4, <2>6 DEF CommitCreate, rows, made
    <3>2. \A p \in Posts : {q \in {} : rows[q].shared = p} = {}
      OBVIOUS
    <3>3. Saves(s, rows, was, {})
      BY <1>1, <1>3, <2>1, <2>4, <2>6, <3>1, <3>2 DEF Saves
    <3> QED BY <1>1, <2>3, <3>3
  <2> QED BY <2>1, <2>5, <2>6
<1>5. CASE CommitEdit(s)
  <2> DEFINE rows == [p \in Posts |-> IF p \in t.on THEN [old[p] EXCEPT !.status = t.status]
                                      ELSE old[p]]
  <2>1. t.op = "edit" /\ t # Idle /\ t.status \notin {"absent", "scheduled", "deleted"}
    BY <1>1, <1>5 DEF CommitEdit, Working, Idle
  <2>2. rows \in [Posts -> Rows]
    BY <1>1 DEF Rows
  <2>3. \A p \in Posts : /\ rows[p].shares = old[p].shares /\ rows[p].due = old[p].due
                         /\ rows[p].shared = old[p].shared /\ rows[p].deleted = old[p].deleted
                         /\ rows[p].status = IF p \in t.on THEN t.status ELSE old[p].status
    BY <1>1 DEF Rows
  <2>4. Save(s, rows, was) /\ Count({})
    BY <1>5 DEF CommitEdit
  <2> HIDE DEF rows
  <2>5. \A p \in Posts : {q \in {} : rows[q].shared = p} = {}
    OBVIOUS
  <2>6. Saves(s, rows, was, {})
    BY <1>1, <1>3, <2>1, <2>3, <2>4, <2>5 DEF Saves
  <2> QED BY <1>1, <2>2, <2>6
<1>6. CASE CommitDelete(s)
  <2> DEFINE rows == [p \in Posts |-> IF p \in t.on
                                      THEN [old[p] EXCEPT !.status = t.status, !.deleted = TRUE]
                                      ELSE old[p]]
             count == IF t.op = "delete" /\ was > 0 THEN was - 1 ELSE was
  <2>1. /\ t.op \in {"delete", "remove"} /\ t # Idle /\ t.status \notin {"absent", "scheduled"}
        /\ t.op = "remove" => t.status = "removed"
    <3>1. t.op \in {"delete", "remove"}
      BY <1>6 DEF CommitDelete
    <3> QED BY <1>1, <3>1 DEF Working, Idle
  <2>2. rows \in [Posts -> Rows] /\ count \in Nat
    <3>1. \A p \in t.on : [old[p] EXCEPT !.status = t.status, !.deleted = TRUE] \in Rows
      BY <1>1 DEF Rows
    <3>2. count \in Nat
      BY <1>1
    <3> QED BY <1>1, <3>1, <3>2
  <2>3. \A p \in Posts : /\ rows[p].shares = old[p].shares /\ rows[p].due = old[p].due
                         /\ rows[p].shared = old[p].shared
                         /\ p \in t.on => rows[p].deleted /\ rows[p].status = t.status
                         /\ p \notin t.on => rows[p] = old[p]
    <3> SUFFICES ASSUME NEW p \in Posts
                 PROVE  /\ rows[p].shares = old[p].shares /\ rows[p].due = old[p].due
                        /\ rows[p].shared = old[p].shared
                        /\ p \in t.on => rows[p].deleted /\ rows[p].status = t.status
                        /\ p \notin t.on => rows[p] = old[p]
      OBVIOUS
    <3>1. CASE p \in t.on
      BY <1>1, <3>1 DEF Rows
    <3>2. CASE p \notin t.on
      BY <3>2
    <3> QED BY <3>1, <3>2
  <2>4. Save(s, rows, count) /\ Count({})
    BY <1>6 DEF CommitDelete
  <2>5. \/ t.op # "delete" /\ count = was
        \/ t.op = "delete" /\ count = IF was > 0 THEN was - 1 ELSE 0
    BY <1>1
  <2> HIDE DEF rows, count
  <2>6. \A p \in Posts : {q \in {} : rows[q].shared = p} = {}
    OBVIOUS
  <2>7. Saves(s, rows, count, {})
    BY <1>1, <1>3, <2>1, <2>3, <2>4, <2>5, <2>6 DEF Saves
  <2> QED BY <1>1, <2>2, <2>7
<1>7. CASE s = Worker /\ CommitPublish
  <2> DEFINE rows == [p \in Posts |-> IF p \in t.on THEN [old[p] EXCEPT !.status = "published"]
                                      ELSE old[p]]
             new == WithShares(rows, t.on)
             count == was + Cardinality(t.on)
  <2>1. t.op = "publish" /\ t # Idle
    BY <1>7 DEF CommitPublish, Idle
  <2>2. rows \in [Posts -> Rows]
    BY <1>1 DEF Rows, Statuses
  <2>3. \A p \in Posts : /\ rows[p].shares = old[p].shares /\ rows[p].due = old[p].due
                         /\ rows[p].shared = old[p].shared
                         /\ rows[p].deleted = old[p].deleted
                         /\ rows[p].status = IF p \in t.on THEN "published" ELSE old[p].status
    BY <1>1 DEF Rows
  <2>4. Save(s, new, count) /\ Count(t.on)
    BY <1>7 DEF CommitPublish
  <2>5. count \in Nat
    BY <1>1, SharedBy
  <2> HIDE DEF rows
  <2>6. /\ new \in [Posts -> Rows]
        /\ \A p \in Posts :
             /\ new[p].status = rows[p].status /\ new[p].deleted = rows[p].deleted
             /\ new[p].shared = rows[p].shared /\ new[p].due = rows[p].due
             /\ new[p].shares = rows[p].shares + Cardinality({q \in t.on : rows[q].shared = p})
    BY <1>1, <2>2, SharesFields
  <2>7. \A p \in Posts : {q \in t.on : rows[q].shared = p} = {q \in t.on : new[q].shared = p}
    BY <1>1, <2>6
  <2> HIDE DEF new
  <2>8. Saves(s, new, count, t.on)
    BY <1>1, <2>1, <2>3, <2>4, <2>6, <2>7 DEF Saves
  <2> QED BY <1>1, <2>5, <2>6, <2>8
<1> QED BY <1>4, <1>5, <1>6, <1>7 DEF Commit

-----------------------------------------------------------------------------
(* The invariant.                                                          *)

\* What a session has checked when it loads for task t.
Fits(s, t) ==
  /\ t.op # "idle" /\ t.shared \in Sharable
  /\ t.op = "create" =>
       /\ t.status \in {"published", "scheduled"}
       /\ t.shared \notin t.on
       /\ \A p \in t.on : ~Exists(p) /\ \A r \in Sessions : p \notin task[r].on
  /\ t.op \in {"edit", "delete", "remove"} => t.status \notin {"absent", "scheduled"}
  /\ t.op = "edit" => t.status # "deleted"
  /\ t.op \in {"create", "delete"} => \E p \in Posts : t.on = {p}
  /\ t.op = "remove" => t.status = "removed"
  /\ t.op \in {"edit", "delete", "remove", "publish"} => \A p \in t.on : Exists(p)
  /\ t.op = "publish" => s = Worker /\ \A p \in t.on : posts[p].status = "scheduled"

\* Every handler, and the worker, has checked that.
LEMMA BeginFits ==
  ASSUME IInv, NEW s \in Sessions, Begin(s) \/ (s = Worker /\ BeginPublish)
  PROVE  \E t \in Tasks : Load(s, t) /\ Fits(s, t)
<1> DEFINE Goal == \E t \in Tasks : Load(s, t) /\ Fits(s, t)
<1>1. ASSUME NEW p \in Posts, NEW q \in Posts \cup {NoPost}, NEW status \in {"published", "scheduled"},
             BeginCreate(s, p, q, status)
      PROVE  Goal
  <2> DEFINE t == [op |-> "create", on |-> {p}, shared |-> q, status |-> status]
  <2>1. t \in Tasks
    BY DEF Tasks, Handlers, Statuses
  <2>2. q # p /\ q \in Sharable
    BY <1>1, NoPostIsNone DEF BeginCreate, Sharable
  <2>3. Load(s, t) /\ Fits(s, t)
    BY <1>1, <2>2 DEF BeginCreate, Fits
  <2> QED BY <2>1, <2>3
<1>2. ASSUME NEW p \in Posts, NEW status \in Statuses, NEW op \in {"edit", "delete", "remove"},
             Exists(p), Load(s, [Idle EXCEPT !.op = op, !.on = {p}, !.status = status]),
             status \notin {"absent", "scheduled"}, op = "edit" => status # "deleted",
             op = "remove" => status = "removed"
      PROVE  Goal
  <2> DEFINE t == [Idle EXCEPT !.op = op, !.on = {p}, !.status = status]
  <2>1. t \in Tasks /\ t.op = op /\ t.on = {p} /\ t.status = status /\ t.shared = NoPost
    BY IdleTypes DEF Tasks, Handlers, Idle
  <2>2. Load(s, t)
    BY <1>2
  <2> HIDE DEF t
  <2>3. Fits(s, t)
    BY <1>2, <2>1 DEF Fits, Sharable
  <2> QED BY <2>1, <2>2, <2>3
<1>3. ASSUME NEW p \in Posts, NEW status \in Statuses, BeginEdit(s, p, status) PROVE Goal
  BY <1>2, <1>3 DEF BeginEdit
<1>4. ASSUME NEW p \in Posts, BeginDelete(s, p) PROVE Goal
  BY <1>2, <1>4 DEF BeginDelete, Statuses
<1>5. ASSUME NEW p \in Posts, BeginRemove(s, p) PROVE Goal
  BY <1>2, <1>5 DEF BeginRemove, Statuses
<1>6. CASE s = Worker /\ BeginPublish
  <2> DEFINE t == [Idle EXCEPT !.op = "publish", !.on = Due]
  <2>1. t \in Tasks /\ t.op = "publish" /\ t.on = Due /\ t.shared = NoPost
    BY IdleTypes DEF Tasks, Due, Idle
  <2>2. Load(s, t)
    BY <1>6 DEF BeginPublish
  <2> HIDE DEF t
  <2>3. Fits(s, t)
    BY <1>6, <2>1 DEF Fits, Due, Exists, Sharable
  <2> QED BY <2>1, <2>2, <2>3
<1> QED BY <1>1, <1>3, <1>4, <1>5, <1>6 DEF Begin

\* A session that loads keeps the invariant.
LEMMA LoadStep ==
  ASSUME IInv, NEW s \in Sessions, NEW t \in Tasks, Load(s, t), Fits(s, t)
  PROVE  IInv'
<1>1. /\ UNCHANGED <<posts, postCount, counted>> /\ task[s] = Idle
      /\ task' \in [Sessions -> Tasks] /\ task'[s] = t
      /\ seen' \in [Sessions -> [posts : [Posts -> Rows], postCount : Nat]]
      /\ seen'[s].posts = posts
      /\ \A r \in Sessions \ {s} : task'[r] = task[r] /\ seen'[r] = seen[r]
      /\ overlapped' \in BOOLEAN
  BY DEF Load, IInv, TypeOK
<1>2. TypeOK' /\ Counting'
  BY <1>1 DEF IInv, TypeOK, Counting
<1>3. Sharing'
  <2>1. Sharable' = Sharable
    BY <1>1 DEF Sharable, Exists
  <2> QED BY <1>1, <2>1 DEF IInv, Sharing, Fits
<1>5. Working(s)'
  <2>1. t.on \subseteq Posts /\ Working(s)
    BY DEF Tasks, IInv
  <2>2. \A p \in t.on : ~Exists(p) => posts[p] = NoRow
    BY <2>1 DEF IInv, Counting, Exists
  <2>3. t.op = "publish" => \A p \in t.on : counted[p] = 0
    BY <2>1 DEF Fits, IInv, Counting
  <2>4. t.op = "create" => \A p \in t.on, r \in Sessions \ {s} : p \notin task'[r].on
    BY <1>1 DEF Fits
  <2> QED BY <1>1, <2>1, <2>2, <2>3, <2>4 DEF Working, Fits, Exists
<1>4. ASSUME NEW r \in Sessions \ {s} PROVE Working(r)'
  <2>1. Working(r) /\ task'[r] = task[r] /\ seen'[r] = seen[r]
    BY <1>1 DEF IInv
  <2>2. ASSUME task[r].op = "create", NEW p \in task[r].on PROVE p \notin t.on
    <3>1. posts[p].status = "absent" /\ r \in Sessions
      BY <2>1, <2>2 DEF Working
    <3>2. t.op \in {"create", "edit", "delete", "remove", "publish"}
      BY DEF Tasks, Handlers, Fits
    <3> QED BY <2>2, <3>1, <3>2 DEF Fits, Exists
  <2> QED BY <1>1, <2>1, <2>2 DEF Working, Exists
<1> QED BY <1>2, <1>3, <1>4, <1>5 DEF IInv

\* A post that is worked on by two sessions is not counted by either, so that a
\* session that saves keeps the invariant.
LEMMA SaveStep ==
  ASSUME IInv, NEW s \in Sessions, NEW rows \in [Posts -> Rows], NEW count \in Nat,
         NEW C \in SUBSET task[s].on, Saves(s, rows, count, C)
  PROVE  /\ IInv'
         /\ \A p \in C : counted[p] = 0
         /\ \A p \in Posts : posts[p].deleted => posts'[p].deleted
<1> DEFINE t == task[s]
           old == seen[s].posts
<1>1. /\ t \in Tasks /\ t.on \subseteq Posts /\ C \subseteq t.on /\ Working(s)
      /\ t.op \in {"create", "edit", "delete", "remove", "publish", "idle"}
      /\ Save(s, rows, count)
  BY DEF IInv, TypeOK, Tasks, Handlers, Saves
<1>2. /\ posts' \in [Posts -> Rows] /\ postCount' \in Nat
      /\ task' \in [Sessions -> Tasks] /\ task'[s] = Idle
      /\ seen' \in [Sessions -> [posts : [Posts -> Rows], postCount : Nat]]
      /\ \A r \in Sessions \ {s} : task'[r] = task[r] /\ seen'[r] = seen[r]
  BY <1>1, SaveFields DEF IInv
<1>3. \A p \in Posts :
        /\ posts'[p].status = IF rows[p].status = old[p].status THEN posts[p].status
                              ELSE rows[p].status
        /\ posts'[p].deleted = IF rows[p].deleted = old[p].deleted THEN posts[p].deleted
                               ELSE rows[p].deleted
        /\ posts'[p].shared = IF rows[p].shared = old[p].shared THEN posts[p].shared
                              ELSE rows[p].shared
        /\ posts'[p].shares = IF rows[p].shares = old[p].shares THEN posts[p].shares
                              ELSE rows[p].shares
        /\ posts'[p].due = IF rows[p].due = old[p].due THEN posts[p].due ELSE rows[p].due
  BY <1>1, SaveFields DEF IInv
<1>4. \A p \in C : counted[p] = 0
  <2>1. C = {} \/ t.op \in {"create", "publish"}
    BY DEF Saves
  <2> QED BY <1>1, <2>1 DEF Working, IInv, Counting
<1>5. /\ counted' \in [Posts -> Nat]
      /\ \A p \in Posts : counted'[p] = counted[p] + IF p \in C THEN 1 ELSE 0
  BY DEF Saves, Count, IInv, TypeOK
<1>12. \A p \in Posts :
         /\ p \notin t.on => /\ rows[p].status = old[p].status
                             /\ rows[p].deleted = old[p].deleted
                             /\ rows[p].shared = old[p].shared
         /\ p \in t.on => /\ rows[p].status # "absent"
                          /\ rows[p].status = "scheduled" => t.op = "create" /\ C = {}
                          /\ old[p].deleted => rows[p].deleted
         /\ rows[p].shared \in {old[p].shared, t.shared}
         /\ rows[p].due = old[p].due
         /\ rows[p].shares = old[p].shares + Cardinality({q \in C : rows[q].shared = p})
  BY DEF Saves
<1>6. \A p \in Posts : posts[p].deleted => posts'[p].deleted
  <2> SUFFICES ASSUME NEW p \in Posts, posts[p].deleted PROVE posts'[p].deleted
    OBVIOUS
  <2>1. old[p].deleted => rows[p].deleted
    BY DEF Saves
  <2>2. rows[p].deleted \in BOOLEAN /\ old[p].deleted \in BOOLEAN
    BY DEF Rows, IInv, TypeOK
  <2> QED BY <1>3, <2>1, <2>2
<1>7. Counting'
  <2> SUFFICES ASSUME NEW p \in Posts
               PROVE  /\ counted'[p] <= 1
                      /\ posts'[p].status = "absent" => posts'[p] = NoRow
                      /\ posts'[p].status \in {"absent", "scheduled"} => counted'[p] = 0
    BY DEF Counting
  <2>1. /\ counted[p] \in Nat /\ counted[p] <= 1
        /\ posts[p].status = "absent" => posts[p] = NoRow
        /\ posts[p].status \in {"absent", "scheduled"} => counted[p] = 0
    BY DEF IInv, TypeOK, Counting
  <2>2. posts'[p] \in Rows /\ posts[p] \in Rows /\ old[p] \in Rows /\ rows[p] \in Rows
    BY <1>2 DEF IInv, TypeOK
  <2>3. counted'[p] <= 1
    BY <1>4, <1>5, <2>1
  <2>4. ASSUME posts'[p].status = "absent" PROVE posts'[p] = NoRow
    <3>1. p \notin t.on /\ posts[p].status = "absent"
      <4>1. CASE p \notin t.on
        BY <1>3, <1>12, <2>4, <4>1
      <4>2. CASE p \in t.on
        <5>1. t.op = "create" => old[p] = NoRow
          BY <1>1, <4>2 DEF Working
        <5>2. t.op # "create" => posts[p].status # "absent"
          <6>1. t.op # "idle"
            BY DEF Saves
          <6> QED BY <1>1, <4>2, <6>1 DEF Working, Exists
        <5>3. NoRow.status = "absent" /\ rows[p].status # "absent"
          BY <1>12, <4>2 DEF NoRow
        <5> QED BY <1>3, <2>4, <5>1, <5>2, <5>3
      <4> QED BY <4>1, <4>2
    <3>2. ASSUME NEW q \in C, rows[q].shared = p PROVE FALSE
      <4>1. t.shared \in Sharable /\ old[q].shared \in Sharable
        BY <1>1 DEF IInv, Sharing
      <4>2. p \in Sharable
        BY <1>1, <1>12, <3>2, <4>1
      <4> QED BY <3>1, <4>2, NoPostIsNone DEF Sharable, Exists
    <3>3. {q \in C : rows[q].shared = p} = {}
      BY <3>2
    <3>4. rows[p].shares = old[p].shares
      <4>1. rows[p].shares = old[p].shares + 0
        BY <1>12, <3>3, FS_EmptySet
      <4>2. old[p].shares \in Nat
        BY <2>2 DEF Rows
      <4> QED BY <4>1, <4>2
    <3>5. /\ posts'[p].status = posts[p].status /\ posts'[p].deleted = posts[p].deleted
          /\ posts'[p].shared = posts[p].shared /\ posts'[p].shares = posts[p].shares
          /\ posts'[p].due = posts[p].due
      BY <1>3, <1>12, <3>1, <3>4
    <3> QED BY <2>1, <2>2, <3>1, <3>5 DEF Rows, NoRow
  <2>5. ASSUME posts'[p].status \in {"absent", "scheduled"} PROVE counted'[p] = 0
    <3>1. CASE p \notin t.on
      <4>1. p \notin C /\ posts'[p].status = posts[p].status
        BY <1>1, <1>3, <1>12, <3>1
      <4> QED BY <1>5, <2>1, <2>5, <4>1
    <3>2. CASE p \in t.on
      <4>1. t.op = "create" => old[p] = NoRow /\ posts[p].status = "absent"
        BY <1>1, <3>2 DEF Working
      <4>2. t.op = "publish" => old[p].status = "scheduled"
        BY <1>1, <3>2 DEF Working
      <4>3. NoRow.status = "absent"
        BY DEF NoRow
      <4>4. p \notin C
        <5>1. SUFFICES ASSUME p \in C PROVE FALSE
          OBVIOUS
        <5>2. t.op \in {"create", "publish"}
          BY <5>1 DEF Saves
        <5>3. old[p].status \in {"absent", "scheduled"}
          BY <4>1, <4>2, <4>3, <5>2
        <5>4. rows[p].status \notin {"absent", "scheduled"}
          BY <1>12, <3>2, <5>1
        <5> QED BY <1>3, <2>5, <5>3, <5>4
      <4>5. counted[p] = 0
        BY <1>3, <1>12, <2>1, <2>5, <3>2, <4>1
      <4> QED BY <1>5, <4>4, <4>5
    <3> QED BY <3>1, <3>2
  <2> QED BY <2>3, <2>4, <2>5
<1>8. ASSUME NEW r \in Sessions \ {s} PROVE Working(r)'
  <2>1. Working(r)
    BY DEF IInv
  <2>2. ASSUME task[r].op = "create", NEW p \in task[r].on PROVE posts'[p].status = "absent"
    <3>1. posts[p].status = "absent" /\ p \notin t.on /\ p \in Posts
      BY <2>1, <2>2 DEF Working, IInv, TypeOK, Tasks
    <3> QED BY <1>3, <3>1 DEF Saves
  <2>3. ASSUME NEW p \in Posts, Exists(p) PROVE Exists(p)'
    <3>1. posts[p].status # "absent" /\ (p \notin t.on => rows[p].status = old[p].status)
          /\ (p \in t.on => rows[p].status # "absent")
      BY <2>3 DEF Exists, Saves
    <3> QED BY <1>3, <3>1 DEF Exists
  <2>4. ASSUME task[r].op = "publish", NEW p \in task[r].on PROVE counted'[p] = 0
    <3>1. p \in Posts /\ Exists(p) /\ counted[p] = 0
      BY <2>1, <2>4 DEF Working, IInv, TypeOK, Tasks
    <3>2. p \notin C
      <4>1. t.op # "create" \/ p \notin t.on
        BY <1>1, <3>1 DEF Working, Exists
      <4>2. t.op # "publish"
        BY <1>1, <2>1, <2>4 DEF Working
      <4> QED BY <1>1, <4>1, <4>2 DEF Saves
    <3> QED BY <1>5, <3>1, <3>2
  <2>5. task[r].on \subseteq Posts /\ task'[r] = task[r] /\ seen'[r] = seen[r]
    BY <1>2 DEF IInv, TypeOK, Tasks
  <2>6. \A p \in task[r].on, q \in Sessions \ {r} : p \notin task[q].on => p \notin task'[q].on
    BY <1>2 DEF Idle
  <2> QED BY <2>1, <2>2, <2>3, <2>4, <2>5, <2>6 DEF Working
<1>11. Sharing'
  <2>1. Sharable \subseteq Sharable'
    <3>1. ASSUME NEW p \in Posts, Exists(p) PROVE Exists(p)'
      <4>1. posts[p].status # "absent"
        BY <3>1 DEF Exists
      <4> QED BY <1>3, <1>12, <4>1 DEF Exists
    <3> QED BY <3>1 DEF Sharable
  <2>2. ASSUME NEW p \in Posts PROVE posts'[p].shared \in Sharable'
    <3>1. /\ posts[p].shared \in Sharable /\ old[p].shared \in Sharable
          /\ t.shared \in Sharable
      BY DEF IInv, Sharing
    <3>2. posts'[p].shared \in Sharable
      BY <1>3, <1>12, <3>1
    <3> QED BY <2>1, <3>2
  <2>3. ASSUME NEW r \in Sessions
        PROVE  /\ task'[r].shared \in Sharable'
               /\ \A p \in Posts : seen'[r].posts[p].shared \in Sharable'
    <3>1. CASE r = s
      <4>1. /\ task'[r].shared = NoPost
            /\ \A p \in Posts : seen'[r].posts[p].shared = NoPost
        BY <1>1, <1>2, <3>1 DEF Idle, Save, NoRead, NoRow, IInv, TypeOK
      <4> QED BY <4>1 DEF Sharable
    <3>2. CASE r # s
      <4>1. /\ task[r].shared \in Sharable
            /\ \A p \in Posts : seen[r].posts[p].shared \in Sharable
        BY DEF IInv, Sharing
      <4> QED BY <1>2, <2>1, <3>2, <4>1
    <3> QED BY <3>1, <3>2
  <2> QED BY <2>2, <2>3 DEF Sharing
<1>9. Working(s)'
  BY <1>2 DEF Working, Idle
<1>10. TypeOK'
  BY <1>1, <1>2, <1>5 DEF Save, IInv, TypeOK
<1> QED BY <1>4, <1>6, <1>7, <1>8, <1>9, <1>10, <1>11 DEF IInv

\* Every step keeps the invariant.
LEMMA Inductive == IInv /\ [Next]_vars => IInv'
<1> SUFFICES ASSUME IInv, [Next]_vars PROVE IInv'
  OBVIOUS
<1>1. Threads \subseteq Sessions /\ Worker \in Sessions
  BY DEF Sessions
<1>2. ASSUME NEW s \in Sessions, Begin(s) \/ (s = Worker /\ BeginPublish) PROVE IInv'
  BY <1>2, BeginFits, LoadStep
<1>3. ASSUME NEW s \in Sessions, Commit(s) \/ (s = Worker /\ CommitPublish) PROVE IInv'
  <2>1. PICK rows \in [Posts -> Rows], count \in Nat, C \in SUBSET task[s].on :
          Saves(s, rows, count, C)
    BY <1>3, CommitSaves
  <2> QED BY <2>1, SaveStep
<1>4. ASSUME NEW p \in Posts, BecomeDue(p) PROVE IInv'
  <2>1. /\ posts' \in [Posts -> Rows]
        /\ \A q \in Posts : /\ posts'[q].status = posts[q].status
                            /\ posts'[q].shared = posts[q].shared
                            /\ posts'[q] = posts[q] \/ posts[q].status = "scheduled"
        /\ UNCHANGED <<postCount, task, seen, counted, overlapped>>
    BY <1>4 DEF BecomeDue, IInv, TypeOK, Rows
  <2>2. TypeOK' /\ Counting'
    BY <2>1 DEF IInv, TypeOK, Counting
  <2>3. Sharing'
    <3>1. Sharable' = Sharable
      BY <2>1 DEF Sharable, Exists
    <3> QED BY <2>1, <3>1 DEF IInv, Sharing
  <2>4. ASSUME NEW s \in Sessions PROVE Working(s)'
    <3>1. task[s].on \subseteq Posts /\ Working(s)
      BY DEF IInv, TypeOK, Tasks
    <3> QED BY <2>1, <3>1 DEF Working, Exists
  <2> QED BY <2>2, <2>3, <2>4 DEF IInv
<1>5. CASE UNCHANGED vars
  <2>1. TypeOK' /\ Counting'
    BY <1>5 DEF vars, IInv, TypeOK, Counting
  <2>2. Sharing'
    BY <1>5 DEF vars, IInv, Sharing, Sharable, Exists
  <2>3. \A s \in Sessions : Working(s)'
    BY <1>5 DEF vars, IInv, Working, Exists
  <2> QED BY <2>1, <2>2, <2>3 DEF IInv
<1> QED BY <1>1, <1>2, <1>3, <1>4, <1>5 DEF Next, Publish

\* The initial states satisfy it.
LEMMA Initially == Init => IInv
<1> SUFFICES ASSUME Init PROVE IInv
  OBVIOUS
<1>1. TypeOK
  BY IdleTypes DEF Init, TypeOK
<1>2. Counting
  BY DEF Init, Counting
<1>3. Sharing
  BY DEF Init, Sharing, Sharable, NoRow, Idle, NoRead
<1>4. \A s \in Sessions : Working(s)
  BY DEF Init, Working, Idle
<1> QED BY <1>1, <1>2, <1>3, <1>4 DEF IInv

\* It holds for every set of posts, threads and operations.
LEMMA Invariance == Spec => []IInv
  BY Initially, Inductive, PTL DEF Spec

\* The type invariant.
THEOREM TypeCorrect == Spec => []TypeOK
<1>1. IInv => TypeOK
  BY DEF IInv
<1> QED BY <1>1, Invariance, PTL

\* However many handlers overlap with the worker, a post is counted at most once.
THEOREM Counted == Spec => []CountedOnce
<1>1. IInv => CountedOnce
  BY DEF IInv, Counting, CountedOnce
<1> QED BY <1>1, Invariance, PTL

\* However many handlers and the worker save what they have read, nobody but its
\* author sees a deleted post again.
THEOREM Hidden == Spec => DeletedStaysHidden
<1> DEFINE Kept == \A p \in Posts : posts[p].deleted => ~Visible(p)'
<1>1. ASSUME IInv, [Next]_vars PROVE [Kept]_vars
  <2> SUFFICES ASSUME NEW p \in Posts, posts[p].deleted, ~(UNCHANGED vars) PROVE posts'[p].deleted
    BY DEF Visible
  <2>1. Threads \subseteq Sessions /\ Worker \in Sessions
    BY DEF Sessions
  <2>2. ASSUME NEW s \in Sessions, Begin(s) \/ (s = Worker /\ BeginPublish) PROVE posts' = posts
    <3>1. PICK t \in Tasks : Load(s, t)
      BY <1>1, <2>2, BeginFits
    <3> QED BY <3>1 DEF Load
  <2>3. ASSUME NEW s \in Sessions, Commit(s) \/ (s = Worker /\ CommitPublish)
        PROVE  posts'[p].deleted
    <3>1. PICK rows \in [Posts -> Rows], count \in Nat, C \in SUBSET task[s].on :
            Saves(s, rows, count, C)
      BY <1>1, <2>3, CommitSaves
    <3> QED BY <1>1, <3>1, SaveStep
  <2>4. ASSUME NEW q \in Posts, BecomeDue(q) PROVE posts'[p].deleted
    BY <1>1, <2>4 DEF BecomeDue, IInv, TypeOK, Rows
  <2> QED BY <1>1, <2>1, <2>2, <2>3, <2>4 DEF Next, Publish
<1>2. IInv /\ [Next]_vars => [Kept]_vars
  BY <1>1
<1> QED BY <1>2, Invariance, PTL DEF Spec, DeletedStaysHidden

-----------------------------------------------------------------------------
(* Sessions that do not overlap.                                           *)

\* The posts that share p and were counted; those the profile may count.
SharedBys(p) == {q \in Posts : counted[q] > 0 /\ posts[q].shared = p}
Counts == {p \in Posts : counted[p] > 0 /\ posts[p].status # "deleted"}

\* As long as sessions do not overlap one of them works at a time, on rows that
\* are as it has read them.
Serial ==
  ~overlapped =>
    /\ \A s, r \in Sessions : s # r => task[s] = Idle \/ task[r] = Idle
    /\ \A s \in Sessions : task[s] # Idle =>
         /\ seen[s].postCount = postCount
         /\ \A p \in Posts : /\ seen[s].posts[p].status = posts[p].status
                             /\ seen[s].posts[p].shared = posts[p].shared
                             /\ seen[s].posts[p].shares = posts[p].shares

\* A session that loads keeps that.
LEMMA SerialLoad ==
  ASSUME IInv, Serial, SerialCountsMatch, NEW s \in Sessions, NEW t \in Tasks, Load(s, t)
  PROVE  Serial' /\ SerialCountsMatch'
<1>1. /\ UNCHANGED <<posts, postCount, counted>>
      /\ task'[s] = t /\ seen'[s] = [posts |-> posts, postCount |-> postCount]
      /\ \A r \in Sessions \ {s} : task'[r] = task[r] /\ seen'[r] = seen[r]
      /\ overlapped' = (overlapped \/ \E r \in Sessions \ {s} : task[r] # Idle)
  BY DEF Load, IInv, TypeOK
<1>2. SerialCountsMatch'
  BY <1>1 DEF SerialCountsMatch
<1>3. ASSUME ~overlapped' PROVE Serial'
  <2>1. ~overlapped /\ \A r \in Sessions \ {s} : task'[r] = Idle
    BY <1>1, <1>3
  <2> QED BY <1>1, <2>1 DEF Serial
<1> QED BY <1>2, <1>3 DEF Serial

\* A session that saves counts what it publishes, and takes one post off the
\* count when it deletes one.
LEMMA SerialSave ==
  ASSUME IInv, Serial, SerialCountsMatch, NEW s \in Sessions, NEW rows \in [Posts -> Rows],
         NEW count \in Nat, NEW C \in SUBSET task[s].on, Saves(s, rows, count, C)
  PROVE  Serial' /\ SerialCountsMatch'
<1> SUFFICES ASSUME ~overlapped' PROVE Serial' /\ SerialCountsMatch'
  BY DEF Serial, SerialCountsMatch
<1> DEFINE t == task[s]
           old == seen[s].posts
<1>1. /\ ~overlapped /\ t # Idle /\ Save(s, rows, count) /\ Working(s)
      /\ t \in Tasks /\ t.on \subseteq Posts /\ C \subseteq Posts
  BY DEF Saves, Save, IInv, TypeOK, Tasks
<1>2. /\ seen[s].postCount = postCount
      /\ \A p \in Posts : /\ old[p].status = posts[p].status
                          /\ old[p].shared = posts[p].shared
                          /\ old[p].shares = posts[p].shares
      /\ \A r \in Sessions \ {s} : task[r] = Idle
  BY <1>1 DEF Serial
<1>3. \A p \in Posts : /\ posts'[p].status = rows[p].status
                       /\ posts'[p].shared = rows[p].shared
                       /\ posts'[p].shares = rows[p].shares
  BY <1>1, <1>2, SaveFields DEF IInv
<1>4. \A r \in Sessions : task'[r] = Idle
  BY <1>1, <1>2, SaveFields DEF IInv
<1>5. /\ \A p \in C : counted[p] = 0
      /\ \A p \in Posts : counted[p] \in Nat
      /\ \A p \in Posts : counted'[p] = counted[p] + IF p \in C THEN 1 ELSE 0
  <2>1. \A p \in C : counted[p] = 0
    BY SaveStep
  <2>2. counted \in [Posts -> Nat] /\ Count(C)
    BY DEF Saves, IInv, TypeOK
  <2> QED BY <2>1, <2>2 DEF Count
<1>6. \A p \in Posts : counted'[p] > 0 <=> counted[p] > 0 \/ p \in C
  BY <1>5
<1>7. Serial'
  BY <1>4 DEF Serial
<1>8. ASSUME NEW p \in Posts PROVE posts'[p].shares = Cardinality(SharedBys(p)')
  <2> DEFINE more == {q \in C : rows[q].shared = p}
  <2>1. posts[p].shares = Cardinality(SharedBys(p))
    BY <1>1 DEF SerialCountsMatch, SharedBys
  <2>2. rows[p].shares = posts[p].shares + Cardinality(more)
    BY <1>2 DEF Saves
  <2>3. \A q \in Posts : counted[q] > 0 => rows[q].shared = posts[q].shared
    <3>1. ASSUME NEW q \in Posts, counted[q] > 0, q \in t.on PROVE t.op # "create"
      BY <1>1, <3>1 DEF Working, IInv, Counting
    <3> QED BY <1>2, <3>1 DEF Saves
  <2>4. SharedBys(p)' = SharedBys(p) \cup more /\ SharedBys(p) \cap more = {}
    BY <1>1, <1>3, <1>5, <1>6, <2>3 DEF SharedBys
  <2>5. IsFiniteSet(SharedBys(p)) /\ IsFiniteSet(more) /\ Cardinality(SharedBys(p) \cap more) = 0
    BY <1>1, <2>4, SharedBy, FS_EmptySet DEF SharedBys
  <2>6. /\ Cardinality(SharedBys(p)) \in Nat /\ Cardinality(more) \in Nat
        /\ Cardinality(SharedBys(p) \cup more)
             = Cardinality(SharedBys(p)) + Cardinality(more) - Cardinality(SharedBys(p) \cap more)
    BY <2>5, FS_Union, FS_CardinalityType
  <2> HIDE DEF more
  <2> QED BY <1>3, <2>1, <2>2, <2>4, <2>5, <2>6
<1>9. postCount' = count
  BY <1>1, <1>2 DEF Save
<1>10. postCount \in Nat /\ postCount <= Cardinality(Counts)
  BY <1>1 DEF SerialCountsMatch, Counts, IInv, TypeOK
<1>11. IsFiniteSet(Counts) /\ Cardinality(Counts) \in Nat /\ IsFiniteSet(Counts') /\ Cardinality(Counts') \in Nat
  BY SharedBy DEF Counts
<1>12. \A p \in Posts : posts[p].status = "deleted" \/ rows[p].status # "deleted" \/ p \in t.on
  BY <1>2 DEF Saves
<1>13. postCount' <= Cardinality(Counts')
  <2>1. CASE t.op = "delete"
    <3>1. PICK p \in Posts : t.on = {p}
      BY <1>1, <2>1 DEF Working
    <3>2. Counts \ {p} \subseteq Counts'
      BY <1>3, <1>6, <1>12, <3>1 DEF Counts
    <3>3. /\ IsFiniteSet(Counts \ {p})
          /\ Cardinality(Counts \ {p}) >= Cardinality(Counts) - 1
      <4>1. /\ IsFiniteSet(Counts \ {p})
            /\ Cardinality(Counts \ {p}) = IF p \in Counts THEN Cardinality(Counts) - 1
                                            ELSE Cardinality(Counts)
        BY <1>11, FS_RemoveElement
      <4> QED BY <1>11, <4>1
    <3>4. Cardinality(Counts \ {p}) \in Nat /\ Cardinality(Counts \ {p}) <= Cardinality(Counts')
      BY <1>11, <3>2, <3>3, FS_Subset, FS_CardinalityType
    <3>5. count = IF postCount > 0 THEN postCount - 1 ELSE 0
      BY <1>2, <2>1 DEF Saves
    <3> QED BY <1>9, <1>10, <1>11, <3>3, <3>4, <3>5
  <2>2. CASE t.op # "delete"
    <3>1. \A p \in Posts : rows[p].status = "deleted" => posts[p].status = "deleted"
      BY <1>2, <2>2 DEF Saves
    <3>2. \A p \in C : rows[p].status # "deleted"
      BY <1>1, <2>2 DEF Saves
    <3>3. Counts \cup C \subseteq Counts' /\ Counts \cap C = {}
      BY <1>1, <1>3, <1>5, <1>6, <3>1, <3>2 DEF Counts
    <3>4. IsFiniteSet(C) /\ Cardinality(C) \in Nat /\ Cardinality(Counts \cap C) = 0
      BY <1>1, <3>3, SharedBy, FS_EmptySet
    <3>5. /\ IsFiniteSet(Counts \cup C)
          /\ Cardinality(Counts \cup C) = Cardinality(Counts) + Cardinality(C)
      <4>1. /\ IsFiniteSet(Counts \cup C)
            /\ Cardinality(Counts \cup C)
                 = Cardinality(Counts) + Cardinality(C) - Cardinality(Counts \cap C)
        BY <1>11, <3>4, FS_Union
      <4> QED BY <1>11, <3>4, <4>1
    <3>6. Cardinality(Counts \cup C) <= Cardinality(Counts')
      BY <1>11, <3>3, FS_Subset
    <3>7. count = postCount + Cardinality(C)
      <4>1. C = {} => Cardinality(C) = 0
        BY FS_EmptySet
      <4>2. \/ C = {} /\ count = postCount
            \/ count = postCount + Cardinality(C)
        BY <1>2, <2>2 DEF Saves
      <4> QED BY <1>10, <4>1, <4>2
    <3> QED BY <1>9, <1>10, <1>11, <3>4, <3>5, <3>6, <3>7
  <2> QED BY <2>1, <2>2
<1> QED BY <1>7, <1>8, <1>13 DEF SerialCountsMatch, SharedBys, Counts

\* As long as sessions do not overlap, what is shared is counted and the profile
\* never counts more than the author's posts, for any number of posts.
THEOREM SerialCounts == Spec => []SerialCountsMatch
<1>1. Init => Serial /\ SerialCountsMatch
  <2> SUFFICES ASSUME Init PROVE Serial /\ SerialCountsMatch
    OBVIOUS
  <2>1. \A p \in Posts : {q \in Posts : counted[q] > 0 /\ posts[q].shared = p} = {}
    BY DEF Init
  <2>2. {p \in Posts : counted[p] > 0 /\ posts[p].status # "deleted"} = {}
    BY DEF Init
  <2>3. Serial
    BY DEF Init, Serial
  <2>4. Cardinality({}) = 0 /\ postCount = 0 /\ \A p \in Posts : posts[p].shares = 0
    BY FS_EmptySet DEF Init, NoRow
  <2>5. SerialCountsMatch
    <3>1. \A p \in Posts :
            posts[p].shares = Cardinality({q \in Posts : counted[q] > 0 /\ posts[q].shared = p})
      BY <2>1, <2>4
    <3>2. postCount <= Cardinality({p \in Posts : counted[p] > 0 /\ posts[p].status # "deleted"})
      BY <2>2, <2>4
    <3> QED BY <3>1, <3>2 DEF SerialCountsMatch
  <2> QED BY <2>3, <2>5
<1>2. ASSUME IInv, Serial, SerialCountsMatch, [Next]_vars PROVE Serial' /\ SerialCountsMatch'
  <2>1. Threads \subseteq Sessions /\ Worker \in Sessions
    BY DEF Sessions
  <2>2. ASSUME NEW s \in Sessions, Begin(s) \/ (s = Worker /\ BeginPublish)
        PROVE  Serial' /\ SerialCountsMatch'
    BY <1>2, <2>2, BeginFits, SerialLoad
  <2>3. ASSUME NEW s \in Sessions, Commit(s) \/ (s = Worker /\ CommitPublish)
        PROVE  Serial' /\ SerialCountsMatch'
    <3>1. PICK rows \in [Posts -> Rows], count \in Nat, C \in SUBSET task[s].on :
            Saves(s, rows, count, C)
      BY <1>2, <2>3, CommitSaves
    <3> QED BY <1>2, <3>1, SerialSave
  <2>4. ASSUME NEW p \in Posts, BecomeDue(p) PROVE Serial' /\ SerialCountsMatch'
    <3>1. /\ \A q \in Posts : /\ posts'[q].status = posts[q].status
                              /\ posts'[q].shared = posts[q].shared
                              /\ posts'[q].shares = posts[q].shares
          /\ UNCHANGED <<postCount, task, seen, counted, overlapped>>
      BY <1>2, <2>4 DEF BecomeDue, IInv, TypeOK, Rows
    <3>2. /\ \A q \in Posts : SharedBys(q)' = SharedBys(q)
          /\ Counts' = Counts
      BY <3>1 DEF SharedBys, Counts
    <3>3. Serial'
      BY <1>2, <3>1 DEF Serial
    <3> QED BY <1>2, <3>1, <3>2, <3>3 DEF SerialCountsMatch, SharedBys, Counts
  <2>5. CASE UNCHANGED vars
    BY <1>2, <2>5 DEF vars, Serial, SerialCountsMatch
  <2> QED BY <1>2, <2>1, <2>2, <2>3, <2>4, <2>5 DEF Next, Publish
<1>3. IInv /\ Serial /\ SerialCountsMatch /\ [Next]_vars => Serial' /\ SerialCountsMatch'
  BY <1>2
<1> QED BY <1>1, <1>3, Invariance, PTL DEF Spec

-----------------------------------------------------------------------------
(* Engagement with a post and with stories.                                *)
(*                                                                         *)
(* A commit makes every other handler of the same counter stale, so what a *)
(* handler that is not stale has loaded is still so (UpToDate), and its    *)
(* commit changes the counter by as much as the rows.                      *)

EngagementOps == {"idle", "react", "unreact", "save", "comment", "delete_comment",
                  "react_comment", "unreact_comment", "view", "expire"}

Jobs == [op : EngagementOps, user : Users \cup {Worker},
         comment : Comments \cup {NoComment}, parent : Comments \cup {NoComment},
         stories : SUBSET Stories, stale : BOOLEAN]

EngagementTyped ==
  /\ EngagementTypeOK
  /\ handler \in [Sessions -> Jobs]
  /\ loaded \in [Sessions -> [count : Nat, replies : Nat]]

\* A comment that is not there has nothing; parents were there before; and
\* what was taken off the counts is no longer active.
CommentsFit ==
  /\ \A c \in Comments \ WrittenComments :
       /\ comments[c].parent = NoComment
       /\ comments[c].reaction_count = 0 /\ comments[c].reply_count = 0
       /\ commentReactions[c] = {}
  /\ \A c \in Comments :
       comments[c].parent # NoComment =>
         comments[c].parent \in WrittenComments /\ comments[c].parent # c
  /\ \A c \in deleted : c \in WrittenComments /\ comments[c].status # "active"

\* What a handler works on.
WorksOn(h) ==
  /\ h.op \in {"react", "unreact", "save", "react_comment", "unreact_comment", "view"} =>
       h.user \in Users
  /\ h.op \in {"delete_comment", "react_comment", "unreact_comment"} => h.comment \in WrittenComments
  /\ h.op = "comment" => h.comment \in Comments \ WrittenComments
  /\ h.op = "delete_comment" => h.parent = comments[h.comment].parent
  /\ h.parent # NoComment => h.parent \in WrittenComments
  /\ h.op = "view" => \E s \in Stories : h.stories = {s}

\* What a handler that is not stale has loaded is still so.
UpToDate(h, read) == ~h.stale =>
  /\ h.op \in {"react", "unreact"} => read.count = post.reaction_count
  /\ h.op = "unreact" => h.user \in reactions
  /\ h.op \in {"comment", "delete_comment"} =>
       /\ read.count = post.comment_count
       /\ h.parent # NoComment => read.replies = comments[h.parent].reply_count
  /\ h.op = "delete_comment" => h.comment \notin deleted
  /\ h.op \in {"react_comment", "unreact_comment"} => read.count = comments[h.comment].reaction_count
  /\ h.op = "unreact_comment" => h.user \in commentReactions[h.comment]
  /\ h.op = "view" => \A s \in h.stories : read.count = stories[s].view_count

\* No two sessions write the same new comment.
NewIds ==
  \A s, r \in Sessions :
    s # r /\ handler[s].op = "comment" => handler[r].comment # handler[s].comment

EngagementFinite ==
  /\ IsFiniteSet(reactions) /\ IsFiniteSet(CountedComments)
  /\ \A c \in Comments : IsFiniteSet(commentReactions[c])
  /\ \A s \in Stories : IsFiniteSet(views[s])

HandlersFit ==
  /\ \A s \in Sessions : WorksOn(handler[s]) /\ UpToDate(handler[s], loaded[s])
  /\ handler[Worker].comment = NoComment

EngagementInv ==
  /\ EngagementTyped
  /\ CommentsFit
  /\ HandlersFit
  /\ NewIds
  /\ EngagementFinite
  /\ CountsMatch

-----------------------------------------------------------------------------
(* What a step may change of the rows that handlers rely on, when h is the *)
(* handler that commits (an idle one for the other steps).                 *)

Frame(h) ==
  /\ h.op \notin {"react", "unreact"} =>
       post'.reaction_count = post.reaction_count /\ reactions' = reactions
  /\ h.op \notin {"comment", "delete_comment"} =>
       post'.comment_count = post.comment_count /\ deleted' = deleted
  /\ WrittenComments \subseteq WrittenComments'
  /\ \A c \in WrittenComments' \ WrittenComments : h.op = "comment" /\ c = h.comment
  /\ \A c \in WrittenComments :
       /\ comments'[c].parent = comments[c].parent
       /\ h.op \notin {"comment", "delete_comment"} =>
            comments'[c].reply_count = comments[c].reply_count
       /\ ~(h.op \in {"react_comment", "unreact_comment"} /\ h.comment = c) =>
            /\ comments'[c].reaction_count = comments[c].reaction_count
            /\ commentReactions'[c] = commentReactions[c]
  /\ \A s \in Stories :
       ~(h.op = "view" /\ h.stories = {s}) => stories'[s].view_count = stories[s].view_count

\* Handler h goes on as g while another commits.
GoesOn(h, g, committing) ==
  /\ g.op = h.op /\ g.user = h.user /\ g.comment = h.comment /\ g.parent = h.parent
  /\ g.stories = h.stories
  /\ ~g.stale => ~h.stale /\ ~SameCount(h, committing)

\* What a handler relies on stays while others step.
LEMMA HandlerKeeps ==
  ASSUME EngagementTyped, EngagementTypeOK', CommentsFit, NEW h \in Jobs, NEW g \in Jobs,
         NEW other \in Jobs, NEW read,
         WorksOn(h), UpToDate(h, read), Frame(other), GoesOn(h, g, other),
         h.op = "comment" => ~(other.op = "comment" /\ other.comment = h.comment)
  PROVE  WorksOn(g)' /\ UpToDate(g, read)'
<1>1. WorksOn(g)'
  <2>1. h.op \in {"delete_comment", "react_comment", "unreact_comment"} => h.comment \in WrittenComments'
    BY DEF WorksOn, Frame
  <2>2. h.op = "comment" => h.comment \in Comments \ WrittenComments'
    BY DEF WorksOn, Frame
  <2>3. h.op = "delete_comment" => h.parent = comments'[h.comment].parent
    BY DEF WorksOn, Frame
  <2>4. h.parent # NoComment => h.parent \in WrittenComments'
    BY DEF WorksOn, Frame
  <2> QED BY <2>1, <2>2, <2>3, <2>4 DEF WorksOn, GoesOn
<1>2. UpToDate(g, read)'
  <2>1. SUFFICES ASSUME ~g.stale, ~h.stale, ~SameCount(h, other) PROVE UpToDate(g, read)'
    BY DEF UpToDate, GoesOn
  <2>2. h.op \in {"react", "unreact"} => other.op \notin {"react", "unreact"}
    BY <2>1 DEF SameCount
  <2>3. h.op \in {"comment", "delete_comment"} => other.op \notin {"comment", "delete_comment"}
    BY <2>1 DEF SameCount
  <2>4. h.op \in {"react_comment", "unreact_comment"} =>
          ~(other.op \in {"react_comment", "unreact_comment"} /\ other.comment = h.comment)
    BY <2>1 DEF SameCount
  <2>5. h.op = "view" => ~(other.op = "view" /\ other.stories = h.stories)
    BY <2>1 DEF SameCount
  <2>6. g.op \in {"react", "unreact"} => read.count = post'.reaction_count
    BY <2>1, <2>2 DEF UpToDate, GoesOn, Frame
  <2>7. g.op = "unreact" => g.user \in reactions'
    BY <2>1, <2>2 DEF UpToDate, GoesOn, Frame
  <2>8. g.op \in {"comment", "delete_comment"} =>
          /\ read.count = post'.comment_count
          /\ g.parent # NoComment => read.replies = comments'[g.parent].reply_count
    BY <2>1, <2>3 DEF UpToDate, GoesOn, Frame, WorksOn
  <2>9. g.op = "delete_comment" => g.comment \notin deleted'
    BY <2>1, <2>3 DEF UpToDate, GoesOn, Frame
  <2>10. g.op \in {"react_comment", "unreact_comment"} =>
           read.count = comments'[g.comment].reaction_count
    BY <2>1, <2>4 DEF UpToDate, GoesOn, Frame, WorksOn
  <2>11. g.op = "unreact_comment" => g.user \in commentReactions'[g.comment]
    BY <2>1, <2>4 DEF UpToDate, GoesOn, Frame, WorksOn
  <2>12. g.op = "view" => \A s \in g.stories : read.count = stories'[s].view_count
    <3>1. SUFFICES ASSUME h.op = "view" PROVE \A s \in h.stories : read.count = stories'[s].view_count
      BY DEF GoesOn
    <3>2. PICK s \in Stories : h.stories = {s}
      BY <3>1 DEF WorksOn
    <3>3. read.count = stories[s].view_count
      BY <2>1, <3>1, <3>2 DEF UpToDate
    <3>4. stories'[s].view_count = stories[s].view_count
      BY <2>5, <3>1, <3>2 DEF Frame
    <3> QED BY <3>2, <3>3, <3>4
  <2> QED BY <2>6, <2>7, <2>8, <2>9, <2>10, <2>11, <2>12 DEF UpToDate
<1> QED BY <1>1, <1>2

LEMMA IdleIsJob ==
  /\ IdleHandler \in Jobs
  /\ NoCounts \in [count : Nat, replies : Nat]
  /\ WorksOn(IdleHandler)
  /\ \A read : UpToDate(IdleHandler, read)
<1> QED BY DEF IdleHandler, NoCounts, Jobs, EngagementOps, WorksOn, UpToDate

\* The handlers after one has committed.
LEMMA Committed ==
  ASSUME EngagementInv, EngagementTypeOK', NEW t \in Sessions, Finish(t), Frame(handler[t])
  PROVE  EngagementTyped' /\ HandlersFit' /\ NewIds'
<1>1. handler[t] \in Jobs
  BY DEF EngagementInv, EngagementTyped
<1>2. \A s \in Sessions : handler'[s] \in Jobs
  <2> TAKE s \in Sessions
  <2>1. handler[s] \in Jobs /\ SameCount(handler[s], handler[t]) \in BOOLEAN
    BY DEF EngagementInv, EngagementTyped, SameCount
  <2>2. CASE s = t
    BY <2>2, IdleIsJob DEF Finish
  <2>3. CASE s # t
    BY <2>1, <2>3 DEF Finish, Jobs
  <2> QED BY <2>2, <2>3
<1>3. handler' \in [Sessions -> Jobs]
  BY <1>2 DEF Finish
<1>4. loaded' \in [Sessions -> [count : Nat, replies : Nat]]
  BY IdleIsJob DEF Finish, EngagementInv, EngagementTyped
<1>5. \A s \in Sessions \ {t} :
        GoesOn(handler[s], handler'[s], handler[t]) /\ loaded'[s] = loaded[s]
  <2> TAKE s \in Sessions \ {t}
  <2>1. handler[s] \in Jobs
    BY DEF EngagementInv, EngagementTyped
  <2>2. handler'[s] = [handler[s] EXCEPT !.stale = handler[s].stale \/ SameCount(handler[s], handler[t])]
    BY DEF Finish
  <2>3. loaded'[s] = loaded[s]
    BY DEF Finish, EngagementInv, EngagementTyped
  <2> QED BY <2>1, <2>2, <2>3 DEF GoesOn, Jobs
<1>6. handler'[t] = IdleHandler
  BY DEF Finish
<1>7. \A s \in Sessions : WorksOn(handler[s])' /\ UpToDate(handler[s], loaded[s])'
  <2> TAKE s \in Sessions
  <2>1. CASE s = t
    BY <1>6, <2>1 DEF IdleHandler, WorksOn, UpToDate
  <2>2. CASE s # t
    <3>1. PICK h \in Jobs : h = handler[s]
      BY DEF EngagementInv, EngagementTyped
    <3>2. PICK other \in Jobs : other = handler[t]
      BY <1>1
    <3>3. PICK g \in Jobs : g = handler'[s]
      BY <1>2
    <3>4. PICK read \in [count : Nat, replies : Nat] : read = loaded[s]
      BY DEF EngagementInv, EngagementTyped
    <3>5. GoesOn(h, g, other) /\ loaded'[s] = read
      BY <1>5, <2>2, <3>1, <3>2, <3>3, <3>4
    <3>6. WorksOn(h) /\ UpToDate(h, read)
      BY <3>1, <3>4 DEF EngagementInv, HandlersFit
    <3>7. h.op = "comment" => ~(other.op = "comment" /\ other.comment = h.comment)
      BY <2>2, <3>1, <3>2 DEF EngagementInv, NewIds
    <3>8. EngagementTyped /\ CommentsFit /\ Frame(other)
      BY <3>2 DEF EngagementInv
    <3>9. WorksOn(g)' /\ UpToDate(g, read)'
      BY <3>5, <3>6, <3>7, <3>8, HandlerKeeps
    <3>10. /\ WorksOn(handler[s])' <=> WorksOn(g)'
           /\ UpToDate(handler[s], loaded[s])' <=> UpToDate(g, read)'
      BY <3>3, <3>5
    <3> QED BY <3>9, <3>10
  <2> QED BY <2>1, <2>2
<1>8. handler'[Worker].comment = NoComment
  BY <1>5, <1>6 DEF EngagementInv, HandlersFit, GoesOn, Sessions, IdleHandler
<1>9. NewIds'
  <2>1. \A s \in Sessions : /\ handler'[s].op = "comment" => s # t
                            /\ s = t => handler'[s].comment = NoComment
    BY <1>6 DEF IdleHandler
  <2>2. \A s \in Sessions \ {t} : /\ handler'[s].op = handler[s].op
                                  /\ handler'[s].comment = handler[s].comment
                                  /\ handler[s].op = "comment" => handler[s].comment \in Comments
    BY <1>5 DEF GoesOn, EngagementInv, HandlersFit, WorksOn
  <2> QED BY <2>1, <2>2, NoCommentIsNone DEF EngagementInv, NewIds
<1> QED BY <1>3, <1>4, <1>7, <1>8, <1>9 DEF EngagementTyped, HandlersFit

\* The handlers after a step of none of them.
LEMMA Unattended ==
  ASSUME EngagementInv, EngagementTypeOK', UNCHANGED <<handler, loaded>>, Frame(IdleHandler)
  PROVE  EngagementTyped' /\ HandlersFit' /\ NewIds'
<1>1. ASSUME NEW s \in Sessions PROVE WorksOn(handler[s])' /\ UpToDate(handler[s], loaded[s])'
  <2>1. PICK h \in Jobs : h = handler[s]
    BY <1>1 DEF EngagementInv, EngagementTyped
  <2>2. PICK read \in [count : Nat, replies : Nat] : read = loaded[s]
    BY <1>1 DEF EngagementInv, EngagementTyped
  <2>3. WorksOn(h) /\ UpToDate(h, read) /\ EngagementTyped /\ CommentsFit
    BY <1>1, <2>1, <2>2 DEF EngagementInv, HandlersFit
  <2>4. GoesOn(h, h, IdleHandler) /\ IdleHandler.op # "comment"
    BY DEF GoesOn, SameCount, IdleHandler
  <2>5. WorksOn(h)' /\ UpToDate(h, read)'
    BY <2>3, <2>4, IdleIsJob, HandlerKeeps
  <2>6. /\ WorksOn(handler[s])' <=> WorksOn(h)'
        /\ UpToDate(handler[s], loaded[s])' <=> UpToDate(h, read)'
    BY <2>1, <2>2
  <2> QED BY <2>5, <2>6
<1> QED BY <1>1 DEF EngagementInv, EngagementTyped, HandlersFit, NewIds

\* A rolled back handler leaves all as it was.
LEMMA Refused ==
  ASSUME EngagementInv, NEW t \in Sessions, Refuse(t)
  PROVE  EngagementInv'
<1>1. EngagementTyped'
  BY IdleIsJob DEF EngagementInv, EngagementTyped, EngagementTypeOK, Refuse, tables
<1>2. CommentsFit' /\ EngagementFinite' /\ CountsMatch'
  BY DEF EngagementInv, CommentsFit, EngagementFinite, CountsMatch, Refuse, tables, WrittenComments,
         CountedComments
<1>3. \A s \in Sessions :
        \/ handler'[s] = IdleHandler
        \/ handler'[s] = handler[s] /\ loaded'[s] = loaded[s]
  BY DEF EngagementInv, EngagementTyped, Refuse
<1>4. ASSUME NEW s \in Sessions PROVE WorksOn(handler[s])' /\ UpToDate(handler[s], loaded[s])'
  <2>1. \A h, read : /\ WorksOn(h) => WorksOn(h)'
                     /\ UpToDate(h, read) => UpToDate(h, read)'
    BY DEF WorksOn, UpToDate, Refuse, tables, WrittenComments
  <2> QED BY <1>3, <1>4, <2>1, IdleIsJob DEF EngagementInv, HandlersFit
<1>5. handler'[Worker].comment = NoComment
  BY <1>3 DEF EngagementInv, HandlersFit, IdleHandler, Sessions
<1>6. NewIds'
  <2>1. \A s \in Sessions : handler[s].op = "comment" => handler[s].comment # NoComment
    BY NoCommentIsNone DEF EngagementInv, HandlersFit, WorksOn
  <2> QED BY <1>3, <2>1 DEF EngagementInv, NewIds, IdleHandler
<1> QED BY <1>1, <1>2, <1>4, <1>5, <1>6 DEF EngagementInv, HandlersFit

\* A session takes up a job.
LEMMA TakenUp ==
  ASSUME EngagementInv, NEW t \in Sessions, NEW job \in Jobs,
         NEW read \in [count : Nat, replies : Nat],
         handler' = [handler EXCEPT ![t] = job],
         loaded' = [loaded EXCEPT ![t] = read],
         UNCHANGED <<tables, workload, deleted, collided>>,
         WorksOn(job), UpToDate(job, read),
         job.op = "comment" => t # Worker /\ \A s \in Sessions : handler[s].comment # job.comment,
         job.op # "comment" => job.comment \in WrittenComments \cup {NoComment},
         t = Worker => job.comment = NoComment
  PROVE  EngagementInv'
<1>1. EngagementTyped'
  BY DEF EngagementInv, EngagementTyped, EngagementTypeOK, tables
<1>2. CommentsFit' /\ EngagementFinite' /\ CountsMatch'
  BY DEF EngagementInv, CommentsFit, EngagementFinite, CountsMatch, tables, WrittenComments,
         CountedComments
<1>3. \A s \in Sessions :
        \/ s = t /\ handler'[s] = job /\ loaded'[s] = read
        \/ s # t /\ handler'[s] = handler[s] /\ loaded'[s] = loaded[s]
  BY DEF EngagementInv, EngagementTyped
<1>4. ASSUME NEW s \in Sessions PROVE WorksOn(handler[s])' /\ UpToDate(handler[s], loaded[s])'
  <2>1. \A h, r : /\ WorksOn(h) => WorksOn(h)'
                  /\ UpToDate(h, r) => UpToDate(h, r)'
    BY DEF WorksOn, UpToDate, tables, WrittenComments
  <2> QED BY <1>3, <1>4, <2>1 DEF EngagementInv, HandlersFit
<1>5. handler'[Worker].comment = NoComment
  BY <1>3 DEF EngagementInv, HandlersFit, Sessions
<1>6. NewIds'
  <2>1. \A s \in Sessions : handler[s].op = "comment" =>
          handler[s].comment \in Comments \ WrittenComments
    BY DEF EngagementInv, HandlersFit, WorksOn
  <2>2. \A s \in Sessions : handler[s].op = "comment" => job.comment # handler[s].comment
    BY <2>1, NoCommentIsNone
  <2> QED BY <1>3, <2>2 DEF EngagementInv, NewIds
<1> QED BY <1>1, <1>2, <1>4, <1>5, <1>6 DEF EngagementInv, HandlersFit

-----------------------------------------------------------------------------
(* Commits.                                                                *)

LEMMA OneMore ==
  ASSUME NEW S, NEW e, IsFiniteSet(S)
  PROVE  /\ IsFiniteSet(S \cup {e}) /\ IsFiniteSet(S \ {e})
         /\ Cardinality(S) \in Nat
         /\ e \notin S => Cardinality(S \cup {e}) = Cardinality(S) + 1
         /\ e \in S => Cardinality(S) > 0 /\ Cardinality(S \ {e}) = LessOne(Cardinality(S))
<1>1. /\ IsFiniteSet(S \cup {e}) /\ IsFiniteSet(S \ {e}) /\ Cardinality(S) \in Nat
      /\ Cardinality(S \ {e}) \in Nat
  BY FS_AddElement, FS_RemoveElement, FS_CardinalityType
<1> QED BY <1>1, FS_AddElement, FS_RemoveElement DEF LessOne

\* What remains to be shown of a commit.
LEMMA CommitKeeps ==
  ASSUME EngagementInv, NEW t \in Sessions, Finish(t),
         EngagementTypeOK', Frame(handler[t]), CommentsFit', EngagementFinite', CountsMatch'
  PROVE  EngagementInv'
<1> QED BY Committed DEF EngagementInv

\* A reaction to the post comes or goes.
LEMMA ReactKeeps ==
  ASSUME EngagementInv, NEW t \in Threads, CommitReact(t) \/ CommitUnreact(t)
  PROVE  EngagementInv'
<1> t \in Sessions
  BY DEF Sessions
<1> DEFINE u == handler[t].user
           adds == /\ handler[t].op = "react" /\ u \notin reactions
                   /\ reactions' = reactions \cup {u}
                   /\ post' = [post EXCEPT !.reaction_count = loaded[t].count + 1]
           drops == /\ handler[t].op = "unreact"
                    /\ reactions' = reactions \ {u}
                    /\ post' = [post EXCEPT !.reaction_count = LessOne(loaded[t].count)]
<1>1. CASE Refuse(t)
  BY <1>1, Refused
<1>2. CASE /\ adds \/ drops
           /\ Finish(t)
           /\ UNCHANGED <<saved, comments, commentReactions, stories, views, deleted>>
  <2>1. /\ EngagementTypeOK /\ loaded[t].count \in Nat /\ IsFiniteSet(reactions) /\ u \in Users
        /\ handler[t].op \in {"react", "unreact"}
    BY <1>2 DEF EngagementInv, EngagementTyped, EngagementFinite, HandlersFit, WorksOn
  <2>2. EngagementTypeOK'
    <3>1. post' \in SocialPost /\ reactions' \subseteq Users
      BY <1>2, <2>1 DEF EngagementTypeOK, SocialPost, LessOne
    <3>2. collided' \in BOOLEAN
      BY <1>2 DEF EngagementInv, EngagementTyped, EngagementTypeOK, Finish, Jobs
    <3> QED BY <1>2, <2>1, <3>1, <3>2 DEF EngagementTypeOK
  <2>3. Frame(handler[t])
    BY <1>2, <2>1 DEF Frame, WrittenComments, EngagementTypeOK, SocialPost
  <2>4. CommentsFit'
    BY <1>2 DEF EngagementInv, CommentsFit, WrittenComments
  <2>5. EngagementFinite'
    <3>1. IsFiniteSet(reactions \cup {u}) /\ IsFiniteSet(reactions \ {u})
      BY <2>1, OneMore
    <3> QED BY <1>2, <3>1 DEF EngagementInv, EngagementFinite, CountedComments, WrittenComments
  <2>6. CountsMatch'
    <3>1. SUFFICES ASSUME ~collided' PROVE CountsMatch'
      BY DEF CountsMatch
    <3>2. ~collided /\ ~handler[t].stale
      BY <1>2, <3>1 DEF Finish
    <3>3. /\ loaded[t].count = Cardinality(reactions)
          /\ handler[t].op = "unreact" => u \in reactions
      BY <2>1, <3>2 DEF EngagementInv, HandlersFit, UpToDate, CountsMatch
    <3>4. post'.reaction_count = Cardinality(reactions') /\ post'.comment_count = post.comment_count
      <4>1. CASE adds
        <5>1. Cardinality(reactions') = Cardinality(reactions) + 1
          BY <2>1, <4>1, OneMore
        <5> QED BY <2>1, <3>3, <4>1, <5>1 DEF EngagementTypeOK, SocialPost
      <4>2. CASE drops
        <5>1. Cardinality(reactions') = LessOne(Cardinality(reactions))
          BY <2>1, <3>3, <4>2, OneMore
        <5> QED BY <2>1, <3>3, <4>2, <5>1 DEF EngagementTypeOK, SocialPost
      <4> QED BY <1>2, <4>1, <4>2
    <3> QED BY <1>2, <3>2, <3>4 DEF EngagementInv, CountsMatch, CountedComments, WrittenComments
  <2> QED BY <1>2, <2>2, <2>3, <2>4, <2>5, <2>6, CommitKeeps
<1> QED BY <1>1, <1>2 DEF CommitReact, CommitUnreact, Committing, Insert

\* A saved post has no count.
LEMMA SaveKeeps ==
  ASSUME EngagementInv, NEW t \in Threads, CommitSave(t)
  PROVE  EngagementInv'
<1> t \in Sessions
  BY DEF Sessions
<1>1. CASE Refuse(t)
  BY <1>1, Refused
<1>2. CASE /\ handler[t].op = "save"
           /\ saved' = saved \cup {handler[t].user}
           /\ Finish(t)
           /\ UNCHANGED <<post, reactions, comments, commentReactions, stories, views, deleted>>
  <2>1. EngagementTypeOK /\ handler[t].user \in Users
    BY <1>2 DEF EngagementInv, EngagementTyped, HandlersFit, WorksOn
  <2>2. EngagementTypeOK'
    BY <1>2, <2>1 DEF EngagementTypeOK, Finish, EngagementInv, EngagementTyped, Jobs
  <2>3. Frame(handler[t])
    BY <1>2 DEF Frame, WrittenComments
  <2>4. CommentsFit' /\ EngagementFinite'
    BY <1>2 DEF EngagementInv, CommentsFit, WrittenComments, EngagementFinite, CountedComments
  <2>5. CountsMatch'
    BY <1>2 DEF EngagementInv, CountsMatch, CountedComments, WrittenComments, Finish
  <2> QED BY <1>2, <2>2, <2>3, <2>4, <2>5, CommitKeeps
<1> QED BY <1>1, <1>2 DEF CommitSave, Committing, Insert

\* A view comes.
LEMMA ViewKeeps ==
  ASSUME EngagementInv, NEW t \in Threads, CommitView(t)
  PROVE  EngagementInv'
<1> t \in Sessions
  BY DEF Sessions
<1> DEFINE u == handler[t].user
<1>1. PICK s \in handler[t].stories :
        /\ handler[t].op = "view"
        /\ \/ Refuse(t)
           \/ /\ u \notin views[s]
              /\ views' = [views EXCEPT ![s] = views[s] \cup {u}]
              /\ stories' = [stories EXCEPT ![s].view_count = loaded[t].count + 1]
              /\ UNCHANGED <<post, reactions, saved, comments, commentReactions, deleted>>
              /\ Finish(t)
  BY DEF CommitView, Committing, Insert
<1>2. CASE Refuse(t)
  BY <1>2, Refused
<1>3. CASE ~Refuse(t)
  <2>1. /\ EngagementTypeOK /\ loaded[t].count \in Nat /\ u \in Users
        /\ handler[t].stories = {s} /\ s \in Stories /\ IsFiniteSet(views[s])
    BY <1>1 DEF EngagementInv, EngagementTyped, HandlersFit, WorksOn, EngagementFinite
  <2>2. /\ views'[s] = views[s] \cup {u} /\ stories'[s].view_count = loaded[t].count + 1
        /\ \A r \in Stories \ {s} : views'[r] = views[r] /\ stories'[r] = stories[r]
    BY <1>1, <1>3, <2>1 DEF EngagementTypeOK, Story
  <2>3. EngagementTypeOK'
    <3>1. stories' \in [Stories -> Story]
      BY <1>1, <1>3, <2>1 DEF EngagementTypeOK, Story
    <3>2. views' \in [Stories -> SUBSET Users]
      BY <1>1, <1>3, <2>1 DEF EngagementTypeOK
    <3>3. collided' \in BOOLEAN
      BY <1>1, <1>3 DEF EngagementInv, EngagementTyped, EngagementTypeOK, Finish, Jobs
    <3> QED BY <1>1, <1>3, <2>1, <3>1, <3>2, <3>3 DEF EngagementTypeOK
  <2>4. Frame(handler[t])
    BY <1>1, <1>3, <2>1, <2>2 DEF Frame, WrittenComments
  <2>5. CommentsFit'
    BY <1>1, <1>3 DEF EngagementInv, CommentsFit, WrittenComments
  <2>6. EngagementFinite'
    <3>1. IsFiniteSet(views[s] \cup {u})
      BY <2>1, OneMore
    <3> QED BY <1>1, <1>3, <2>2, <3>1
        DEF EngagementInv, EngagementFinite, CountedComments, WrittenComments
  <2>7. CountsMatch'
    <3>1. SUFFICES ASSUME ~collided' PROVE CountsMatch'
      BY DEF CountsMatch
    <3>2. ~collided /\ ~handler[t].stale
      BY <1>1, <1>3, <3>1 DEF Finish
    <3>3. loaded[t].count = Cardinality(views[s])
      BY <1>1, <2>1, <3>2 DEF EngagementInv, HandlersFit, UpToDate, CountsMatch
    <3>4. \A r \in Stories : stories'[r].view_count = Cardinality(views'[r])
      <4>1. Cardinality(views[s] \cup {u}) = Cardinality(views[s]) + 1
        BY <1>1, <1>3, <2>1, OneMore
      <4> QED BY <2>2, <3>2, <3>3, <4>1 DEF EngagementInv, CountsMatch
    <3> QED BY <1>1, <1>3, <3>2, <3>4 DEF EngagementInv, CountsMatch, CountedComments, WrittenComments
  <2> QED BY <1>1, <1>3, <2>3, <2>4, <2>5, <2>6, <2>7, CommitKeeps
<1> QED BY <1>2, <1>3

\* Stories end.
LEMMA ExpireKeeps ==
  ASSUME EngagementInv, CommitExpire
  PROVE  EngagementInv'
<1> Worker \in Sessions
  BY DEF Sessions
<1>1. /\ handler[Worker].op = "expire" /\ Finish(Worker)
      /\ UNCHANGED <<post, reactions, saved, comments, commentReactions, views, deleted>>
      /\ EngagementTypeOK
  BY DEF CommitExpire, Committing, EngagementInv, EngagementTyped
<1>2. /\ stories' \in [Stories -> Story]
      /\ \A s \in Stories : stories'[s].view_count = stories[s].view_count
  BY DEF CommitExpire, EngagementInv, EngagementTyped, EngagementTypeOK, Story
<1>3. EngagementTypeOK'
  BY <1>1, <1>2 DEF EngagementTypeOK, Finish, EngagementInv, EngagementTyped, Jobs
<1>4. Frame(handler[Worker])
  BY <1>1, <1>2 DEF Frame, WrittenComments
<1>5. CommentsFit' /\ EngagementFinite'
  BY <1>1 DEF EngagementInv, CommentsFit, WrittenComments, EngagementFinite, CountedComments
<1>6. CountsMatch'
  BY <1>1, <1>2 DEF EngagementInv, CountsMatch, CountedComments, WrittenComments, Finish
<1> QED BY <1>1, <1>3, <1>4, <1>5, <1>6, CommitKeeps

\* The replies to a comment that are counted.
Replies(p) == {d \in CountedComments : comments[d].parent = p}

\* A comment is written.
LEMMA CommentKeeps ==
  ASSUME EngagementInv, NEW t \in Threads, CommitComment(t)
  PROVE  EngagementInv'
<1> t \in Sessions
  BY DEF Sessions
<1> DEFINE c == handler[t].comment
           parent == handler[t].parent
           was == comments
           answered == [comments[parent] EXCEPT !.reply_count = loaded[t].replies + 1]
<1>1. /\ handler[t].op = "comment" /\ Finish(t)
      /\ post' = [post EXCEPT !.comment_count = loaded[t].count + 1]
      /\ UNCHANGED <<reactions, saved, commentReactions, stories, views, deleted>>
  BY DEF CommitComment, Committing
<1>2. /\ EngagementTypeOK /\ CommentsFit
      /\ loaded[t].count \in Nat /\ loaded[t].replies \in Nat
      /\ c \in Comments \ WrittenComments
      /\ parent \in WrittenComments \cup {NoComment} /\ NoComment \notin Comments
  BY <1>1, NoCommentIsNone DEF EngagementInv, EngagementTyped, HandlersFit, WorksOn
<1>3. parent # c
  BY <1>2
<1>4. /\ comments' \in [Comments -> PostComment]
      /\ comments'[c] = [status |-> "active", parent |-> parent, reaction_count |-> 0,
                         reply_count |-> 0]
      /\ parent # NoComment => comments'[parent] = answered
      /\ \A p \in Comments \ {c, parent} : comments'[p] = comments[p]
  <2>1. comments' = [WithReplies(parent, loaded[t].replies + 1) EXCEPT
          ![c] = [status |-> "active", parent |-> parent, reaction_count |-> 0, reply_count |-> 0]]
    BY DEF CommitComment
  <2>2. WithReplies(parent, loaded[t].replies + 1) \in [Comments -> PostComment]
    BY <1>2 DEF WithReplies, EngagementTypeOK, PostComment
  <2>3. [status |-> "active", parent |-> parent, reaction_count |-> 0, reply_count |-> 0] \in PostComment
    BY <1>2 DEF PostComment, WrittenComments
  <2>4. comments' \in [Comments -> PostComment]
    BY <2>1, <2>2, <2>3
  <2> QED BY <1>2, <1>3, <2>1, <2>4 DEF WithReplies, WrittenComments
<1>5. \A p \in WrittenComments : /\ p # c /\ comments'[p].status = comments[p].status
                                 /\ comments'[p].parent = comments[p].parent
                                 /\ comments'[p].reaction_count = comments[p].reaction_count
  BY <1>2, <1>4 DEF WrittenComments, EngagementTypeOK, PostComment
<1>6. WrittenComments' = WrittenComments \cup {c}
  BY <1>2, <1>4, <1>5 DEF WrittenComments
<1>7. CountedComments' = CountedComments \cup {c} /\ c \notin CountedComments
  BY <1>1, <1>2, <1>6 DEF CountedComments, CommentsFit
<1>8. EngagementTypeOK'
  <2>1. post' \in SocialPost
    BY <1>1, <1>2 DEF EngagementTypeOK, SocialPost
  <2>2. collided' \in BOOLEAN
    BY <1>1 DEF EngagementInv, EngagementTyped, EngagementTypeOK, Finish, Jobs
  <2> QED BY <1>1, <1>2, <1>4, <2>1, <2>2 DEF EngagementTypeOK
<1>9. Frame(handler[t])
  BY <1>1, <1>2, <1>5, <1>6 DEF Frame, EngagementTypeOK, SocialPost
<1>10. CommentsFit'
  <2>1. \A p \in Comments \ WrittenComments' : comments'[p] = comments[p] /\ p \notin WrittenComments
    BY <1>2, <1>4, <1>6
  <2>2. \A p \in WrittenComments' :
          comments'[p].parent # NoComment =>
            comments'[p].parent \in WrittenComments' /\ comments'[p].parent # p
    BY <1>2, <1>3, <1>4, <1>5, <1>6 DEF CommentsFit, WrittenComments
  <2>3. \A p \in deleted' : p \in WrittenComments' /\ comments'[p].status # "active"
    BY <1>1, <1>2, <1>5, <1>6 DEF CommentsFit
  <2> QED BY <1>1, <1>2, <2>1, <2>2, <2>3 DEF CommentsFit
<1>11. EngagementFinite'
  <2>1. IsFiniteSet(CountedComments \cup {c})
    BY OneMore DEF EngagementInv, EngagementFinite
  <2> QED BY <1>1, <1>7, <2>1 DEF EngagementInv, EngagementFinite
<1>12. CountsMatch'
  <2>1. SUFFICES ASSUME ~collided' PROVE CountsMatch'
    BY DEF CountsMatch
  <2>2. ~collided /\ ~handler[t].stale
    BY <1>1, <2>1 DEF Finish
  <2>3. /\ loaded[t].count = Cardinality(CountedComments)
        /\ parent # NoComment => loaded[t].replies = Cardinality(Replies(parent))
    BY <1>1, <1>2, <2>2 DEF EngagementInv, HandlersFit, UpToDate, CountsMatch, Replies, WrittenComments
  <2>4. post'.reaction_count = Cardinality(reactions')
    BY <1>1, <1>2, <2>2 DEF EngagementInv, CountsMatch, EngagementTypeOK, SocialPost
  <2>5. post'.comment_count = Cardinality(CountedComments')
    <3>1. Cardinality(CountedComments \cup {c}) = Cardinality(CountedComments) + 1
      BY <1>7, OneMore DEF EngagementInv, EngagementFinite
    <3> QED BY <1>1, <1>2, <1>7, <2>3, <3>1 DEF EngagementTypeOK, SocialPost
  <2>6. ASSUME NEW p \in Comments
        PROVE  /\ comments'[p].reaction_count = Cardinality(commentReactions'[p])
               /\ comments'[p].reply_count = Cardinality(Replies(p)')
    <3>1. /\ comments[p].reaction_count = Cardinality(commentReactions[p])
          /\ comments[p].reply_count = Cardinality(Replies(p))
      BY <2>2 DEF EngagementInv, CountsMatch, Replies
    <3>2. Replies(p)' = IF p = parent THEN Replies(p) \cup {c} ELSE Replies(p)
      <4>1. \A d \in CountedComments : comments'[d].parent = comments[d].parent
        BY <1>5 DEF CountedComments
      <4>2. comments'[c].parent = parent
        BY <1>4
      <4> QED BY <1>7, <4>1, <4>2 DEF Replies
    <3>3. CASE p = c
      BY <1>1, <1>2, <1>3, <1>4, <3>1, <3>2, <3>3 DEF CommentsFit
    <3>4. CASE p = parent
      <4>1. IsFiniteSet(Replies(p))
        BY FS_Subset DEF EngagementInv, EngagementFinite, Replies
      <4>2. c \notin Replies(p)
        BY <1>7 DEF Replies
      <4>3. Cardinality(Replies(p) \cup {c}) = Cardinality(Replies(p)) + 1
        BY <4>1, <4>2, OneMore
      <4>4. comments'[p] = [comments[p] EXCEPT !.reply_count = loaded[t].replies + 1]
        BY <1>2, <1>4, <3>4
      <4>5. comments[p] \in PostComment
        BY <1>2 DEF EngagementTypeOK
      <4>6. /\ comments'[p].reply_count = loaded[t].replies + 1
            /\ comments'[p].reaction_count = comments[p].reaction_count
        BY <4>4, <4>5 DEF PostComment
      <4>7. loaded[t].replies = Cardinality(Replies(p))
        BY <1>2, <2>3, <3>4
      <4> QED BY <1>1, <3>1, <3>2, <3>4, <4>3, <4>6, <4>7
    <3>5. CASE p \notin {c, parent}
      BY <1>1, <1>4, <3>1, <3>2, <3>5
    <3> QED BY <3>3, <3>4, <3>5
  <2> QED BY <1>1, <2>2, <2>4, <2>5, <2>6 DEF EngagementInv, CountsMatch, Replies
<1> QED BY <1>1, <1>8, <1>9, <1>10, <1>11, <1>12, CommitKeeps

\* A comment is deleted.
LEMMA DeleteKeeps ==
  ASSUME EngagementInv, NEW t \in Threads, CommitDeleteComment(t)
  PROVE  EngagementInv'
<1> t \in Sessions
  BY DEF Sessions
<1> DEFINE c == handler[t].comment
           parent == handler[t].parent
           fewer == LessOne(loaded[t].replies)
<1>1. /\ handler[t].op = "delete_comment" /\ Finish(t)
      /\ post' = [post EXCEPT !.comment_count = LessOne(loaded[t].count)]
      /\ deleted' = deleted \cup {c}
      /\ UNCHANGED <<reactions, saved, commentReactions, stories, views>>
  BY DEF CommitDeleteComment, Committing
<1>2. /\ EngagementTypeOK /\ CommentsFit
      /\ loaded[t].count \in Nat /\ loaded[t].replies \in Nat
      /\ c \in WrittenComments /\ c \in Comments
      /\ parent = comments[c].parent
      /\ parent \in WrittenComments \cup {NoComment} /\ NoComment \notin Comments
  BY <1>1, NoCommentIsNone DEF EngagementInv, EngagementTyped, HandlersFit, WorksOn, WrittenComments
<1>3. parent # c
  BY <1>2 DEF CommentsFit
<1>4. LessOne(loaded[t].count) \in Nat /\ fewer \in Nat
  BY <1>2 DEF LessOne
<1>5. /\ comments' \in [Comments -> PostComment]
      /\ comments'[c] = [comments[c] EXCEPT !.status = "deleted"]
      /\ parent # NoComment => comments'[parent] = [comments[parent] EXCEPT !.reply_count = fewer]
      /\ \A p \in Comments \ {c, parent} : comments'[p] = comments[p]
  <2>1. comments' = [WithReplies(parent, fewer) EXCEPT ![c].status = "deleted"]
    BY DEF CommitDeleteComment
  <2>2. WithReplies(parent, fewer) \in [Comments -> PostComment]
    BY <1>2, <1>4 DEF WithReplies, EngagementTypeOK, PostComment
  <2>3. comments' \in [Comments -> PostComment]
    BY <2>1, <2>2 DEF PostComment
  <2> QED BY <1>2, <1>3, <2>1, <2>3 DEF WithReplies, WrittenComments
<1>6. \A p \in Comments : /\ comments'[p].parent = comments[p].parent
                          /\ comments'[p].reaction_count = comments[p].reaction_count
                          /\ comments'[p].status = IF p = c THEN "deleted" ELSE comments[p].status
                          /\ comments'[p].reply_count = IF p = parent THEN fewer
                                                        ELSE comments[p].reply_count
  <2> TAKE p \in Comments
  <2>1. comments[p] \in PostComment
    BY <1>2 DEF EngagementTypeOK
  <2>2. CASE p = c
    BY <1>3, <1>5, <2>1, <2>2 DEF PostComment
  <2>3. CASE p = parent
    <3>1. comments'[p] = [comments[p] EXCEPT !.reply_count = fewer] /\ p # c
      BY <1>2, <1>3, <1>5, <2>3
    <3> HIDE DEF fewer
    <3> QED BY <2>1, <2>3, <3>1 DEF PostComment
  <2>4. CASE p \notin {c, parent}
    BY <1>5, <2>4
  <2> QED BY <2>2, <2>3, <2>4
<1>7. WrittenComments' = WrittenComments
  <2>1. comments[c].status # "absent"
    BY <1>2 DEF WrittenComments
  <2>2. \A p \in Comments : comments'[p].status = "absent" <=> comments[p].status = "absent"
    BY <1>6, <2>1
  <2> QED BY <2>2 DEF WrittenComments
<1>8. CountedComments' = CountedComments \ {c}
  BY <1>1, <1>7 DEF CountedComments
<1>9. EngagementTypeOK'
  <2>1. post' \in SocialPost
    BY <1>1, <1>2, <1>4 DEF EngagementTypeOK, SocialPost
  <2>2. collided' \in BOOLEAN
    BY <1>1 DEF EngagementInv, EngagementTyped, EngagementTypeOK, Finish, Jobs
  <2> QED BY <1>1, <1>2, <1>5, <2>1, <2>2 DEF EngagementTypeOK
<1>10. Frame(handler[t])
  BY <1>1, <1>2, <1>6, <1>7 DEF Frame, EngagementTypeOK, SocialPost, WrittenComments
<1>11. CommentsFit'
  <2>1. \A p \in Comments \ WrittenComments : p # c /\ p # parent
    BY <1>2, NoCommentIsNone
  <2>2. \A p \in deleted' : p \in WrittenComments' /\ comments'[p].status # "active"
    <3> TAKE p \in deleted'
    <3>1. CASE p = c
      <4>1. comments'[c].status = "deleted"
        BY <1>2, <1>6
      <4> QED BY <1>2, <1>7, <3>1, <4>1
    <3>2. CASE p # c
      <4>1. p \in deleted
        BY <1>1, <3>2
      <4>2. p \in WrittenComments /\ comments[p].status # "active" /\ p \in Comments
        BY <1>2, <4>1 DEF CommentsFit, WrittenComments
      <4>3. comments'[p].status = comments[p].status
        BY <1>6, <3>2, <4>2
      <4> QED BY <1>7, <4>2, <4>3
    <3> QED BY <3>1, <3>2
  <2> QED BY <1>1, <1>2, <1>6, <1>7, <2>1, <2>2 DEF CommentsFit
<1>12. EngagementFinite'
  <2>1. IsFiniteSet(CountedComments \ {c})
    BY OneMore DEF EngagementInv, EngagementFinite
  <2> QED BY <1>1, <1>8, <2>1 DEF EngagementInv, EngagementFinite
<1>13. CountsMatch'
  <2>1. SUFFICES ASSUME ~collided' PROVE CountsMatch'
    BY DEF CountsMatch
  <2>2. ~collided /\ ~handler[t].stale
    BY <1>1, <2>1 DEF Finish
  <2>3. /\ loaded[t].count = Cardinality(CountedComments)
        /\ parent # NoComment => loaded[t].replies = Cardinality(Replies(parent))
        /\ c \in CountedComments
    BY <1>1, <1>2, <2>2
    DEF EngagementInv, HandlersFit, UpToDate, CountsMatch, Replies, WrittenComments, CountedComments
  <2>4. post'.reaction_count = Cardinality(reactions')
    BY <1>1, <1>2, <2>2 DEF EngagementInv, CountsMatch, EngagementTypeOK, SocialPost
  <2>5. post'.comment_count = Cardinality(CountedComments')
    <3>1. Cardinality(CountedComments \ {c}) = LessOne(Cardinality(CountedComments))
      BY <2>3, OneMore DEF EngagementInv, EngagementFinite
    <3> QED BY <1>1, <1>2, <1>8, <2>3, <3>1 DEF EngagementTypeOK, SocialPost
  <2>6. ASSUME NEW p \in Comments
        PROVE  /\ comments'[p].reaction_count = Cardinality(commentReactions'[p])
               /\ comments'[p].reply_count = Cardinality(Replies(p)')
    <3>1. /\ comments[p].reaction_count = Cardinality(commentReactions[p])
          /\ comments[p].reply_count = Cardinality(Replies(p))
      BY <2>2 DEF EngagementInv, CountsMatch, Replies
    <3>2. Replies(p)' = IF p = parent THEN Replies(p) \ {c} ELSE Replies(p)
      <4>1. \A d \in CountedComments : comments'[d].parent = comments[d].parent
        BY <1>6 DEF CountedComments, WrittenComments
      <4> QED BY <1>2, <1>8, <4>1 DEF Replies
    <3>3. p = parent => Cardinality(Replies(p) \ {c}) = fewer
      <4>1. IsFiniteSet(Replies(p))
        BY FS_Subset DEF EngagementInv, EngagementFinite, Replies
      <4>2. p = parent => c \in Replies(p) /\ loaded[t].replies = Cardinality(Replies(p))
        BY <1>2, <2>3 DEF Replies
      <4> QED BY <4>1, <4>2, OneMore
    <3>4. commentReactions'[p] = commentReactions[p]
      BY <1>1
    <3>5. comments'[p].reply_count = Cardinality(Replies(p)')
      <4> HIDE DEF fewer
      <4>1. CASE p = parent
        BY <1>6, <3>2, <3>3, <4>1
      <4>2. CASE p # parent
        BY <1>6, <3>1, <3>2, <4>2
      <4> QED BY <4>1, <4>2
    <3> QED BY <1>6, <3>1, <3>4, <3>5
  <2> QED BY <1>1, <2>2, <2>4, <2>5, <2>6 DEF EngagementInv, CountsMatch, Replies
<1> QED BY <1>1, <1>9, <1>10, <1>11, <1>12, <1>13, CommitKeeps

\* A reaction to a comment comes or goes.
LEMMA ReactCommentKeeps ==
  ASSUME EngagementInv, NEW t \in Threads, CommitReactComment(t) \/ CommitUnreactComment(t)
  PROVE  EngagementInv'
<1> t \in Sessions
  BY DEF Sessions
<1> DEFINE c == handler[t].comment
           u == handler[t].user
           adds == /\ handler[t].op = "react_comment" /\ u \notin commentReactions[c]
                   /\ commentReactions' = [commentReactions EXCEPT ![c] = commentReactions[c] \cup {u}]
                   /\ comments' = [comments EXCEPT ![c].reaction_count = loaded[t].count + 1]
           drops == /\ handler[t].op = "unreact_comment"
                    /\ commentReactions' = [commentReactions EXCEPT ![c] = commentReactions[c] \ {u}]
                    /\ comments' = [comments EXCEPT ![c].reaction_count = LessOne(loaded[t].count)]
<1>1. CASE Refuse(t)
  BY <1>1, Refused
<1>2. CASE /\ adds \/ drops
           /\ Finish(t)
           /\ UNCHANGED <<post, reactions, saved, stories, views, deleted>>
  <2>1. /\ EngagementTypeOK /\ CommentsFit
        /\ loaded[t].count \in Nat /\ LessOne(loaded[t].count) \in Nat
        /\ c \in WrittenComments /\ c \in Comments /\ u \in Users
        /\ handler[t].op \in {"react_comment", "unreact_comment"}
        /\ IsFiniteSet(commentReactions[c])
    BY <1>2 DEF EngagementInv, EngagementTyped, EngagementFinite, HandlersFit, WorksOn,
                WrittenComments, LessOne
  <2> DEFINE more == commentReactions[c] \cup {u}
             less == commentReactions[c] \ {u}
  <2>2. /\ comments' \in [Comments -> PostComment]
        /\ commentReactions' \in [Comments -> SUBSET Users]
        /\ \/ adds /\ commentReactions'[c] = more /\ comments'[c].reaction_count = loaded[t].count + 1
           \/ drops /\ commentReactions'[c] = less
                 /\ comments'[c].reaction_count = LessOne(loaded[t].count)
        /\ \A p \in Comments :
             /\ comments'[p].status = comments[p].status
             /\ comments'[p].parent = comments[p].parent
             /\ comments'[p].reply_count = comments[p].reply_count
             /\ p # c => /\ comments'[p] = comments[p]
                         /\ commentReactions'[p] = commentReactions[p]
    <3>1. \A n \in Nat : comments' = [comments EXCEPT ![c].reaction_count = n] =>
            /\ comments' \in [Comments -> PostComment]
            /\ comments'[c].reaction_count = n
            /\ \A p \in Comments :
                 /\ comments'[p].status = comments[p].status
                 /\ comments'[p].parent = comments[p].parent
                 /\ comments'[p].reply_count = comments[p].reply_count
                 /\ p # c => comments'[p] = comments[p]
      BY <2>1 DEF EngagementTypeOK, PostComment
    <3>2. \A users \in SUBSET Users : commentReactions' = [commentReactions EXCEPT ![c] = users] =>
            /\ commentReactions' \in [Comments -> SUBSET Users]
            /\ commentReactions'[c] = users
            /\ \A p \in Comments \ {c} : commentReactions'[p] = commentReactions[p]
      BY <2>1 DEF EngagementTypeOK
    <3>3. /\ more \in SUBSET Users /\ less \in SUBSET Users
          /\ loaded[t].count + 1 \in Nat
      BY <2>1 DEF EngagementTypeOK
    <3>4. CASE adds
      BY <2>1, <3>1, <3>2, <3>3, <3>4
    <3>5. CASE drops
      BY <2>1, <3>1, <3>2, <3>3, <3>5
    <3> QED BY <1>2, <3>4, <3>5
  <2>3. \A p \in Comments :
          /\ comments'[p].status = comments[p].status
          /\ comments'[p].parent = comments[p].parent
          /\ comments'[p].reply_count = comments[p].reply_count
          /\ p # c => /\ comments'[p] = comments[p]
                      /\ commentReactions'[p] = commentReactions[p]
    BY <2>2
  <2>4. WrittenComments' = WrittenComments /\ CountedComments' = CountedComments
    BY <1>2, <2>3 DEF WrittenComments, CountedComments
  <2>5. EngagementTypeOK'
    <3>1. collided' \in BOOLEAN
      BY <1>2 DEF EngagementInv, EngagementTyped, EngagementTypeOK, Finish, Jobs
    <3> QED BY <1>2, <2>1, <2>2, <3>1 DEF EngagementTypeOK
  <2>6. Frame(handler[t])
    BY <1>2, <2>1, <2>3, <2>4 DEF Frame, WrittenComments
  <2>7. CommentsFit'
    <3>1. \A p \in Comments \ WrittenComments : p # c
      BY <2>1
    <3>2. \A p \in deleted : p \in Comments
      BY <2>1 DEF EngagementTypeOK
    <3>3. deleted' = deleted
      BY <1>2
    <3>4. /\ \A p \in Comments \ WrittenComments : comments'[p] = comments[p] /\ commentReactions'[p] = commentReactions[p]
          /\ \A p \in Comments : comments'[p].status = comments[p].status /\ comments'[p].parent = comments[p].parent
      BY <2>3, <3>1
    <3> QED BY <2>1, <2>4, <3>2, <3>3, <3>4 DEF CommentsFit
  <2>8. \/ adds /\ commentReactions'[c] = more /\ comments'[c].reaction_count = loaded[t].count + 1
        \/ drops /\ commentReactions'[c] = less
             /\ comments'[c].reaction_count = LessOne(loaded[t].count)
    BY <2>2
  <2>9. EngagementFinite'
    <3>1. IsFiniteSet(commentReactions[c] \cup {u}) /\ IsFiniteSet(commentReactions[c] \ {u})
      BY <2>1, OneMore
    <3> QED BY <1>2, <2>3, <2>4, <2>8, <3>1 DEF EngagementInv, EngagementFinite
  <2>10. CountsMatch'
    <3>1. SUFFICES ASSUME ~collided' PROVE CountsMatch'
      BY DEF CountsMatch
    <3>2. ~collided /\ ~handler[t].stale
      BY <1>2, <3>1 DEF Finish
    <3>3. /\ loaded[t].count = Cardinality(commentReactions[c])
          /\ handler[t].op = "unreact_comment" => u \in commentReactions[c]
      BY <2>1, <3>2 DEF EngagementInv, HandlersFit, UpToDate, CountsMatch
    <3>4. comments'[c].reaction_count = Cardinality(commentReactions'[c])
      <4>1. u \notin commentReactions[c] =>
              Cardinality(commentReactions[c] \cup {u}) = loaded[t].count + 1
        BY <2>1, <3>3, OneMore
      <4>2. u \in commentReactions[c] =>
              Cardinality(commentReactions[c] \ {u}) = LessOne(loaded[t].count)
        BY <2>1, <3>3, OneMore
      <4> QED BY <2>8, <3>3, <4>1, <4>2
    <3>5. \A p \in Comments : {d \in CountedComments : comments[d].parent = p}'
                           = {d \in CountedComments : comments[d].parent = p}
      BY <2>3, <2>4 DEF CountedComments, WrittenComments
    <3> QED BY <1>2, <2>3, <2>4, <3>2, <3>4, <3>5 DEF EngagementInv, CountsMatch
  <2> QED BY <1>2, <2>5, <2>6, <2>7, <2>9, <2>10, CommitKeeps
<1> QED BY <1>1, <1>2 DEF CommitReactComment, CommitUnreactComment, Committing, Insert

-----------------------------------------------------------------------------
(* Loads, and the steps of no handler.                                     *)

\* A handler loads what it is going to change.
LEMMA BeginKeeps ==
  ASSUME EngagementInv, NEW t \in Threads, BeginHandler(t)
  PROVE  EngagementInv'
<1> t \in Sessions /\ t # Worker
  BY WorkerIsNoThread DEF Sessions
<1>1. EngagementTypeOK /\ NoComment \notin Comments
  BY NoCommentIsNone DEF EngagementInv, EngagementTyped
<1>2. ASSUME NEW job \in Jobs, NEW count \in Nat, NEW replies \in Nat,
             LoadCounts(t, job, count, replies), WorksOn(job),
             UpToDate(job, [count |-> count, replies |-> replies]),
             job.op = "comment" => \A s \in Threads : handler[s].comment # job.comment,
             job.op # "comment" => job.comment \in WrittenComments \cup {NoComment}
      PROVE  EngagementInv'
  <2>1. [count |-> count, replies |-> replies] \in [count : Nat, replies : Nat]
    OBVIOUS
  <2>2. job.op = "comment" => \A s \in Sessions : handler[s].comment # job.comment
    BY <1>1, <1>2 DEF Sessions, EngagementInv, HandlersFit, WorksOn
  <2> QED BY <1>2, <2>1, <2>2, TakenUp DEF LoadCounts
<1>3. ASSUME NEW u \in Users, BeginReact(t, u) \/ BeginUnreact(t, u) \/ BeginSave(t, u)
      PROVE  EngagementInv'
  <2>1. PICK op \in {"react", "unreact", "save"}, count \in {post.reaction_count, 0} :
          /\ LoadCounts(t, [IdleHandler EXCEPT !.op = op, !.user = u], count, 0)
          /\ op # "save" => count = post.reaction_count
          /\ op = "unreact" => u \in reactions
    BY <1>3 DEF BeginReact, BeginUnreact, BeginSave
  <2> DEFINE job == [IdleHandler EXCEPT !.op = op, !.user = u]
  <2>2. count \in Nat /\ 0 \in Nat
    BY <1>1 DEF EngagementTypeOK, SocialPost
  <2>3. /\ job \in Jobs /\ job.op = op /\ job.user = u /\ job.comment = NoComment
        /\ job.parent = NoComment
    BY DEF IdleHandler, Jobs, EngagementOps
  <2>4. WorksOn(job) /\ UpToDate(job, [count |-> count, replies |-> 0])
    BY <2>1, <2>3 DEF WorksOn, UpToDate
  <2> HIDE DEF job
  <2> QED BY <1>2, <2>1, <2>2, <2>3, <2>4 DEF job
<1>4. ASSUME NEW u \in Users, NEW c \in Comments,
             BeginReactComment(t, c, u) \/ BeginUnreactComment(t, c, u)
      PROVE  EngagementInv'
  <2>1. PICK op \in {"react_comment", "unreact_comment"} :
          /\ LoadCounts(t, [IdleHandler EXCEPT !.op = op, !.user = u, !.comment = c],
                        comments[c].reaction_count, 0)
          /\ op = "react_comment" => comments[c].status = "active"
          /\ op = "unreact_comment" => u \in commentReactions[c]
    BY <1>4 DEF BeginReactComment, BeginUnreactComment
  <2> DEFINE job == [IdleHandler EXCEPT !.op = op, !.user = u, !.comment = c]
             count == comments[c].reaction_count
  <2>2. c \in WrittenComments
    BY <2>1 DEF WrittenComments, EngagementInv, CommentsFit
  <2>3. count \in Nat /\ 0 \in Nat
    BY <1>1 DEF EngagementTypeOK, PostComment
  <2>4. /\ job \in Jobs /\ job.op = op /\ job.user = u /\ job.comment = c
        /\ job.parent = NoComment
    BY DEF IdleHandler, Jobs, EngagementOps
  <2>5. WorksOn(job) /\ UpToDate(job, [count |-> count, replies |-> 0])
    BY <2>1, <2>2, <2>4 DEF WorksOn, UpToDate
  <2> HIDE DEF job, count
  <2> QED BY <1>2, <2>1, <2>2, <2>3, <2>4, <2>5 DEF job, count
<1>5. ASSUME NEW u \in Users, NEW s \in Stories, BeginView(t, s, u)
      PROVE  EngagementInv'
  <2> DEFINE job == [IdleHandler EXCEPT !.op = "view", !.user = u, !.stories = {s}]
             count == stories[s].view_count
  <2>1. count \in Nat /\ 0 \in Nat
    BY <1>1 DEF EngagementTypeOK, Story
  <2>2. /\ job \in Jobs /\ job.op = "view" /\ job.user = u /\ job.comment = NoComment
        /\ job.parent = NoComment /\ job.stories = {s}
    BY DEF IdleHandler, Jobs, EngagementOps
  <2>3. WorksOn(job) /\ UpToDate(job, [count |-> count, replies |-> 0])
    BY <2>2 DEF WorksOn, UpToDate
  <2>4. LoadCounts(t, job, count, 0)
    BY <1>5 DEF BeginView
  <2> HIDE DEF job, count
  <2> QED BY <1>2, <2>1, <2>2, <2>3, <2>4
<1>6. ASSUME NEW parent \in Comments \cup {NoComment}
      PROVE  (IF parent = NoComment THEN 0 ELSE comments[parent].reply_count) \in Nat
  BY <1>1, <1>6 DEF EngagementTypeOK, PostComment
<1>7. ASSUME NEW c \in Comments, BeginDeleteComment(t, c)
      PROVE  EngagementInv'
  <2> DEFINE parent == comments[c].parent
             job == [IdleHandler EXCEPT !.op = "delete_comment", !.comment = c, !.parent = parent]
             count == post.comment_count
             replies == IF parent = NoComment THEN 0 ELSE comments[parent].reply_count
  <2>1. /\ comments[c].status = "active" /\ LoadCounts(t, job, count, replies)
    BY <1>7 DEF BeginDeleteComment
  <2>2. /\ parent \in Comments \cup {NoComment}
        /\ parent # NoComment => parent \in WrittenComments
        /\ c \in WrittenComments /\ c \notin deleted
    BY <1>1, <2>1 DEF EngagementInv, CommentsFit, WrittenComments, EngagementTypeOK, PostComment
  <2>3. count \in Nat /\ replies \in Nat
    BY <1>1, <1>6, <2>2 DEF EngagementTypeOK, SocialPost
  <2>4. /\ job \in Jobs /\ job.op = "delete_comment" /\ job.comment = c /\ job.parent = parent
    BY <2>2 DEF IdleHandler, Jobs, EngagementOps
  <2>5. WorksOn(job) /\ UpToDate(job, [count |-> count, replies |-> replies])
    BY <2>2, <2>4 DEF WorksOn, UpToDate
  <2> HIDE DEF job, count, replies
  <2> QED BY <1>2, <2>1, <2>2, <2>3, <2>4, <2>5
<1>8. ASSUME NEW c \in Comments, NEW parent \in Comments \cup {NoComment}, BeginComment(t, c, parent)
      PROVE  EngagementInv'
  <2> DEFINE job == [IdleHandler EXCEPT !.op = "comment", !.comment = c, !.parent = parent]
             count == post.comment_count
             replies == IF parent = NoComment THEN 0 ELSE comments[parent].reply_count
  <2>1. /\ LoadCounts(t, job, count, replies)
        /\ c \notin WrittenComments /\ \A s \in Threads : handler[s].comment # c
        /\ parent # NoComment => comments[parent].status = "active"
    BY <1>8 DEF BeginComment
  <2>2. parent # NoComment => parent \in WrittenComments
    BY <2>1 DEF WrittenComments
  <2>3. count \in Nat /\ replies \in Nat
    BY <1>1, <1>6 DEF EngagementTypeOK, SocialPost
  <2>4. /\ job \in Jobs /\ job.op = "comment" /\ job.comment = c /\ job.parent = parent
    BY DEF IdleHandler, Jobs, EngagementOps
  <2>5. WorksOn(job) /\ UpToDate(job, [count |-> count, replies |-> replies])
    BY <2>1, <2>2, <2>4 DEF WorksOn, UpToDate
  <2> HIDE DEF job, count, replies
  <2> QED BY <1>2, <2>1, <2>3, <2>4, <2>5
<1> QED BY <1>3, <1>4, <1>5, <1>7, <1>8 DEF BeginHandler

\* The worker takes up the stories that have expired.
LEMMA BeginExpireKeeps ==
  ASSUME EngagementInv, BeginExpire
  PROVE  EngagementInv'
<1> Worker \in Sessions
  BY DEF Sessions
<1> DEFINE ending == {s \in Stories : stories[s].expired /\ stories[s].status = "shown"}
           job == [IdleHandler EXCEPT !.op = "expire", !.stories = ending]
<1>1. /\ handler' = [handler EXCEPT ![Worker] = job]
      /\ UNCHANGED <<tables, loaded, workload, deleted, collided>>
  BY DEF BeginExpire
<1>2. /\ job \in Jobs /\ job.op = "expire" /\ job.comment = NoComment /\ job.parent = NoComment
  BY DEF IdleHandler, Jobs, EngagementOps
<1>3. loaded' = [loaded EXCEPT ![Worker] = loaded[Worker]]
      /\ loaded[Worker] \in [count : Nat, replies : Nat]
  BY <1>1 DEF EngagementInv, EngagementTyped
<1>4. WorksOn(job) /\ UpToDate(job, loaded[Worker])
  BY <1>2 DEF WorksOn, UpToDate
<1> HIDE DEF job
<1> QED BY <1>1, <1>2, <1>3, <1>4, TakenUp

\* The other steps leave every count alone.
LEMMA OthersKeep ==
  ASSUME EngagementInv,
         \/ \E u \in Users : Unsave(u)
         \/ \E c \in Comments : RemoveComment(c)
         \/ \E s \in Stories : CreateStory(s) \/ StoryExpires(s) \/ DeleteStory(s)
         \/ DeletePost
  PROVE  EngagementInv'
<1>1. EngagementTypeOK /\ CommentsFit
  BY DEF EngagementInv, EngagementTyped
<1>2. UNCHANGED <<handler, loaded, workload, deleted, collided, reactions, commentReactions, views>>
  BY DEF Unsave, RemoveComment, CreateStory, StoryExpires, DeleteStory, DeletePost
<1>3. /\ post' \in SocialPost /\ post'.reaction_count = post.reaction_count
      /\ post'.comment_count = post.comment_count
  BY <1>1 DEF Unsave, RemoveComment, CreateStory, StoryExpires, DeleteStory, DeletePost,
              EngagementTypeOK, SocialPost
<1>4. saved' \subseteq Users
  BY <1>1 DEF Unsave, RemoveComment, CreateStory, StoryExpires, DeleteStory, DeletePost,
              EngagementTypeOK
<1>5. stories' \in [Stories -> Story] /\ \A s \in Stories : stories'[s].view_count = stories[s].view_count
  <2>1. CASE stories' = stories
    BY <1>1, <2>1 DEF EngagementTypeOK
  <2>2. CASE \E s \in Stories : CreateStory(s) \/ DeleteStory(s)
    BY <1>1, <2>2 DEF CreateStory, DeleteStory, EngagementTypeOK, Story
  <2>3. CASE \E s \in Stories : StoryExpires(s)
    <3>1. PICK s \in Stories : stories' = [stories EXCEPT ![s].expired = TRUE]
      BY <2>3 DEF StoryExpires
    <3> QED BY <1>1, <3>1 DEF EngagementTypeOK, Story
  <2> QED BY <2>1, <2>2, <2>3 DEF Unsave, RemoveComment, DeletePost
<1>6. /\ comments' \in [Comments -> PostComment]
      /\ \A c \in Comments :
           /\ \/ comments'[c].status = comments[c].status
              \/ comments[c].status # "absent" /\ comments'[c].status = "removed"
           /\ comments'[c].parent = comments[c].parent
           /\ comments'[c].reaction_count = comments[c].reaction_count
           /\ comments'[c].reply_count = comments[c].reply_count
  <2>1. CASE comments' = comments
    BY <1>1, <2>1 DEF EngagementTypeOK
  <2>2. CASE \E c \in Comments : RemoveComment(c)
    <3>1. PICK r \in Comments : /\ comments' = [comments EXCEPT ![r].status = "removed"]
                                /\ comments[r].status # "absent"
      BY <2>2 DEF RemoveComment, WrittenComments
    <3>2. comments' \in [Comments -> PostComment]
      BY <1>1, <3>1 DEF EngagementTypeOK, PostComment
    <3> QED BY <1>1, <3>1, <3>2 DEF EngagementTypeOK, PostComment
  <2> QED BY <2>1, <2>2 DEF Unsave, CreateStory, StoryExpires, DeleteStory, DeletePost
<1>7. WrittenComments' = WrittenComments
  BY <1>6 DEF WrittenComments
<1>8. CountedComments' = CountedComments
  BY <1>2, <1>7 DEF CountedComments
<1>9. EngagementTypeOK'
  BY <1>1, <1>2, <1>3, <1>4, <1>5, <1>6 DEF EngagementTypeOK
<1>10. Frame(IdleHandler)
  BY <1>2, <1>3, <1>5, <1>6, <1>7 DEF Frame, WrittenComments
<1>11. CommentsFit'
  BY <1>1, <1>2, <1>6, <1>7 DEF CommentsFit, WrittenComments
<1>12. EngagementFinite'
  BY <1>2, <1>8 DEF EngagementInv, EngagementFinite
<1>13. CountsMatch'
  <2>1. \A c \in Comments : {d \in CountedComments : comments[d].parent = c}'
                         = {d \in CountedComments : comments[d].parent = c}
    BY <1>6, <1>8 DEF CountedComments, WrittenComments
  <2> QED BY <1>2, <1>3, <1>5, <1>6, <1>8, <2>1 DEF EngagementInv, CountsMatch
<1> QED BY <1>2, <1>9, <1>10, <1>11, <1>12, <1>13, Unattended DEF EngagementInv

LEMMA EngagementInitially == EngagementInit => EngagementInv
<1> SUFFICES ASSUME EngagementInit PROVE EngagementInv
  OBVIOUS
<1>1. EngagementTyped
  BY IdleIsJob DEF EngagementInit, EngagementTyped, EngagementTypeOK, SocialPost, PostComment, Story
<1>2. WrittenComments = {} /\ CountedComments = {}
  BY DEF EngagementInit, WrittenComments, CountedComments
<1>3. CommentsFit
  BY <1>2 DEF EngagementInit, CommentsFit
<1>4. HandlersFit
  BY IdleIsJob DEF EngagementInit, HandlersFit, IdleHandler, Sessions
<1>5. NewIds
  BY DEF EngagementInit, NewIds, IdleHandler
<1>6. EngagementFinite
  BY <1>2, FS_EmptySet DEF EngagementInit, EngagementFinite
<1>7. CountsMatch
  <2>1. \A c \in Comments : {d \in CountedComments : comments[d].parent = c} = {}
    BY <1>2
  <2> QED BY <1>2, <2>1, FS_EmptySet DEF EngagementInit, CountsMatch
<1> QED BY <1>1, <1>3, <1>4, <1>5, <1>6, <1>7 DEF EngagementInv

LEMMA EngagementInductive == EngagementInv /\ [EngagementNext]_engagementVars => EngagementInv'
<1> SUFFICES ASSUME EngagementInv, [EngagementNext]_engagementVars PROVE EngagementInv'
  OBVIOUS
<1>1. CASE UNCHANGED engagementVars
  <2> USE <1>1 DEF engagementVars, tables
  <2>1. EngagementTyped' /\ NewIds'
    BY DEF EngagementInv, EngagementTyped, EngagementTypeOK, NewIds
  <2>2. CommentsFit' /\ EngagementFinite' /\ CountsMatch'
    BY DEF EngagementInv, CommentsFit, EngagementFinite, CountsMatch, CountedComments, WrittenComments
  <2>3. HandlersFit'
    BY DEF EngagementInv, HandlersFit, WorksOn, UpToDate, WrittenComments
  <2> QED BY <2>1, <2>2, <2>3 DEF EngagementInv
<1>2. ASSUME NEW t \in Threads, CommitHandler(t) PROVE EngagementInv'
  BY <1>2, ReactKeeps, SaveKeeps, CommentKeeps, DeleteKeeps, ReactCommentKeeps, ViewKeeps
  DEF CommitHandler
<1> QED BY <1>1, <1>2, BeginKeeps, BeginExpireKeeps, ExpireKeeps, OthersKeep DEF EngagementNext, Expire

LEMMA EngagementInvariance == EngagementSpec => []EngagementInv
<1> QED BY EngagementInitially, EngagementInductive, PTL DEF EngagementSpec

\* The post, its comments and the stories have their types.
THEOREM EngagementTypeCorrect == EngagementSpec => []EngagementTypeOK
<1>1. EngagementInv => EngagementTypeOK
  BY DEF EngagementInv, EngagementTyped
<1> QED BY <1>1, EngagementInvariance, PTL

\* As long as no handler commits a count that another one has changed since it
\* was loaded, a post and its comments show as many reactions, comments and
\* replies as there are, and a story as many views as it has had, whatever the
\* number of users, comments, stories and threads.
THEOREM EngagementCounts == EngagementSpec => []CountsMatch
<1>1. EngagementInv => CountsMatch
  BY DEF EngagementInv
<1> QED BY <1>1, EngagementInvariance, PTL
=============================================================================
