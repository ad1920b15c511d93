-------------------------- MODULE SocialGraphProofs --------------------------
(***************************************************************************)
(* What the social graph promises for any number of users and threads:     *)
(* answered requests stay answered, whatever interleaves, and counters and *)
(* requests match the edges as long as handlers do not overlap.            *)
(***************************************************************************)
EXTENDS SocialGraph, FiniteSetTheorems, TLAPS

\* A handler works on an edge, and finitely many rows were ever inserted.
Typed ==
  /\ TypeOK
  /\ IsFiniteSet(follows) /\ IsFiniteSet(friends)
  /\ \A t \in Threads : task[t].op # "idle" => task[t].edge \in Edges

-----------------------------------------------------------------------------
(* Edges and tallies.                                                      *)

\* The other direction of an edge, and the pair of its users.
LEMMA EdgeFacts ==
  ASSUME NEW e \in Edges
  PROVE  /\ Reverse(e) \in Edges /\ Reverse(e) # e /\ Reverse(Reverse(e)) = e
         /\ PairOf(e) \in Pairs /\ PairOf(Reverse(e)) = PairOf(e)
         /\ \A f \in Edges : PairOf(f) = PairOf(e) => f = e \/ f = Reverse(e)
<1>1. e[1] \in Users /\ e[2] \in Users /\ e[1] # e[2] /\ e = <<e[1], e[2]>>
  BY DEF Edges
<1>2. \A f \in Edges : f[1] \in Users /\ f[2] \in Users /\ f = <<f[1], f[2]>>
  BY DEF Edges
<1>3. Reverse(e) \in Edges /\ Reverse(e) # e /\ Reverse(Reverse(e)) = e
  BY <1>1 DEF Reverse, Edges
<1>4. PairOf(e) \in Pairs /\ PairOf(Reverse(e)) = PairOf(e)
  BY <1>1 DEF PairOf, Pairs, Reverse
<1>5. ASSUME NEW f \in Edges, PairOf(f) = PairOf(e) PROVE f = e \/ f = Reverse(e)
  <2>1. {f[1], f[2]} = {e[1], e[2]}
    BY <1>5 DEF PairOf
  <2>2. f[1] # f[2]
    BY DEF Edges
  <2>3. \/ f[1] = e[1] /\ f[2] = e[2]
        \/ f[1] = e[2] /\ f[2] = e[1]
    BY <1>1, <2>1, <2>2
  <2> QED BY <1>1, <1>2, <2>3 DEF Reverse
<1> QED BY <1>3, <1>4, <1>5

\* What a counter says is a number.
LEMMA TallyType ==
  ASSUME NEW u, NEW c \in Counters, NEW F, NEW P, IsFiniteSet(F), IsFiniteSet(P)
  PROVE  Tally(u, c, F, P) \in Nat
<1>1. /\ IsFiniteSet({e \in F : e[2] = u}) /\ IsFiniteSet({e \in F : e[1] = u})
      /\ IsFiniteSet({p \in P : u \in p})
  <2>1. {e \in F : e[2] = u} \subseteq F /\ {e \in F : e[1] = u} \subseteq F /\ {p \in P : u \in p} \subseteq P
    OBVIOUS
  <2> QED BY <2>1, FS_Subset
<1>2. /\ Cardinality({e \in F : e[2] = u}) \in Nat /\ Cardinality({e \in F : e[1] = u}) \in Nat
      /\ Cardinality({p \in P : u \in p}) \in Nat
  BY <1>1, FS_CardinalityType
<1> QED BY <1>2 DEF Tally, Counters

\* The rows of a finite set that satisfy a condition add up.
LEMMA Adds ==
  ASSUME NEW A, NEW B, IsFiniteSet(A), IsFiniteSet(B), A \cap B = {}
  PROVE  /\ Cardinality(A \cup B) = Cardinality(A) + Cardinality(B)
         /\ Cardinality(A) \in Nat /\ Cardinality(B) \in Nat
<1>1. Cardinality(A) \in Nat /\ Cardinality(B) \in Nat /\ Cardinality(A \cap B) = 0
  BY FS_CardinalityType, FS_EmptySet
<1>2. Cardinality(A \cup B) = Cardinality(A) + Cardinality(B) - Cardinality(A \cap B)
  BY FS_Union
<1> QED BY <1>1, <1>2

\* Tallies of separate sets of edges and friendships add up.
LEMMA TallyAdds ==
  ASSUME NEW u, NEW c \in Counters, NEW F, NEW G, NEW P, NEW Q,
         IsFiniteSet(F), IsFiniteSet(G), IsFiniteSet(P), IsFiniteSet(Q),
         F \cap G = {}, P \cap Q = {}
  PROVE  Tally(u, c, F \cup G, P \cup Q) = Tally(u, c, F, P) + Tally(u, c, G, Q)
<1> DEFINE to(E) == {e \in E : e[2] = u}
           from(E) == {e \in E : e[1] = u}
           with(R) == {p \in R : u \in p}
<1>1. /\ to(F \cup G) = to(F) \cup to(G) /\ to(F) \cap to(G) = {}
      /\ from(F \cup G) = from(F) \cup from(G) /\ from(F) \cap from(G) = {}
      /\ with(P \cup Q) = with(P) \cup with(Q) /\ with(P) \cap with(Q) = {}
  OBVIOUS
<1>2. /\ IsFiniteSet(to(F)) /\ IsFiniteSet(to(G)) /\ IsFiniteSet(from(F)) /\ IsFiniteSet(from(G))
      /\ IsFiniteSet(with(P)) /\ IsFiniteSet(with(Q))
  <2>1. to(F) \subseteq F /\ to(G) \subseteq G /\ from(F) \subseteq F /\ from(G) \subseteq G
        /\ with(P) \subseteq P /\ with(Q) \subseteq Q
    OBVIOUS
  <2> HIDE DEF to, from, with
  <2> QED BY <2>1, FS_Subset
<1> HIDE DEF to, from, with
<1>3. /\ Cardinality(to(F \cup G)) = Cardinality(to(F)) + Cardinality(to(G))
      /\ Cardinality(from(F \cup G)) = Cardinality(from(F)) + Cardinality(from(G))
      /\ Cardinality(with(P \cup Q)) = Cardinality(with(P)) + Cardinality(with(Q))
  BY <1>1, <1>2, Adds
<1>4. \A E, R : Tally(u, c, E, R) = CASE c = "followers" -> Cardinality(to(E))
                                      [] c = "following" -> Cardinality(from(E))
                                      [] c = "friends" -> Cardinality(with(R))
  BY DEF Tally, to, from, with
<1> QED BY <1>3, <1>4 DEF Counters

-----------------------------------------------------------------------------
(* Types.                                                                  *)

\* What a session writes are counters, whatever it has loaded.
LEMMA CountersTyped ==
  ASSUME Typed, NEW t \in Threads, NEW F, NEW P, IsFiniteSet(F), IsFiniteSet(P),
         Raise(t, F, P) \/ Lower(t, F, P)
  PROVE  profiles' \in Profiles
<1>1. \A u \in Users, c \in Counters :
        /\ Tally(u, c, F, P) \in Nat
        /\ seen[t].profiles[u][c] \in Nat /\ profiles[u][c] \in Nat
  BY TallyType DEF Typed, TypeOK, Reads, Profiles
<1>2. CASE Raise(t, F, P)
  BY <1>1, <1>2 DEF Raise, Written, Profiles
<1>3. CASE Lower(t, F, P)
  BY <1>1, <1>3 DEF Lower, Written, Profiles
<1> QED BY <1>2, <1>3

\* A handler that begins on an edge keeps the types.
LEMMA BeginTyped ==
  ASSUME Typed, NEW t \in Threads, NEW e \in Edges, Begin(t, e)
  PROVE  Typed' /\ \E op \in ThreadOperations : Load(t, op, e)
<1>1. PICK op \in ThreadOperations : Load(t, op, e)
  BY DEF Begin, BeginFollow, BeginUnfollow, BeginRequest, BeginAccept, BeginAnswer, BeginUnfriend,
         ThreadOperations
<1>2. /\ task' = [task EXCEPT ![t] = [op |-> op, edge |-> e]]
      /\ [op |-> op, edge |-> e] \in Tasks
  BY <1>1 DEF Load, Tasks
<1>3. [profiles |-> profiles, follows |-> follows, gone |-> FALSE] \in Reads
  BY DEF Typed, TypeOK, Reads
<1>4. TypeOK'
  BY <1>1, <1>2, <1>3 DEF Load, Typed, TypeOK
<1>5. \A s \in Threads : task'[s].op # "idle" => task'[s].edge \in Edges
  BY <1>2 DEF Typed, TypeOK
<1> QED BY <1>1, <1>4, <1>5 DEF Load, Typed

\* What a thread works on has its types, and so has a thread that is idle.
LEMMA TaskTypes ==
  ASSUME Typed, NEW t \in Threads, task[t].op # "idle"
  PROVE  /\ task[t].edge \in Edges /\ Reverse(task[t].edge) \in Edges
         /\ PairOf(task[t].edge) \in Pairs
  BY EdgeFacts DEF Typed

\* Idle threads and closed sessions have their types.
LEMMA IdleTypes == Idle \in Tasks /\ NoRead \in Reads
<1>1. Idle \in Tasks
  BY DEF Idle, Tasks
<1>2. NoCounts \in Profiles
  BY DEF NoCounts, Profiles
<1> QED BY <1>1, <1>2 DEF NoRead, Reads

\* A handler that ends is idle, the others work on.
LEMMA FinishTyped ==
  ASSUME Typed, NEW t \in Threads, Finish(t)
  PROVE  /\ task' \in [Threads -> Tasks] /\ task'[t] = Idle
         /\ \A s \in Threads \ {t} : task'[s] = task[s]
         /\ \A s \in Threads : task'[s].op # "idle" => task'[s].edge \in Edges
         /\ overlapped' \in BOOLEAN
<1>1. task' = [task EXCEPT ![t] = Idle] /\ Idle \in Tasks /\ Idle.op = "idle"
  BY IdleTypes DEF Finish, Idle
<1>2. /\ task' \in [Threads -> Tasks] /\ task'[t] = Idle
      /\ \A s \in Threads \ {t} : task'[s] = task[s]
  BY <1>1 DEF Typed, TypeOK
<1> QED BY <1>1, <1>2 DEF Finish, Typed, TypeOK

\* A handler commits rows of their types.
LEMMA CommitTyped ==
  ASSUME Typed, NEW t \in Threads, Commit(t)
  PROVE  Typed'
<1> DEFINE e == task[t].edge
           missing == {e, Reverse(e)} \ seen[t].follows
<1>1. Finish(t)
  BY DEF Commit, CommitFollow, CommitUnfollow, CommitRequest, CommitAccept, CommitAnswer,
         CommitUnfriend, Refuse
<1>2. e \in Edges /\ Reverse(e) \in Edges /\ PairOf(e) \in Pairs
  BY TaskTypes DEF Commit, CommitFollow, CommitUnfollow, CommitRequest, CommitAccept, CommitAnswer,
         CommitUnfriend, Committing
<1>3. seen' \in [Threads -> Reads]
  <2>1. CASE Close(t)
    BY <2>1, IdleTypes DEF Close, Typed, TypeOK
  <2>2. CASE CommitUnfollow(t) \/ CommitUnfriend(t)
    <3>1. \A s \in Threads : seen[s] \in Reads /\ [seen[s] EXCEPT !.gone = TRUE] \in Reads
      BY DEF Typed, TypeOK, Reads
    <3> QED BY <2>2, <3>1, IdleTypes DEF CommitUnfollow, CommitUnfriend, CloseDeleting
  <2> QED BY <2>1, <2>2 DEF Commit, CommitFollow, CommitRequest, CommitAccept, CommitAnswer, Refuse
<1>4. /\ IsFiniteSet({e}) /\ IsFiniteSet({PairOf(e)}) /\ IsFiniteSet({})
      /\ IsFiniteSet(missing)
  <2>1. IsFiniteSet({e} \cup {Reverse(e)})
    BY FS_Singleton, FS_AddElement
  <2>2. missing \subseteq {e} \cup {Reverse(e)}
    OBVIOUS
  <2> QED BY <2>1, <2>2, FS_Subset, FS_Singleton, FS_EmptySet
<1>5. profiles' \in Profiles
  <2> HIDE DEF missing
  <2>1. \/ UNCHANGED profiles
        \/ Raise(t, {e}, {}) \/ Lower(t, {e}, {}) \/ Raise(t, missing, {PairOf(e)})
        \/ Lower(t, {}, {PairOf(e)})
    BY DEF Commit, CommitFollow, CommitUnfollow, CommitRequest, CommitAccept, CommitAnswer,
           CommitUnfriend, Refuse, missing
  <2>2. UNCHANGED profiles => profiles' \in Profiles
    BY DEF Typed, TypeOK
  <2> QED BY <1>4, <2>1, <2>2, CountersTyped
<1>6. /\ follows' \in {follows, follows \cup {e}, follows \ {e}, follows \cup missing}
      /\ friends' \in {friends, friends \cup {PairOf(e)}, friends \ {PairOf(e)}}
      /\ \/ requests' = requests
         \/ \E state \in RequestStates : requests' = [requests EXCEPT ![e] = state]
      /\ blocks' = blocks
  BY DEF Commit, CommitFollow, CommitUnfollow, CommitRequest, CommitAccept, CommitAnswer,
         CommitUnfriend, Refuse, RequestStates
<1>7. /\ follows' \subseteq Edges /\ friends' \subseteq Pairs /\ blocks' \subseteq Edges
      /\ requests' \in [Edges -> RequestStates]
  BY <1>2, <1>6 DEF Typed, TypeOK
<1>8. IsFiniteSet(follows')
  <2>1. IsFiniteSet(follows) /\ IsFiniteSet(follows \cup {e}) /\ IsFiniteSet(follows \ {e})
    BY FS_AddElement, FS_RemoveElement DEF Typed
  <2>2. IsFiniteSet(follows \cup missing)
    BY <1>4, <2>1, FS_Union
  <2> HIDE DEF missing
  <2> QED BY <1>6, <2>1, <2>2
<1>9. IsFiniteSet(friends')
  BY <1>6, FS_AddElement, FS_RemoveElement DEF Typed
<1>10. TypeOK'
  BY <1>1, <1>3, <1>5, <1>7, FinishTyped DEF TypeOK
<1> QED BY <1>1, <1>8, <1>9, <1>10, FinishTyped DEF Typed

\* Every step keeps the types.
LEMMA TypedStep == Typed /\ [Next]_vars => Typed'
<1> SUFFICES ASSUME Typed, [Next]_vars PROVE Typed'
  OBVIOUS
<1>1. ASSUME NEW e \in Edges, SetBlock(e) PROVE Typed'
  BY <1>1 DEF SetBlock, Typed, TypeOK
<1>2. CASE UNCHANGED vars
  BY <1>2 DEF vars, Typed, TypeOK
<1> QED BY <1>1, <1>2, BeginTyped, CommitTyped DEF Next

\* The initial states have the types.
LEMMA TypedInit == Init => Typed
<1> SUFFICES ASSUME Init PROVE Typed
  OBVIOUS
<1>1. NoCounts \in Profiles
  BY DEF NoCounts, Profiles
<1>2. TypeOK
  BY <1>1, IdleTypes DEF Init, TypeOK, RequestStates
<1> QED BY <1>2, FS_EmptySet DEF Init, Typed, Idle

\* The type invariant holds for every set of users, threads and operations.
THEOREM TypeCorrect == Spec => []TypeOK
<1>1. Typed => TypeOK
  BY DEF Typed
<1> QED BY <1>1, TypedInit, TypedStep, PTL DEF Spec

-----------------------------------------------------------------------------
(* Requests.                                                               *)

\* Whatever interleaves, a request that was answered is never pending again:
\* the row stays, and refuses another.
THEOREM Answered == Spec => AnsweredStaysAnswered
<1> DEFINE Kept == \A e \in Edges : requests[e] \notin {"none", "pending"}
                                    => requests'[e] \notin {"none", "pending"}
<1>1. ASSUME Typed, [Next]_vars PROVE [Kept]_vars
  <2> SUFFICES ASSUME NEW e \in Edges, requests[e] \notin {"none", "pending"}
               PROVE  requests'[e] \notin {"none", "pending"}
    OBVIOUS
  <2>1. ASSUME NEW t \in Threads, CommitRequest(t) PROVE requests'[e] \notin {"none", "pending"}
    BY <1>1, <2>1 DEF CommitRequest, Refuse, Typed, TypeOK
  <2>2. ASSUME NEW t \in Threads, CommitAccept(t) PROVE requests'[e] \notin {"none", "pending"}
    BY <1>1, <2>2 DEF CommitAccept, Refuse, Typed, TypeOK
  <2>3. ASSUME NEW t \in Threads, NEW op \in {"reject", "cancel"},
               NEW state \in {"rejected", "cancelled"}, CommitAnswer(t, op, state)
        PROVE  requests'[e] \notin {"none", "pending"}
    BY <1>1, <2>3 DEF CommitAnswer, Typed, TypeOK
  <2>4. ASSUME UNCHANGED requests PROVE requests'[e] \notin {"none", "pending"}
    BY <2>4
  <2>5. ASSUME NEW t \in Threads, NEW f \in Edges, Begin(t, f) PROVE UNCHANGED requests
    BY <1>1, <2>5, BeginTyped DEF Load
  <2> QED BY <1>1, <2>1, <2>2, <2>3, <2>4, <2>5
        DEF Next, Commit, CommitFollow, CommitUnfollow, CommitUnfriend, Refuse, SetBlock, vars
<1>2. Typed /\ [Next]_vars => [Kept]_vars
  BY <1>1
<1> QED BY <1>2, TypedInit, TypedStep, PTL DEF Spec, AnsweredStaysAnswered

-----------------------------------------------------------------------------
(* Handlers that do not overlap.                                           *)

\* A handler finds the graph as it was when it checked it.
Fresh(t) ==
  LET e == task[t].edge op == task[t].op IN
  /\ seen[t].profiles = profiles /\ seen[t].follows = follows /\ ~seen[t].gone
  /\ op = "follow" => e \notin follows
  /\ op = "unfollow" => e \in follows
  /\ op = "request" => /\ PairOf(e) \notin friends
                       /\ requests[e] # "pending" /\ requests[Reverse(e)] # "pending"
  /\ op \in {"accept", "reject", "cancel"} => requests[e] = "pending"
  /\ op = "unfriend" => PairOf(e) \in friends

Serial ==
  ~overlapped =>
    /\ \A s, t \in Threads : s # t => task[s] = Idle \/ task[t] = Idle
    /\ \A t \in Threads : task[t] # Idle => Fresh(t)

Matching == Serial /\ SerialCountersMatch /\ SerialRequestsMatch

\* One that begins has checked that.
LEMMA SerialBegin ==
  ASSUME Typed, Matching, NEW t \in Threads, NEW e \in Edges, Begin(t, e)
  PROVE  Matching'
<1>1. PICK op \in ThreadOperations : Load(t, op, e)
  BY BeginTyped
<1>2. /\ UNCHANGED <<follows, friends, requests, blocks, profiles>>
      /\ task'[t] = [op |-> op, edge |-> e]
      /\ seen'[t] = [profiles |-> profiles, follows |-> follows, gone |-> FALSE]
      /\ \A s \in Threads \ {t} : task'[s] = task[s] /\ seen'[s] = seen[s]
      /\ overlapped' = (overlapped \/ \E s \in Threads \ {t} : task[s] # Idle)
      /\ task[t] = Idle
  BY <1>1 DEF Load, Typed, TypeOK
<1>3. SerialCountersMatch' /\ SerialRequestsMatch'
  BY <1>2 DEF Matching, SerialCountersMatch, SerialRequestsMatch, Tally
<1>4. ASSUME ~overlapped' PROVE Serial'
  <2>1. \A s \in Threads \ {t} : task'[s] = Idle
    BY <1>2, <1>4
  <2>2. /\ op = "follow" => e \notin follows
        /\ op = "unfollow" => e \in follows
        /\ op = "request" => /\ PairOf(e) \notin friends
                             /\ requests[e] # "pending" /\ requests[Reverse(e)] # "pending"
        /\ op \in {"accept", "reject", "cancel"} => requests[e] = "pending"
        /\ op = "unfriend" => PairOf(e) \in friends
    <3>1. task'[t].op = op
      BY <1>2
    <3>2. \A p : Load(t, p, e) => task'[t].op = p
      BY DEF Load, Typed, TypeOK
    <3> QED BY <3>1, <3>2 DEF Begin, BeginFollow, BeginUnfollow, BeginRequest, BeginAccept,
              BeginAnswer, BeginUnfriend
  <2>3. Fresh(t)'
    BY <1>2, <2>2 DEF Fresh
  <2> QED BY <2>1, <2>3 DEF Serial
<1> QED BY <1>3, <1>4 DEF Matching, Serial

\* A handler that raises the counters by what it adds.
LEMMA Raised ==
  ASSUME Typed, NEW t \in Threads, seen[t].profiles = profiles, NEW F, NEW P,
         IsFiniteSet(F), IsFiniteSet(P), F \cap follows = {}, P \cap friends = {},
         follows' = follows \cup F, friends' = friends \cup P, Raise(t, F, P),
         \A u \in Users, c \in Counters : profiles[u][c] = Tally(u, c, follows, friends)
  PROVE  \A u \in Users, c \in Counters : profiles'[u][c] = Tally(u, c, follows', friends')
<1> TAKE u \in Users, c \in Counters
<1>1. Tally(u, c, follows \cup F, friends \cup P)
        = Tally(u, c, follows, friends) + Tally(u, c, F, P)
  BY TallyAdds DEF Typed
<1>2. Tally(u, c, F, P) \in Nat /\ Tally(u, c, follows, friends) \in Nat
  BY TallyType DEF Typed
<1>3. profiles'[u][c] = Written(t, u, c, profiles[u][c] + Tally(u, c, F, P))
  BY DEF Raise
<1>4. Written(t, u, c, profiles[u][c] + Tally(u, c, F, P)) = profiles[u][c] + Tally(u, c, F, P)
  BY DEF Written
<1> QED BY <1>1, <1>2, <1>3, <1>4

\* A handler that lowers them by what it takes away.
LEMMA Lowered ==
  ASSUME Typed, NEW t \in Threads, seen[t].profiles = profiles, NEW F, NEW P,
         F \subseteq follows, P \subseteq friends,
         follows' = follows \ F, friends' = friends \ P, Lower(t, F, P),
         \A u \in Users, c \in Counters : profiles[u][c] = Tally(u, c, follows, friends)
  PROVE  \A u \in Users, c \in Counters : profiles'[u][c] = Tally(u, c, follows', friends')
<1> TAKE u \in Users, c \in Counters
<1>1. /\ IsFiniteSet(F) /\ IsFiniteSet(P) /\ IsFiniteSet(follows \ F) /\ IsFiniteSet(friends \ P)
      /\ (follows \ F) \cup F = follows /\ (friends \ P) \cup P = friends
      /\ (follows \ F) \cap F = {} /\ (friends \ P) \cap P = {}
  <2>1. follows \ F \subseteq follows /\ friends \ P \subseteq friends
    OBVIOUS
  <2> QED BY <2>1, FS_Subset DEF Typed
<1>2. Tally(u, c, follows, friends)
        = Tally(u, c, follows \ F, friends \ P) + Tally(u, c, F, P)
  <2>1. Tally(u, c, (follows \ F) \cup F, (friends \ P) \cup P)
          = Tally(u, c, follows \ F, friends \ P) + Tally(u, c, F, P)
    BY <1>1, TallyAdds
  <2> QED BY <1>1, <2>1
<1>3. Tally(u, c, F, P) \in Nat /\ Tally(u, c, follows \ F, friends \ P) \in Nat
  BY <1>1, TallyType
<1>4. profiles[u][c] = Tally(u, c, follows \ F, friends \ P) + Tally(u, c, F, P)
  BY <1>2
<1>5. profiles'[u][c] = Written(t, u, c, IF profiles[u][c] < Tally(u, c, F, P) THEN 0
                                         ELSE profiles[u][c] - Tally(u, c, F, P))
  BY DEF Lower
<1>6. (IF profiles[u][c] < Tally(u, c, F, P) THEN 0 ELSE profiles[u][c] - Tally(u, c, F, P))
        = Tally(u, c, follows \ F, friends \ P)
  BY <1>3, <1>4
<1>7. profiles'[u][c] = Tally(u, c, follows \ F, friends \ P)
  BY <1>5, <1>6 DEF Written
<1> QED BY <1>7

\* What the commit of a handler makes of edges and requests matches.
LEMMA SerialCommit ==
  ASSUME Typed, Matching, NEW t \in Threads, Commit(t)
  PROVE  Matching'
<1> SUFFICES ASSUME ~overlapped' PROVE Matching'
  BY DEF Matching, Serial, SerialCountersMatch, SerialRequestsMatch
<1> DEFINE e == task[t].edge
           Counts == \A u \in Users, c \in Counters :
                       profiles[u][c] = Tally(u, c, follows, friends)
           Waits == \A f \in Edges :
             /\ requests[f] = "pending" => requests[Reverse(f)] # "pending" /\ PairOf(f) \notin friends
             /\ PairOf(f) \in friends => requests[f] = "accepted" \/ requests[Reverse(f)] = "accepted"
<1>1. Finish(t) /\ task[t].op # "idle"
  BY DEF Commit, CommitFollow, CommitUnfollow, CommitRequest, CommitAccept, CommitAnswer,
         CommitUnfriend, Refuse, Committing
<1>2. ~overlapped /\ task[t] # Idle /\ e \in Edges
  BY <1>1 DEF Finish, Idle, Typed
<1>3. Fresh(t) /\ \A s \in Threads \ {t} : task[s] = Idle
  BY <1>2 DEF Matching, Serial
<1>4. Serial'
  <2>1. \A s \in Threads : task'[s] = Idle
    BY <1>1, <1>3, FinishTyped
  <2> QED BY <2>1 DEF Serial
<1>5. Counts /\ Waits
  BY <1>2 DEF Matching, SerialCountersMatch, SerialRequestsMatch
<1>6. /\ Reverse(e) \in Edges /\ Reverse(e) # e /\ PairOf(Reverse(e)) = PairOf(e)
      /\ \A f \in Edges : PairOf(f) = PairOf(e) => f = e \/ f = Reverse(e)
  BY <1>2, EdgeFacts
<1>7. \A f \in Edges : Reverse(f) \in Edges /\ PairOf(Reverse(f)) = PairOf(f) /\ Reverse(Reverse(f)) = f
  BY EdgeFacts
<1>8. requests \in [Edges -> RequestStates]
  BY DEF Typed, TypeOK
<1>9. SUFFICES Counts' /\ Waits'
  BY <1>4 DEF Matching, SerialCountersMatch, SerialRequestsMatch
<1>10. CASE Refuse(t)
  BY <1>5, <1>10 DEF Refuse
<1>11. CASE CommitFollow(t) /\ ~Refuse(t)
  <2>1. /\ e \notin follows /\ follows' = follows \cup {e} /\ Raise(t, {e}, {})
        /\ UNCHANGED <<friends, requests>>
    BY <1>11 DEF CommitFollow
  <2>2. seen[t].profiles = profiles
    BY <1>3 DEF Fresh
  <2>3. IsFiniteSet({e}) /\ IsFiniteSet({})
    BY FS_Singleton, FS_EmptySet
  <2>4. {e} \cap follows = {} /\ {} \cap friends = {} /\ friends' = friends \cup {}
    BY <2>1
  <2>5. Counts'
    <3> HIDE DEF e
    <3> QED BY <1>5, <2>1, <2>2, <2>3, <2>4, Raised
  <2> QED BY <1>5, <2>1, <2>5
<1>12. CASE CommitUnfollow(t)
  <2>1. e \in follows /\ ~seen[t].gone /\ seen[t].profiles = profiles
    BY <1>3, <1>12 DEF Fresh, CommitUnfollow, Committing
  <2>2. follows' = follows \ {e} /\ Lower(t, {e}, {}) /\ UNCHANGED <<friends, requests>>
    BY <1>12, <2>1 DEF CommitUnfollow
  <2>3. {e} \subseteq follows /\ {} \subseteq friends /\ friends' = friends \ {}
    BY <2>1, <2>2
  <2>4. Counts'
    <3> DEFINE F == {e} P == {}
    <3>1. /\ seen[t].profiles = profiles /\ follows' = follows \ F /\ Lower(t, F, P)
          /\ F \subseteq follows /\ P \subseteq friends /\ friends' = friends \ P
      BY <2>1, <2>2, <2>3
    <3> HIDE DEF F, P
    <3> QED BY <1>5, <3>1, Lowered
  <2> QED BY <1>5, <2>2, <2>4
<1>13. CASE CommitRequest(t) /\ ~Refuse(t)
  <2>1. /\ requests[e] = "none" /\ requests' = [requests EXCEPT ![e] = "pending"]
        /\ UNCHANGED <<follows, friends, profiles>>
    BY <1>13 DEF CommitRequest
  <2>2. PairOf(e) \notin friends /\ requests[Reverse(e)] # "pending"
    BY <1>3, <1>13 DEF Fresh, CommitRequest, Committing
  <2>3. ASSUME NEW f \in Edges
        PROVE  /\ requests'[f] = "pending" => requests'[Reverse(f)] # "pending" /\ PairOf(f) \notin friends
               /\ PairOf(f) \in friends => requests'[f] = "accepted" \/ requests'[Reverse(f)] = "accepted"
    <3>1. CASE PairOf(f) = PairOf(e)
      <4>1. f = e \/ f = Reverse(e)
        BY <1>6, <3>1
      <4>2. requests'[e] = "pending" /\ requests'[Reverse(e)] = requests[Reverse(e)]
        BY <1>2, <1>6, <1>8, <2>1
      <4> QED BY <1>2, <1>6, <1>7, <2>2, <4>1, <4>2
    <3>2. CASE PairOf(f) # PairOf(e)
      <4>1. requests'[f] = requests[f] /\ requests'[Reverse(f)] = requests[Reverse(f)]
        BY <1>7, <1>8, <2>1, <3>2
      <4> QED BY <1>5, <4>1
    <3> QED BY <3>1, <3>2
  <2> QED BY <1>5, <2>1, <2>3
<1>14. CASE CommitAccept(t) /\ ~Refuse(t)
  <2> DEFINE missing == {e, Reverse(e)} \ seen[t].follows
  <2>1. /\ PairOf(e) \notin friends /\ missing \cap follows = {}
        /\ friends' = friends \cup {PairOf(e)} /\ follows' = follows \cup missing
        /\ Raise(t, missing, {PairOf(e)})
        /\ requests' = [requests EXCEPT ![e] = "accepted"]
    BY <1>14 DEF CommitAccept
  <2>2. requests[e] = "pending" /\ seen[t].profiles = profiles
    BY <1>3, <1>14 DEF Fresh, CommitAccept, Committing
  <2>3. IsFiniteSet(missing) /\ IsFiniteSet({PairOf(e)}) /\ {PairOf(e)} \cap friends = {}
    <3>1. IsFiniteSet({e} \cup {Reverse(e)}) /\ missing \subseteq {e} \cup {Reverse(e)}
      BY FS_Singleton, FS_AddElement
    <3>2. {PairOf(e)} \cap friends = {}
      BY <2>1
    <3> HIDE DEF missing
    <3> QED BY <3>1, <3>2, FS_Subset, FS_Singleton
  <2>4. Counts'
    <3> HIDE DEF missing, e
    <3> QED BY <1>5, <2>1, <2>2, <2>3, Raised
  <2>5. ASSUME NEW f \in Edges
        PROVE  /\ requests'[f] = "pending" => requests'[Reverse(f)] # "pending" /\ PairOf(f) \notin friends'
               /\ PairOf(f) \in friends' => requests'[f] = "accepted" \/ requests'[Reverse(f)] = "accepted"
    <3>1. CASE PairOf(f) = PairOf(e)
      <4>1. f = e \/ f = Reverse(e)
        BY <1>6, <3>1
      <4>2. requests'[e] = "accepted" /\ requests'[Reverse(e)] = requests[Reverse(e)]
        BY <1>2, <1>6, <1>8, <2>1
      <4>3. requests[Reverse(e)] # "pending"
        BY <1>2, <1>5, <2>2
      <4> QED BY <1>2, <1>6, <1>7, <4>1, <4>2, <4>3
    <3>2. CASE PairOf(f) # PairOf(e)
      <4>1. requests'[f] = requests[f] /\ requests'[Reverse(f)] = requests[Reverse(f)]
        BY <1>7, <1>8, <2>1, <3>2
      <4>2. PairOf(f) \in friends' <=> PairOf(f) \in friends
        BY <2>1, <3>2
      <4> QED BY <1>5, <4>1, <4>2
    <3> QED BY <3>1, <3>2
  <2> QED BY <2>4, <2>5
<1>15. ASSUME NEW op \in {"reject", "cancel"}, NEW state \in {"rejected", "cancelled"},
              CommitAnswer(t, op, state)
       PROVE  Counts' /\ Waits'
  <2>1. requests' = [requests EXCEPT ![e] = state] /\ UNCHANGED <<follows, friends, profiles>>
    BY <1>15 DEF CommitAnswer
  <2>2. requests[e] = "pending"
    BY <1>3, <1>15 DEF Fresh, CommitAnswer, Committing
  <2>3. PairOf(e) \notin friends /\ requests[Reverse(e)] # "pending"
    BY <1>2, <1>5, <2>2
  <2>4. ASSUME NEW f \in Edges
        PROVE  /\ requests'[f] = "pending" => requests'[Reverse(f)] # "pending" /\ PairOf(f) \notin friends
               /\ PairOf(f) \in friends => requests'[f] = "accepted" \/ requests'[Reverse(f)] = "accepted"
    <3>1. CASE PairOf(f) = PairOf(e)
      <4>1. f = e \/ f = Reverse(e)
        BY <1>6, <3>1
      <4>2. requests'[e] # "pending" /\ requests'[Reverse(e)] = requests[Reverse(e)]
        BY <1>2, <1>6, <1>8, <2>1
      <4> QED BY <1>6, <2>3, <4>1, <4>2
    <3>2. CASE PairOf(f) # PairOf(e)
      <4>1. requests'[f] = requests[f] /\ requests'[Reverse(f)] = requests[Reverse(f)]
        BY <1>7, <1>8, <2>1, <3>2
      <4> QED BY <1>5, <4>1
    <3> QED BY <3>1, <3>2
  <2> QED BY <1>5, <2>1, <2>4
<1>16. CASE CommitUnfriend(t)
  <2>1. PairOf(e) \in friends /\ ~seen[t].gone /\ seen[t].profiles = profiles
    BY <1>3, <1>16 DEF Fresh, CommitUnfriend, Committing
  <2>2. /\ friends' = friends \ {PairOf(e)} /\ Lower(t, {}, {PairOf(e)})
        /\ UNCHANGED <<follows, requests>>
    BY <1>16, <2>1 DEF CommitUnfriend
  <2>3. {PairOf(e)} \subseteq friends /\ {} \subseteq follows /\ follows' = follows \ {}
    BY <2>1, <2>2
  <2>4. Counts'
    <3> HIDE DEF e
    <3> QED BY <1>5, <2>1, <2>2, <2>3, Lowered
  <2> QED BY <1>5, <2>2, <2>4
<1> QED BY <1>10, <1>11, <1>12, <1>13, <1>14, <1>15, <1>16 DEF Commit

\* Every step keeps the graph matching.
LEMMA SerialStep == Typed /\ Matching /\ [Next]_vars => Matching'
<1> SUFFICES ASSUME Typed, Matching, [Next]_vars PROVE Matching'
  OBVIOUS
<1>1. ASSUME UNCHANGED <<follows, friends, requests, profiles, task, seen, overlapped>>
      PROVE  Matching'
  <2>1. Serial'
    BY <1>1 DEF Matching, Serial, Fresh
  <2>2. SerialCountersMatch' /\ SerialRequestsMatch'
    BY <1>1 DEF Matching, SerialCountersMatch, SerialRequestsMatch
  <2> QED BY <2>1, <2>2 DEF Matching
<1> QED BY <1>1, SerialBegin, SerialCommit DEF Next, SetBlock, vars

\* The empty graph matches.
LEMMA SerialInit == Init => Matching
<1> SUFFICES ASSUME Init PROVE Matching
  OBVIOUS
<1>1. ASSUME NEW u \in Users, NEW c \in Counters PROVE Tally(u, c, {}, {}) = 0
  <2>1. {e \in {} : e[2] = u} = {} /\ {e \in {} : e[1] = u} = {} /\ {p \in {} : u \in p} = {}
    OBVIOUS
  <2>2. Cardinality({}) = 0
    BY FS_EmptySet
  <2> QED BY <2>1, <2>2 DEF Tally, Counters
<1>2. SerialCountersMatch
  BY <1>1 DEF Init, SerialCountersMatch, NoCounts
<1> QED BY <1>2 DEF Init, Matching, Serial, SerialRequestsMatch

\* The types and the match hold together.
LEMMA SerialInvariance == Spec => []Matching
  BY TypedInit, TypedStep, SerialInit, SerialStep, PTL DEF Spec

\* As long as handlers do not overlap, the counters of every profile match the
\* edges and friendships, for any number of users and any sequence of requests.
THEOREM CountersMatch == Spec => []SerialCountersMatch
<1>1. Matching => SerialCountersMatch
  BY DEF Matching
<1> QED BY <1>1, SerialInvariance, PTL

\* As long as handlers do not overlap, requests and friendships exclude each other.
THEOREM RequestsMatch == Spec => []SerialRequestsMatch
<1>1. Matching => SerialRequestsMatch
  BY DEF Matching
<1> QED BY <1>1, SerialInvariance, PTL

=============================================================================
