------------------------------ MODULE HubProofs ------------------------------
(***************************************************************************)
(* What the hub promises for any number of users, sockets, replicas and    *)
(* events, and any bound on what fails: its indexes agree, no socket gets  *)
(* an event twice; and what holds unless something failed.                 *)
(***************************************************************************)
EXTENDS Hub, TLAPS

\* Sockets in the hub were opened; a socket that was not got nothing.
Opened ==
  /\ IndexesAgree
  /\ \A s \in connections : socket[s].step # "new"
  /\ \A s \in Sockets : socket[s].step = "new" => \A e \in Events : got[s][e] = 0

\* Event e has not come to replica p.
Untouched(p, e) ==
  /\ sending[p][e] = {}
  /\ \A s \in Sockets : socket[s].at = p => got[s][e] = 0

\* An event comes to each replica once: to the one it began on when it is
\* broadcast, to the others when they take it out of the inbox.
Coming(e) ==
  /\ \A p \in Replicas : \A s \in sending[p][e] :
       socket[s].at = p /\ socket[s].step # "new" /\ got[s][e] = 0
  /\ \A p \in Replicas :
       /\ event[e].step # "done" => e \notin inbox[p]
       /\ event[e].step = "new" => Untouched(p, e)
       /\ event[e].step = "local" /\ p # event[e].at => Untouched(p, e)
       /\ e \in inbox[p] /\ p # event[e].at => Untouched(p, e)

IInv == TypeOK /\ Opened /\ AtMostOnce /\ \A e \in Events : Coming(e)

-----------------------------------------------------------------------------
(* Types.                                                                  *)

\* Every step keeps the types.
LEMMA TypeStep == TypeOK /\ [Next]_vars => TypeOK'
<1> SUFFICES ASSUME TypeOK, [Next]_vars PROVE TypeOK'
  OBVIOUS
<1>1. ASSUME NEW s \in Sockets, Serve(s) PROVE TypeOK'
  <2>1. ASSUME NEW u \in Users, NEW p \in Replicas, Open(s, u, p) PROVE TypeOK'
    BY <2>1 DEF Open, TypeOK, hubs, transit, SocketRows, SocketSteps
  <2>2. CASE Connect(s)
    BY <2>2 DEF Connect, Connected, TypeOK, transit, SocketRows, SocketSteps
  <2>3. CASE FailConnect(s)
    <3> DEFINE Failed == [socket[s] EXCEPT !.step = "closed", !.alive = FALSE]
    <3>5. socket[s] \in SocketRows
      BY DEF TypeOK
    <3>0. Failed \in SocketRows
      BY <3>5 DEF SocketRows, SocketSteps
    <3>4. socket' = [socket EXCEPT ![s] = Failed]
      BY <2>3 DEF FailConnect
    <3> HIDE DEF Failed
    <3>1. socket' \in [Sockets -> SocketRows]
      BY <3>0, <3>4 DEF TypeOK
    <3>2. presence' \subseteq Users
      BY <2>3 DEF FailConnect, TypeOK, SocketRows
    <3>3. mishaps' \in Nat
      BY <2>3 DEF FailConnect, Mishap, TypeOK
    <3> QED BY <2>3, <3>1, <3>2, <3>3 DEF FailConnect, Connected, TypeOK, transit
  <2>4. CASE Subscribe(s)
    BY <2>4 DEF Subscribe, TypeOK, transit
  <2>5. CASE Unsubscribe(s)
    BY <2>5 DEF Unsubscribe, TypeOK, transit
  <2>6. CASE LosePeer(s)
    BY <2>6 DEF LosePeer, TypeOK, hubs, transit, SocketRows
  <2>7. CASE Close(s)
    BY <2>7 DEF Close, Disconnected, TypeOK, transit, SocketRows, SocketSteps
  <2> QED BY <1>1, <2>1, <2>2, <2>3, <2>4, <2>5, <2>6, <2>7 DEF Serve
<1>2. ASSUME NEW e \in Events, Carry(e) PROVE TypeOK'
  <2>1. CASE Publish(e)
    BY <2>1 DEF Publish, TypeOK, hubs, EventSteps
  <2>2. CASE FailPublish(e)
    <3>1. event' \in [Events -> [step : EventSteps, at : Replicas]]
      BY <2>2 DEF FailPublish, TypeOK, EventSteps
    <3>2. mishaps' \in Nat
      BY <2>2 DEF FailPublish, Mishap, TypeOK
    <3> QED BY <2>2, <3>1, <3>2 DEF FailPublish, TypeOK, hubs
  <2>3. ASSUME NEW p \in Replicas, Broadcast(e, p) PROVE TypeOK'
    BY <2>3 DEF Broadcast, TypeOK, hubs, EventSteps, RoomAt
  <2>4. ASSUME NEW p \in Replicas, Receive(p, e) PROVE TypeOK'
    BY <2>4 DEF Receive, TypeOK, hubs, RoomAt
  <2>5. ASSUME NEW p \in Replicas, NEW s \in Sockets, Send(p, e, s) PROVE TypeOK'
    <3>1. sending' \in [Replicas -> [Events -> SUBSET Sockets]]
      BY <2>5 DEF Send, TypeOK
    <3>4. got[s][e] + 1 \in Nat /\ got[s] \in [Events -> Nat]
      BY DEF TypeOK
    <3>5. [got[s] EXCEPT ![e] = @ + 1] \in [Events -> Nat]
      BY <3>4
    <3>6. got' = got \/ got' = [got EXCEPT ![s] = [got[s] EXCEPT ![e] = @ + 1]]
      BY <2>5 DEF Send
    <3>2. got' \in [Sockets -> [Events -> Nat]]
      BY <3>5, <3>6 DEF TypeOK
    <3>3. /\ connections' \subseteq Sockets /\ rooms' \subseteq Sockets
          /\ roomSockets' \subseteq Sockets /\ awaiting' \in [Events -> SUBSET Sockets]
      BY <2>5 DEF Send, Disconnected, TypeOK, hubs
    <3> QED BY <2>5, <3>1, <3>2, <3>3 DEF Send, TypeOK
  <2> QED BY <1>2, <2>1, <2>2, <2>3, <2>4, <2>5 DEF Carry
<1>3. ASSUME NEW u \in Users, ChangeMembership(u) PROVE TypeOK'
  BY <1>3 DEF ChangeMembership, TypeOK, hubs, transit
<1>4. ASSUME NEW p \in Replicas, StopListening(p) PROVE TypeOK'
  BY <1>4 DEF StopListening, Mishap, TypeOK, hubs
<1>5. ASSUME NEW p \in Replicas, Crash(p) PROVE TypeOK'
  <2>1. socket' \in [Sockets -> SocketRows]
    <3>1. \A s \in Sockets : [socket[s] EXCEPT !.step = "closed", !.alive = FALSE] \in SocketRows
      BY DEF TypeOK, SocketRows, SocketSteps
    <3> QED BY <1>5, <3>1 DEF Crash, TypeOK
  <2>2. event' \in [Events -> [step : EventSteps, at : Replicas]]
    <3>1. \A e \in Events : [event[e] EXCEPT !.step = "done"] \in [step : EventSteps, at : Replicas]
      BY DEF TypeOK, EventSteps
    <3> QED BY <1>5, <3>1 DEF Crash, TypeOK
  <2>3. /\ connections' \subseteq Sockets /\ rooms' \subseteq Sockets
        /\ roomSockets' \subseteq Sockets /\ awaiting' \in [Events -> SUBSET Sockets]
    BY <1>5 DEF Crash, Disconnected, TypeOK
  <2>4. sending' \in [Replicas -> [Events -> SUBSET Sockets]] /\ inbox' \in [Replicas -> SUBSET Events]
    BY <1>5 DEF Crash, TypeOK
  <2>5. mishaps' \in Nat
    <3>1. mishaps \in Nat /\ mishaps' = mishaps + 1
      BY <1>5 DEF Crash, Mishap, TypeOK
    <3> QED BY <3>1
  <2> QED BY <1>5, <2>1, <2>2, <2>3, <2>4, <2>5 DEF Crash, TypeOK
<1>6. CASE UNCHANGED vars
  BY <1>6 DEF vars, TypeOK
<1> QED BY <1>1, <1>2, <1>3, <1>4, <1>5, <1>6 DEF Next

\* The initial states have the types.
LEMMA TypeInit == Init => TypeOK
<1> SUFFICES ASSUME Init PROVE TypeOK
  OBVIOUS
<1>1. (CHOOSE u \in Users : TRUE) \in Users /\ (CHOOSE p \in Replicas : TRUE) \in Replicas
  BY SomebodySomewhere
<1>2. socket \in [Sockets -> SocketRows]
  BY <1>1 DEF Init, SocketRows, SocketSteps
<1>3. event \in [Events -> [step : EventSteps, at : Replicas]]
  BY <1>1 DEF Init, EventSteps
<1> QED BY <1>2, <1>3 DEF Init, TypeOK

\* The type invariant holds for every set of users, sockets, replicas and events.
THEOREM TypeCorrect == Spec => []TypeOK
  BY TypeInit, TypeStep, PTL DEF Spec

-----------------------------------------------------------------------------
(* What a step does to a socket, an event and what was got.                *)

\* Serving a socket does not touch what is carried; the socket stays where it
\* is, or is opened.
LEMMA ServeKeeps ==
  ASSUME TypeOK, NEW s \in Sockets, Serve(s)
  PROVE  /\ UNCHANGED <<sending, got, event, inbox>>
         /\ \A r \in Sockets \ {s} : socket'[r] = socket[r]
         /\ \/ socket'[s].at = socket[s].at /\ (socket'[s].step = "new" <=> socket[s].step = "new")
            \/ socket[s].step = "new" /\ socket'[s].step # "new"
<1>1. ASSUME NEW u \in Users, NEW p \in Replicas, Open(s, u, p)
      PROVE  /\ UNCHANGED <<sending, got, event, inbox>>
             /\ \A r \in Sockets \ {s} : socket'[r] = socket[r]
             /\ socket[s].step = "new" /\ socket'[s].step # "new"
  BY <1>1 DEF Open, transit, TypeOK
<1>2. CASE Connect(s)
  BY <1>2 DEF Connect, transit, TypeOK, SocketRows
<1>3. CASE FailConnect(s)
  BY <1>3 DEF FailConnect, transit, TypeOK, SocketRows
<1>4. CASE LosePeer(s)
  BY <1>4 DEF LosePeer, transit, TypeOK, SocketRows
<1>5. CASE Close(s)
  BY <1>5 DEF Close, transit, TypeOK, SocketRows
<1>6. CASE Subscribe(s) \/ Unsubscribe(s)
  BY <1>6 DEF Subscribe, Unsubscribe, transit
<1> QED BY <1>1, <1>2, <1>3, <1>4, <1>5, <1>6 DEF Serve

\* While a socket is served it is registered only once it was opened.
LEMMA ServeRegisters ==
  ASSUME TypeOK, Opened, NEW s \in Sockets, Serve(s)
  PROVE  /\ IndexesAgree'
         /\ connections' \subseteq connections \cup {s}
         /\ s \in connections' => socket'[s].step # "new"
<1>0. rooms = roomSockets /\ rooms \subseteq connections /\ \A r \in connections : socket[r].step # "new"
  BY DEF Opened, IndexesAgree
<1>1. ASSUME NEW u \in Users, NEW p \in Replicas, Open(s, u, p)
      PROVE  UNCHANGED hubs /\ s \notin connections
  BY <1>0, <1>1 DEF Open
<1>2. CASE Connect(s)
  BY <1>0, <1>2 DEF Connect, Connected, TypeOK, SocketRows, IndexesAgree
<1>3. CASE FailConnect(s)
  BY <1>0, <1>3 DEF FailConnect, Connected, TypeOK, SocketRows, IndexesAgree
<1>4. CASE LosePeer(s)
  BY <1>0, <1>4 DEF LosePeer, hubs, TypeOK, SocketRows, IndexesAgree
<1>5. CASE Close(s)
  BY <1>0, <1>5 DEF Close, Disconnected, IndexesAgree
<1>6. CASE Subscribe(s)
  BY <1>0, <1>6 DEF Subscribe, IndexesAgree
<1>7. CASE Unsubscribe(s)
  BY <1>0, <1>7 DEF Unsubscribe, IndexesAgree
<1> QED BY <1>0, <1>1, <1>2, <1>3, <1>4, <1>5, <1>6, <1>7 DEF Serve, hubs, IndexesAgree

\* The replica that crashes closes the sockets it had, and no other.
LEMMA CrashCloses ==
  ASSUME TypeOK, NEW p \in Replicas, Crash(p)
  PROVE  \A s \in Sockets :
           socket'[s].at = socket[s].at /\ (socket'[s].step = "new" <=> socket[s].step = "new")
<1> SUFFICES ASSUME NEW s \in Sockets
             PROVE  socket'[s].at = socket[s].at /\ (socket'[s].step = "new" <=> socket[s].step = "new")
  OBVIOUS
<1>1. CASE socket[s].step # "new" /\ socket[s].at = p
  BY <1>1 DEF Crash, TypeOK, SocketRows
<1>2. CASE ~(socket[s].step # "new" /\ socket[s].at = p)
  BY <1>2 DEF Crash, TypeOK
<1> QED BY <1>1, <1>2

\* No step lets the indexes disagree, or registers a socket that was not opened.
LEMMA OpenedStep ==
  TypeOK /\ Opened /\ (\A e \in Events : Coming(e)) /\ [Next]_vars => Opened'
<1> SUFFICES ASSUME TypeOK, Opened, \A e \in Events : Coming(e), [Next]_vars PROVE Opened'
  OBVIOUS
<1>0. /\ rooms = roomSockets /\ rooms \subseteq connections /\ connections \subseteq Sockets
      /\ \A s \in connections : socket[s].step # "new"
      /\ \A s \in Sockets : socket[s].step = "new" => \A e \in Events : got[s][e] = 0
  BY DEF Opened, IndexesAgree, TypeOK
<1>1. ASSUME NEW s \in Sockets, Serve(s) PROVE Opened'
  <2>1. got' = got /\ \A r \in Sockets \ {s} : socket'[r] = socket[r]
    BY <1>1, ServeKeeps
  <2>2. socket'[s].step = "new" => socket[s].step = "new"
    BY <1>1, ServeKeeps
  <2>3. /\ IndexesAgree' /\ connections' \subseteq connections \cup {s}
        /\ s \in connections' => socket'[s].step # "new"
    BY <1>1, ServeRegisters
  <2>4. ASSUME NEW r \in Sockets, socket'[r].step = "new" PROVE \A e \in Events : got'[r][e] = 0
    BY <1>0, <2>1, <2>2, <2>4
  <2>5. ASSUME NEW r \in connections' PROVE socket'[r].step # "new"
    BY <1>0, <2>1, <2>3, <2>5
  <2> QED BY <2>3, <2>4, <2>5 DEF Opened
<1>2. ASSUME NEW e \in Events, Carry(e) PROVE Opened'
  <2>1. CASE Publish(e)
    BY <1>0, <2>1 DEF Publish, hubs, Opened, IndexesAgree
  <2>2. CASE FailPublish(e)
    BY <1>0, <2>2 DEF FailPublish, hubs, Opened, IndexesAgree
  <2>3. ASSUME NEW p \in Replicas, Broadcast(e, p) PROVE Opened'
    BY <1>0, <2>3 DEF Broadcast, hubs, Opened, IndexesAgree
  <2>4. ASSUME NEW p \in Replicas, Receive(p, e) PROVE Opened'
    BY <1>0, <2>4 DEF Receive, hubs, Opened, IndexesAgree
  <2>5. ASSUME NEW p \in Replicas, NEW s \in Sockets, Send(p, e, s) PROVE Opened'
    <3>1. IndexesAgree' /\ connections' \subseteq connections /\ socket' = socket
      BY <1>0, <2>5 DEF Send, Disconnected, hubs, IndexesAgree
    <3>2. socket[s].step # "new"
      BY <2>5 DEF Send, Coming
    <3>3. \A r \in Sockets \ {s} : got'[r] = got[r]
      BY <2>5 DEF Send, TypeOK
    <3> QED BY <1>0, <3>1, <3>2, <3>3 DEF Opened
  <2> QED BY <1>2, <2>1, <2>2, <2>3, <2>4, <2>5 DEF Carry
<1>3. ASSUME NEW u \in Users, ChangeMembership(u) PROVE Opened'
  BY <1>0, <1>3 DEF ChangeMembership, hubs, Opened, IndexesAgree
<1>4. ASSUME NEW p \in Replicas, StopListening(p) PROVE Opened'
  BY <1>0, <1>4 DEF StopListening, hubs, Opened, IndexesAgree
<1>5. ASSUME NEW p \in Replicas, Crash(p) PROVE Opened'
  <2>1. got' = got /\ IndexesAgree' /\ connections' \subseteq connections
    BY <1>0, <1>5 DEF Crash, Disconnected, IndexesAgree
  <2>2. \A s \in Sockets : socket'[s].step = "new" <=> socket[s].step = "new"
    BY <1>5, CrashCloses
  <2> QED BY <1>0, <2>1, <2>2 DEF Opened
<1>6. CASE UNCHANGED vars
  BY <1>0, <1>6 DEF vars, Opened, IndexesAgree
<1> QED BY <1>1, <1>2, <1>3, <1>4, <1>5, <1>6 DEF Next

-----------------------------------------------------------------------------
(* An event comes to each replica once.                                    *)

\* Nothing about an event is disturbed when it is not carried and the sockets
\* stay where they are or are opened.
LEMMA Undisturbed ==
  ASSUME TypeOK, Opened, NEW e \in Events, Coming(e),
         UNCHANGED <<sending, got, event, inbox>>,
         \A s \in Sockets :
           \/ socket'[s].at = socket[s].at /\ (socket'[s].step = "new" <=> socket[s].step = "new")
           \/ socket[s].step = "new" /\ socket'[s].step # "new"
  PROVE  Coming(e)'
<1>1. ASSUME NEW p \in Replicas, Untouched(p, e) PROVE Untouched(p, e)'
  BY <1>1 DEF Untouched, Opened
<1>2. ASSUME NEW p \in Replicas, NEW s \in sending'[p][e]
      PROVE  socket'[s].at = p /\ socket'[s].step # "new" /\ got'[s][e] = 0
  <2>1. s \in Sockets
    BY <1>2 DEF TypeOK
  <2> QED BY <1>2, <2>1 DEF Coming
<1> QED BY <1>1, <1>2 DEF Coming

\* An event that is not broadcast, published, received or sent is not touched,
\* whatever the others do.
LEMMA Elsewhere ==
  ASSUME TypeOK, NEW e \in Events, Coming(e), socket' = socket, event'[e] = event[e],
         \A p \in Replicas : sending'[p][e] = sending[p][e] /\ (e \in inbox'[p] => e \in inbox[p]),
         \A s \in Sockets : got'[s][e] = got[s][e]
  PROVE  Coming(e)'
<1>1. ASSUME NEW p \in Replicas, Untouched(p, e) PROVE Untouched(p, e)'
  BY <1>1 DEF Untouched
<1>2. ASSUME NEW p \in Replicas, NEW s \in sending'[p][e]
      PROVE  socket'[s].at = p /\ socket'[s].step # "new" /\ got'[s][e] = 0
  <2>1. s \in Sockets
    BY <1>2 DEF TypeOK
  <2> QED BY <1>2, <2>1 DEF Coming
<1> QED BY <1>1, <1>2 DEF Coming

\* What is carried of the event that a replica broadcasts.
LEMMA BroadcastComes ==
  ASSUME TypeOK, Opened, NEW e \in Events, Coming(e), NEW p \in Replicas, Broadcast(e, p)
  PROVE  Coming(e)'
<1>1. /\ event[e].step = "new" /\ event'[e].step = "local" /\ event'[e].at = p
      /\ sending'[p][e] = RoomAt(p) /\ \A q \in Replicas \ {p} : sending'[q] = sending[q]
      /\ UNCHANGED <<socket, got, inbox>>
  BY DEF Broadcast, TypeOK
<1>2. \A q \in Replicas : Untouched(q, e) /\ e \notin inbox[q]
  BY <1>1 DEF Coming
<1>3. \A q \in Replicas \ {p} : Untouched(q, e)'
  BY <1>1, <1>2 DEF Untouched
<1>4. ASSUME NEW q \in Replicas, NEW s \in sending'[q][e]
      PROVE  socket'[s].at = q /\ socket'[s].step # "new" /\ got'[s][e] = 0
  <2>1. q = p /\ s \in RoomAt(p)
    BY <1>1, <1>2, <1>4 DEF Untouched
  <2>2. s \in Sockets /\ socket[s].step # "new" /\ socket[s].at = p
    BY <2>1 DEF RoomAt, Opened, IndexesAgree, TypeOK
  <2> QED BY <1>1, <1>2, <2>1, <2>2 DEF Untouched
<1> QED BY <1>1, <1>2, <1>3, <1>4 DEF Coming

\* What is carried of the event that a replica takes out of its inbox: its own
\* is dropped, another's had not come.
LEMMA ReceiveComes ==
  ASSUME TypeOK, Opened, NEW e \in Events, Coming(e), NEW p \in Replicas, Receive(p, e)
  PROVE  Coming(e)'
<1>1. /\ e \in inbox[p] /\ event[e].step = "done" /\ event' = event
      /\ e \notin inbox'[p] /\ \A q \in Replicas \ {p} : inbox'[q] = inbox[q] /\ sending'[q] = sending[q]
      /\ UNCHANGED <<socket, got>>
      /\ IF event[e].at = p THEN sending'[p][e] = sending[p][e] ELSE sending'[p][e] = RoomAt(p)
  BY DEF Receive, Coming, TypeOK, EventSteps
<1>2. ASSUME NEW q \in Replicas, q # p, Untouched(q, e) PROVE Untouched(q, e)'
  BY <1>1, <1>2 DEF Untouched
<1>3. ASSUME NEW q \in Replicas, NEW s \in sending'[q][e]
      PROVE  socket'[s].at = q /\ socket'[s].step # "new" /\ got'[s][e] = 0
  <2>1. CASE s \in sending[q][e]
    BY <1>1, <2>1 DEF Coming
  <2>2. CASE s \notin sending[q][e]
    <3>1. q = p /\ event[e].at # p /\ s \in RoomAt(p)
      BY <1>1, <1>3, <2>2
    <3>2. s \in Sockets /\ socket[s].step # "new" /\ socket[s].at = p
      BY <3>1 DEF RoomAt, Opened, IndexesAgree, TypeOK
    <3>3. Untouched(p, e)
      BY <1>1, <3>1 DEF Coming
    <3> QED BY <1>1, <3>1, <3>2, <3>3 DEF Untouched
  <2> QED BY <2>1, <2>2
<1> QED BY <1>1, <1>2, <1>3 DEF Coming

\* What is carried of the event that a replica sends to a socket.
LEMMA SendComes ==
  ASSUME TypeOK, Opened, NEW e \in Events, Coming(e),
         NEW p \in Replicas, NEW s \in Sockets, Send(p, e, s)
  PROVE  Coming(e)'
<1>1. /\ s \in sending[p][e] /\ sending'[p][e] = sending[p][e] \ {s}
      /\ \A q \in Replicas \ {p} : sending'[q] = sending[q]
      /\ \A r \in Sockets \ {s} : got'[r] = got[r]
      /\ UNCHANGED <<socket, event, inbox>>
  BY DEF Send, TypeOK
<1>2. socket[s].at = p /\ ~Untouched(p, e)
  BY <1>1 DEF Coming, Untouched
<1>3. ASSUME NEW q \in Replicas, Untouched(q, e) PROVE Untouched(q, e)'
  <2>1. q # p
    BY <1>2, <1>3
  <2> QED BY <1>1, <1>2, <1>3, <2>1 DEF Untouched
<1>4. ASSUME NEW q \in Replicas, NEW r \in sending'[q][e]
      PROVE  socket'[r].at = q /\ socket'[r].step # "new" /\ got'[r][e] = 0
  <2>1. r \in sending[q][e] /\ r # s /\ r \in Sockets
    BY <1>1, <1>2, <1>4 DEF Coming, TypeOK
  <2> QED BY <1>1, <2>1 DEF Coming
<1> QED BY <1>1, <1>2, <1>3, <1>4 DEF Coming

\* When a broadcast ends, the event comes to the replicas that it had not
\* come to, at most.
LEMMA PublishComes ==
  ASSUME TypeOK, NEW e \in Events, Coming(e), Publish(e) \/ FailPublish(e)
  PROVE  Coming(e)'
<1>1. /\ event[e].step = "local" /\ event'[e].step = "done" /\ event'[e].at = event[e].at
      /\ UNCHANGED <<socket, got, sending>>
  BY DEF Publish, FailPublish, Sent, TypeOK
<1>2. \A q \in Replicas : q # event[e].at => Untouched(q, e)'
  BY <1>1 DEF Coming, Untouched
<1>3. ASSUME NEW q \in Replicas, NEW s \in sending'[q][e]
      PROVE  socket'[s].at = q /\ socket'[s].step # "new" /\ got'[s][e] = 0
  <2>1. s \in Sockets
    BY <1>1, <1>3 DEF TypeOK
  <2> QED BY <1>1, <1>3, <2>1 DEF Coming
<1> QED BY <1>1, <1>2, <1>3 DEF Coming

\* What a crash leaves of an event: nothing on its way to the replica.
LEMMA CrashComes ==
  ASSUME TypeOK, NEW e \in Events, Coming(e), NEW p \in Replicas, Crash(p)
  PROVE  Coming(e)'
<1>1. /\ got' = got /\ event'[e].at = event[e].at
      /\ sending'[p][e] = {} /\ \A q \in Replicas \ {p} : sending'[q] = sending[q]
      /\ \A q \in Replicas : e \in inbox'[q] => e \in inbox[q]
      /\ event'[e].step = "local" => event[e].step = "local"
      /\ event'[e].step = "new" => event[e].step = "new"
      /\ event'[e].step # "done" => event[e].step # "done"
  BY DEF Crash, TypeOK
<1>2. \A s \in Sockets :
        socket'[s].at = socket[s].at /\ (socket'[s].step = "new" <=> socket[s].step = "new")
  BY CrashCloses
<1>3. ASSUME NEW q \in Replicas, Untouched(q, e) PROVE Untouched(q, e)'
  BY <1>1, <1>2, <1>3 DEF Untouched
<1>4. ASSUME NEW q \in Replicas, NEW s \in sending'[q][e]
      PROVE  socket'[s].at = q /\ socket'[s].step # "new" /\ got'[s][e] = 0
  <2>1. s \in sending[q][e]
    BY <1>1, <1>4
  <2>2. s \in Sockets
    BY <2>1 DEF TypeOK
  <2> QED BY <1>1, <1>2, <2>1, <2>2 DEF Coming
<1> QED BY <1>1, <1>3, <1>4 DEF Coming

\* Carrying one event does not touch another.
LEMMA CarryOthers ==
  ASSUME TypeOK, NEW e \in Events, NEW d \in Events, Carry(d), d # e
  PROVE  /\ socket' = socket /\ event'[e] = event[e]
         /\ \A p \in Replicas : sending'[p][e] = sending[p][e] /\ (e \in inbox'[p] => e \in inbox[p])
         /\ \A s \in Sockets : got'[s][e] = got[s][e]
<1> DEFINE Same == /\ socket' = socket /\ event'[e] = event[e]
                   /\ \A p \in Replicas : sending'[p][e] = sending[p][e] /\ (e \in inbox'[p] => e \in inbox[p])
                   /\ \A s \in Sockets : got'[s][e] = got[s][e]
<1>1. CASE Publish(d)
  BY <1>1 DEF Publish, TypeOK
<1>2. CASE FailPublish(d)
  BY <1>2 DEF FailPublish, TypeOK
<1>3. ASSUME NEW p \in Replicas, Broadcast(d, p) PROVE Same
  BY <1>3 DEF Broadcast, TypeOK
<1>4. ASSUME NEW p \in Replicas, Receive(p, d) PROVE Same
  BY <1>4 DEF Receive, TypeOK
<1>5. ASSUME NEW p \in Replicas, NEW s \in Sockets, Send(p, d, s) PROVE Same
  <2>1. socket' = socket /\ event' = event /\ inbox' = inbox
    BY <1>5 DEF Send
  <2>2. \A q \in Replicas : sending'[q][e] = sending[q][e]
    BY <1>5 DEF Send, TypeOK
  <2>3. \A r \in Sockets : got'[r][e] = got[r][e]
    BY <1>5 DEF Send, TypeOK
  <2> QED BY <2>1, <2>2, <2>3
<1> QED BY <1>1, <1>2, <1>3, <1>4, <1>5 DEF Carry

\* Every step keeps what is known of every event.
LEMMA ComingStep ==
  ASSUME TypeOK, Opened, \A e \in Events : Coming(e), [Next]_vars
  PROVE  \A e \in Events : Coming(e)'
<1> SUFFICES ASSUME NEW e \in Events PROVE Coming(e)'
  OBVIOUS
<1>1. ASSUME NEW s \in Sockets, Serve(s) PROVE Coming(e)'
  <2>1. UNCHANGED <<sending, got, event, inbox>>
    BY <1>1, ServeKeeps
  <2>2. \A r \in Sockets :
          \/ socket'[r].at = socket[r].at /\ (socket'[r].step = "new" <=> socket[r].step = "new")
          \/ socket[r].step = "new" /\ socket'[r].step # "new"
    BY <1>1, ServeKeeps
  <2> QED BY <2>1, <2>2, Undisturbed
<1>2. ASSUME NEW d \in Events, Carry(d), d # e PROVE Coming(e)'
  BY <1>2, CarryOthers, Elsewhere
<1>3. ASSUME Carry(e) PROVE Coming(e)'
  BY <1>3, BroadcastComes, ReceiveComes, SendComes, PublishComes DEF Carry
<1>4. ASSUME NEW u \in Users, ChangeMembership(u) PROVE Coming(e)'
  <2>1. UNCHANGED <<sending, got, event, inbox, socket>>
    BY <1>4 DEF ChangeMembership, transit
  <2> QED BY <2>1, Undisturbed
<1>5. ASSUME NEW p \in Replicas, StopListening(p) PROVE Coming(e)'
  <2>1. UNCHANGED <<sending, got, event, socket>> /\ \A q \in Replicas : e \in inbox'[q] => e \in inbox[q]
    BY <1>5 DEF StopListening, TypeOK
  <2> QED BY <2>1, Elsewhere
<1>6. ASSUME NEW p \in Replicas, Crash(p) PROVE Coming(e)'
  BY <1>6, CrashComes
<1>7. CASE UNCHANGED vars
  BY <1>7, Undisturbed DEF vars
<1> QED BY <1>1, <1>2, <1>3, <1>4, <1>5, <1>6, <1>7 DEF Next

\* Only a send lets a socket get an event, and the socket had not got it.
LEMMA OnceStep ==
  ASSUME TypeOK, \A e \in Events : Coming(e), AtMostOnce, [Next]_vars
  PROVE  AtMostOnce'
<1>1. ASSUME NEW e \in Events, NEW p \in Replicas, NEW s \in Sockets, Send(p, e, s) PROVE AtMostOnce'
  <2>1. got[s][e] = 0
    BY <1>1 DEF Send, Coming
  <2>2. \A r \in Sockets, d \in Events : (r = s /\ d = e) \/ got'[r][d] = got[r][d]
    BY <1>1 DEF Send, TypeOK
  <2>3. got'[s][e] = got[s][e] \/ got'[s][e] = got[s][e] + 1
    BY <1>1 DEF Send, TypeOK
  <2>4. got'[s][e] <= 1
    BY <2>1, <2>3
  <2> QED BY <2>2, <2>4 DEF AtMostOnce
<1>2. CASE got' = got
  BY <1>2 DEF AtMostOnce
<1>3. ASSUME NEW s \in Sockets, Serve(s) PROVE got' = got
  BY <1>3, ServeKeeps
<1>4. ASSUME NEW p \in Replicas, NEW e \in Events,
             Publish(e) \/ FailPublish(e) \/ Broadcast(e, p) \/ Receive(p, e) PROVE got' = got
  BY <1>4 DEF Publish, FailPublish, Broadcast, Receive
<1>5. ASSUME NEW e \in Events, Publish(e) \/ FailPublish(e) PROVE got' = got
  BY <1>5 DEF Publish, FailPublish
<1>6. ASSUME NEW u \in Users, ChangeMembership(u) PROVE got' = got
  BY <1>6 DEF ChangeMembership
<1>7. ASSUME NEW p \in Replicas, StopListening(p) \/ Crash(p) PROVE got' = got
  BY <1>7 DEF StopListening, Crash
<1>8. CASE UNCHANGED vars
  BY <1>8, <1>2 DEF vars
<1> QED BY <1>1, <1>2, <1>3, <1>4, <1>5, <1>6, <1>7, <1>8 DEF Next, Carry

\* The invariant holds at first and every step keeps it.
LEMMA Inductive == Spec => []IInv
<1>1. Init => IInv
  <2> SUFFICES ASSUME Init PROVE IInv
    OBVIOUS
  <2>1. TypeOK
    BY TypeInit
  <2>2. /\ \A s \in Sockets, e \in Events : got[s][e] = 0
        /\ \A p \in Replicas, e \in Events : sending[p][e] = {} /\ inbox[p] = {}
        /\ connections = {} /\ rooms = {} /\ roomSockets = {}
    BY DEF Init
  <2>3. Opened /\ AtMostOnce
    BY <2>2 DEF Opened, IndexesAgree, AtMostOnce
  <2>4. \A p \in Replicas, e \in Events : Untouched(p, e)
    BY <2>2 DEF Untouched
  <2>5. \A e \in Events : Coming(e)
    BY <2>2, <2>4 DEF Coming
  <2> QED BY <2>1, <2>3, <2>5 DEF IInv
<1>2. IInv /\ [Next]_vars => IInv'
  BY TypeStep, OpenedStep, ComingStep, OnceStep DEF IInv
<1> QED BY <1>1, <1>2, PTL DEF Spec

\* A socket is never left behind in a room after its disconnect, however many
\* connect, subscribe, leave and fail.
THEOREM Agree == Spec => []IndexesAgree
<1>1. IInv => IndexesAgree
  BY DEF IInv, Opened
<1> QED BY <1>1, Inductive, PTL

\* No socket gets an event twice, whatever fails on its way.
THEOREM Once == Spec => []AtMostOnce
<1>1. IInv => AtMostOnce
  BY DEF IInv
<1> QED BY <1>1, Inductive, PTL

-----------------------------------------------------------------------------
(* What holds unless something failed.                                     *)

\* Event e came to socket s, or is on its way to it.
Reached(s, e) ==
  \/ got[s][e] = 1
  \/ s \in sending[socket[s].at][e]
  \/ /\ socket[s].at # event[e].at
     /\ event[e].step = "local" \/ e \in inbox[socket[s].at]

\* Every replica listens, and an event reaches who is in the room all along.
Reaching(e) ==
  /\ event[e].step = "new" => awaiting[e] = {}
  /\ awaiting[e] \subseteq roomSockets
  /\ \A s \in awaiting[e] : Reached(s, e)

Delivering == mishaps = 0 => listening = Replicas /\ \A e \in Events : Reaching(e)

\* Serving a socket keeps the others in the room on the way of every event.
LEMMA ServeReaches ==
  ASSUME TypeOK, Opened, NEW e \in Events, Reaching(e), NEW s \in Sockets, Serve(s), ~FailConnect(s)
  PROVE  Reaching(e)'
<1>1. UNCHANGED <<sending, got, event, inbox>> /\ \A r \in Sockets \ {s} : socket'[r] = socket[r]
  BY ServeKeeps
<1>2. \/ socket'[s].at = socket[s].at
      \/ s \notin awaiting'[e]
  <2>1. ASSUME NEW u \in Users, NEW p \in Replicas, Open(s, u, p) PROVE s \notin awaiting'[e]
    <3>1. s \notin roomSockets /\ awaiting' = awaiting
      BY <2>1 DEF Open, Opened, IndexesAgree
    <3> QED BY <3>1 DEF Reaching
  <2>2. CASE socket[s].step # "new"
    BY <2>2, ServeKeeps
  <2> QED BY <2>1, <2>2 DEF Serve, Connect, FailConnect, Subscribe, Unsubscribe, LosePeer, Close
<1>3. awaiting'[e] \subseteq awaiting[e] /\ awaiting'[e] \subseteq roomSockets'
  <2>1. ASSUME NEW u \in Users, NEW p \in Replicas, Open(s, u, p) PROVE UNCHANGED <<awaiting, roomSockets>>
    BY <2>1 DEF Open, hubs
  <2>2. CASE Connect(s)
    BY <2>2 DEF Connect, Connected, Reaching
  <2>3. CASE Subscribe(s)
    BY <2>3 DEF Subscribe, Reaching
  <2>4. CASE Unsubscribe(s)
    BY <2>4 DEF Unsubscribe, Reaching
  <2>5. CASE LosePeer(s)
    BY <2>5 DEF LosePeer, hubs, Reaching
  <2>6. CASE Close(s)
    BY <2>6 DEF Close, Disconnected, Reaching
  <2> QED BY <2>1, <2>2, <2>3, <2>4, <2>5, <2>6 DEF Serve, Reaching
<1>4. awaiting[e] \subseteq Sockets
  BY DEF TypeOK
<1>5. ASSUME NEW r \in awaiting'[e] PROVE Reached(r, e)'
  <2>1. socket'[r].at = socket[r].at /\ Reached(r, e)
    BY <1>1, <1>2, <1>3, <1>4, <1>5 DEF Reaching
  <2> QED BY <1>1, <2>1 DEF Reached
<1> QED BY <1>1, <1>3, <1>5 DEF Reaching

\* When nothing fails, carrying an event brings it to who awaits it.
LEMMA CarryReaches ==
  ASSUME TypeOK, Opened, NEW e \in Events, Coming(e), Reaching(e), listening = Replicas,
         Carry(e), ~FailPublish(e)
  PROVE  Reaching(e)'
<1>0. awaiting[e] \subseteq Sockets /\ \A s \in Sockets : socket[s].at \in Replicas
  BY DEF TypeOK, SocketRows
<1>1. CASE Publish(e)
  <2>1. /\ event[e].step = "local" /\ event'[e].step = "done" /\ event'[e].at = event[e].at
        /\ \A p \in Replicas : e \in inbox'[p]
        /\ UNCHANGED <<socket, sending, got, awaiting, roomSockets>>
    BY <1>1 DEF Publish, Sent, TypeOK, hubs
  <2>2. ASSUME NEW s \in awaiting'[e] PROVE Reached(s, e)'
    BY <1>0, <2>1, <2>2 DEF Reaching, Reached
  <2> QED BY <2>1, <2>2 DEF Reaching
<1>2. ASSUME NEW p \in Replicas, Broadcast(e, p) PROVE Reaching(e)'
  <2>1. /\ event'[e].step = "local" /\ event'[e].at = p /\ sending'[p][e] = RoomAt(p)
        /\ awaiting'[e] = roomSockets /\ UNCHANGED <<socket, roomSockets>>
    BY <1>2 DEF Broadcast, TypeOK, hubs
  <2>2. ASSUME NEW s \in awaiting'[e] PROVE Reached(s, e)'
    <3>1. s \in roomSockets
      BY <2>1, <2>2
    <3>2. socket[s].at = p => s \in RoomAt(p)
      BY <3>1 DEF RoomAt
    <3> QED BY <2>1, <3>2 DEF Reached
  <2> QED BY <2>1, <2>2 DEF Reaching
<1>3. ASSUME NEW p \in Replicas, Receive(p, e) PROVE Reaching(e)'
  <2>1. /\ event' = event /\ UNCHANGED <<socket, got, awaiting, roomSockets>>
        /\ \A q \in Replicas \ {p} : inbox'[q] = inbox[q] /\ sending'[q] = sending[q]
        /\ sending'[p][e] = IF event[e].at = p THEN sending[p][e] ELSE RoomAt(p)
        /\ event[e].step # "new"
    BY <1>3 DEF Receive, Coming, TypeOK, hubs
  <2>2. ASSUME NEW s \in awaiting'[e] PROVE Reached(s, e)'
    <3>1. Reached(s, e) /\ s \in roomSockets /\ s \in Sockets
      BY <1>0, <2>1, <2>2 DEF Reaching
    <3>2. CASE socket[s].at # p
      BY <1>0, <2>1, <3>1, <3>2 DEF Reached
    <3>3. CASE socket[s].at = p /\ event[e].at # p
      BY <2>1, <3>1, <3>3 DEF Reached, RoomAt
    <3>4. CASE socket[s].at = p /\ event[e].at = p
      BY <2>1, <3>1, <3>4 DEF Reached
    <3> QED BY <3>2, <3>3, <3>4
  <2> QED BY <2>1, <2>2 DEF Reaching
<1>4. ASSUME NEW p \in Replicas, NEW s \in Sockets, Send(p, e, s) PROVE Reaching(e)'
  <2>1. /\ s \in sending[p][e] /\ sending'[p][e] = sending[p][e] \ {s}
        /\ \A q \in Replicas \ {p} : sending'[q] = sending[q]
        /\ \A r \in Sockets \ {s} : got'[r] = got[r]
        /\ UNCHANGED <<socket, event, inbox>>
    BY <1>4 DEF Send, TypeOK
  <2>2. socket[s].at = p /\ got[s][e] = 0 /\ event[e].step # "new"
    BY <2>1 DEF Coming, Untouched
  <2>3. awaiting'[e] \subseteq awaiting[e] /\ awaiting'[e] \subseteq roomSockets'
    BY <1>4 DEF Send, Disconnected, hubs, Reaching, TypeOK
  <2>4. s \in awaiting'[e] => got'[s][e] = 1
    <3>1. CASE socket[s].alive
      <4>1. got'[s][e] = got[s][e] + 1
        BY <1>4, <3>1 DEF Send, TypeOK
      <4> QED BY <2>2, <4>1
    <3>2. CASE ~socket[s].alive
      BY <1>4, <3>2 DEF Send, Disconnected, TypeOK
    <3> QED BY <3>1, <3>2
  <2>5. ASSUME NEW r \in awaiting'[e], r # s PROVE Reached(r, e)'
    <3>1. Reached(r, e) /\ r \in Sockets /\ socket[r].at \in Replicas
      BY <1>0, <2>3, <2>5 DEF Reaching
    <3>2. r \in sending[socket[r].at][e] => r \in sending'[socket[r].at][e]
      BY <2>1, <2>5, <3>1
    <3> QED BY <2>1, <2>5, <3>1, <3>2 DEF Reached
  <2>6. s \in awaiting'[e] => Reached(s, e)'
    BY <2>4 DEF Reached
  <2> QED BY <2>1, <2>2, <2>3, <2>5, <2>6 DEF Reaching
<1> QED BY <1>1, <1>2, <1>3, <1>4 DEF Carry

\* Carrying another event, at most a socket leaves the room.
LEMMA CarryKeepsReach ==
  ASSUME TypeOK, NEW e \in Events, Reaching(e), NEW d \in Events, Carry(d), d # e
  PROVE  Reaching(e)'
<1>0. awaiting[e] \subseteq Sockets /\ \A s \in Sockets : socket[s].at \in Replicas
  BY DEF TypeOK, SocketRows
<1>1. /\ socket' = socket /\ event'[e] = event[e]
      /\ \A p \in Replicas : sending'[p][e] = sending[p][e]
      /\ \A s \in Sockets : got'[s][e] = got[s][e]
  BY CarryOthers
<1>2. \A p \in Replicas : e \in inbox[p] => e \in inbox'[p]
  <2>1. CASE Publish(d)
    BY <2>1 DEF Publish, TypeOK
  <2>2. ASSUME NEW p \in Replicas, Receive(p, d) PROVE \A q \in Replicas : e \in inbox[q] => e \in inbox'[q]
    BY <2>2 DEF Receive, TypeOK
  <2>3. ASSUME NEW p \in Replicas, Broadcast(d, p) PROVE inbox' = inbox
    BY <2>3 DEF Broadcast
  <2>5. ASSUME NEW p \in Replicas, NEW s \in Sockets, Send(p, d, s) PROVE inbox' = inbox
    BY <2>5 DEF Send
  <2>4. CASE FailPublish(d)
    BY <2>4 DEF FailPublish
  <2> QED BY <2>1, <2>2, <2>3, <2>4, <2>5 DEF Carry
<1>3. awaiting'[e] \subseteq awaiting[e] /\ awaiting'[e] \subseteq roomSockets'
  <2>1. CASE Publish(d) \/ FailPublish(d)
    BY <2>1 DEF Publish, FailPublish, hubs, Reaching
  <2>2. ASSUME NEW p \in Replicas, Receive(p, d) PROVE UNCHANGED <<awaiting, roomSockets>>
    BY <2>2 DEF Receive, hubs
  <2>3. ASSUME NEW p \in Replicas, Broadcast(d, p) PROVE awaiting'[e] = awaiting[e] /\ roomSockets' = roomSockets
    BY <2>3 DEF Broadcast, hubs, TypeOK
  <2>4. ASSUME NEW p \in Replicas, NEW s \in Sockets, Send(p, d, s)
        PROVE  awaiting'[e] \subseteq awaiting[e] /\ awaiting'[e] \subseteq roomSockets'
    BY <2>4 DEF Send, Disconnected, hubs, Reaching, TypeOK
  <2> QED BY <2>1, <2>2, <2>3, <2>4 DEF Carry, Reaching
<1>4. ASSUME NEW r \in awaiting'[e] PROVE Reached(r, e)'
  <2>1. Reached(r, e) /\ r \in Sockets
    BY <1>0, <1>3, <1>4 DEF Reaching
  <2> QED BY <1>0, <1>1, <1>2, <2>1 DEF Reached
<1> QED BY <1>1, <1>3, <1>4 DEF Reaching

\* Until something fails, every step keeps every event on its way.
LEMMA DeliveringStep ==
  ASSUME TypeOK, Opened, \A e \in Events : Coming(e), Delivering, [Next]_vars
  PROVE  Delivering'
<1> SUFFICES ASSUME mishaps' = 0 PROVE listening' = Replicas /\ \A e \in Events : Reaching(e)'
  BY DEF Delivering
<1>0. mishaps \in Nat /\ mishaps + 1 # 0
  BY DEF TypeOK
<1>1. ASSUME NEW s \in Sockets, Serve(s) PROVE mishaps' = mishaps /\ listening' = listening /\ ~FailConnect(s)
  <2>1. ~FailConnect(s)
    BY <1>0 DEF FailConnect, Mishap
  <2> QED BY <1>1, <2>1 DEF Serve, Open, Connect, Subscribe, Unsubscribe, LosePeer, Close, transit
<1>2. ASSUME NEW d \in Events, Carry(d) PROVE mishaps' = mishaps /\ listening' = listening /\ ~FailPublish(d)
  <2>1. ~FailPublish(d)
    BY <1>0 DEF FailPublish, Mishap
  <2> QED BY <1>2, <2>1 DEF Carry, Publish, Broadcast, Receive, Send
<1>3. ASSUME NEW p \in Replicas, StopListening(p) \/ Crash(p) PROVE FALSE
  BY <1>0, <1>3 DEF StopListening, Crash, Mishap
<1>4. ASSUME NEW u \in Users, ChangeMembership(u)
      PROVE  UNCHANGED <<mishaps, listening, awaiting, roomSockets, got, sending, inbox, event, socket>>
  BY <1>4 DEF ChangeMembership, transit, hubs
<1>5. ASSUME UNCHANGED vars PROVE mishaps' = mishaps /\ listening' = listening
  BY <1>5 DEF vars
<1>6. mishaps = 0 /\ listening' = listening
  BY <1>1, <1>2, <1>3, <1>4, <1>5 DEF Next, vars
<1>7. listening = Replicas /\ \A e \in Events : Reaching(e)
  BY <1>6 DEF Delivering
<1>8. ASSUME NEW e \in Events PROVE Reaching(e)'
  <2>1. ASSUME NEW s \in Sockets, Serve(s) PROVE Reaching(e)'
    BY <1>1, <1>7, <2>1, ServeReaches
  <2>2. ASSUME NEW d \in Events, Carry(d) PROVE Reaching(e)'
    <3>1. CASE d = e
      BY <1>2, <1>7, <2>2, <3>1, CarryReaches
    <3>2. CASE d # e
      BY <1>7, <2>2, <3>2, CarryKeepsReach
    <3> QED BY <3>1, <3>2
  <2>3. CASE UNCHANGED <<awaiting, roomSockets, got, sending, inbox, event, socket>>
    BY <1>7, <2>3 DEF Reaching, Reached
  <2> QED BY <1>3, <1>4, <2>1, <2>2, <2>3 DEF Next, vars
<1> QED BY <1>6, <1>7, <1>8

\* Unless something fails, everyone who stays in the room gets every event.
THEOREM Complete == Spec => []FanOutComplete
<1>1. Init => Delivering
  BY DEF Init, Delivering, Reaching
<1>2. IInv /\ Delivering /\ [Next]_vars => Delivering'
  BY DeliveringStep DEF IInv
<1>3. IInv /\ Delivering => FanOutComplete
  <2> SUFFICES ASSUME IInv, Delivering, mishaps = 0, NEW e \in Events, Carried(e), NEW s \in awaiting[e]
               PROVE  got[s][e] = 1
    BY DEF FanOutComplete
  <2>1. Reached(s, e) /\ s \in Sockets /\ socket[s].at \in Replicas
    BY DEF Delivering, Reaching, IInv, TypeOK, SocketRows
  <2> QED BY <2>1 DEF Reached, Carried
<1> QED BY <1>1, <1>2, <1>3, Inductive, PTL DEF Spec

\* A registered connection is open unless something failed.
Registered == mishaps = 0 => \A s \in connections : socket[s].step = "open"

Present == Registered /\ PresenceMatches

\* Until something fails, every step keeps presence and connections together.
LEMMA PresentStep ==
  ASSUME TypeOK, Opened, \A e \in Events : Coming(e), Present, [Next]_vars
  PROVE  Present'
<1> SUFFICES ASSUME mishaps' = 0 PROVE Present'
  BY DEF Present, Registered, PresenceMatches
<1> DEFINE Only(u, p) == \A s \in Sockets : socket[s].step # "new" /\ socket[s].user = u => socket[s].at = p
           Witnessed == \A u \in presence : \E s \in Sockets : socket[s].step = "open" /\ socket[s].user = u
           Seen == \A u \in Users, p \in Replicas : Only(u, p) => (OnlineAt(p, u) => u \in presence)
<1>0. mishaps \in Nat /\ mishaps + 1 # 0 /\ connections \subseteq Sockets
  BY DEF TypeOK
<1>a. ASSUME mishaps = 0
      PROVE  (\A s \in connections : socket[s].step = "open") /\ Witnessed /\ Seen
  BY <1>a DEF Present, Registered, PresenceMatches
<1>b. ASSUME (\A s \in connections' : socket'[s].step = "open"), Witnessed', Seen' PROVE Present'
  BY <1>b DEF Present, Registered, PresenceMatches
<1>c. ASSUME UNCHANGED <<mishaps, presence, socket>>, connections' \subseteq connections PROVE Present'
  <2>1. (\A s \in connections : socket[s].step = "open") /\ Witnessed /\ Seen
    BY <1>a, <1>c
  <2>2. \A s \in connections' : socket'[s].step = "open"
    BY <1>c, <2>1
  <2>3. Witnessed'
    BY <1>c, <2>1
  <2>4. Seen'
    BY <1>c, <2>1 DEF OnlineAt
  <2> QED BY <1>b, <2>2, <2>3, <2>4
<1>1. ASSUME NEW s \in Sockets, NEW u \in Users, NEW p \in Replicas, Open(s, u, p) PROVE Present'
  <2>0. mishaps = 0
    BY <1>1 DEF Open
  <2>1. /\ socket[s].step = "new" /\ socket'[s].step # "new" /\ s \notin connections
        /\ \A r \in Sockets \ {s} : socket'[r] = socket[r]
        /\ UNCHANGED <<connections, presence>>
    BY <1>1 DEF Open, TypeOK, hubs, Opened
  <2>2. (\A r \in connections : socket[r].step = "open") /\ Witnessed /\ Seen
    BY <1>a, <2>0
  <2>3. \A r \in connections' : socket'[r].step = "open"
    BY <1>0, <2>1, <2>2
  <2>4. Witnessed'
    BY <2>1, <2>2
  <2>5. Seen'
    <3> SUFFICES ASSUME NEW v \in Users, NEW q \in Replicas, Only(v, q)', OnlineAt(q, v)'
                 PROVE  v \in presence'
      OBVIOUS
    <3>1. Only(v, q)
      BY <2>1
    <3>2. OnlineAt(q, v)
      BY <1>0, <2>1 DEF OnlineAt
    <3> QED BY <2>1, <2>2, <3>1, <3>2
  <2> QED BY <1>b, <2>3, <2>4, <2>5
<1>2. ASSUME NEW s \in Sockets, Connect(s) PROVE Present'
  <2>0. mishaps = 0
    BY <1>2 DEF Connect
  <2>1. /\ socket[s].step = "accepting" /\ socket'[s].step = "open"
        /\ socket'[s].user = socket[s].user /\ socket'[s].at = socket[s].at
        /\ \A r \in Sockets \ {s} : socket'[r] = socket[r]
        /\ connections' = connections \cup {s} /\ presence' = presence \cup {socket[s].user}
    BY <1>2 DEF Connect, Connected, TypeOK, SocketRows
  <2>2. (\A r \in connections : socket[r].step = "open") /\ Witnessed /\ Seen
    BY <1>a, <2>0
  <2>3. \A r \in connections' : socket'[r].step = "open"
    BY <1>0, <2>1, <2>2
  <2>4. Witnessed'
    BY <2>1, <2>2
  <2>5. Seen'
    <3> SUFFICES ASSUME NEW v \in Users, NEW q \in Replicas, Only(v, q)', OnlineAt(q, v)', v # socket[s].user
                 PROVE  v \in presence'
      BY <2>1
    <3>1. Only(v, q)
      BY <2>1
    <3>2. OnlineAt(q, v)
      BY <1>0, <2>1 DEF OnlineAt
    <3> QED BY <2>1, <2>2, <3>1, <3>2
  <2> QED BY <1>b, <2>3, <2>4, <2>5
<1>3. ASSUME NEW s \in Sockets, LosePeer(s) PROVE Present'
  <2>0. mishaps = 0
    BY <1>3 DEF LosePeer
  <2>1. /\ \A r \in Sockets : /\ socket'[r].step = socket[r].step /\ socket'[r].user = socket[r].user
                              /\ socket'[r].at = socket[r].at
        /\ UNCHANGED <<connections, presence>>
    BY <1>3 DEF LosePeer, TypeOK, SocketRows, hubs
  <2>2. (\A r \in connections : socket[r].step = "open") /\ Witnessed /\ Seen
    BY <1>a, <2>0
  <2>3. \A r \in connections' : socket'[r].step = "open"
    BY <1>0, <2>1, <2>2
  <2>4. Witnessed'
    BY <2>1, <2>2
  <2>5. Seen'
    <3> SUFFICES ASSUME NEW v \in Users, NEW q \in Replicas, Only(v, q)', OnlineAt(q, v)'
                 PROVE  v \in presence'
      OBVIOUS
    <3>1. Only(v, q) /\ OnlineAt(q, v)
      BY <1>0, <2>1 DEF OnlineAt
    <3> QED BY <2>1, <2>2, <3>1
  <2> QED BY <1>b, <2>3, <2>4, <2>5
<1>4. ASSUME NEW s \in Sockets, Close(s) PROVE Present'
  <2> DEFINE others == {r \in connections \ {s} : socket[r].user = socket[s].user /\ socket[r].at = socket[s].at}
  <2>0. mishaps = 0
    BY <1>4 DEF Close
  <2>1. /\ socket[s].step = "open" /\ socket'[s].step = "closed"
        /\ socket'[s].user = socket[s].user /\ socket'[s].at = socket[s].at
        /\ \A r \in Sockets \ {s} : socket'[r] = socket[r]
        /\ connections' = connections \ {s}
    BY <1>4 DEF Close, Disconnected, TypeOK, SocketRows
  <2>6. presence' = IF others = {} THEN presence \ {socket[s].user} ELSE presence
    BY <1>4 DEF Close
  <2>2. (\A r \in connections : socket[r].step = "open") /\ Witnessed /\ Seen
    BY <1>a, <2>0
  <2>3. \A r \in connections' : socket'[r].step = "open"
    BY <1>0, <2>1, <2>2
  <2>4. Witnessed'
    <3> SUFFICES ASSUME NEW v \in presence' PROVE \E r \in Sockets : socket'[r].step = "open" /\ socket'[r].user = v
      OBVIOUS
    <3>1. CASE v # socket[s].user
      BY <2>1, <2>2, <2>6, <3>1
    <3>2. CASE v = socket[s].user
      <4>1. PICK r \in connections \ {s} : socket[r].user = v
        BY <2>6, <3>2
      <4> QED BY <1>0, <2>1, <2>2, <4>1
    <3> QED BY <3>1, <3>2
  <2>5. Seen'
    <3> SUFFICES ASSUME NEW v \in Users, NEW q \in Replicas, Only(v, q)', OnlineAt(q, v)'
                 PROVE  v \in presence'
      OBVIOUS
    <3>1. PICK r \in connections \ {s} : socket[r].user = v /\ socket[r].at = q
      BY <1>0, <2>1 DEF OnlineAt
    <3>2. Only(v, q) /\ OnlineAt(q, v)
      BY <1>0, <2>1, <3>1 DEF OnlineAt
    <3>3. v \in presence
      BY <2>2, <3>2
    <3>4. CASE v = socket[s].user
      <4>1. socket[s].at = q
        BY <2>1, <3>2, <3>4
      <4>2. r \in others
        BY <3>1, <3>4, <4>1
      <4> QED BY <2>6, <3>3, <4>2
    <3>5. CASE v # socket[s].user
      BY <2>6, <3>3, <3>5
    <3> QED BY <3>4, <3>5
  <2> QED BY <1>b, <2>3, <2>4, <2>5
<1>5. ASSUME NEW s \in Sockets, Serve(s) PROVE Present'
  <2>1. ~FailConnect(s)
    BY <1>0 DEF FailConnect, Mishap
  <2>2. CASE Subscribe(s)
    BY <1>c, <2>2 DEF Subscribe
  <2>3. CASE Unsubscribe(s)
    BY <1>c, <2>3 DEF Unsubscribe
  <2> QED BY <1>1, <1>2, <1>3, <1>4, <1>5, <2>1, <2>2, <2>3 DEF Serve
<1>6. ASSUME NEW e \in Events, Carry(e) PROVE Present'
  <2>1. ~FailPublish(e)
    BY <1>0 DEF FailPublish, Mishap
  <2>2. CASE Publish(e)
    BY <1>c, <2>2 DEF Publish, hubs
  <2>3. ASSUME NEW p \in Replicas, Broadcast(e, p) PROVE Present'
    BY <1>c, <2>3 DEF Broadcast, hubs
  <2>4. ASSUME NEW p \in Replicas, Receive(p, e) PROVE Present'
    BY <1>c, <2>4 DEF Receive, hubs
  <2>5. ASSUME NEW p \in Replicas, NEW s \in Sockets, Send(p, e, s) PROVE Present'
    <3>1. UNCHANGED <<mishaps, presence, socket>> /\ connections' \subseteq connections
      BY <2>5 DEF Send, hubs, Disconnected
    <3> QED BY <1>c, <3>1
  <2> QED BY <1>6, <2>1, <2>2, <2>3, <2>4, <2>5 DEF Carry
<1>7. ASSUME NEW u \in Users, ChangeMembership(u) PROVE Present'
  BY <1>c, <1>7 DEF ChangeMembership, hubs
<1>8. ASSUME NEW p \in Replicas, StopListening(p) \/ Crash(p) PROVE FALSE
  BY <1>0, <1>8 DEF StopListening, Crash, Mishap
<1>9. CASE UNCHANGED vars
  BY <1>c, <1>9 DEF vars
<1> QED BY <1>5, <1>6, <1>7, <1>8, <1>9 DEF Next

\* Unless something fails, the presence of a user who stays on one replica is
\* that of the connections, and nobody is online without one.
THEOREM Presence == Spec => []PresenceMatches
<1>1. Init => Present
  BY DEF Init, Present, Registered, PresenceMatches, OnlineAt
<1>2. IInv /\ Present /\ [Next]_vars => Present'
  BY PresentStep DEF IInv
<1>3. Present => PresenceMatches
  BY DEF Present
<1> QED BY <1>1, <1>2, <1>3, Inductive, PTL DEF Spec

=============================================================================
