-------------------------------- MODULE Hub ---------------------------------
(***************************************************************************)
(* The real-time hub (app/realtime.py) and the life of the WebSockets that *)
(* it serves (app/routes/websocket.py): each replica keeps the sockets of  *)
(* its own clients, the room of one conversation among them, and sends     *)
(* events to them; Redis carries the events to the other replicas.         *)
(*                                                                         *)
(* The hub's methods hold its lock without awaiting anything: each is one  *)
(* step, together with the database commits next to it.  A broadcast takes *)
(* the sockets of the room first and then awaits one send after another.   *)
(***************************************************************************)
EXTENDS Naturals, FiniteSets

CONSTANTS
  Users,
  Sockets,    \* connections that clients ever open
  Replicas,   \* API processes, with REDIS_URL configured
  Events,     \* events that handlers broadcast to the room, once each
  MaxMishaps  \* bound on failed connects, Redis failures and crashes

ASSUME MishapsAreBounded == MaxMishaps \in Nat
ASSUME SomebodySomewhere == Users # {} /\ Replicas # {}

VARIABLES
  members,     \* users with an active membership of the conversation
  socket,      \* the handler of each WebSocket
  connections, \* sockets in the hub's connections, and in user_sockets
  rooms,       \* sockets whose ConnectionState names the room
  roomSockets, \* sockets in room_sockets
  presence,    \* users whose user_presences row says online
  event,       \* how far the broadcast of each event is, and where it began
  sending,     \* sockets to which a replica still has to send an event
  inbox,       \* events on their way from Redis to each replica
  listening,   \* replicas whose listener task runs
  got,         \* history: how often a socket got an event
  awaiting,    \* history: sockets in the room ever since an event was broadcast
  mishaps      \* history

hubs == <<connections, rooms, roomSockets>>
transit == <<event, sending, inbox, listening>>
vars == <<members, socket, connections, rooms, roomSockets, presence, event,
          sending, inbox, listening, got, awaiting, mishaps>>

SocketSteps == {"new", "accepting", "open", "closed"}
EventSteps == {"new", "local", "done"}

\* wants: the room was among the memberships read before the accept.
SocketRows == [user : Users, at : Replicas, step : SocketSteps,
               wants : BOOLEAN, alive : BOOLEAN]

TypeOK ==
  /\ members \subseteq Users
  /\ socket \in [Sockets -> SocketRows]
  /\ connections \subseteq Sockets /\ rooms \subseteq Sockets /\ roomSockets \subseteq Sockets
  /\ presence \subseteq Users
  /\ event \in [Events -> [step : EventSteps, at : Replicas]]
  /\ sending \in [Replicas -> [Events -> SUBSET Sockets]]
  /\ inbox \in [Replicas -> SUBSET Events]
  /\ listening \subseteq Replicas
  /\ got \in [Sockets -> [Events -> Nat]]
  /\ awaiting \in [Events -> SUBSET Sockets]
  /\ mishaps \in Nat

\* Sockets and events not yet used belong to no user or replica in particular.
Init ==
  LET someone == CHOOSE u \in Users : TRUE
      somewhere == CHOOSE p \in Replicas : TRUE
  IN
  /\ members \in SUBSET Users
  /\ socket = [s \in Sockets |-> [user |-> someone, at |-> somewhere, step |-> "new",
                                  wants |-> FALSE, alive |-> FALSE]]
  /\ connections = {} /\ rooms = {} /\ roomSockets = {}
  /\ presence = {}
  /\ event = [e \in Events |-> [step |-> "new", at |-> somewhere]]
  /\ sending = [p \in Replicas |-> [e \in Events |-> {}]]
  /\ inbox = [p \in Replicas |-> {}]
  /\ listening = Replicas
  /\ got = [s \in Sockets |-> [e \in Events |-> 0]]
  /\ awaiting = [e \in Events |-> {}]
  /\ mishaps = 0

Mishap == mishaps < MaxMishaps /\ mishaps' = mishaps + 1

\* is_user_online on replica p.
OnlineAt(p, u) == \E s \in connections : socket[s].user = u /\ socket[s].at = p

-----------------------------------------------------------------------------
(* The hub's methods, for a set S of sockets.                              *)

Connected(s) ==
  /\ connections' = connections \cup {s}
  /\ rooms' = IF socket[s].wants THEN rooms \cup {s} ELSE rooms
  /\ roomSockets' = IF socket[s].wants THEN roomSockets \cup {s} ELSE roomSockets
  /\ UNCHANGED awaiting

\* disconnect takes the rooms to leave from the socket's ConnectionState.
Disconnected(S) ==
  /\ connections' = connections \ S
  /\ rooms' = rooms \ S
  /\ roomSockets' = roomSockets \ (S \cap rooms)
  /\ awaiting' = [e \in Events |-> awaiting[e] \ S]

-----------------------------------------------------------------------------
(* A WebSocket.                                                            *)

\* The token is valid and the account active; the memberships are read.
Open(s, u, p) ==
  /\ socket[s].step = "new"
  /\ socket' = [socket EXCEPT ![s] = [user |-> u, at |-> p, step |-> "accepting",
                                      wants |-> u \in members, alive |-> TRUE]]
  /\ UNCHANGED <<members, hubs, presence, transit, got, awaiting, mishaps>>

\* hub.connect, and the user is online.
Connect(s) ==
  /\ socket[s].step = "accepting"
  /\ Connected(s)
  /\ presence' = presence \cup {socket[s].user}
  /\ socket' = [socket EXCEPT ![s].step = "open"]
  /\ UNCHANGED <<members, transit, got, mishaps>>

\* An exception after hub.connect and outside the try block, from the commit of
\* the presence or from its broadcast: the handler ends, the socket stays.
FailConnect(s) ==
  /\ socket[s].step = "accepting"
  /\ Mishap
  /\ Connected(s)
  /\ presence' \in {presence, presence \cup {socket[s].user}}
  /\ socket' = [socket EXCEPT ![s] = [@ EXCEPT !.step = "closed", !.alive = FALSE]]
  /\ UNCHANGED <<members, transit, got>>

\* conversation.subscribe; nothing happens if a failed send disconnected s.
Subscribe(s) ==
  /\ socket[s].step = "open" /\ socket[s].user \in members
  /\ s \in connections
  /\ rooms' = rooms \cup {s}
  /\ roomSockets' = roomSockets \cup {s}
  /\ UNCHANGED <<members, socket, connections, presence, transit, got, awaiting, mishaps>>

\* Mutant: the socket stays in room_sockets.
UnsubscribeStateOnly(s) ==
  /\ socket[s].step = "open"
  /\ rooms' = rooms \ {s}
  /\ awaiting' = [e \in Events |-> awaiting[e] \ {s}]
  /\ UNCHANGED <<members, socket, connections, roomSockets, presence, transit, got, mishaps>>

Unsubscribe(s) ==
  /\ socket[s].step = "open"
  /\ rooms' = rooms \ {s}
  /\ roomSockets' = roomSockets \ {s}
  /\ awaiting' = [e \in Events |-> awaiting[e] \ {s}]
  /\ UNCHANGED <<members, socket, connections, presence, transit, got, mishaps>>

\* The client is gone; sends to it will raise, and so will the receive.
LosePeer(s) ==
  /\ socket[s].step = "open" /\ socket[s].alive
  /\ socket' = [socket EXCEPT ![s].alive = FALSE]
  /\ UNCHANGED <<members, hubs, presence, transit, got, awaiting, mishaps>>

\* Mutant: is_user_online is asked before the disconnect.
CloseAskingFirst(s) ==
  LET u == socket[s].user IN
  /\ socket[s].step = "open"
  /\ Disconnected({s})
  /\ presence' = IF OnlineAt(socket[s].at, u) THEN presence ELSE presence \ {u}
  /\ socket' = [socket EXCEPT ![s] = [@ EXCEPT !.step = "closed", !.alive = FALSE]]
  /\ UNCHANGED <<members, transit, got, mishaps>>

\* The receive loop ends: the finally block.
Close(s) ==
  LET u == socket[s].user
      p == socket[s].at
      others == {r \in connections \ {s} : socket[r].user = u /\ socket[r].at = p}
  IN
  /\ socket[s].step = "open"
  /\ Disconnected({s})
  /\ presence' = IF others = {} THEN presence \ {u} ELSE presence
  /\ socket' = [socket EXCEPT ![s] = [@ EXCEPT !.step = "closed", !.alive = FALSE]]
  /\ UNCHANGED <<members, transit, got, mishaps>>

\* The user joins, leaves, is removed or banned: no socket is told.
ChangeMembership(u) ==
  /\ members' = IF u \in members THEN members \ {u} ELSE members \cup {u}
  /\ UNCHANGED <<socket, hubs, presence, transit, got, awaiting, mishaps>>

-----------------------------------------------------------------------------
(* A broadcast to the room.                                                *)

\* The sockets of the room on replica p.
RoomAt(p) == {s \in roomSockets : socket[s].at = p}

\* broadcast_room on replica p, up to its first await.
Broadcast(e, p) ==
  /\ event[e].step = "new"
  /\ event' = [event EXCEPT ![e] = [step |-> "local", at |-> p]]
  /\ sending' = [sending EXCEPT ![p] = [sending[p] EXCEPT ![e] = RoomAt(p)]]
  /\ awaiting' = [awaiting EXCEPT ![e] = roomSockets]
  /\ UNCHANGED <<members, socket, hubs, presence, inbox, listening, got, mishaps>>

\* One send of the gather; if it raises, the socket is disconnected.
Send(p, e, s) ==
  /\ s \in sending[p][e]
  /\ sending' = [sending EXCEPT ![p] = [sending[p] EXCEPT ![e] = @ \ {s}]]
  /\ \/ /\ socket[s].alive
        /\ got' = [got EXCEPT ![s] = [got[s] EXCEPT ![e] = @ + 1]]
        /\ UNCHANGED <<hubs, awaiting>>
     \/ /\ ~socket[s].alive
        /\ Disconnected({s})
        /\ UNCHANGED got
  /\ UNCHANGED <<members, socket, presence, event, inbox, listening, mishaps>>

Sent(e) == event[e].step = "local" /\ sending[event[e].at][e] = {}

\* redis.publish reaches the replicas that listen, its own, too.
Publish(e) ==
  /\ Sent(e)
  /\ event' = [event EXCEPT ![e] = [@ EXCEPT !.step = "done"]]
  /\ inbox' = [p \in Replicas |-> IF p \in listening THEN inbox[p] \cup {e} ELSE inbox[p]]
  /\ UNCHANGED <<members, socket, hubs, presence, sending, listening, got, awaiting, mishaps>>

\* It raises: the handler that broadcasts fails.
FailPublish(e) ==
  /\ Sent(e) /\ Mishap
  /\ event' = [event EXCEPT ![e] = [@ EXCEPT !.step = "done"]]
  /\ UNCHANGED <<members, socket, hubs, presence, sending, inbox, listening, got, awaiting>>

\* Mutants: the listener does not look at the origin; it keeps only its own.
ReceiveEcho(p, e) ==
  /\ e \in inbox[p] /\ p \in listening
  /\ inbox' = [inbox EXCEPT ![p] = @ \ {e}]
  /\ sending' = [sending EXCEPT ![p] = [sending[p] EXCEPT ![e] = RoomAt(p)]]
  /\ UNCHANGED <<members, socket, hubs, presence, event, listening, got, awaiting, mishaps>>

ReceiveOwn(p, e) ==
  /\ e \in inbox[p] /\ p \in listening
  /\ inbox' = [inbox EXCEPT ![p] = @ \ {e}]
  /\ sending' = IF event[e].at # p THEN sending
                ELSE [sending EXCEPT ![p] = [sending[p] EXCEPT ![e] = RoomAt(p)]]
  /\ UNCHANGED <<members, socket, hubs, presence, event, listening, got, awaiting, mishaps>>

\* The listener skips the events of its own replica.
Receive(p, e) ==
  /\ e \in inbox[p] /\ p \in listening
  /\ inbox' = [inbox EXCEPT ![p] = @ \ {e}]
  /\ sending' = IF event[e].at = p THEN sending
                ELSE [sending EXCEPT ![p] = [sending[p] EXCEPT ![e] = RoomAt(p)]]
  /\ UNCHANGED <<members, socket, hubs, presence, event, listening, got, awaiting, mishaps>>

\* The connection to Redis breaks and the listener task ends; nothing starts
\* another.
StopListening(p) ==
  /\ p \in listening /\ Mishap
  /\ listening' = listening \ {p}
  /\ inbox' = [inbox EXCEPT ![p] = {}]
  /\ UNCHANGED <<members, socket, hubs, presence, event, sending, got, awaiting>>

\* A replica stops without the finally blocks and is started again, empty.
Crash(p) ==
  LET here == {s \in Sockets : socket[s].step # "new" /\ socket[s].at = p} IN
  /\ Mishap
  /\ Disconnected(here)
  /\ socket' = [s \in Sockets |-> IF s \in here
                  THEN [socket[s] EXCEPT !.step = "closed", !.alive = FALSE] ELSE socket[s]]
  /\ event' = [e \in Events |-> IF event[e].step = "local" /\ event[e].at = p
                  THEN [event[e] EXCEPT !.step = "done"] ELSE event[e]]
  /\ sending' = [sending EXCEPT ![p] = [e \in Events |-> {}]]
  /\ inbox' = [inbox EXCEPT ![p] = {}]
  /\ listening' = listening \cup {p}
  /\ UNCHANGED <<members, presence, got>>

-----------------------------------------------------------------------------

Serve(s) ==
  \/ \E u \in Users, p \in Replicas : Open(s, u, p)
  \/ Connect(s) \/ FailConnect(s)
  \/ Subscribe(s) \/ Unsubscribe(s)
  \/ LosePeer(s) \/ Close(s)

Carry(e) ==
  \/ Publish(e) \/ FailPublish(e)
  \/ \E p \in Replicas : Broadcast(e, p) \/ Receive(p, e) \/ \E s \in Sockets : Send(p, e, s)

Next ==
  \/ \E s \in Sockets : Serve(s)
  \/ \E e \in Events : Carry(e)
  \/ \E u \in Users : ChangeMembership(u)
  \/ \E p \in Replicas : StopListening(p) \/ Crash(p)

Spec == Init /\ [][Next]_vars

-----------------------------------------------------------------------------
(* Properties.                                                             *)

\* The two views of the room agree and hold only connected sockets: no socket
\* is left behind in room_sockets after its disconnect.
IndexesAgree == rooms = roomSockets /\ rooms \subseteq connections

\* No socket gets an event twice, although Redis brings it back to the replica
\* that published it.
AtMostOnce == \A s \in Sockets, e \in Events : got[s][e] <= 1

\* Nothing of event e is under way.
Carried(e) == /\ event[e].step = "done"
              /\ \A p \in Replicas : e \notin inbox[p] /\ sending[p][e] = {}

\* Unless something failed, when an event has been carried everywhere, every
\* socket that was in the room, and has been ever since, got it.
FanOutComplete ==
  mishaps = 0 => \A e \in Events : Carried(e) =>
    \A s \in awaiting[e] : got[s][e] = 1

\* Unless something failed, a user is online only with a connection open; and a
\* user whose connections have all been to one replica is online while one of
\* them is registered there, whichever of them comes and goes.
PresenceMatches ==
  mishaps = 0 =>
    /\ \A u \in presence : \E s \in Sockets : socket[s].step = "open" /\ socket[s].user = u
    /\ \A u \in Users, p \in Replicas :
         (\A s \in Sockets : socket[s].step # "new" /\ socket[s].user = u => socket[s].at = p)
           => (OnlineAt(p, u) => u \in presence)
=============================================================================
