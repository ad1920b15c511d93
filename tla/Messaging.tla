----------------------------- MODULE Messaging ------------------------------
(***************************************************************************)
(* One conversation: sending, reading, editing and deleting its messages   *)
(* (app/services/chat_service.py, app/routes/messages.py and the message   *)
(* events of app/routes/websocket.py), by requests that run at the same    *)
(* time on several API replicas against one PostgreSQL database.           *)
(*                                                                         *)
(* The handlers are coroutines that do not yield between their first query *)
(* and their commit, so a replica runs one of them at a time; requests on  *)
(* different replicas interleave between statements.  A request reads      *)
(* committed rows into its session, flushes (taking the lock of the        *)
(* conversation row and checking the unique constraints), and commits      *)
(* literals computed from what it read.                                    *)
(*                                                                         *)
(* A message is named by the request that created it.                      *)
(***************************************************************************)
EXTENDS Naturals, FiniteSets

CONSTANTS
  Users,       \* the members of the conversation
  Owner,       \* the member with role 'owner'; the others have 'member'
  Requests,    \* requests clients make, retries included; each is used once
  Keys,        \* client_message_ids
  NoKey,       \* a send without a client_message_id
  Replicas,    \* API processes
  None,
  Operations   \* what clients and administrators do in this instance

RequestOperations == {"send", "read", "edit", "delete"}
AllOperations == RequestOperations \cup {"status", "membership", "mute"}

ASSUME OwnerIsAMember == Owner \in Users
ASSUME NoneIsNoRequest == None \notin Requests
ASSUME OperationsAreKnown == Operations \subseteq AllOperations

VARIABLES
  conversation,  \* the conversations row
  members,       \* the conversation_members rows
  messages,      \* the messages rows, "absent" until committed
  receipts,      \* message_receipts rows, as <<message, user>>
  outbox,        \* event_outbox rows, as <<topic, message>>
  rowLock,       \* the request whose open transaction updated the conversation row
  loop,          \* the request each replica's event loop is running
  pc, job, seen, reply,  \* the requests: step, input, rows read, answer
  announced      \* how often message.created was broadcast for a message

data == <<conversation, members, messages, receipts, outbox>>
vars == <<conversation, members, messages, receipts, outbox, rowLock, loop,
          pc, job, seen, reply, announced>>

Steps   == {"new", "lookup", "flush", "commit", "announce", "done"}
Replies == {"none", "created", "unannounced", "replayed", "done",
            "refused", "conflict", "lost"}
MessageStates == {"absent", "sent", "edited", "deleted"}

Jobs == [op : RequestOperations \cup {"none"}, user : Users, key : Keys \cup {NoKey},
         target : Requests \cup {None}, at : Replicas \cup {None}]
Reads == [next : Nat, status : MessageStates, advances : BOOLEAN, receipt : BOOLEAN]
MessageRows == [status : MessageStates, content : BOOLEAN, sequence : Nat,
                sender : Users, key : Keys \cup {NoKey}]

NoJob  == [op |-> "none", user |-> Owner, key |-> NoKey, target |-> None, at |-> None]
NoRead == [next |-> 0, status |-> "absent", advances |-> FALSE, receipt |-> FALSE]
NoMessage == [status |-> "absent", content |-> FALSE, sequence |-> 0,
              sender |-> Owner, key |-> NoKey]

TypeOK ==
  /\ conversation \in [status : {"active", "archived", "deleted"}, next : Nat]
  /\ members \in [Users -> [active : BOOLEAN, muted : BOOLEAN,
                            lastRead : Requests \cup {None}]]
  /\ messages \in [Requests -> MessageRows]
  /\ receipts \subseteq Requests \X Users
  /\ outbox \subseteq {"created", "read"} \X Requests
  /\ rowLock \in Requests \cup {None}
  /\ loop \in [Replicas -> Requests \cup {None}]
  /\ pc \in [Requests -> Steps]
  /\ job \in [Requests -> Jobs]
  /\ seen \in [Requests -> Reads]
  /\ reply \in [Requests -> Replies]
  /\ announced \in [Requests -> Nat]

Init ==
  /\ conversation = [status |-> "active", next |-> 0]
  /\ members = [u \in Users |-> [active |-> TRUE, muted |-> FALSE, lastRead |-> None]]
  /\ messages = [m \in Requests |-> NoMessage]
  /\ receipts = {}
  /\ outbox = {}
  /\ rowLock = None
  /\ loop = [p \in Replicas |-> None]
  /\ pc = [r \in Requests |-> "new"]
  /\ job = [r \in Requests |-> NoJob]
  /\ seen = [r \in Requests |-> NoRead]
  /\ reply = [r \in Requests |-> "none"]
  /\ announced = [r \in Requests |-> 0]

-----------------------------------------------------------------------------
(* What the handlers ask of the rows.                                      *)

Stored == {m \in Requests : messages[m].status # "absent"}

\* require_member lets the user through.
IsMember(u) == conversation.status # "deleted" /\ members[u].active

IsManager(u) == u = Owner

\* Mutant: the mute check is missing.
MaySendMuted(u) == IsMember(u) /\ conversation.status = "active"

MaySend(u) == IsMember(u) /\ conversation.status = "active" /\ ~members[u].muted

\* Committed messages with the sender and client_message_id of request r.
SameKey(r) == {m \in Stored : /\ messages[m].sender = job[r].user
                              /\ messages[m].key = job[r].key
                              /\ job[r].key # NoKey}

\* Mutant: both constraints are missing.
CollidesNever(r) == FALSE

\* The message request r is about to insert breaks uq_message_sequence or
\* uq_message_client_id.
Collides(r) == \/ \E m \in Stored : messages[m].sequence = seen[r].next + 1
               \/ SameKey(r) # {}

\* Mutant: the current position is not compared.
AdvancesAlways(u, m) == TRUE

\* mark_read moves the read position to m: it is not behind the current one
\* (and differs from it, or the column is not written).
Advances(u, m) ==
  \/ members[u].lastRead = None
  \/ /\ members[u].lastRead # m
     /\ messages[m].sequence >= messages[members[u].lastRead].sequence

-----------------------------------------------------------------------------
(* The life of a request on its replica.                                   *)

\* Mutant: the handlers run in the thread pool, several at a time.
ArriveInThread(r, p, j) == /\ pc[r] = "new"
                           /\ p \in Replicas
                           /\ job' = [job EXCEPT ![r] = j]

Arrive(r, p, j) == /\ pc[r] = "new"
                   /\ loop[p] = None
                   /\ job' = [job EXCEPT ![r] = j]

\* The handler keeps the event loop and goes on to step s.
Proceed(r, p, s) == /\ pc' = [pc EXCEPT ![r] = s]
                    /\ loop' = [loop EXCEPT ![p] = r]
                    /\ UNCHANGED reply

\* The handler answers and frees the event loop.
Answer(r, p, answer) == /\ pc' = [pc EXCEPT ![r] = "done"]
                        /\ loop' = [loop EXCEPT ![p] = None]
                        /\ reply' = [reply EXCEPT ![r] = answer]

Idle(p) == loop[p] = None

-----------------------------------------------------------------------------
(***************************************************************************)
(* create_message: POST .../messages and the message.send event.           *)
(***************************************************************************)

\* require_member, the status and mute checks; the conversation row is read
\* before the client_message_id is looked up.
BeginSend(r, u, k, p) ==
  /\ "send" \in Operations
  /\ Arrive(r, p, [NoJob EXCEPT !.op = "send", !.user = u, !.key = k, !.at = p])
  /\ \/ /\ MaySend(u)
        /\ seen' = [seen EXCEPT ![r] = [NoRead EXCEPT !.next = conversation.next]]
        /\ Proceed(r, p, "lookup")
     \/ /\ ~MaySend(u)
        /\ Answer(r, p, "refused")
        /\ UNCHANGED seen
  /\ UNCHANGED <<data, rowLock, announced>>

\* A stored message with this key is the answer of the retry.
ReplaySend(r) ==
  /\ pc[r] = "lookup"
  /\ SameKey(r) # {}
  /\ Answer(r, job[r].at, "replayed")
  /\ UNCHANGED <<data, rowLock, job, seen, announced>>

\* The payload's parent or attachments do not pass their checks, or do.
CheckSend(r) ==
  /\ pc[r] = "lookup"
  /\ SameKey(r) = {}
  /\ \/ Proceed(r, job[r].at, "flush")
     \/ Answer(r, job[r].at, "refused")
  /\ UNCHANGED <<data, rowLock, job, seen, announced>>

\* Mutant: any unique violation is taken for a replay.
FlushSendAsReplay(r) ==
  /\ pc[r] = "flush"
  /\ rowLock = None
  /\ \/ /\ ~Collides(r)
        /\ rowLock' = r
        /\ Proceed(r, job[r].at, "commit")
     \/ /\ Collides(r)
        /\ Answer(r, job[r].at, "replayed")
        /\ UNCHANGED rowLock
  /\ UNCHANGED <<data, job, seen, announced>>

\* db.flush(): UPDATE conversations, which waits for the row's lock, then
\* INSERT INTO messages, which a unique constraint may refuse.
FlushSend(r) ==
  /\ pc[r] = "flush"
  /\ rowLock = None
  /\ \/ /\ ~Collides(r)
        /\ rowLock' = r
        /\ Proceed(r, job[r].at, "commit")
     \/ /\ Collides(r)
        /\ Answer(r, job[r].at, "conflict")
        /\ UNCHANGED rowLock
  /\ UNCHANGED <<data, job, seen, announced>>

\* The message, the sender's read position and receipt, and the outbox row.
CommitSend(r) ==
  LET u == job[r].user IN
  /\ pc[r] = "commit"
  /\ job[r].op = "send"
  /\ conversation' = [conversation EXCEPT !.next = seen[r].next + 1]
  /\ messages' = [messages EXCEPT ![r] =
       [status |-> "sent", content |-> TRUE, sequence |-> seen[r].next + 1,
        sender |-> u, key |-> job[r].key]]
  /\ members' = [members EXCEPT ![u].lastRead = r]
  /\ receipts' = receipts \cup {<<r, u>>}
  /\ outbox' = outbox \cup {<<"created", r>>}
  /\ rowLock' = None
  /\ Proceed(r, job[r].at, "announce")
  /\ UNCHANGED <<job, seen, announced>>

\* hub.broadcast_room delivers to this replica's sockets, then publishes to
\* Redis, which may fail and turn the answer into an error.
AnnounceSend(r) ==
  /\ pc[r] = "announce"
  /\ announced' = [announced EXCEPT ![r] = @ + 1]
  /\ \E answer \in {"created", "unannounced"} : Answer(r, job[r].at, answer)
  /\ UNCHANGED <<data, rowLock, job, seen>>

-----------------------------------------------------------------------------
(***************************************************************************)
(* mark_read: POST .../read and the receipt.read event.                    *)
(***************************************************************************)

BeginRead(r, u, m, p) ==
  /\ "read" \in Operations
  /\ Arrive(r, p, [NoJob EXCEPT !.op = "read", !.user = u, !.target = m, !.at = p])
  /\ \/ /\ IsMember(u) /\ m \in Stored
        /\ seen' = [seen EXCEPT ![r] = [NoRead EXCEPT !.advances = Advances(u, m),
                                                      !.receipt = <<m, u>> \in receipts]]
        /\ Proceed(r, p, "commit")
     \/ /\ ~(IsMember(u) /\ m \in Stored)
        /\ Answer(r, p, "refused")
        /\ UNCHANGED seen
  /\ UNCHANGED <<data, rowLock, announced>>

\* Mutant: the receipt is forgotten.
CommitReadUnreceipted(r) ==
  LET u == job[r].user
      m == job[r].target
  IN
  /\ pc[r] = "commit"
  /\ job[r].op = "read"
  /\ members' = IF seen[r].advances THEN [members EXCEPT ![u].lastRead = m]
                                    ELSE members
  /\ outbox' = outbox \cup {<<"read", m>>}
  /\ Answer(r, job[r].at, "done")
  /\ UNCHANGED <<conversation, messages, receipts, rowLock, job, seen, announced>>

\* A receipt the request did not see makes its INSERT break uq_message_receipt.
CommitRead(r) ==
  LET u == job[r].user
      m == job[r].target
  IN
  /\ pc[r] = "commit"
  /\ job[r].op = "read"
  /\ \/ /\ seen[r].receipt \/ <<m, u>> \notin receipts
        /\ members' = IF seen[r].advances THEN [members EXCEPT ![u].lastRead = m]
                                          ELSE members
        /\ receipts' = receipts \cup {<<m, u>>}
        /\ outbox' = outbox \cup {<<"read", m>>}
        /\ Answer(r, job[r].at, "done")
     \/ /\ ~seen[r].receipt /\ <<m, u>> \in receipts
        /\ Answer(r, job[r].at, "conflict")
        /\ UNCHANGED <<members, receipts, outbox>>
  /\ UNCHANGED <<conversation, messages, rowLock, job, seen, announced>>

-----------------------------------------------------------------------------
(***************************************************************************)
(* edit_message and delete_message.                                        *)
(***************************************************************************)

\* Which requests may change m; a sender's edit window may have passed.
MayEdit(u, m) == /\ IsMember(u) /\ m \in Stored
                 /\ messages[m].sender = u \/ IsManager(u)
                 /\ messages[m].status # "deleted"

MayDelete(u, m) == /\ IsMember(u) /\ m \in Stored
                   /\ messages[m].sender = u \/ IsManager(u)

BeginEdit(r, u, m, p) ==
  /\ "edit" \in Operations
  /\ Arrive(r, p, [NoJob EXCEPT !.op = "edit", !.user = u, !.target = m, !.at = p])
  /\ \/ /\ MayEdit(u, m)
        /\ seen' = [seen EXCEPT ![r] = [NoRead EXCEPT !.status = messages[m].status]]
        /\ Proceed(r, p, "commit")
     \/ /\ MayEdit(u, m) => ~IsManager(u)
        /\ Answer(r, p, "refused")
        /\ UNCHANGED seen
  /\ UNCHANGED <<data, rowLock, announced>>

\* The UPDATE writes the new content, and the status only if it changes what
\* the session loaded.
CommitEdit(r) ==
  LET m == job[r].target IN
  /\ pc[r] = "commit"
  /\ job[r].op = "edit"
  /\ messages' = [messages EXCEPT ![m] =
       [messages[m] EXCEPT
          !.content = TRUE,
          !.status = IF seen[r].status = "edited" THEN messages[m].status ELSE "edited"]]
  /\ Answer(r, job[r].at, "done")
  /\ UNCHANGED <<conversation, members, receipts, outbox, rowLock, job, seen, announced>>

BeginDelete(r, u, m, p) ==
  /\ "delete" \in Operations
  /\ Arrive(r, p, [NoJob EXCEPT !.op = "delete", !.user = u, !.target = m, !.at = p])
  /\ \/ /\ MayDelete(u, m)
        /\ seen' = [seen EXCEPT ![r] = [NoRead EXCEPT !.status = messages[m].status]]
        /\ Proceed(r, p, "commit")
     \/ /\ ~MayDelete(u, m)
        /\ Answer(r, p, "refused")
        /\ UNCHANGED seen
  /\ UNCHANGED <<data, rowLock, announced>>

\* A message the request loaded as deleted is left alone.
CommitDelete(r) ==
  LET m == job[r].target IN
  /\ pc[r] = "commit"
  /\ job[r].op = "delete"
  /\ messages' = IF seen[r].status = "deleted" THEN messages
                 ELSE [messages EXCEPT ![m] =
                         [messages[m] EXCEPT !.status = "deleted", !.content = FALSE]]
  /\ Answer(r, job[r].at, "done")
  /\ UNCHANGED <<conversation, members, receipts, outbox, rowLock, job, seen, announced>>

-----------------------------------------------------------------------------
(***************************************************************************)
(* The conversation around its messages: administration handlers, each run *)
(* on a free event loop, as one step.                                      *)
(***************************************************************************)

Administer == /\ \E p \in Replicas : Idle(p)
              /\ UNCHANGED <<messages, receipts, outbox, rowLock, loop, pc, job,
                             seen, reply, announced>>

\* archive_conversation, unarchive_conversation and delete_conversation update
\* the conversation row, so they wait for its lock.
SetConversationStatus ==
  /\ "status" \in Operations /\ Administer
  /\ rowLock = None
  /\ IsMember(Owner)
  /\ \E s \in {"active", "archived", "deleted"} :
       conversation' = [conversation EXCEPT !.status = s]
  /\ UNCHANGED members

\* remove_member, ban_member and leave_conversation; add_members brings back.
SetMembership ==
  /\ "membership" \in Operations /\ Administer
  /\ IsMember(Owner)
  /\ \E u \in Users \ {Owner}, active \in BOOLEAN :
       members' = [members EXCEPT ![u].active = active]
  /\ UNCHANGED conversation

\* mute_member and unmute_member ask for no membership of the moderator.
SetMuted ==
  /\ "mute" \in Operations /\ Administer
  /\ \E u \in Users, muted \in BOOLEAN :
       members' = [members EXCEPT ![u].muted = muted]
  /\ UNCHANGED conversation

\* Mutant: the open transaction outlives the process.
CrashHoldingLock(p) ==
  /\ loop[p] # None
  /\ Answer(loop[p], p, "lost")
  /\ UNCHANGED <<data, rowLock, job, seen, announced>>

\* A replica stops: its request gets no answer and its open transaction is
\* rolled back.  A committed one stays committed.
Crash(p) ==
  /\ loop[p] # None
  /\ Answer(loop[p], p, "lost")
  /\ rowLock' = IF rowLock = loop[p] THEN None ELSE rowLock
  /\ UNCHANGED <<data, job, seen, announced>>

-----------------------------------------------------------------------------

Begin(r) ==
  \E u \in Users, p \in Replicas :
    \/ \E k \in Keys \cup {NoKey} : BeginSend(r, u, k, p)
    \/ \E m \in Requests : \/ BeginRead(r, u, m, p)
                           \/ BeginEdit(r, u, m, p)
                           \/ BeginDelete(r, u, m, p)

\* What the replica does once it has taken a request.
Continue(r) ==
  \/ ReplaySend(r) \/ CheckSend(r) \/ FlushSend(r) \/ CommitSend(r) \/ AnnounceSend(r)
  \/ CommitRead(r) \/ CommitEdit(r) \/ CommitDelete(r)

\* The requests of the instance are used up.
Finished == /\ \A r \in Requests : pc[r] = "done"
            /\ UNCHANGED vars

Next ==
  \/ \E r \in Requests : Begin(r) \/ Continue(r)
  \/ SetConversationStatus \/ SetMembership \/ SetMuted
  \/ \E p \in Replicas : Crash(p)
  \/ Finished

Spec == Init /\ [][Next]_vars

\* A replica that has begun a request goes on with it.
FairSpec == Spec /\ \A r \in Requests : WF_vars(Continue(r))

-----------------------------------------------------------------------------
(* Properties.                                                             *)

\* The sequences of the committed messages are 1..next_sequence, each once:
\* list_messages pages by sequence and unread counts compare sequences.
SequencesAreGapFree ==
  /\ \A m \in Stored : messages[m].sequence \in 1..conversation.next
  /\ \A n \in 1..conversation.next : \E m \in Stored : messages[m].sequence = n
  /\ \A m, n \in Stored : messages[m].sequence = messages[n].sequence => m = n

\* A sender's client_message_id is stored once, however the retries of the
\* first send interleave with it.
OncePerKey ==
  \A m, n \in Stored :
    /\ messages[m].sender = messages[n].sender
    /\ messages[m].key = messages[n].key
    /\ messages[m].key # NoKey
    => m = n

\* A client told that its message was created, or that it is a replay, finds
\* that message stored, whatever crashed meanwhile.
AnswersAreDurable ==
  \A r \in Requests :
    /\ reply[r] \in {"created", "unannounced"} => r \in Stored
    /\ reply[r] = "replayed" => SameKey(r) # {}

\* A crash between flush and commit leaves nothing behind; a stored message
\* has its outbox event and its sender's receipt, and neither exists without it.
SendIsAllOrNothing ==
  /\ \A m \in Stored : <<m, messages[m].sender>> \in receipts
  /\ \A m \in Requests : m \in Stored <=> <<"created", m>> \in outbox
  /\ \A receipt \in receipts : receipt[1] \in Stored

\* A member's read position names a stored message the member has a read
\* receipt for.
ReadPositionHasReceipt ==
  \A u \in Users : LET m == members[u].lastRead IN
    m # None => m \in Stored /\ <<m, u>> \in receipts

\* message.created goes out at most once for a message, only after it is
\* stored, and never again for a replay.
AnnouncedOnce ==
  \A m \in Requests : announced[m] <= 1 /\ (announced[m] = 1 => m \in Stored)

\* A read position never moves back to an earlier message.
ReadPositionAdvances ==
  [][\A u \in Users :
       LET before == members[u].lastRead
           after  == members'[u].lastRead
       IN before # None => /\ after # None
                           /\ messages'[after].sequence >= messages[before].sequence
    ]_vars

\* A deleted message stays deleted and its content stays erased.
DeletedStaysDeleted ==
  [][\A m \in Requests : messages[m].status = "deleted" =>
       messages'[m].status = "deleted" /\ ~messages'[m].content]_vars

\* A message appears only in an active conversation, from a member who may
\* send at that moment.
SendsArePermitted ==
  [][\A m \in Requests : messages[m].status = "absent" /\ messages'[m].status # "absent"
       => /\ conversation.status = "active"
          /\ members[messages'[m].sender].active
          /\ ~members[messages'[m].sender].muted]_vars

\* No request ends in an unhandled constraint violation.
NoConflict == \A r \in Requests : reply[r] # "conflict"

\* The retry of a stored message is a replay, never an error.
RetryIsReplayed ==
  \A r \in Requests :
    job[r].op = "send" /\ reply[r] = "conflict" => SameKey(r) = {}

\* Every request a replica has taken is answered or lost with the replica.
EveryRequestEnds == \A r \in Requests : pc[r] # "new" ~> pc[r] = "done"

Entry(m) == [id |-> m, sender |-> messages[m].sender, key |-> messages[m].key]

MessageAt(n) == CHOOSE m \in Stored : messages[m].sequence = n

StoredLog == [n \in 1..conversation.next |-> Entry(MessageAt(n))]

Log == INSTANCE MessageLog WITH Messages <- Requests, log <- StoredLog

\* The stored messages, in the order of their sequences, are the log of
\* MessageLog: a send's commit appends to it, every other step leaves it alone.
ImplementsLog == Log!Spec
=============================================================================
