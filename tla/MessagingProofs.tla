-------------------------- MODULE MessagingProofs ---------------------------
(***************************************************************************)
(* Proofs about Messaging, for any number of users, requests, keys and     *)
(* replicas, and about the Outbox its commits write to.                    *)
(*                                                                         *)
(* The argument for the log: a request reads next_sequence before anything *)
(* else, so what it read is never ahead of the row (ReadIsOld).  When it   *)
(* flushes, a stale read would repeat a sequence that is already stored,   *)
(* because the stored sequences have no gap: the unique constraint refuses *)
(* it.  A request that got through therefore holds the row lock and has    *)
(* read the current next_sequence (TransactionIsCurrent), so its commit    *)
(* appends exactly one sequence and at most one message for the key.       *)
(***************************************************************************)
EXTENDS Messaging, Outbox, SequenceTheorems, TLAPS

\* Between flush and commit of a send.
InTransaction(r) == pc[r] = "commit" /\ job[r].op = "send"

\* What holds of a request at every step of its handler.
StepFitsJob(r) ==
  /\ pc[r] \in {"lookup", "flush", "announce"} => job[r].op = "send"
  /\ pc[r] = "commit" /\ job[r].op # "send" => job[r].target \in Stored

\* Only a send that committed has a message, and it carries the send's input.
MessageFitsJob(r) ==
  /\ pc[r] = "announce" => r \in Stored
  /\ r \in Stored => /\ pc[r] \in {"announce", "done"}
                     /\ messages[r].sender = job[r].user
                     /\ messages[r].key = job[r].key

ReadIsOld(r) ==
  pc[r] \in {"lookup", "flush"} \/ InTransaction(r) => seen[r].next <= conversation.next

TransactionIsCurrent(r) == InTransaction(r) => rowLock = r /\ ~Collides(r)

AnswerComesLast(r) ==
  /\ pc[r] # "done" => reply[r] = "none" /\ announced[r] = 0
  /\ announced[r] <= 1
  /\ announced[r] = 1 => r \in Stored
  /\ reply[r] \in {"created", "unannounced"} => r \in Stored
  /\ reply[r] = "replayed" => SameKey(r) # {}

RequestOK(r) == /\ StepFitsJob(r)
                /\ MessageFitsJob(r)
                /\ ReadIsOld(r)
                /\ TransactionIsCurrent(r)
                /\ AnswerComesLast(r)

IInv == /\ TypeOK
        /\ SequencesAreGapFree
        /\ OncePerKey
        /\ SendIsAllOrNothing
        /\ ReadPositionHasReceipt
        /\ \A r \in Requests : RequestOK(r)

-----------------------------------------------------------------------------

\* Changing the content or the status of a row keeps it a row.
LEMMA RowUpdate ==
  ASSUME NEW row \in MessageRows, NEW c \in BOOLEAN, NEW s \in MessageStates
  PROVE  [row EXCEPT !.content = c, !.status = s] \in MessageRows
BY DEF MessageRows, MessageStates

\* A request in the middle of mark_read, an edit or a delete has its message.
LEMMA TargetIsMessage ==
  ASSUME TypeOK, NEW r \in Requests, StepFitsJob(r), pc[r] = "commit", job[r].op # "send"
  PROVE  /\ job[r].target \in Requests
         /\ job[r].target \in Stored
         /\ messages[job[r].target] \in MessageRows
         /\ messages[job[r].target].status \in MessageStates
<1>1. job[r].target \in Stored
  BY DEF StepFitsJob
<1> QED BY <1>1 DEF Stored, TypeOK, MessageRows

\* Every variable keeps its type.
LEMMA TypeStep == TypeOK /\ (\A r \in Requests : StepFitsJob(r)) /\ [Next]_vars => TypeOK'
<1> SUFFICES ASSUME TypeOK, \A r \in Requests : StepFitsJob(r), [Next]_vars PROVE TypeOK'
  OBVIOUS
<1>1. ASSUME NEW r \in Requests, Begin(r) PROVE TypeOK'
  <2>1. ASSUME NEW u \in Users, NEW p \in Replicas, NEW k \in Keys \cup {NoKey},
              BeginSend(r, u, k, p)
       PROVE TypeOK'
    <3>1. job' \in [Requests -> Jobs]
      BY <2>1 DEF BeginSend, Arrive, TypeOK, Jobs, NoJob, RequestOperations
    <3>2. seen' \in [Requests -> Reads]
      <4>1. [NoRead EXCEPT !.next = conversation.next] \in Reads
        BY DEF NoRead, Reads, MessageStates, TypeOK
      <4> QED BY <2>1, <4>1 DEF BeginSend, TypeOK
    <3>3. /\ pc' \in [Requests -> Steps]
          /\ loop' \in [Replicas -> Requests \cup {None}]
          /\ reply' \in [Requests -> Replies]
      <4>1. Proceed(r, p, "lookup") \/ Answer(r, p, "refused")
        BY <2>1 DEF BeginSend
      <4> QED BY <4>1 DEF Proceed, Answer, TypeOK, Steps, Replies
    <3>4. QED
      BY <2>1, <3>1, <3>2, <3>3 DEF BeginSend, data, TypeOK
  <2>2. ASSUME NEW u \in Users, NEW p \in Replicas, NEW m \in Requests,
              BeginRead(r, u, m, p)
       PROVE TypeOK'
    <3>1. job' \in [Requests -> Jobs]
      BY <2>2 DEF BeginRead, Arrive, TypeOK, Jobs, NoJob, RequestOperations
    <3>2. seen' \in [Requests -> Reads]
      <4>1. Advances(u, m) \in BOOLEAN /\ (<<m, u>> \in receipts) \in BOOLEAN
        BY DEF Advances
      <4>2. [NoRead EXCEPT !.advances = Advances(u, m),
                           !.receipt = <<m, u>> \in receipts] \in Reads
        BY <4>1 DEF NoRead, Reads, MessageStates
      <4> QED BY <2>2, <4>2 DEF BeginRead, TypeOK
    <3>3. /\ pc' \in [Requests -> Steps]
          /\ loop' \in [Replicas -> Requests \cup {None}]
          /\ reply' \in [Requests -> Replies]
      BY <2>2 DEF BeginRead, Proceed, Answer, TypeOK, Steps, Replies
    <3>4. QED
      BY <2>2, <3>1, <3>2, <3>3 DEF BeginRead, data, TypeOK
  <2>3. ASSUME NEW u \in Users, NEW p \in Replicas, NEW m \in Requests,
              BeginEdit(r, u, m, p)
       PROVE TypeOK'
    <3>1. job' \in [Requests -> Jobs]
      BY <2>3 DEF BeginEdit, Arrive, TypeOK, Jobs, NoJob, RequestOperations
    <3>2. seen' \in [Requests -> Reads]
      <4>1. messages[m].status \in MessageStates
        BY DEF TypeOK, MessageRows
      <4>2. [NoRead EXCEPT !.status = messages[m].status] \in Reads
        BY <4>1 DEF NoRead, Reads
      <4> QED BY <2>3, <4>2 DEF BeginEdit, TypeOK
    <3>3. /\ pc' \in [Requests -> Steps]
          /\ loop' \in [Replicas -> Requests \cup {None}]
          /\ reply' \in [Requests -> Replies]
      BY <2>3 DEF BeginEdit, Proceed, Answer, TypeOK, Steps, Replies
    <3>4. QED
      BY <2>3, <3>1, <3>2, <3>3 DEF BeginEdit, data, TypeOK
  <2>4. ASSUME NEW u \in Users, NEW p \in Replicas, NEW m \in Requests,
              BeginDelete(r, u, m, p)
       PROVE TypeOK'
    <3>1. job' \in [Requests -> Jobs]
      BY <2>4 DEF BeginDelete, Arrive, TypeOK, Jobs, NoJob, RequestOperations
    <3>2. seen' \in [Requests -> Reads]
      <4>1. messages[m].status \in MessageStates
        BY DEF TypeOK, MessageRows
      <4>2. [NoRead EXCEPT !.status = messages[m].status] \in Reads
        BY <4>1 DEF NoRead, Reads
      <4> QED BY <2>4, <4>2 DEF BeginDelete, TypeOK
    <3>3. /\ pc' \in [Requests -> Steps]
          /\ loop' \in [Replicas -> Requests \cup {None}]
          /\ reply' \in [Requests -> Replies]
      BY <2>4 DEF BeginDelete, Proceed, Answer, TypeOK, Steps, Replies
    <3>4. QED
      BY <2>4, <3>1, <3>2, <3>3 DEF BeginDelete, data, TypeOK
  <2> QED BY <1>1, <2>1, <2>2, <2>3, <2>4 DEF Begin
<1>2. ASSUME NEW r \in Requests, Continue(r) PROVE TypeOK'
  <2>1. CASE ReplaySend(r)
    BY <2>1 DEF ReplaySend, Answer, data, TypeOK, Steps, Replies
  <2>2. CASE CheckSend(r)
    BY <2>2 DEF CheckSend, Proceed, Answer, data, TypeOK, Steps, Replies
  <2>3. CASE FlushSend(r)
    BY <2>3 DEF FlushSend, Proceed, Answer, data, TypeOK, Steps, Replies
  <2>4. CASE CommitSend(r)
    <3>1. /\ job[r].user \in Users /\ job[r].key \in Keys \cup {NoKey}
          /\ seen[r].next + 1 \in Nat
      BY DEF TypeOK, Jobs, Reads
    <3>2. messages' \in [Requests -> MessageRows]
      BY <2>4, <3>1 DEF CommitSend, TypeOK, MessageRows, MessageStates
    <3>3. conversation' \in [status : {"active", "archived", "deleted"}, next : Nat]
      BY <2>4, <3>1 DEF CommitSend, TypeOK
    <3>4. /\ members' \in [Users -> [active : BOOLEAN, muted : BOOLEAN,
                                     lastRead : Requests \cup {None}]]
          /\ receipts' \subseteq Requests \X Users
          /\ outbox' \subseteq {"created", "read"} \X Requests
      <4>1. members' = [members EXCEPT ![job[r].user].lastRead = r]
        BY <2>4 DEF CommitSend
      <4>2. /\ receipts' = receipts \cup {<<r, job[r].user>>}
            /\ outbox' = outbox \cup {<<"created", r>>}
        BY <2>4 DEF CommitSend
      <4>3. members' \in [Users -> [active : BOOLEAN, muted : BOOLEAN,
                                   lastRead : Requests \cup {None}]]
        BY <4>1, <3>1 DEF TypeOK
      <4> QED BY <4>2, <4>3, <3>1 DEF TypeOK
    <3>5. /\ pc' \in [Requests -> Steps]
          /\ loop' \in [Replicas -> Requests \cup {None}]
          /\ reply' \in [Requests -> Replies]
      BY <2>4 DEF CommitSend, Proceed, TypeOK, Steps
    <3> QED BY <2>4, <3>2, <3>3, <3>4, <3>5 DEF CommitSend, TypeOK
  <2>5. CASE AnnounceSend(r)
    <3>1. announced' \in [Requests -> Nat]
      BY <2>5 DEF AnnounceSend, TypeOK
    <3>2. /\ pc' \in [Requests -> Steps]
          /\ loop' \in [Replicas -> Requests \cup {None}]
          /\ reply' \in [Requests -> Replies]
      BY <2>5 DEF AnnounceSend, Answer, TypeOK, Steps, Replies
    <3> QED BY <2>5, <3>1, <3>2 DEF AnnounceSend, data, TypeOK
  <2>6. CASE CommitRead(r)
    <3>1. job[r].target \in Requests /\ job[r].user \in Users
      BY <2>6, TargetIsMessage DEF CommitRead, TypeOK, Jobs
    <3>2. /\ members' \in [Users -> [active : BOOLEAN, muted : BOOLEAN,
                                     lastRead : Requests \cup {None}]]
          /\ receipts' \subseteq Requests \X Users
          /\ outbox' \subseteq {"created", "read"} \X Requests
      BY <2>6, <3>1 DEF CommitRead, TypeOK
    <3>3. /\ pc' \in [Requests -> Steps]
          /\ loop' \in [Replicas -> Requests \cup {None}]
          /\ reply' \in [Requests -> Replies]
      BY <2>6 DEF CommitRead, Answer, TypeOK, Steps, Replies
    <3> QED BY <2>6, <3>2, <3>3 DEF CommitRead, TypeOK
  <2>7. CASE CommitEdit(r)
    <3> DEFINE m == job[r].target
               s == IF seen[r].status = "edited" THEN messages[m].status ELSE "edited"
    <3>1. m \in Requests /\ messages[m] \in MessageRows /\ s \in MessageStates
      BY <2>7, TargetIsMessage DEF CommitEdit, MessageStates
    <3>2. [messages[m] EXCEPT !.content = TRUE, !.status = s] \in MessageRows
      BY <3>1, RowUpdate
    <3>3. messages' = [messages EXCEPT ![m] =
                         [messages[m] EXCEPT !.content = TRUE, !.status = s]]
      BY <2>7 DEF CommitEdit
    <3>4. messages' \in [Requests -> MessageRows]
      BY <3>1, <3>2, <3>3 DEF TypeOK
    <3> QED BY <2>7, <3>4 DEF CommitEdit, Answer, TypeOK, Steps, Replies
  <2>8. CASE CommitDelete(r)
    <3> DEFINE m == job[r].target
    <3>1. m \in Requests /\ messages[m] \in MessageRows
      BY <2>8, TargetIsMessage DEF CommitDelete
    <3>2. [messages[m] EXCEPT !.status = "deleted", !.content = FALSE] \in MessageRows
      BY <3>1 DEF MessageRows, MessageStates
    <3>3. messages' \in [Requests -> MessageRows]
      BY <2>8, <3>1, <3>2 DEF CommitDelete, TypeOK
    <3> QED BY <2>8, <3>3 DEF CommitDelete, Answer, TypeOK, Steps, Replies
  <2> QED BY <1>2, <2>1, <2>2, <2>3, <2>4, <2>5, <2>6, <2>7, <2>8 DEF Continue
<1>3. CASE SetConversationStatus BY <1>3 DEF SetConversationStatus, Administer, TypeOK
<1>4. CASE SetMembership BY <1>4 DEF SetMembership, Administer, TypeOK
<1>5. CASE SetMuted BY <1>5 DEF SetMuted, Administer, TypeOK
<1>6. ASSUME NEW p \in Replicas, Crash(p) PROVE TypeOK'
  <2>1. loop[p] \in Requests
    BY <1>6 DEF Crash, TypeOK
  <2> QED BY <1>6, <2>1 DEF Crash, Answer, data, TypeOK, Steps, Replies
<1>7. CASE UNCHANGED vars BY <1>7 DEF vars, TypeOK
<1> QED BY <1>1, <1>2, <1>3, <1>4, <1>5, <1>6, <1>7 DEF Next, Finished

-----------------------------------------------------------------------------

\* The rows of the stored messages keep what identifies them.
RowsKeep == /\ Stored \subseteq Stored'
            /\ \A m \in Stored : /\ messages'[m].sequence = messages[m].sequence
                                 /\ messages'[m].sender = messages[m].sender
                                 /\ messages'[m].key = messages[m].key

Untouched(q) == /\ pc'[q] = pc[q] /\ job'[q] = job[q] /\ seen'[q] = seen[q]
                /\ reply'[q] = reply[q] /\ announced'[q] = announced[q]
                /\ q \in Stored' => q \in Stored

\* A request is not disturbed by the steps of others: rows only come to
\* be, and its open transaction keeps its lock and the rows it checked.
LEMMA OthersKeep ==
  ASSUME TypeOK, TypeOK', NEW q \in Requests, RequestOK(q), Untouched(q), RowsKeep,
         conversation.next <= conversation'.next,
         InTransaction(q) => rowLock' = rowLock /\ Stored' = Stored
  PROVE  RequestOK(q)'
<1>1. StepFitsJob(q)'
  BY DEF RequestOK, StepFitsJob, Untouched, RowsKeep
<1>2. MessageFitsJob(q)'
  BY DEF RequestOK, MessageFitsJob, Untouched, RowsKeep
<1>3. ReadIsOld(q)'
  BY DEF RequestOK, ReadIsOld, Untouched, InTransaction, TypeOK, Reads
<1>4. SameKey(q) \subseteq SameKey(q)'
  BY DEF SameKey, Untouched, RowsKeep
<1>5. TransactionIsCurrent(q)'
  <2>1. SUFFICES ASSUME InTransaction(q)' PROVE rowLock' = q /\ ~Collides(q)'
    BY DEF TransactionIsCurrent
  <2>2. InTransaction(q) /\ rowLock = q /\ ~Collides(q) /\ Stored' = Stored /\ rowLock' = rowLock
    BY <2>1 DEF InTransaction, Untouched, RequestOK, TransactionIsCurrent
  <2>3. ~Collides(q)'
    BY <2>2 DEF Collides, SameKey, Untouched, RowsKeep
  <2> QED BY <2>2, <2>3
<1>6. AnswerComesLast(q)'
  BY <1>4 DEF RequestOK, AnswerComesLast, Untouched, RowsKeep
<1> QED BY <1>1, <1>2, <1>3, <1>5, <1>6 DEF RequestOK

\* The part of IInv that is about the rows only.
DataOK == /\ SequencesAreGapFree
          /\ OncePerKey
          /\ SendIsAllOrNothing
          /\ ReadPositionHasReceipt

\* What is said of the rows depends on the rows only.
LEMMA DataKeeps == DataOK /\ UNCHANGED data => DataOK'
BY DEF DataOK, data, SequencesAreGapFree, OncePerKey, SendIsAllOrNothing,
       ReadPositionHasReceipt, Stored

\* A step of request r that commits nothing.
LEMMA QuietStep ==
  ASSUME IInv, TypeOK', NEW r \in Requests, UNCHANGED data, RequestOK(r)',
         \A q \in Requests \ {r} : /\ Untouched(q)
                                   /\ InTransaction(q) => rowLock' = rowLock
  PROVE  IInv'
<1>1. DataOK'
  BY DataKeeps DEF IInv, DataOK
<1>2. RowsKeep /\ Stored' = Stored /\ conversation.next <= conversation'.next
  BY DEF RowsKeep, Stored, data, IInv, TypeOK
<1>3. ASSUME NEW q \in Requests \ {r} PROVE RequestOK(q)'
  <2>1. q \in Requests /\ TypeOK /\ RequestOK(q) /\ Untouched(q)
    BY <1>3 DEF IInv
  <2>2. InTransaction(q) => rowLock' = rowLock /\ Stored' = Stored
    BY <1>2, <1>3
  <2> QED BY <1>2, <2>1, <2>2, OthersKeep
<1> QED BY <1>1, <1>3 DEF IInv, DataOK

\* A request arrives: it is refused or starts with what it reads.
LEMMA BeginStep ==
  ASSUME IInv, TypeOK', NEW r \in Requests, Begin(r)
  PROVE  IInv'
<1>1. /\ pc[r] = "new" /\ UNCHANGED <<data, rowLock, announced>>
      /\ \A q \in Requests \ {r} : /\ pc'[q] = pc[q] /\ job'[q] = job[q]
                                   /\ seen'[q] = seen[q] /\ reply'[q] = reply[q]
  <2>1. PICK u \in Users, p \in Replicas :
          \/ \E k \in Keys \cup {NoKey} : BeginSend(r, u, k, p)
          \/ \E m \in Requests : \/ BeginRead(r, u, m, p)
                                 \/ BeginEdit(r, u, m, p)
                                 \/ BeginDelete(r, u, m, p)
    BY DEF Begin
  <2>2. pc[r] = "new" /\ UNCHANGED <<data, rowLock, announced>>
    BY <2>1 DEF BeginSend, BeginRead, BeginEdit, BeginDelete, Arrive
  <2>3. \A q \in Requests \ {r} : job'[q] = job[q]
    BY <2>1 DEF BeginSend, BeginRead, BeginEdit, BeginDelete, Arrive, IInv, TypeOK
  <2>4. \A q \in Requests \ {r} : seen'[q] = seen[q]
    BY <2>1 DEF BeginSend, BeginRead, BeginEdit, BeginDelete, IInv, TypeOK
  <2>5. \A q \in Requests \ {r} : pc'[q] = pc[q] /\ reply'[q] = reply[q]
    <3>1. (\E s \in Steps : Proceed(r, p, s)) \/ (\E a \in Replies : Answer(r, p, a))
      BY <2>1 DEF BeginSend, BeginRead, BeginEdit, BeginDelete, Steps, Replies
    <3> QED BY <3>1 DEF Proceed, Answer, IInv, TypeOK
  <2> QED BY <2>2, <2>3, <2>4, <2>5
<1>2. r \notin Stored /\ reply[r] = "none" /\ announced[r] = 0
  BY <1>1 DEF IInv, RequestOK, MessageFitsJob, AnswerComesLast
<1>3. r \notin Stored'
  BY <1>1, <1>2 DEF data, Stored
<1>4. \A q \in Requests \ {r} : Untouched(q) /\ (InTransaction(q) => rowLock' = rowLock)
  BY <1>1 DEF Untouched, data, Stored
<1>5. \/ pc'[r] = "done" /\ reply'[r] = "refused"
      \/ /\ pc'[r] = "lookup" /\ job'[r].op = "send" /\ seen'[r].next = conversation.next
         /\ reply' = reply
      \/ /\ pc'[r] = "commit" /\ job'[r].op # "send" /\ job'[r].target \in Stored
         /\ reply' = reply
  <2>1. ASSUME NEW u \in Users, NEW p \in Replicas, NEW k \in Keys \cup {NoKey}, BeginSend(r, u, k, p)
        PROVE  \/ pc'[r] = "done" /\ reply'[r] = "refused"
               \/ /\ pc'[r] = "lookup" /\ job'[r].op = "send"
                  /\ seen'[r].next = conversation.next /\ reply' = reply
    BY <2>1 DEF BeginSend, Arrive, Proceed, Answer, IInv, TypeOK, NoJob, NoRead
  <2>2. ASSUME NEW u \in Users, NEW p \in Replicas, NEW m \in Requests,
               BeginRead(r, u, m, p) \/ BeginEdit(r, u, m, p) \/ BeginDelete(r, u, m, p)
        PROVE  \/ pc'[r] = "done" /\ reply'[r] = "refused"
               \/ /\ pc'[r] = "commit" /\ job'[r].op # "send" /\ job'[r].target \in Stored
                  /\ reply' = reply
    <3>1. CASE BeginRead(r, u, m, p)
      BY <3>1 DEF BeginRead, Arrive, Proceed, Answer, IInv, TypeOK, NoJob
    <3>2. CASE BeginEdit(r, u, m, p)
      BY <3>2 DEF BeginEdit, MayEdit, Arrive, Proceed, Answer, IInv, TypeOK, NoJob
    <3>3. CASE BeginDelete(r, u, m, p)
      BY <3>3 DEF BeginDelete, MayDelete, Arrive, Proceed, Answer, IInv, TypeOK, NoJob
    <3> QED BY <2>2, <3>1, <3>2, <3>3
  <2> QED BY <2>1, <2>2 DEF Begin
<1>6. RequestOK(r)'
  <2>1. Stored' = Stored /\ conversation' = conversation /\ announced' = announced
    BY <1>1 DEF data, Stored
  <2>2. conversation.next <= conversation.next
    BY DEF IInv, TypeOK
  <2> QED BY <1>2, <1>3, <1>5, <2>1, <2>2 DEF RequestOK, StepFitsJob, MessageFitsJob, ReadIsOld,
                TransactionIsCurrent, InTransaction, AnswerComesLast
<1> QED BY <1>1, <1>4, <1>6, QuietStep

\* The steps of a send before and after its commit.
LEMMA SendStep ==
  ASSUME IInv, TypeOK', NEW r \in Requests,
         ReplaySend(r) \/ CheckSend(r) \/ FlushSend(r) \/ AnnounceSend(r)
  PROVE  IInv'
<1> USE DEF IInv, RequestOK
<1>1. /\ UNCHANGED <<data, job, seen>>
      /\ \A q \in Requests \ {r} : pc'[q] = pc[q] /\ reply'[q] = reply[q] /\ announced'[q] = announced[q]
  BY DEF ReplaySend, CheckSend, FlushSend, AnnounceSend, Proceed, Answer, TypeOK
<1>2. Stored' = Stored /\ SameKey(r)' = SameKey(r) /\ Collides(r)' = Collides(r)
  BY <1>1 DEF data, Stored, SameKey, Collides
<1>3. \A q \in Requests \ {r} : Untouched(q) /\ (InTransaction(q) => rowLock' = rowLock)
  <2>1. rowLock' = rowLock \/ rowLock = None
    BY DEF ReplaySend, CheckSend, FlushSend, AnnounceSend
  <2>2. \A q \in Requests : InTransaction(q) => rowLock = q /\ q # None
    BY NoneIsNoRequest DEF TransactionIsCurrent
  <2> QED BY <1>1, <1>2, <2>1, <2>2 DEF Untouched
<1>4. RequestOK(r)'
  <2>1. CASE ReplaySend(r)
    BY <1>1, <1>2, <2>1 DEF ReplaySend, Answer, TypeOK, StepFitsJob, MessageFitsJob, ReadIsOld,
          TransactionIsCurrent, InTransaction, AnswerComesLast
  <2>2. CASE CheckSend(r)
    BY <1>1, <1>2, <2>2 DEF CheckSend, Proceed, Answer, TypeOK, StepFitsJob, MessageFitsJob,
          ReadIsOld, TransactionIsCurrent, InTransaction, AnswerComesLast, data
  <2>3. CASE FlushSend(r)
    BY <1>1, <1>2, <2>3 DEF FlushSend, Proceed, Answer, TypeOK, StepFitsJob, MessageFitsJob,
          ReadIsOld, TransactionIsCurrent, InTransaction, AnswerComesLast, data
  <2>4. CASE AnnounceSend(r)
    <3>1. /\ pc[r] = "announce" /\ pc'[r] = "done" /\ announced'[r] = announced[r] + 1
          /\ reply'[r] \in {"created", "unannounced"}
      BY <2>4 DEF AnnounceSend, Answer, TypeOK
    <3>2. r \in Stored /\ announced[r] = 0
      BY <3>1 DEF MessageFitsJob, AnswerComesLast
    <3>3. announced'[r] = 1 /\ reply'[r] # "replayed"
      BY <3>1, <3>2
    <3>4. job' = job /\ r \in Stored' /\ messages' = messages
      BY <1>1, <1>2, <3>2 DEF data
    <3>5. AnswerComesLast(r)'
      BY <3>1, <3>3, <3>4 DEF AnswerComesLast
    <3>6. MessageFitsJob(r)'
      BY <3>1, <3>2, <3>4 DEF MessageFitsJob
    <3> QED BY <3>1, <3>5, <3>6 DEF StepFitsJob, ReadIsOld, TransactionIsCurrent, InTransaction
  <2> QED BY <2>1, <2>2, <2>3, <2>4
<1> QED BY <1>1, <1>3, <1>4, QuietStep

\* The commit of a send appends the next sequence.
LEMMA CommitAppends ==
  ASSUME IInv, NEW r \in Requests, CommitSend(r)
  PROVE  /\ r \notin Stored
         /\ ~Collides(r)
         /\ rowLock = r
         /\ seen[r].next = conversation.next
         /\ conversation'.next = conversation.next + 1
         /\ Stored' = Stored \cup {r}
         /\ messages'[r].sequence = conversation.next + 1
         /\ messages'[r].sender = job[r].user
         /\ messages'[r].key = job[r].key
         /\ \A m \in Requests \ {r} : messages'[m] = messages[m]
<1>1. /\ pc[r] = "commit" /\ job[r].op = "send"
      /\ rowLock = r /\ ~Collides(r) /\ seen[r].next <= conversation.next
      /\ r \notin Stored
  BY DEF CommitSend, IInv, RequestOK, MessageFitsJob, TransactionIsCurrent, ReadIsOld, InTransaction
<1>2. seen[r].next \in Nat /\ conversation.next \in Nat
  BY DEF IInv, TypeOK, Reads
<1>3. seen[r].next = conversation.next
  <2>1. SUFFICES ASSUME seen[r].next # conversation.next PROVE FALSE
    OBVIOUS
  <2>2. seen[r].next + 1 \in 1..conversation.next
    BY <1>1, <1>2, <2>1
  <2>3. \E m \in Stored : messages[m].sequence = seen[r].next + 1
    BY <2>2 DEF IInv, SequencesAreGapFree
  <2> QED BY <1>1, <2>3 DEF Collides
<1>4. /\ messages'[r] = [status |-> "sent", content |-> TRUE, sequence |-> seen[r].next + 1,
                         sender |-> job[r].user, key |-> job[r].key]
      /\ \A m \in Requests \ {r} : messages'[m] = messages[m]
  BY DEF CommitSend, IInv, TypeOK
<1>5. Stored' = Stored \cup {r}
  BY <1>4 DEF Stored
<1>6. conversation'.next = seen[r].next + 1
  BY DEF CommitSend, IInv, TypeOK
<1> QED BY <1>1, <1>3, <1>4, <1>5, <1>6

\* The commit of a send keeps the invariant.
LEMMA CommitSendStep ==
  ASSUME IInv, TypeOK', NEW r \in Requests, CommitSend(r)
  PROVE  IInv'
<1>1. /\ r \notin Stored /\ ~Collides(r) /\ rowLock = r
      /\ conversation'.next = conversation.next + 1
      /\ Stored' = Stored \cup {r}
      /\ messages'[r].sequence = conversation.next + 1
      /\ messages'[r].sender = job[r].user
      /\ messages'[r].key = job[r].key
      /\ \A m \in Stored : messages'[m] = messages[m]
  BY CommitAppends DEF Stored
<1>2. conversation.next \in Nat
  BY DEF IInv, TypeOK
<1>3. SequencesAreGapFree'
  <2>1. \A m \in Stored : messages[m].sequence \in 1..conversation.next
    BY DEF IInv, SequencesAreGapFree
  <2>2. \A m \in Stored' : messages'[m].sequence \in 1..conversation'.next
    BY <1>1, <1>2, <2>1
  <2>3. ASSUME NEW n \in 1..conversation'.next PROVE \E m \in Stored' : messages'[m].sequence = n
    <3>1. CASE n = conversation.next + 1
      BY <1>1, <3>1
    <3>2. CASE n \in 1..conversation.next
      BY <1>1, <3>2 DEF IInv, SequencesAreGapFree
    <3> QED BY <1>1, <1>2, <3>1, <3>2
  <2>4. ASSUME NEW m \in Stored', NEW k \in Stored', messages'[m].sequence = messages'[k].sequence
        PROVE  m = k
    <3>1. CASE m \in Stored /\ k \in Stored
      BY <1>1, <2>4, <3>1 DEF IInv, SequencesAreGapFree
    <3>2. CASE m = r /\ k \in Stored
      BY <1>1, <1>2, <2>1, <2>4, <3>2
    <3>3. CASE m \in Stored /\ k = r
      BY <1>1, <1>2, <2>1, <2>4, <3>3
    <3> QED BY <1>1, <3>1, <3>2, <3>3
  <2> QED BY <2>2, <2>3, <2>4 DEF SequencesAreGapFree
<1>4. OncePerKey'
  <2>1. ASSUME NEW m \in Stored', NEW k \in Stored',
               messages'[m].sender = messages'[k].sender,
               messages'[m].key = messages'[k].key, messages'[m].key # NoKey
        PROVE  m = k
    <3>1. CASE m \in Stored /\ k \in Stored
      BY <1>1, <2>1, <3>1 DEF IInv, OncePerKey
    <3>2. CASE m = r /\ k \in Stored
      BY <1>1, <2>1, <3>2 DEF Collides, SameKey
    <3>3. CASE m \in Stored /\ k = r
      BY <1>1, <2>1, <3>3 DEF Collides, SameKey
    <3> QED BY <1>1, <3>1, <3>2, <3>3
  <2> QED BY <2>1 DEF OncePerKey
<1>5. /\ receipts' = receipts \cup {<<r, job[r].user>>}
      /\ outbox' = outbox \cup {<<"created", r>>}
      /\ members' = [members EXCEPT ![job[r].user].lastRead = r]
      /\ rowLock' = None
      /\ UNCHANGED <<job, seen, announced, reply>>
      /\ pc' = [pc EXCEPT ![r] = "announce"]
  BY DEF CommitSend, Proceed
<1>6. SendIsAllOrNothing'
  <2>1. \A m \in Stored' : <<m, messages'[m].sender>> \in receipts'
    BY <1>1, <1>5 DEF IInv, SendIsAllOrNothing
  <2>2. \A m \in Requests : m \in Stored' <=> <<"created", m>> \in outbox'
    BY <1>1, <1>5 DEF IInv, SendIsAllOrNothing
  <2>3. \A receipt \in receipts' : receipt[1] \in Stored'
    BY <1>1, <1>5 DEF IInv, SendIsAllOrNothing
  <2> QED BY <2>1, <2>2, <2>3 DEF SendIsAllOrNothing
<1>7. ReadPositionHasReceipt'
  <2>1. ASSUME NEW u \in Users
        PROVE  members'[u].lastRead = IF u = job[r].user THEN r ELSE members[u].lastRead
    BY <1>5 DEF IInv, TypeOK
  <2> QED BY <1>1, <1>5, <2>1 DEF IInv, ReadPositionHasReceipt
<1>8. RowsKeep /\ conversation.next <= conversation'.next
  BY <1>1, <1>2 DEF RowsKeep
<1>9. ASSUME NEW q \in Requests, q # r PROVE RequestOK(q)'
  <2>1. TypeOK /\ RequestOK(q)
    BY DEF IInv
  <2>2. ~InTransaction(q)
    BY <1>1, <1>9, <2>1 DEF RequestOK, TransactionIsCurrent
  <2>3. Untouched(q)
    BY <1>1, <1>5, <1>9 DEF Untouched, IInv, TypeOK
  <2> QED BY <1>8, <2>1, <2>2, <2>3, OthersKeep
<1>10. RequestOK(r)'
  <2>1. pc'[r] = "announce" /\ job[r].op = "send" /\ pc[r] = "commit"
    BY <1>5 DEF CommitSend, IInv, TypeOK
  <2>2. reply[r] = "none" /\ announced[r] = 0
    BY <2>1 DEF IInv, RequestOK, AnswerComesLast
  <2> QED BY <1>1, <1>5, <2>1, <2>2 DEF RequestOK, StepFitsJob, MessageFitsJob, ReadIsOld,
             TransactionIsCurrent, InTransaction, AnswerComesLast
<1> QED BY <1>3, <1>4, <1>6, <1>7, <1>9, <1>10 DEF IInv

\* The commit of mark_read adds receipts, of an edit or a delete changes a
\* row's content and status: the messages stay what and where they are.
LEMMA OtherCommitKeeps ==
  ASSUME IInv, NEW r \in Requests, CommitRead(r) \/ CommitEdit(r) \/ CommitDelete(r)
  PROVE  /\ job[r].target \in Stored /\ job[r].target \in Requests
         /\ Stored' = Stored /\ RowsKeep
         /\ conversation' = conversation
<1> DEFINE m == job[r].target
<1>1. /\ pc[r] = "commit" /\ job[r].op # "send"
      /\ UNCHANGED <<conversation, rowLock, job, seen, announced>>
      /\ \E a \in {"done", "conflict"} : Answer(r, job[r].at, a)
  BY DEF CommitRead, CommitEdit, CommitDelete
<1>2. /\ m \in Stored /\ m \in Requests
  BY <1>1 DEF IInv, RequestOK, StepFitsJob, Stored
<1>3. /\ \A k \in Requests : /\ messages'[k].sequence = messages[k].sequence
                             /\ messages'[k].sender = messages[k].sender
                             /\ messages'[k].key = messages[k].key
                             /\ messages'[k].status = "absent" <=> messages[k].status = "absent"
  <2>1. CASE CommitRead(r)
    BY <2>1 DEF CommitRead
  <2>2. CASE CommitEdit(r)
    <3>1. /\ messages'[m].sequence = messages[m].sequence
          /\ messages'[m].sender = messages[m].sender
          /\ messages'[m].key = messages[m].key
          /\ messages'[m].status \in {messages[m].status, "edited"}
          /\ \A k \in Requests \ {m} : messages'[k] = messages[k]
      BY <1>2, <2>2 DEF CommitEdit, IInv, TypeOK, MessageRows
    <3> QED BY <1>2, <3>1 DEF Stored
  <2>3. CASE CommitDelete(r)
    <3>1. /\ messages'[m].sequence = messages[m].sequence
          /\ messages'[m].sender = messages[m].sender
          /\ messages'[m].key = messages[m].key
          /\ messages'[m].status \in {messages[m].status, "deleted"}
          /\ \A k \in Requests \ {m} : messages'[k] = messages[k]
      BY <1>2, <2>3 DEF CommitDelete, IInv, TypeOK, MessageRows
    <3> QED BY <1>2, <3>1 DEF Stored
  <2> QED BY <2>1, <2>2, <2>3
<1> QED BY <1>1, <1>2, <1>3 DEF Stored, RowsKeep

\* The commit of mark_read, an edit or a delete keeps the invariant.
LEMMA OtherCommitStep ==
  ASSUME IInv, TypeOK', NEW r \in Requests, CommitRead(r) \/ CommitEdit(r) \/ CommitDelete(r)
  PROVE  IInv'
<1> DEFINE m == job[r].target
<1>1. /\ pc[r] = "commit" /\ job[r].op # "send"
      /\ UNCHANGED <<conversation, rowLock, job, seen, announced>>
      /\ \E a \in {"done", "conflict"} : Answer(r, job[r].at, a)
  BY DEF CommitRead, CommitEdit, CommitDelete
<1>2. m \in Stored /\ m \in Requests /\ Stored' = Stored /\ RowsKeep
  BY OtherCommitKeeps
<1>3. \A k \in Stored : /\ messages'[k].sequence = messages[k].sequence
                        /\ messages'[k].sender = messages[k].sender
                        /\ messages'[k].key = messages[k].key
  BY <1>2 DEF RowsKeep
<1>4. Stored' = Stored /\ RowsKeep /\ conversation.next <= conversation'.next
  BY <1>1, <1>2 DEF IInv, TypeOK
<1>5. /\ pc'[r] = "done" /\ reply'[r] \in {"done", "conflict"}
      /\ \A q \in Requests \ {r} : pc'[q] = pc[q] /\ reply'[q] = reply[q]
  BY <1>1 DEF Answer, IInv, TypeOK
<1>6. SequencesAreGapFree' /\ OncePerKey'
  <2>1. SequencesAreGapFree'
    BY <1>1, <1>3, <1>4 DEF IInv, SequencesAreGapFree, Stored
  <2>2. OncePerKey'
    BY <1>1, <1>3, <1>4 DEF IInv, OncePerKey, Stored
  <2> QED BY <2>1, <2>2
<1>7. /\ receipts' = receipts \/ receipts' = receipts \cup {<<m, job[r].user>>}
      /\ outbox' = outbox \/ outbox' = outbox \cup {<<"read", m>>}
      /\ \/ members' = members
         \/ /\ members' = [members EXCEPT ![job[r].user].lastRead = m]
            /\ <<m, job[r].user>> \in receipts'
  BY DEF CommitRead, CommitEdit, CommitDelete
<1>8. SendIsAllOrNothing'
  <2>1. \A k \in Stored' : <<k, messages'[k].sender>> \in receipts'
    BY <1>3, <1>4, <1>7 DEF IInv, SendIsAllOrNothing, Stored
  <2>2. \A k \in Requests : k \in Stored' <=> <<"created", k>> \in outbox'
    <3>1. \A k \in Requests : <<"created", k>> # <<"read", m>>
      OBVIOUS
    <3> QED BY <1>4, <1>7, <3>1 DEF IInv, SendIsAllOrNothing
  <2>3. \A receipt \in receipts' : receipt[1] \in Stored'
    BY <1>2, <1>4, <1>7 DEF IInv, SendIsAllOrNothing
  <2> QED BY <2>1, <2>2, <2>3 DEF SendIsAllOrNothing
<1>9. ReadPositionHasReceipt'
  <2>1. receipts \subseteq receipts'
    BY <1>7
  <2>2. CASE members' = members
    BY <1>4, <2>1, <2>2 DEF IInv, ReadPositionHasReceipt
  <2>3. CASE /\ members' = [members EXCEPT ![job[r].user].lastRead = m]
             /\ <<m, job[r].user>> \in receipts'
    <3>1. \A u \in Users : members'[u].lastRead = IF u = job[r].user THEN m ELSE members[u].lastRead
      BY <2>3 DEF IInv, TypeOK
    <3> QED BY <1>2, <1>4, <2>1, <2>3, <3>1 DEF IInv, ReadPositionHasReceipt
  <2> QED BY <1>7, <2>2, <2>3
<1>10. ASSUME NEW q \in Requests, q # r PROVE RequestOK(q)'
  <2>1. TypeOK /\ RequestOK(q)
    BY DEF IInv
  <2>2. Untouched(q)
    BY <1>1, <1>4, <1>5, <1>10 DEF Untouched
  <2> QED BY <1>1, <1>4, <2>1, <2>2, OthersKeep
<1>11. RequestOK(r)'
  <2>1. r \notin Stored /\ announced[r] = 0
    BY <1>1 DEF IInv, RequestOK, MessageFitsJob, AnswerComesLast
  <2> QED BY <1>1, <1>4, <1>5, <2>1 DEF RequestOK, StepFitsJob, MessageFitsJob, ReadIsOld,
             TransactionIsCurrent, InTransaction, AnswerComesLast
<1> QED BY <1>6, <1>8, <1>9, <1>10, <1>11 DEF IInv

\* Administration does not touch messages, nor an open transaction.
LEMMA AdministerStep ==
  ASSUME IInv, TypeOK', SetConversationStatus \/ SetMembership \/ SetMuted
  PROVE  IInv'
<1>1. UNCHANGED <<messages, receipts, outbox, rowLock, pc, job, seen, reply, announced>>
  BY DEF SetConversationStatus, SetMembership, SetMuted, Administer
<1>2. conversation'.next = conversation.next
  BY DEF SetConversationStatus, SetMembership, SetMuted, IInv, TypeOK
<1>3. \A u \in Users : members'[u].lastRead = members[u].lastRead
  BY DEF SetConversationStatus, SetMembership, SetMuted, IInv, TypeOK
<1>4. Stored' = Stored /\ RowsKeep /\ conversation.next <= conversation'.next
  BY <1>1, <1>2 DEF Stored, RowsKeep, IInv, TypeOK
<1>5. SequencesAreGapFree' /\ OncePerKey' /\ SendIsAllOrNothing' /\ ReadPositionHasReceipt'
  BY <1>1, <1>2, <1>3, <1>4 DEF IInv, SequencesAreGapFree, OncePerKey, SendIsAllOrNothing,
     ReadPositionHasReceipt
<1>6. ASSUME NEW q \in Requests PROVE RequestOK(q)'
  <2>1. TypeOK /\ RequestOK(q) /\ Untouched(q)
    BY <1>1, <1>4 DEF IInv, Untouched
  <2> QED BY <1>1, <1>4, <2>1, OthersKeep
<1> QED BY <1>5, <1>6 DEF IInv

\* A crash ends the request of the replica and rolls its transaction back.
LEMMA CrashStep ==
  ASSUME IInv, TypeOK', NEW p \in Replicas, Crash(p)
  PROVE  IInv'
<1>0. PICK r \in Requests : r = loop[p]
  BY DEF Crash, IInv, TypeOK
<1>1. /\ r \in Requests
      /\ UNCHANGED <<data, job, seen, announced>>
      /\ pc' = [pc EXCEPT ![r] = "done"]
      /\ reply' = [reply EXCEPT ![r] = "lost"]
      /\ rowLock' = IF rowLock = r THEN None ELSE rowLock
  BY <1>0 DEF Crash, Answer
<1>2. Stored' = Stored
  BY <1>1 DEF data, Stored
<1>3. ASSUME NEW q \in Requests \ {r}
      PROVE  Untouched(q) /\ (InTransaction(q) => rowLock' = rowLock)
  <2>1. InTransaction(q) => rowLock = q
    BY DEF IInv, RequestOK, TransactionIsCurrent
  <2> QED BY <1>1, <1>2, <1>3, <2>1 DEF Untouched, IInv, TypeOK
<1>4. RequestOK(r)'
  <2>1. pc'[r] = "done" /\ reply'[r] = "lost" /\ RequestOK(r)
    BY <1>1 DEF IInv, TypeOK
  <2>2. messages' = messages
    BY <1>1 DEF data
  <2> QED BY <1>1, <1>2, <2>1, <2>2 DEF RequestOK, StepFitsJob, MessageFitsJob, ReadIsOld,
             TransactionIsCurrent, InTransaction, AnswerComesLast
<1> QED BY <1>1, <1>3, <1>4, QuietStep

-----------------------------------------------------------------------------

\* The rows, the constraints and the lock keep the invariant in every step.
LEMMA Inductive == IInv /\ [Next]_vars => IInv'
<1> SUFFICES ASSUME IInv, [Next]_vars PROVE IInv'
  OBVIOUS
<1>0. TypeOK'
  BY TypeStep DEF IInv, RequestOK
<1>1. ASSUME NEW r \in Requests, Begin(r) PROVE IInv'
  BY <1>0, <1>1, BeginStep
<1>2. ASSUME NEW r \in Requests, Continue(r) PROVE IInv'
  BY <1>0, <1>2, SendStep, CommitSendStep, OtherCommitStep DEF Continue
<1>3. CASE SetConversationStatus \/ SetMembership \/ SetMuted
  BY <1>0, <1>3, AdministerStep
<1>4. ASSUME NEW p \in Replicas, Crash(p) PROVE IInv'
  BY <1>0, <1>4, CrashStep
<1>5. CASE UNCHANGED vars
  BY <1>5 DEF vars, IInv, TypeOK, SequencesAreGapFree, OncePerKey, SendIsAllOrNothing,
     ReadPositionHasReceipt, Stored, RequestOK, StepFitsJob, MessageFitsJob, ReadIsOld,
     TransactionIsCurrent, InTransaction, AnswerComesLast, Collides, SameKey
<1> QED BY <1>1, <1>2, <1>3, <1>4, <1>5 DEF Next, Finished

\* Nothing is stored at first.
LEMMA Initially == Init => IInv
<1> SUFFICES ASSUME Init PROVE IInv
  OBVIOUS
<1>1. TypeOK
  BY OwnerIsAMember DEF Init, TypeOK, Jobs, Reads, MessageRows, MessageStates, Steps, Replies,
     NoJob, NoRead, NoMessage
<1>2. Stored = {}
  BY DEF Init, Stored, NoMessage
<1> QED BY <1>1, <1>2 DEF Init, IInv, SequencesAreGapFree, OncePerKey, SendIsAllOrNothing,
       ReadPositionHasReceipt, RequestOK, StepFitsJob, MessageFitsJob, ReadIsOld,
       TransactionIsCurrent, InTransaction, AnswerComesLast, SameKey

\* The invariant holds in every reachable state.
THEOREM Invariance == Spec => []IInv
BY Initially, Inductive, PTL DEF Spec

\* Every variable has its type in every reachable state.
THEOREM TypeCorrect == Spec => []TypeOK
BY Invariance, PTL DEF IInv

\* The stored sequences are 1..next_sequence, each used once: create_message
\* never loses, repeats or skips a sequence.
THEOREM GapFree == Spec => []SequencesAreGapFree
BY Invariance, PTL DEF IInv

\* A sender's client_message_id names at most one stored message.
THEOREM Idempotent == Spec => []OncePerKey
BY Invariance, PTL DEF IInv

\* Message, receipt and outbox event are stored together or not at all.
THEOREM AllOrNothing == Spec => []SendIsAllOrNothing
BY Invariance, PTL DEF IInv

\* A read position names a stored message with a receipt of its reader.
THEOREM ReadPositionsBacked == Spec => []ReadPositionHasReceipt
BY Invariance, PTL DEF IInv

\* What a sender was answered stays true of the stored messages.
THEOREM Durable == Spec => []AnswersAreDurable
<1>1. IInv => AnswersAreDurable
  BY DEF IInv, RequestOK, AnswerComesLast, AnswersAreDurable
<1> QED BY <1>1, Invariance, PTL

\* message.created is broadcast at most once per message, after its commit.
THEOREM Announced == Spec => []AnnouncedOnce
<1>1. IInv => AnnouncedOnce
  BY DEF IInv, RequestOK, AnswerComesLast, AnnouncedOnce
<1> QED BY <1>1, Invariance, PTL

-----------------------------------------------------------------------------
(* What a step does to the messages.                                       *)

\* Only commits touch the messages and the read positions.
LEMMA StepKinds ==
  ASSUME IInv, [Next]_vars
  PROVE  \/ \E r \in Requests : CommitSend(r)
         \/ \E r \in Requests : CommitRead(r) \/ CommitEdit(r) \/ CommitDelete(r)
         \/ /\ messages' = messages /\ conversation'.next = conversation.next
            /\ \A u \in Users : members'[u].lastRead = members[u].lastRead
<1>1. CASE \E r \in Requests : Begin(r)
  <2>1. PICK r \in Requests, u \in Users, p \in Replicas :
          \/ \E k \in Keys \cup {NoKey} : BeginSend(r, u, k, p)
          \/ \E m \in Requests : \/ BeginRead(r, u, m, p)
                                 \/ BeginEdit(r, u, m, p)
                                 \/ BeginDelete(r, u, m, p)
    BY <1>1 DEF Begin
  <2>2. UNCHANGED data
    BY <2>1 DEF BeginSend, BeginRead, BeginEdit, BeginDelete
  <2> QED BY <2>2 DEF data
<1>2. CASE \E r \in Requests : \/ ReplaySend(r) \/ CheckSend(r)
                               \/ FlushSend(r) \/ AnnounceSend(r)
  BY <1>2 DEF ReplaySend, CheckSend, FlushSend, AnnounceSend, data
<1>3. CASE SetConversationStatus \/ SetMembership \/ SetMuted
  BY <1>3 DEF SetConversationStatus, SetMembership, SetMuted, Administer, IInv, TypeOK
<1>4. CASE (\E p \in Replicas : Crash(p)) \/ UNCHANGED vars
  BY <1>4 DEF Crash, data, vars
<1> QED BY <1>1, <1>2, <1>3, <1>4 DEF Next, Continue, Finished

\* Stored messages keep their sequences, and only the commit of a send adds one.
LEMMA StoredKeep ==
  ASSUME IInv, [Next]_vars
  PROVE  /\ \A m \in Stored : messages'[m].sequence = messages[m].sequence
         /\ \A m \in Stored' \ Stored : CommitSend(m)
<1>1. ASSUME NEW r \in Requests, CommitSend(r)
      PROVE  /\ \A m \in Stored : messages'[m].sequence = messages[m].sequence
             /\ \A m \in Stored' \ Stored : CommitSend(m)
  <2>1. /\ r \notin Stored /\ Stored' = Stored \cup {r}
        /\ \A m \in Requests \ {r} : messages'[m] = messages[m]
    BY <1>1, CommitAppends
  <2> QED BY <1>1, <2>1 DEF Stored
<1>2. ASSUME NEW r \in Requests, CommitRead(r) \/ CommitEdit(r) \/ CommitDelete(r)
      PROVE  Stored' = Stored /\ RowsKeep
  BY <1>2, OtherCommitKeeps
<1> QED BY <1>1, <1>2, StepKinds DEF RowsKeep, Stored

-----------------------------------------------------------------------------
(* What the event loop of a single replica adds: while a request is under  *)
(* way no other is, so what it has read is still so when it commits.       *)

OneReplica == \A p, q \in Replicas : p = q

Running(r) == pc[r] \notin {"new", "done"}

\* A running request occupies the event loop of its replica.
OnLoop(r) == Running(r) => job[r].at \in Replicas /\ loop[job[r].at] = r

\* What a request has checked and read is so.
Current(r) ==
  /\ pc[r] \in {"lookup", "flush"} \/ InTransaction(r) =>
       MaySend(job[r].user) /\ seen[r].next = conversation.next
  /\ pc[r] = "flush" => SameKey(r) = {}
  /\ pc[r] = "commit" /\ job[r].op = "read" =>
       /\ seen[r].advances = Advances(job[r].user, job[r].target)
       /\ seen[r].receipt = (<<job[r].target, job[r].user>> \in receipts)
  /\ pc[r] = "commit" /\ job[r].op = "edit" => messages[job[r].target].status # "deleted"
  /\ pc[r] = "commit" /\ job[r].op = "delete" => seen[r].status = messages[job[r].target].status

OneAtATime == NoConflict /\ \A r \in Requests : OnLoop(r) /\ Current(r)

\* Two requests that run are the same.
LEMMA RunningAlone ==
  ASSUME OneReplica, OneAtATime, NEW r \in Requests, NEW q \in Requests, Running(r), Running(q)
  PROVE  r = q
BY DEF OneReplica, OneAtATime, OnLoop

\* On an idle event loop nothing runs.
LEMMA IdleAlone ==
  ASSUME OneReplica, OneAtATime, NEW p \in Replicas, loop[p] = None, NEW q \in Requests
  PROVE  ~Running(q)
<1>1. ASSUME Running(q) PROVE FALSE
  <2>1. loop[p] = q
    BY <1>1 DEF OneReplica, OneAtATime, OnLoop
  <2> QED BY <2>1, NoneIsNoRequest
<1> QED BY <1>1

\* A step of request r when no other runs: what matters is r.
LEMMA StepOfOne ==
  ASSUME OneReplica, OneAtATime, NEW r \in Requests, OnLoop(r)', Current(r)', reply'[r] # "conflict",
         \A q \in Requests \ {r} : ~Running(q) /\ pc'[q] = pc[q] /\ reply'[q] = reply[q]
  PROVE  OneAtATime'
<1>1. ASSUME NEW q \in Requests \ {r} PROVE OnLoop(q)' /\ Current(q)' /\ reply'[q] # "conflict"
  <2>1. pc'[q] \in {"new", "done"} /\ reply'[q] # "conflict"
    BY <1>1 DEF Running, OneAtATime, NoConflict
  <2> QED BY <2>1 DEF OnLoop, Current, Running, InTransaction
<1> QED BY <1>1 DEF OneAtATime, NoConflict

\* What a request that arrives is asked to do.
LEMMA SendJob ==
  ASSUME TypeOK, NEW r \in Requests, NEW u \in Users, NEW p \in Replicas,
         NEW k \in Keys \cup {NoKey}, BeginSend(r, u, k, p)
  PROVE  job'[r].op = "send" /\ job'[r].user = u /\ job'[r].at = p
<1>1. job'[r] = [NoJob EXCEPT !.op = "send", !.user = u, !.key = k, !.at = p]
  BY DEF BeginSend, Arrive, TypeOK
<1> QED BY <1>1 DEF NoJob

LEMMA TargetJob ==
  ASSUME TypeOK, NEW r \in Requests, NEW u \in Users, NEW p \in Replicas, NEW m \in Requests,
         BeginRead(r, u, m, p) \/ BeginEdit(r, u, m, p) \/ BeginDelete(r, u, m, p)
  PROVE  /\ job'[r].user = u /\ job'[r].target = m /\ job'[r].at = p
         /\ BeginRead(r, u, m, p) => job'[r].op = "read"
<1>1. CASE BeginRead(r, u, m, p)
  <2>1. job'[r] = [NoJob EXCEPT !.op = "read", !.user = u, !.target = m, !.at = p]
    BY <1>1 DEF BeginRead, Arrive, TypeOK
  <2> QED BY <1>1, <2>1 DEF NoJob
<1>2. CASE ~BeginRead(r, u, m, p)
  <2>1. \E op \in {"edit", "delete"} :
          job'[r] = [NoJob EXCEPT !.op = op, !.user = u, !.target = m, !.at = p]
    BY <1>2 DEF BeginEdit, BeginDelete, Arrive, TypeOK
  <2> QED BY <1>2, <2>1 DEF NoJob
<1> QED BY <1>1, <1>2

\* A request arrives on the idle replica.
LEMMA BeginAlone ==
  ASSUME OneReplica, IInv, OneAtATime, NEW r \in Requests, Begin(r)
  PROVE  OneAtATime'
<1> USE DEF IInv
<1>1. PICK u \in Users, p \in Replicas :
        \/ \E k \in Keys \cup {NoKey} : BeginSend(r, u, k, p)
        \/ \E m \in Requests : \/ BeginRead(r, u, m, p)
                               \/ BeginEdit(r, u, m, p)
                               \/ BeginDelete(r, u, m, p)
  BY DEF Begin
<1>2. loop[p] = None /\ UNCHANGED data
  BY <1>1 DEF BeginSend, BeginRead, BeginEdit, BeginDelete, Arrive
<1>3. \/ \E s \in {"lookup", "commit"} : Proceed(r, p, s)
      \/ Answer(r, p, "refused")
  BY <1>1 DEF BeginSend, BeginRead, BeginEdit, BeginDelete
<1>4. /\ \A q \in Requests \ {r} : ~Running(q) /\ pc'[q] = pc[q] /\ reply'[q] = reply[q]
      /\ reply'[r] # "conflict"
  BY <1>2, <1>3, IdleAlone DEF Proceed, Answer, TypeOK, OneAtATime, NoConflict
<1>5. job'[r].at = p
  <2>1. ASSUME NEW k \in Keys \cup {NoKey}, BeginSend(r, u, k, p) PROVE job'[r].at = p
    BY <2>1, SendJob
  <2>2. ASSUME NEW m \in Requests,
               BeginRead(r, u, m, p) \/ BeginEdit(r, u, m, p) \/ BeginDelete(r, u, m, p)
        PROVE  job'[r].at = p
    BY <2>2, TargetJob
  <2> QED BY <1>1, <2>1, <2>2
<1>6. OnLoop(r)'
  BY <1>3, <1>5 DEF OnLoop, Running, Proceed, Answer, TypeOK
<1>7. Current(r)'
  <2>1. ASSUME NEW k \in Keys \cup {NoKey}, BeginSend(r, u, k, p) PROVE Current(r)'
    <3>1. CASE MaySend(u)
      <4>1. /\ pc'[r] = "lookup" /\ job'[r].user = u /\ job'[r].op = "send"
            /\ seen'[r].next = conversation.next
        <5>1. job'[r].op = "send" /\ job'[r].user = u
          BY <2>1, SendJob
        <5>2. seen'[r] = [NoRead EXCEPT !.next = conversation.next] /\ pc'[r] = "lookup"
          BY <2>1, <3>1 DEF BeginSend, Proceed, Answer, TypeOK
        <5> QED BY <5>1, <5>2 DEF NoRead
      <4> QED BY <1>2, <3>1, <4>1 DEF Current, MaySend, IsMember, data
    <3>2. CASE ~MaySend(u)
      BY <2>1, <3>2 DEF BeginSend, Answer, TypeOK, Current, InTransaction
    <3> QED BY <3>1, <3>2
  <2>2. ASSUME NEW m \in Requests, BeginRead(r, u, m, p) PROVE Current(r)'
    <3>1. CASE IsMember(u) /\ m \in Stored
      <4>1. /\ pc'[r] = "commit" /\ job'[r].user = u /\ job'[r].op = "read" /\ job'[r].target = m
            /\ seen'[r].advances = Advances(u, m)
            /\ seen'[r].receipt = (<<m, u>> \in receipts)
        <5>1. seen'[r] = [NoRead EXCEPT !.advances = Advances(u, m),
                                        !.receipt = <<m, u>> \in receipts]
          BY <2>2, <3>1 DEF BeginRead, TypeOK
        <5>2. job'[r].op = "read" /\ job'[r].user = u /\ job'[r].target = m
          BY <2>2, TargetJob
        <5>3. pc'[r] = "commit"
          BY <2>2, <3>1 DEF BeginRead, Proceed, TypeOK
        <5> QED BY <5>1, <5>2, <5>3 DEF NoRead
      <4>2. Advances(u, m)' = Advances(u, m)
        BY <1>2 DEF Advances, data
      <4> QED BY <1>2, <4>1, <4>2 DEF Current, InTransaction, Advances, data
    <3>2. CASE ~(IsMember(u) /\ m \in Stored)
      BY <2>2, <3>2 DEF BeginRead, Answer, TypeOK, Current, InTransaction
    <3> QED BY <3>1, <3>2
  <2>3. ASSUME NEW m \in Requests, BeginEdit(r, u, m, p) \/ BeginDelete(r, u, m, p)
        PROVE  Current(r)'
    <3>1. pc'[r] \in {"commit", "done"}
      BY <2>3 DEF BeginEdit, BeginDelete, Proceed, Answer, TypeOK
    <3>2. PICK op \in {"edit", "delete"} :
            /\ job'[r] = [NoJob EXCEPT !.op = op, !.user = u, !.target = m, !.at = p]
            /\ op = "edit" => BeginEdit(r, u, m, p)
            /\ op = "delete" => BeginDelete(r, u, m, p)
      BY <2>3 DEF BeginEdit, BeginDelete, Arrive, TypeOK
    <3>3. job'[r].op = op /\ job'[r].target = m
      BY <3>2 DEF NoJob
    <3>4. messages' = messages /\ Requests = DOMAIN seen
      BY <1>2 DEF data, TypeOK
    <3>5. ASSUME op = "edit", pc'[r] = "commit" PROVE messages[m].status # "deleted"
      BY <3>2, <3>5 DEF BeginEdit, MayEdit, Answer, TypeOK
    <3>6. ASSUME op = "delete", pc'[r] = "commit" PROVE seen'[r].status = messages[m].status
      <4>1. seen'[r] = [NoRead EXCEPT !.status = messages[m].status]
        BY <3>2, <3>6 DEF BeginDelete, Answer, TypeOK
      <4> QED BY <4>1 DEF NoRead
    <3> QED BY <3>1, <3>3, <3>4, <3>5, <3>6 DEF Current, InTransaction
  <2> QED BY <1>1, <2>1, <2>2, <2>3
<1> QED BY <1>4, <1>6, <1>7, StepOfOne

\* The running request goes on: on one replica no constraint stands in its way.
LEMMA ContinueAlone ==
  ASSUME OneReplica, IInv, OneAtATime, NEW r \in Requests, Continue(r)
  PROVE  OneAtATime'
<1> USE DEF IInv
<1>1. Running(r) /\ UNCHANGED <<job, seen>>
  BY DEF Continue, ReplaySend, CheckSend, FlushSend, CommitSend, AnnounceSend, CommitRead,
         CommitEdit, CommitDelete, Running
<1>2. job[r].at \in Replicas /\ loop[job[r].at] = r /\ Current(r)
  BY <1>1 DEF OneAtATime, OnLoop
<1>3. \/ /\ pc[r] = "lookup" /\ SameKey(r) = {} /\ Proceed(r, job[r].at, "flush") /\ UNCHANGED data
      \/ /\ pc[r] = "flush" /\ Proceed(r, job[r].at, "commit") /\ UNCHANGED data
      \/ /\ pc[r] = "commit" /\ Proceed(r, job[r].at, "announce")
      \/ \E a \in Replies \ {"conflict"} : Answer(r, job[r].at, a)
  <2>1. CASE FlushSend(r)
    <3>1. ~Collides(r)
      <4>1. pc[r] = "flush" /\ seen[r].next = conversation.next /\ SameKey(r) = {}
        BY <1>2, <2>1 DEF FlushSend, Current
      <4>2. \A m \in Stored : messages[m].sequence # seen[r].next + 1
        BY <4>1 DEF SequencesAreGapFree, TypeOK
      <4> QED BY <4>1, <4>2 DEF Collides
    <3> QED BY <2>1, <3>1 DEF FlushSend
  <2>2. CASE CommitRead(r)
    <3>1. seen[r].receipt = (<<job[r].target, job[r].user>> \in receipts)
      BY <1>2, <2>2 DEF CommitRead, Current
    <3>2. Answer(r, job[r].at, "done")
      BY <2>2, <3>1 DEF CommitRead
    <3> QED BY <3>2 DEF Replies
  <2>3. CASE ReplaySend(r) \/ CheckSend(r) \/ CommitSend(r) \/ AnnounceSend(r)
    BY <2>3 DEF ReplaySend, CheckSend, CommitSend, AnnounceSend, Replies
  <2>4. CASE CommitEdit(r) \/ CommitDelete(r)
    BY <2>4 DEF CommitEdit, CommitDelete, Replies
  <2> QED BY <2>1, <2>2, <2>3, <2>4 DEF Continue
<1>4. \A q \in Requests \ {r} : ~Running(q) /\ pc'[q] = pc[q] /\ reply'[q] = reply[q]
  <2>1. \A q \in Requests \ {r} : ~Running(q)
    BY <1>1, RunningAlone
  <2> QED BY <1>3, <2>1 DEF Proceed, Answer, TypeOK
<1>5. OnLoop(r)' /\ reply'[r] # "conflict"
  BY <1>1, <1>2, <1>3 DEF OnLoop, Running, Proceed, Answer, TypeOK, OneAtATime, NoConflict
<1>6. Current(r)'
  <2>1. CASE pc[r] = "lookup" /\ SameKey(r) = {} /\ Proceed(r, job[r].at, "flush") /\ UNCHANGED data
    <3>1. pc'[r] = "flush" /\ MaySend(job[r].user) /\ seen[r].next = conversation.next
      BY <1>2, <2>1 DEF Proceed, Current, TypeOK
    <3>2. SameKey(r)' = {} /\ MaySend(job[r].user)' /\ seen'[r].next = conversation'.next
      BY <1>1, <2>1, <3>1 DEF SameKey, Stored, MaySend, IsMember, data
    <3> QED BY <3>1, <3>2 DEF Current
  <2>2. CASE pc[r] = "flush" /\ Proceed(r, job[r].at, "commit") /\ UNCHANGED data
    <3>1. pc'[r] = "commit" /\ MaySend(job[r].user) /\ seen[r].next = conversation.next
      BY <1>2, <2>2 DEF Proceed, Current, TypeOK
    <3>2. job'[r].op = "send"
      BY <1>1, <2>2 DEF RequestOK, StepFitsJob
    <3>3. MaySend(job[r].user)' /\ seen'[r].next = conversation'.next
      BY <1>1, <2>2, <3>1 DEF MaySend, IsMember, data
    <3> QED BY <3>1, <3>2, <3>3 DEF Current
  <2>3. CASE pc[r] = "commit" /\ Proceed(r, job[r].at, "announce")
    BY <2>3 DEF Proceed, Current, InTransaction, TypeOK
  <2>4. CASE \E a \in Replies \ {"conflict"} : Answer(r, job[r].at, a)
    BY <2>4 DEF Answer, Current, InTransaction, TypeOK
  <2> QED BY <1>3, <2>1, <2>2, <2>3, <2>4
<1> QED BY <1>4, <1>5, <1>6, StepOfOne

\* With one replica nothing changes what a request has read.
LEMMA AloneStep == OneReplica /\ IInv /\ OneAtATime /\ [Next]_vars => OneAtATime'
<1> SUFFICES ASSUME OneReplica, IInv, OneAtATime, [Next]_vars PROVE OneAtATime'
  OBVIOUS
<1>1. ASSUME NEW r \in Requests, Begin(r) PROVE OneAtATime'
  BY <1>1, BeginAlone
<1>2. ASSUME NEW r \in Requests, Continue(r) PROVE OneAtATime'
  BY <1>2, ContinueAlone
<1>3. CASE SetConversationStatus \/ SetMembership \/ SetMuted
  <2>1. Administer
    BY <1>3 DEF SetConversationStatus, SetMembership, SetMuted
  <2>2. \A q \in Requests : ~Running(q) /\ pc'[q] = pc[q] /\ reply'[q] = reply[q]
    BY <2>1, IdleAlone DEF Administer, Idle
  <2> QED BY <2>2 DEF OneAtATime, NoConflict, OnLoop, Current, InTransaction, Running
<1>4. ASSUME NEW p \in Replicas, Crash(p) PROVE OneAtATime'
  <2>1. loop[p] \in Requests /\ pc'[loop[p]] = "done" /\ reply'[loop[p]] = "lost"
    BY <1>4 DEF Crash, Answer, IInv, TypeOK
  <2>2. \A q \in Requests \ {loop[p]} : ~Running(q) /\ pc'[q] = pc[q] /\ reply'[q] = reply[q]
    <3>1. \A q \in Requests : Running(q) => loop[p] = q
      BY DEF OneReplica, OneAtATime, OnLoop
    <3> QED BY <1>4, <3>1 DEF Crash, Answer, IInv, TypeOK
  <2> QED
    <3>1. PICK r \in Requests : r = loop[p]
      BY <2>1
    <3>2. /\ OnLoop(r)' /\ Current(r)' /\ reply'[r] # "conflict"
          /\ \A q \in Requests \ {r} : ~Running(q) /\ pc'[q] = pc[q] /\ reply'[q] = reply[q]
      <4>1. pc'[r] = "done" /\ reply'[r] = "lost"
        BY <2>1, <3>1
      <4> QED BY <2>2, <3>1, <4>1 DEF OnLoop, Current, Running, InTransaction
    <3> QED BY <3>2, StepOfOne
<1>5. CASE UNCHANGED vars
  <2>1. ASSUME NEW r \in Requests PROVE OnLoop(r)' /\ Current(r)'
    <3>1. OnLoop(r) /\ Current(r) /\ UNCHANGED <<pc, job, seen, loop, messages, members,
                                                 conversation, receipts>>
      BY <1>5 DEF vars, data, OneAtATime
    <3>2. OnLoop(r)'
      BY <3>1 DEF OnLoop, Running
    <3>3. SameKey(r)' = SameKey(r) /\ InTransaction(r)' = InTransaction(r)
      BY <3>1 DEF SameKey, Stored, InTransaction
    <3>4. /\ MaySend(job[r].user)' = MaySend(job[r].user)
          /\ Advances(job[r].user, job[r].target)' = Advances(job[r].user, job[r].target)
      BY <3>1 DEF MaySend, IsMember, Advances
    <3> QED BY <3>1, <3>2, <3>3, <3>4 DEF Current
  <2> QED BY <1>5, <2>1 DEF vars, OneAtATime, NoConflict
<1> QED BY <1>1, <1>2, <1>3, <1>4, <1>5 DEF Next, Finished

LEMMA AloneInvariance == ASSUME OneReplica PROVE Spec => []OneAtATime
<1>1. Init => OneAtATime
  BY DEF Init, OneAtATime, NoConflict, OnLoop, Running, Current, InTransaction
<1>2. IInv /\ OneAtATime /\ [Next]_vars => OneAtATime'
  BY AloneStep
<1> QED BY <1>1, <1>2, Invariance, PTL DEF Spec

\* On one replica no request ends in an unhandled constraint violation.
THEOREM Conflictless == ASSUME OneReplica PROVE Spec => []NoConflict
<1>1. OneAtATime => NoConflict
  BY DEF OneAtATime
<1> QED BY <1>1, AloneInvariance, PTL

\* On one replica a message appears only in an active conversation, from a
\* member who may send when it is committed.
THEOREM Permitted == ASSUME OneReplica PROVE Spec => SendsArePermitted
<1> DEFINE Appears(m) ==
      messages[m].status = "absent" /\ messages'[m].status # "absent"
        => /\ conversation.status = "active"
           /\ members[messages'[m].sender].active
           /\ ~members[messages'[m].sender].muted
<1>1. ASSUME IInv, OneAtATime, [Next]_vars, NEW m \in Requests PROVE Appears(m)
  <2>1. SUFFICES ASSUME m \notin Stored, m \in Stored' PROVE Appears(m)
    BY DEF Stored
  <2>2. PICK r \in Requests : CommitSend(r)
    BY <1>1, <2>1, StoredKeep DEF Stored
  <2>3. m = r /\ messages'[m].sender = job[r].user
    BY <1>1, <2>1, <2>2, CommitAppends
  <2>4. MaySend(job[r].user)
    BY <1>1, <2>2 DEF CommitSend, OneAtATime, Current, InTransaction
  <2> QED BY <2>3, <2>4 DEF MaySend, IsMember
<1>2. IInv /\ OneAtATime /\ [Next]_vars => [\A m \in Requests : Appears(m)]_vars
  BY <1>1
<1>3. Spec => [][\A m \in Requests : Appears(m)]_vars
  BY <1>2, Invariance, AloneInvariance, PTL DEF Spec
<1> QED BY <1>3 DEF SendsArePermitted

\* On one replica a read position never moves back to an earlier message.
THEOREM ReadsAdvance == ASSUME OneReplica PROVE Spec => ReadPositionAdvances
<1> DEFINE Advance(u) ==
      LET before == members[u].lastRead
          after  == members'[u].lastRead
      IN before # None => /\ after # None
                          /\ messages'[after].sequence >= messages[before].sequence
<1>1. ASSUME IInv, OneAtATime, [Next]_vars, NEW u \in Users PROVE Advance(u)
  <2> DEFINE before == members[u].lastRead
  <2> USE <1>1
  <2>1. SUFFICES ASSUME before # None PROVE Advance(u)
    OBVIOUS
  <2>2. /\ before \in Stored /\ messages[before].sequence \in Nat
        /\ messages[before].sequence <= conversation.next
        /\ messages'[before].sequence = messages[before].sequence
    <3>1. before \in Stored
      BY <2>1 DEF IInv, ReadPositionHasReceipt
    <3>2. messages[before].sequence \in 1..conversation.next
      BY <3>1 DEF IInv, SequencesAreGapFree
    <3> QED BY <3>1, <3>2, StoredKeep DEF IInv, TypeOK
  <2>3. CASE members'[u].lastRead = before
    BY <2>1, <2>2, <2>3
  <2>4. ASSUME NEW r \in Requests, CommitSend(r), members'[u].lastRead # before PROVE Advance(u)
    <3>1. members'[u].lastRead = r
      BY <2>4 DEF CommitSend, IInv, TypeOK
    <3>2. messages'[r].sequence = conversation.next + 1 /\ conversation.next \in Nat
      BY <2>4, CommitAppends DEF IInv, TypeOK
    <3> QED BY <2>2, <3>1, <3>2, NoneIsNoRequest
  <2>5. ASSUME NEW r \in Requests, CommitRead(r), members'[u].lastRead # before PROVE Advance(u)
    <3> DEFINE m == job[r].target
    <3>1. seen[r].advances /\ u = job[r].user /\ members'[u].lastRead = m /\ messages' = messages
      BY <2>5 DEF CommitRead, IInv, TypeOK
    <3>2. Advances(u, m) /\ m \in Requests
      BY <2>5, <3>1, OtherCommitKeeps DEF CommitRead, OneAtATime, Current
    <3> QED BY <2>1, <3>1, <3>2, NoneIsNoRequest DEF Advances
  <2>6. ASSUME NEW r \in Requests, CommitEdit(r) \/ CommitDelete(r) PROVE members'[u].lastRead = before
    BY <2>6 DEF CommitEdit, CommitDelete
  <2> QED BY <2>3, <2>4, <2>5, <2>6, StepKinds
<1>2. IInv /\ OneAtATime /\ [Next]_vars => [\A u \in Users : Advance(u)]_vars
  BY <1>1
<1>3. Spec => [][\A u \in Users : Advance(u)]_vars
  BY <1>2, Invariance, AloneInvariance, PTL DEF Spec
<1> QED BY <1>3 DEF ReadPositionAdvances

\* A deleted message has no content.
DeletedIsErased == \A m \in Requests : messages[m].status = "deleted" => ~messages[m].content

\* On one replica an edit commits only what is not deleted, and a delete erases.
LEMMA DeletedStep ==
  ASSUME IInv, OneAtATime, [Next]_vars, NEW m \in Requests
  PROVE  \/ messages'[m] = messages[m]
         \/ messages[m].status # "deleted" /\ messages'[m].status # "deleted"
         \/ messages'[m].status = "deleted" /\ ~messages'[m].content
<1> USE DEF IInv
<1>1. SUFFICES ASSUME messages'[m] # messages[m]
      PROVE  \/ messages[m].status # "deleted" /\ messages'[m].status # "deleted"
             \/ messages'[m].status = "deleted" /\ ~messages'[m].content
  OBVIOUS
<1>2. ASSUME NEW r \in Requests, CommitSend(r)
      PROVE  messages[m].status # "deleted" /\ messages'[m].status # "deleted"
  <2>1. m = r /\ r \notin Stored
    BY <1>1, <1>2, CommitAppends
  <2> QED BY <1>2, <2>1 DEF CommitSend, Stored, TypeOK
<1>3. ASSUME NEW r \in Requests, CommitEdit(r)
      PROVE  messages[m].status # "deleted" /\ messages'[m].status # "deleted"
  <2> DEFINE t == job[r].target
             s == IF seen[r].status = "edited" THEN messages[t].status ELSE "edited"
  <2>1. messages' = [messages EXCEPT ![t] = [messages[t] EXCEPT !.content = TRUE, !.status = s]]
    BY <1>3 DEF CommitEdit
  <2>2. t \in Requests /\ messages[t].status # "deleted" /\ s # "deleted"
    BY <1>3, OtherCommitKeeps DEF CommitEdit, OneAtATime, Current
  <2>3. messages[t] \in MessageRows
    BY <2>2 DEF TypeOK
  <2>4. m = t /\ messages'[m] = [messages[t] EXCEPT !.content = TRUE, !.status = s]
    BY <1>1, <2>1, <2>2 DEF TypeOK
  <2>5. messages'[m].status = s
    BY <2>3, <2>4 DEF MessageRows
  <2> QED BY <2>2, <2>4, <2>5
<1>4. ASSUME NEW r \in Requests, CommitDelete(r)
      PROVE  messages'[m].status = "deleted" /\ ~messages'[m].content
  <2> DEFINE t == job[r].target
  <2>1. messages' = [messages EXCEPT ![t] =
                       [messages[t] EXCEPT !.status = "deleted", !.content = FALSE]]
    BY <1>1, <1>4 DEF CommitDelete
  <2>2. m = t /\ messages'[m] = [messages[t] EXCEPT !.status = "deleted", !.content = FALSE]
    BY <1>1, <2>1 DEF TypeOK
  <2> QED BY <2>2 DEF TypeOK, MessageRows
<1>5. ASSUME NEW r \in Requests, CommitRead(r) PROVE FALSE
  BY <1>1, <1>5 DEF CommitRead
<1> QED BY <1>1, <1>2, <1>3, <1>4, <1>5, StepKinds

\* On one replica a deleted message stays deleted and its content erased.  (With
\* two, an edit that loaded the row before the delete writes its content back.)
THEOREM DeletedStays == ASSUME OneReplica PROVE Spec => DeletedStaysDeleted
<1> DEFINE Stays(m) == messages[m].status = "deleted" =>
                         messages'[m].status = "deleted" /\ ~messages'[m].content
<1>1. Init => DeletedIsErased
  BY DEF Init, DeletedIsErased, NoMessage
<1>2. IInv /\ OneAtATime /\ DeletedIsErased /\ [Next]_vars => DeletedIsErased'
  BY DeletedStep DEF DeletedIsErased
<1>3. Spec => []DeletedIsErased
  BY <1>1, <1>2, Invariance, AloneInvariance, PTL DEF Spec
<1>4. IInv /\ OneAtATime /\ DeletedIsErased /\ [Next]_vars
        => [\A m \in Requests : Stays(m)]_vars
  BY DeletedStep DEF DeletedIsErased
<1>5. Spec => [][\A m \in Requests : Stays(m)]_vars
  BY <1>3, <1>4, Invariance, AloneInvariance, PTL DEF Spec
<1> QED BY <1>5 DEF DeletedStaysDeleted

-----------------------------------------------------------------------------
(* The stored messages implement the log of MessageLog.                    *)

\* There is exactly one message at each sequence.
OneMessageAtEach ==
  /\ \A n \in 1..conversation.next :
       MessageAt(n) \in Stored /\ messages[MessageAt(n)].sequence = n
  /\ \A m \in Stored, n \in Nat : messages[m].sequence = n => m = MessageAt(n)

\* The messages found by sequence are the stored ones.
LEMMA MessageAtSequence == IInv => OneMessageAtEach
<1> SUFFICES ASSUME IInv PROVE OneMessageAtEach
  OBVIOUS
<1>1. ASSUME NEW n \in 1..conversation.next
      PROVE  MessageAt(n) \in Stored /\ messages[MessageAt(n)].sequence = n
  <2>1. \E m \in Stored : messages[m].sequence = n
    BY DEF IInv, SequencesAreGapFree
  <2> QED BY <2>1 DEF MessageAt
<1>2. ASSUME NEW m \in Stored, NEW n \in Nat, messages[m].sequence = n PROVE m = MessageAt(n)
  <2>1. n \in 1..conversation.next
    BY <1>2 DEF IInv, SequencesAreGapFree
  <2> QED BY <1>1, <1>2, <2>1 DEF IInv, SequencesAreGapFree
<1> QED BY <1>1, <1>2 DEF OneMessageAtEach

\* The log is a sequence of entries as long as next_sequence says.
LEMMA StoredLogType == IInv => StoredLog \in Seq(Log!Entries) /\ Len(StoredLog) = conversation.next
<1> SUFFICES ASSUME IInv PROVE StoredLog \in Seq(Log!Entries) /\ Len(StoredLog) = conversation.next
  OBVIOUS
<1>1. \A n \in 1..conversation.next : Entry(MessageAt(n)) \in Log!Entries
  BY MessageAtSequence DEF OneMessageAtEach, Entry, Log!Entries, Stored, IInv, TypeOK, MessageRows
<1>2. conversation.next \in Nat
  BY DEF IInv, TypeOK
<1> QED BY <1>1, <1>2 DEF StoredLog

\* A step that keeps the rows' identities and next_sequence keeps the log.
LEMMA LogUnchanged ==
  ASSUME IInv, IInv', RowsKeep, Stored' = Stored, conversation'.next = conversation.next
  PROVE  StoredLog' = StoredLog
<1>1. OneMessageAtEach /\ OneMessageAtEach'
  BY MessageAtSequence, PTL
<1>2. ASSUME NEW n \in 1..conversation.next PROVE Entry(MessageAt(n))' = Entry(MessageAt(n))
  <2>1. MessageAt(n) \in Stored /\ messages[MessageAt(n)].sequence = n
    BY <1>1 DEF OneMessageAtEach
  <2>2. \A m \in Stored', i \in Nat : messages'[m].sequence = i => m = MessageAt(i)'
    BY <1>1 DEF OneMessageAtEach
  <2>3. MessageAt(n)' = MessageAt(n)
    BY <2>1, <2>2 DEF RowsKeep
  <2> QED BY <2>1, <2>3 DEF Entry, RowsKeep
<1> QED BY <1>2 DEF StoredLog

\* The commit of a send appends its entry.
LEMMA LogAppends ==
  ASSUME IInv, IInv', NEW r \in Requests, CommitSend(r)
  PROVE  Log!Next
<1> DEFINE e == [id |-> r, sender |-> job[r].user, key |-> job[r].key]
<1>0. PICK N \in Nat : N = conversation.next
  BY DEF IInv, TypeOK
<1>1. /\ r \notin Stored /\ ~Collides(r) /\ conversation'.next = N + 1
      /\ Stored' = Stored \cup {r}
      /\ messages'[r].sequence = N + 1
      /\ messages'[r].sender = job[r].user
      /\ messages'[r].key = job[r].key
      /\ \A m \in Stored : messages'[m] = messages[m]
  BY <1>0, CommitAppends DEF Stored
<1>2. OneMessageAtEach /\ OneMessageAtEach'
  BY MessageAtSequence, PTL
<1>3. N \in Nat /\ e \in Log!Entries
  BY DEF IInv, TypeOK, Jobs, Log!Entries
<1>4. StoredLog \in Seq(Log!Entries) /\ Len(StoredLog) = N
  BY <1>0, StoredLogType
<1>5. /\ DOMAIN StoredLog = 1..N
      /\ \A n \in 1..N : StoredLog[n] = Entry(MessageAt(n)) /\ MessageAt(n) \in Stored
  BY <1>0, <1>2 DEF StoredLog, OneMessageAtEach
<1>6. ASSUME NEW n \in DOMAIN StoredLog
      PROVE  StoredLog[n].id # r /\ ~(/\ StoredLog[n].sender = job[r].user
                                      /\ StoredLog[n].key = job[r].key
                                      /\ job[r].key # NoKey)
  <2>1. PICK m \in Stored : StoredLog[n] = Entry(m)
    BY <1>5
  <2>2. StoredLog[n] = [id |-> m, sender |-> messages[m].sender, key |-> messages[m].key]
    BY <2>1 DEF Entry
  <2> QED BY <1>1, <2>2 DEF Collides, SameKey
<1>7. ~Log!Repeats(e) /\ \A n \in DOMAIN StoredLog : StoredLog[n].id # e.id
  BY <1>6 DEF Log!Repeats
<1>8. StoredLog' = Append(StoredLog, e)
  <2>1. StoredLog' = [n \in 1..(N + 1) |-> Entry(MessageAt(n))']
    BY <1>1 DEF StoredLog
  <2>2. ASSUME NEW n \in 1..N PROVE Entry(MessageAt(n))' = Entry(MessageAt(n))
    <3>1. MessageAt(n) \in Stored /\ messages[MessageAt(n)].sequence = n
      BY <1>0, <1>2 DEF OneMessageAtEach
    <3>2. \A m \in Stored', i \in Nat : messages'[m].sequence = i => m = MessageAt(i)'
      BY <1>2 DEF OneMessageAtEach
    <3>3. MessageAt(n)' = MessageAt(n)
      BY <1>1, <3>1, <3>2
    <3> QED BY <1>1, <3>1, <3>3 DEF Entry
  <2>3. Entry(MessageAt(N + 1))' = e
    <3>1. \A m \in Stored', i \in Nat : messages'[m].sequence = i => m = MessageAt(i)'
      BY <1>2 DEF OneMessageAtEach
    <3>2. MessageAt(N + 1)' = r
      BY <1>1, <1>3, <3>1
    <3> QED BY <1>1, <3>2 DEF Entry
  <2>4. /\ Append(StoredLog, e) \in Seq(Log!Entries)
        /\ Len(Append(StoredLog, e)) = N + 1
        /\ \A n \in 1..N : Append(StoredLog, e)[n] = StoredLog[n]
        /\ Append(StoredLog, e)[N + 1] = e
    BY <1>3, <1>4, AppendProperties
  <2>5. \A n \in 1..(N + 1) : StoredLog'[n] = Append(StoredLog, e)[n]
    BY <1>3, <1>5, <2>1, <2>2, <2>3, <2>4
  <2>6. DOMAIN StoredLog' = 1..(N + 1) /\ StoredLog' = [n \in DOMAIN StoredLog' |-> StoredLog'[n]]
    BY <2>1
  <2>7. /\ DOMAIN Append(StoredLog, e) = 1..(N + 1)
        /\ Append(StoredLog, e) = [n \in 1..(N + 1) |-> Append(StoredLog, e)[n]]
    BY <2>4
  <2> QED BY <2>5, <2>6, <2>7
<1> QED BY <1>3, <1>7, <1>8 DEF Log!Next, Log!Post

\* Every step appends to the log or leaves it alone.
LEMMA LogStep == IInv /\ IInv' /\ [Next]_vars => [Log!Next]_StoredLog
<1> SUFFICES ASSUME IInv, IInv', [Next]_vars PROVE Log!Next \/ StoredLog' = StoredLog
  OBVIOUS
<1>1. CASE \E r \in Requests : CommitSend(r)
  BY <1>1, LogAppends
<1>2. CASE \E r \in Requests : CommitRead(r) \/ CommitEdit(r) \/ CommitDelete(r)
  BY <1>2, OtherCommitKeeps, LogUnchanged
<1>3. CASE messages' = messages /\ conversation'.next = conversation.next
  <2>1. Stored' = Stored /\ RowsKeep
    BY <1>3 DEF Stored, RowsKeep
  <2> QED BY <1>3, <2>1, LogUnchanged
<1> QED BY <1>1, <1>2, <1>3, StepKinds

\* Sending implements a log that is only appended to, without repeats, for
\* every interleaving of the requests of any number of replicas.
THEOREM Refinement == Spec => ImplementsLog
<1>1. Init => Log!Init
  <2> SUFFICES ASSUME Init PROVE StoredLog = <<>>
    BY DEF Log!Init
  <2>1. conversation.next = 0
    BY DEF Init
  <2> QED BY <2>1 DEF StoredLog
<1>2. IInv /\ IInv' /\ [Next]_vars => [Log!Next]_StoredLog
  BY LogStep
<1> QED BY <1>1, <1>2, Invariance, PTL DEF Spec, ImplementsLog, Log!Spec
-----------------------------------------------------------------------------
(* The outbox its rows go through, for any number of events, any batch     *)
(* size and any bound on the attempts.  With any number of workers an      *)
(* event marked published was delivered; with the one worker the           *)
(* deployment runs, the attempts of a row account for its deliveries and   *)
(* settle it once.                                                         *)

OneWorker == \A v, w \in Workers : v = w

\* Any row is within its attempts.
Sound(row) == /\ row.attempts <= MaxAttempts
              /\ row.status = "pending" => row.attempts < MaxAttempts
              /\ row.status = "failed" => row.attempts = MaxAttempts
              /\ row.status = "absent" => row.attempts = 0

\* A published row, or one the session is about to publish, was delivered.
Delivery ==
  \A e \in Events :
    /\ rows[e].status = "published" => delivered[e] >= 1
    /\ \A w \in Workers : session[w][e].status = "published" => delivered[e] >= 1

\* With one worker the rows of its batch are still as it selected them, and
\* its session is at most one attempt ahead of them.
Batch ==
  \A w \in Workers : \A e \in batch[w] :
    /\ rows[e].status = "pending"
    /\ Sound(session[w][e])
    /\ session[w][e].attempts <= rows[e].attempts + 1
    /\ e \in todo[w] => session[w][e] = rows[e]

SoundRows == \A e \in Events : Sound(rows[e])

Accounted == SoundRows /\ Batch /\ DuplicatesNeedACrash

-----------------------------------------------------------------------------
(* Types.                                                                  *)

\* What a publish or an exception makes of a row is a row.
LEMMA RowTypes == \A row \in Rows : Published(row) \in Rows /\ Tried(row) \in Rows
  BY DEF Rows, Statuses, Published, Tried

\* Every step keeps the type invariant.
LEMMA OutboxTypeStep == OutboxTypeOK /\ [OutboxNext]_outboxVars => OutboxTypeOK'
<1> SUFFICES ASSUME OutboxTypeOK, [OutboxNext]_outboxVars PROVE OutboxTypeOK'
  OBVIOUS
<1>1. ASSUME NEW e \in Events, Record(e) PROVE OutboxTypeOK'
  BY <1>1 DEF Record, OutboxTypeOK, Rows, Statuses
<1>2. ASSUME NEW w \in Workers, Select(w) PROVE OutboxTypeOK'
  <2>1. FirstPending \in SUBSET Events
    BY DEF FirstPending, Pending
  <2> QED BY <1>2, <2>1 DEF Select, OutboxTypeOK
<1>3. ASSUME NEW w \in Workers, NEW e \in Events, Publish(w, e) PROVE OutboxTypeOK'
  <2>1. session[w][e] \in Rows /\ Published(session[w][e]) \in Rows
    BY RowTypes DEF OutboxTypeOK
  <2>2. session' \in [Workers -> [Events -> Rows]]
    BY <1>3, <2>1 DEF Publish, OutboxTypeOK
  <2>3. delivered' \in [Events -> Nat]
    BY <1>3 DEF Publish, OutboxTypeOK
  <2> QED BY <1>3, <2>2, <2>3 DEF Publish, OutboxTypeOK
<1>4. ASSUME NEW w \in Workers, NEW e \in Events, FailPublish(w, e) PROVE OutboxTypeOK'
  <2>1. session[w][e] \in Rows /\ Tried(session[w][e]) \in Rows
    BY RowTypes DEF OutboxTypeOK
  <2>2. session' \in [Workers -> [Events -> Rows]]
    BY <1>4, <2>1 DEF FailPublish, OutboxTypeOK
  <2>3. delivered' \in [Events -> Nat]
    BY <1>4 DEF FailPublish, OutboxTypeOK
  <2> QED BY <1>4, <2>2, <2>3 DEF FailPublish, OutboxTypeOK
<1>5. ASSUME NEW w \in Workers, Commit(w) PROVE OutboxTypeOK'
  <2>1. \A e \in Events : Written(w, e) \in Rows
    BY DEF Written, OutboxTypeOK, Rows
  <2> QED BY <1>5, <2>1 DEF Commit, OutboxTypeOK
<1>6. ASSUME NEW w \in Workers, Restart(w) PROVE OutboxTypeOK'
  BY <1>6 DEF Restart, OutboxTypeOK
<1>7. CASE UNCHANGED outboxVars
  BY <1>7 DEF outboxVars, OutboxTypeOK
<1> QED BY <1>1, <1>2, <1>3, <1>4, <1>5, <1>6, <1>7 DEF OutboxNext, Work, Quiet

\* The type invariant holds for every set of workers and all bounds.
THEOREM OutboxTypeCorrect == OutboxSpec => []OutboxTypeOK
<1>1. OutboxInit => OutboxTypeOK
  BY DEF OutboxInit, OutboxTypeOK, NoRow, Rows, Statuses
<1> QED BY <1>1, OutboxTypeStep, PTL DEF OutboxSpec

-----------------------------------------------------------------------------
(* Delivery, with any number of workers.                                   *)

\* No step marks an event the broker did not get.
LEMMA DeliveryStep == OutboxTypeOK /\ Delivery /\ [OutboxNext]_outboxVars => Delivery'
<1> SUFFICES ASSUME OutboxTypeOK, Delivery, [OutboxNext]_outboxVars PROVE Delivery'
  OBVIOUS
<1>1. ASSUME NEW e \in Events, Record(e) PROVE Delivery'
  BY <1>1 DEF Record, Delivery, OutboxTypeOK
<1>2. ASSUME NEW w \in Workers, Select(w) PROVE Delivery'
  BY <1>2 DEF Select, Delivery, OutboxTypeOK
<1>3. ASSUME NEW w \in Workers, NEW e \in Events, Publish(w, e) PROVE Delivery'
  BY <1>3 DEF Publish, Delivery, OutboxTypeOK
<1>4. ASSUME NEW w \in Workers, NEW e \in Events, FailPublish(w, e) PROVE Delivery'
  <2>1. Tried(session[w][e]).status = "published" => session[w][e].status = "published"
    BY DEF Tried
  <2>2. \A f \in Events : delivered'[f] >= delivered[f]
    BY <1>4 DEF FailPublish, OutboxTypeOK
  <2>3. \A v \in Workers, f \in Events :
          session'[v][f].status = "published" => session[v][f].status = "published"
    BY <1>4, <2>1 DEF FailPublish, OutboxTypeOK
  <2> QED BY <1>4, <2>2, <2>3 DEF FailPublish, Delivery, OutboxTypeOK
<1>5. ASSUME NEW w \in Workers, Commit(w) PROVE Delivery'
  <2>1. \A e \in Events : Written(w, e).status = "published"
                          => \/ rows[e].status = "published"
                             \/ session[w][e].status = "published"
    BY DEF Written
  <2> QED BY <1>5, <2>1 DEF Commit, Delivery, OutboxTypeOK
<1>6. ASSUME NEW w \in Workers, Restart(w) PROVE Delivery'
  BY <1>6 DEF Restart, Delivery
<1>7. CASE UNCHANGED outboxVars
  BY <1>7 DEF outboxVars, Delivery
<1> QED BY <1>1, <1>2, <1>3, <1>4, <1>5, <1>6, <1>7 DEF OutboxNext, Work, Quiet

\* However many workers run and crash, published means delivered.
THEOREM AtLeastOnce == OutboxSpec => []PublishedWasDelivered
<1>1. OutboxInit => Delivery
  BY DEF OutboxInit, Delivery, NoRow
<1>2. Delivery => PublishedWasDelivered
  BY DEF Delivery, PublishedWasDelivered
<1> QED BY <1>1, <1>2, OutboxTypeCorrect, DeliveryStep, PTL DEF OutboxSpec

-----------------------------------------------------------------------------
(* Attempts, with one worker.                                              *)

\* A publish and an exception count one attempt and keep a pending row sound.
LEMMA AttemptCounts ==
  ASSUME NEW row \in Rows, Sound(row), row.status = "pending"
  PROVE  /\ Sound(Published(row)) /\ Sound(Tried(row))
         /\ Published(row).attempts = row.attempts + 1
         /\ Tried(row).attempts = row.attempts + 1
  BY BoundsArePositive DEF Sound, Published, Tried, Rows, Statuses

\* A handled event of the one batch: what the session holds of it now.
LEMMA HandledStep ==
  ASSUME OutboxTypeOK, Accounted, OneWorker,
         NEW w \in Workers, NEW e \in Events, e \in todo[w],
         NEW row \in Rows, Sound(row), row.attempts = rows[e].attempts + 1,
         session' = [session EXCEPT ![w][e] = row],
         NEW got \in {0, 1}, delivered' = [delivered EXCEPT ![e] = delivered[e] + got],
         todo' = [todo EXCEPT ![w] = todo[w] \ {e}],
         UNCHANGED <<rows, batch, crashes>>
  PROVE  Accounted'
<1>1. e \in batch[w] /\ session[w][e] = rows[e]
  BY DEF OutboxTypeOK, Accounted, Batch
<1>2. SoundRows'
  BY DEF Accounted, SoundRows
<1>3. Batch'
  <2> SUFFICES ASSUME NEW f \in batch[w]
               PROVE  /\ rows[f].status = "pending"
                      /\ Sound(session'[w][f])
                      /\ session'[w][f].attempts <= rows[f].attempts + 1
                      /\ f \in todo'[w] => session'[w][f] = rows[f]
    BY DEF Batch, OneWorker
  <2> f \in Events
    BY DEF OutboxTypeOK
  <2>1. CASE f = e
    BY <2>1, <1>1 DEF OutboxTypeOK, Accounted, Batch, Rows
  <2>2. CASE f # e
    BY <2>2 DEF OutboxTypeOK, Accounted, Batch
  <2> QED BY <2>1, <2>2
<1>4. DuplicatesNeedACrash'
  <2> SUFFICES ASSUME NEW f \in Events
               PROVE  delivered'[f] <= crashes +
                        (IF f \in batch[w] THEN session'[w][f].attempts
                                           ELSE rows[f].attempts)
    BY DEF DuplicatesNeedACrash, OneWorker
  <2>1. CASE f = e
    <3>1. delivered[e] <= crashes + rows[e].attempts
      BY <1>1 DEF Accounted, DuplicatesNeedACrash
    <3> QED BY <2>1, <1>1, <3>1 DEF OutboxTypeOK, Rows
  <2>2. CASE f # e
    BY <2>2 DEF OutboxTypeOK, Accounted, DuplicatesNeedACrash
  <2> QED BY <2>1, <2>2
<1> QED BY <1>2, <1>3, <1>4 DEF Accounted

\* Every step of the one worker keeps the account.
LEMMA AccountStep ==
  ASSUME OneWorker PROVE OutboxTypeOK /\ Accounted /\ [OutboxNext]_outboxVars => Accounted'
<1> SUFFICES ASSUME OutboxTypeOK, Accounted, [OutboxNext]_outboxVars PROVE Accounted'
  OBVIOUS
<1>1. ASSUME NEW e \in Events, Record(e) PROVE Accounted'
  <2>1. Sound(rows'[e]) /\ rows'[e].attempts = 0 /\ rows[e].status = "absent"
    BY <1>1, BoundsArePositive DEF Record, OutboxTypeOK, Sound
  <2>2. \A f \in Events : f # e => rows'[f] = rows[f]
    BY <1>1 DEF Record, OutboxTypeOK
  <2>3. \A w \in Workers : e \notin batch[w]
    BY <2>1 DEF Accounted, Batch
  <2>4. SoundRows'
    BY <2>1, <2>2 DEF Accounted, SoundRows
  <2>5. Batch'
    BY <1>1, <2>2, <2>3 DEF Record, Accounted, Batch, OutboxTypeOK
  <2>6. DuplicatesNeedACrash'
    <3>1. \A w \in Workers : delivered[e] <= crashes + rows[e].attempts
      BY <2>3 DEF Accounted, DuplicatesNeedACrash
    <3>2. rows[e].attempts = 0
      BY <2>1 DEF Accounted, SoundRows, Sound
    <3> QED BY <1>1, <2>1, <2>2, <3>1, <3>2 DEF Record, Accounted, DuplicatesNeedACrash
  <2> QED BY <2>4, <2>5, <2>6 DEF Accounted
<1>2. ASSUME NEW w \in Workers, Select(w) PROVE Accounted'
  <2>1. \A e \in FirstPending : e \in Events /\ rows[e].status = "pending"
    BY DEF FirstPending, Pending
  <2>2. batch' = [batch EXCEPT ![w] = FirstPending] /\ session'[w] = rows
    BY <1>2 DEF Select, OutboxTypeOK
  <2>3. SoundRows'
    BY <1>2 DEF Select, Accounted, SoundRows
  <2>4. Batch'
    BY <1>2, <2>1, <2>2 DEF Select, Batch, OneWorker, OutboxTypeOK, Rows, Accounted, SoundRows
  <2>5. DuplicatesNeedACrash'
    BY <1>2, <2>2 DEF Select, Accounted, DuplicatesNeedACrash, OneWorker, OutboxTypeOK
  <2> QED BY <2>3, <2>4, <2>5 DEF Accounted
<1>3. ASSUME NEW w \in Workers, NEW e \in Events, Publish(w, e) PROVE Accounted'
  <2>1. e \in todo[w] /\ e \in batch[w] /\ session[w][e] = rows[e]
        /\ rows[e] \in Rows /\ Sound(rows[e]) /\ rows[e].status = "pending"
    BY <1>3 DEF Publish, IsNext, OutboxTypeOK, Accounted, Batch, SoundRows
  <2>2. /\ Published(rows[e]) \in Rows /\ Sound(Published(rows[e]))
        /\ Published(rows[e]).attempts = rows[e].attempts + 1
    BY <2>1, RowTypes, AttemptCounts
  <2> QED BY <1>3, <2>1, <2>2, HandledStep DEF Publish
<1>4. ASSUME NEW w \in Workers, NEW e \in Events, FailPublish(w, e) PROVE Accounted'
  <2>1. e \in todo[w] /\ e \in batch[w] /\ session[w][e] = rows[e]
        /\ rows[e] \in Rows /\ Sound(rows[e]) /\ rows[e].status = "pending"
    BY <1>4 DEF FailPublish, IsNext, OutboxTypeOK, Accounted, Batch, SoundRows
  <2>2. /\ Tried(rows[e]) \in Rows /\ Sound(Tried(rows[e]))
        /\ Tried(rows[e]).attempts = rows[e].attempts + 1
    BY <2>1, RowTypes, AttemptCounts
  <2> QED BY <1>4, <2>1, <2>2, HandledStep DEF FailPublish
<1>5. ASSUME NEW w \in Workers, Commit(w) PROVE Accounted'
  <2>1. ASSUME NEW e \in batch[w]
        PROVE  Written(w, e) = session[w][e]
    <3>1. rows[e].status = "pending" /\ session[w][e] \in Rows
      BY DEF Accounted, Batch, OutboxTypeOK
    <3> QED BY <3>1 DEF Written, Rows
  <2>2. rows' = [e \in Events |-> IF e \in batch[w] THEN session[w][e] ELSE rows[e]]
    BY <1>5, <2>1 DEF Commit
  <2>3. SoundRows'
    BY <2>2 DEF Accounted, SoundRows, Batch
  <2>4. Batch'
    BY <1>5 DEF Commit, Batch, OneWorker, OutboxTypeOK
  <2>5. DuplicatesNeedACrash'
    BY <1>5, <2>2 DEF Commit, Accounted, DuplicatesNeedACrash, OneWorker, OutboxTypeOK
  <2> QED BY <2>3, <2>4, <2>5 DEF Accounted
<1>6. ASSUME NEW w \in Workers, Restart(w) PROVE Accounted'
  <2>1. SoundRows'
    BY <1>6 DEF Restart, Accounted, SoundRows
  <2>2. Batch'
    BY <1>6 DEF Restart, Batch, OneWorker, OutboxTypeOK
  <2>3. DuplicatesNeedACrash'
    <3> SUFFICES ASSUME NEW e \in Events
                 PROVE  delivered[e] <= crashes + 1 + rows[e].attempts
      BY <1>6 DEF Restart, DuplicatesNeedACrash, OneWorker, OutboxTypeOK
    <3>1. CASE e \in batch[w]
      <4>1. session[w][e].attempts <= rows[e].attempts + 1
        BY <3>1 DEF Accounted, Batch
      <4>2. delivered[e] <= crashes + session[w][e].attempts
        BY <3>1 DEF Accounted, DuplicatesNeedACrash
      <4> QED BY <4>1, <4>2 DEF OutboxTypeOK, Rows
    <3>2. CASE e \notin batch[w]
      BY <3>2 DEF Accounted, DuplicatesNeedACrash, OutboxTypeOK, Rows
    <3> QED BY <3>1, <3>2
  <2> QED BY <2>1, <2>2, <2>3 DEF Accounted
<1>7. CASE UNCHANGED outboxVars
  BY <1>7 DEF outboxVars, Accounted, SoundRows, Batch, DuplicatesNeedACrash
<1> QED BY <1>1, <1>2, <1>3, <1>4, <1>5, <1>6, <1>7 DEF OutboxNext, Work, Quiet

\* The account holds in every state.
LEMMA AccountInvariant == ASSUME OneWorker PROVE OutboxSpec => []Accounted
<1>1. OutboxInit => Accounted
  BY BoundsArePositive
  DEF OutboxInit, NoRow, Accounted, SoundRows, Sound, Batch, DuplicatesNeedACrash
<1> QED BY <1>1, OutboxTypeCorrect, AccountStep, PTL DEF OutboxSpec

\* Each delivery is an attempt of the row or was lost with a crash.
THEOREM Deliveries == ASSUME OneWorker PROVE OutboxSpec => []DuplicatesNeedACrash
<1>1. Accounted => DuplicatesNeedACrash
  BY DEF Accounted
<1> QED BY <1>1, AccountInvariant, PTL

\* A row fails exactly when its attempts are used up, and never exceeds them.
THEOREM Failures == ASSUME OneWorker PROVE OutboxSpec => []FailsLate
<1>1. Accounted => FailsLate
  BY DEF Accounted, SoundRows, Sound, FailsLate
<1> QED BY <1>1, AccountInvariant, PTL

\* A settled row is in no batch, so no commit touches it again.
THEOREM Settled == ASSUME OneWorker PROVE OutboxSpec => SettledStays
<1> DEFINE Kept == \A e \in Events : rows[e].status \in {"published", "failed"}
                                     => rows'[e].status = rows[e].status
<1>1. ASSUME OutboxTypeOK, Accounted, [OutboxNext]_outboxVars PROVE Kept
  <2>1. ASSUME NEW e \in Events, Record(e) PROVE Kept
    BY <1>1, <2>1 DEF Record, OutboxTypeOK
  <2>2. ASSUME NEW w \in Workers, Commit(w) PROVE Kept
    BY <1>1, <2>2 DEF Commit, OutboxTypeOK, Accounted, Batch
  <2>3. CASE UNCHANGED rows
    BY <2>3
  <2> QED BY <1>1, <2>1, <2>2, <2>3
          DEF OutboxNext, Work, Quiet, outboxVars, Select, Publish, FailPublish, Restart
<1>2. OutboxTypeOK /\ Accounted /\ [OutboxNext]_outboxVars => [Kept]_outboxVars
  BY <1>1
<1> QED BY <1>2, OutboxTypeCorrect, AccountInvariant, PTL DEF OutboxSpec, SettledStays
=============================================================================
