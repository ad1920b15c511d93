------------------------------- MODULE Outbox -------------------------------
(***************************************************************************)
(* The event outbox: rows added by the transactions of the chat handlers   *)
(* (add_outbox, app/services/chat_service.py) and the worker that          *)
(* publishes them to Redis (scripts/run_outbox_worker.py).                 *)
(*                                                                         *)
(* Events are numbered by created_at.  The transactions that add them may  *)
(* commit in another order.  A worker selects a batch, publishes its       *)
(* events one by one, and commits the whole batch once at the end.         *)
(***************************************************************************)
EXTENDS Naturals, FiniteSets

CONSTANTS
  NumEvents,    \* events the handlers ever add
  Workers,      \* processes running run_outbox_worker
  BatchSize,    \* rows selected at a time (100)
  MaxAttempts,  \* attempts after which an event has failed (10)
  MaxCrashes    \* bound on worker crashes

ASSUME BoundsArePositive ==
  /\ NumEvents \in Nat /\ BatchSize \in Nat \ {0}
  /\ MaxAttempts \in Nat \ {0} /\ MaxCrashes \in Nat

Events == 1..NumEvents

VARIABLES
  rows,       \* the event_outbox rows, "absent" until committed
  batch,      \* the events in each worker's session
  todo,       \* those of them not yet handled
  session,    \* what the session holds of each row
  delivered,  \* how often the broker got each event
  crashes

outboxVars == <<rows, batch, todo, session, delivered, crashes>>

Statuses == {"absent", "pending", "published", "failed"}
Rows == [status : Statuses, attempts : Nat]
NoRow == [status |-> "absent", attempts |-> 0]

OutboxTypeOK ==
  /\ rows \in [Events -> Rows]
  /\ batch \in [Workers -> SUBSET Events]
  /\ todo \in [Workers -> SUBSET Events]
  /\ session \in [Workers -> [Events -> Rows]]
  /\ delivered \in [Events -> Nat]
  /\ crashes \in Nat
  /\ \A w \in Workers : todo[w] \subseteq batch[w]

OutboxInit ==
  /\ rows = [e \in Events |-> NoRow]
  /\ batch = [w \in Workers |-> {}]
  /\ todo = [w \in Workers |-> {}]
  /\ session = [w \in Workers |-> [e \in Events |-> NoRow]]
  /\ delivered = [e \in Events |-> 0]
  /\ crashes = 0

Pending == {e \in Events : rows[e].status = "pending"}

\* ORDER BY created_at LIMIT BatchSize over the pending rows.
FirstPending ==
  {e \in Pending : Cardinality({f \in Pending : f < e}) < BatchSize}

\* add_outbox, with the transaction of the message or receipt it announces.
Record(e) ==
  /\ rows[e].status = "absent"
  /\ rows' = [rows EXCEPT ![e] = [status |-> "pending", attempts |-> 0]]
  /\ UNCHANGED <<batch, todo, session, delivered, crashes>>

Select(w) ==
  /\ batch[w] = {} /\ Pending # {}
  /\ batch' = [batch EXCEPT ![w] = FirstPending]
  /\ todo' = [todo EXCEPT ![w] = FirstPending]
  /\ session' = [session EXCEPT ![w] = rows]
  /\ UNCHANGED <<rows, delivered, crashes>>

\* The event of the batch whose turn it is.
IsNext(w, e) == e \in todo[w] /\ \A f \in todo[w] : e <= f

\* The session's row after a publish and after an exception from it.
Published(row) == [status |-> "published", attempts |-> row.attempts + 1]
Tried(row) == [status |-> IF row.attempts + 1 >= MaxAttempts THEN "failed" ELSE row.status,
               attempts |-> row.attempts + 1]

\* Mutant: the event is marked before the broker gets it.
PublishMarkOnly(w, e) ==
  /\ IsNext(w, e)
  /\ session' = [session EXCEPT ![w][e] = Published(session[w][e])]
  /\ todo' = [todo EXCEPT ![w] = @ \ {e}]
  /\ UNCHANGED <<rows, batch, delivered, crashes>>

Publish(w, e) ==
  /\ IsNext(w, e)
  /\ delivered' = [delivered EXCEPT ![e] = @ + 1]
  /\ session' = [session EXCEPT ![w][e] = Published(session[w][e])]
  /\ todo' = [todo EXCEPT ![w] = @ \ {e}]
  /\ UNCHANGED <<rows, batch, crashes>>

\* Mutant: a publish that raises is not counted as an attempt.
FailPublishUncounted(w, e) ==
  /\ IsNext(w, e)
  /\ todo' = [todo EXCEPT ![w] = @ \ {e}]
  /\ UNCHANGED <<rows, batch, session, delivered, crashes>>

\* publish raises: Redis did not get the event, or its answer was lost.
FailPublish(w, e) ==
  /\ IsNext(w, e)
  /\ \E got \in {0, 1} : delivered' = [delivered EXCEPT ![e] = @ + got]
  /\ session' = [session EXCEPT ![w][e] = Tried(session[w][e])]
  /\ todo' = [todo EXCEPT ![w] = @ \ {e}]
  /\ UNCHANGED <<rows, batch, crashes>>

\* Mutant: the attempts are not written.
WrittenStatusOnly(w, e) ==
  [status |-> session[w][e].status, attempts |-> rows[e].attempts]

\* The UPDATE of a row writes the columns the session changed: always the
\* attempts, the status only if the event was published or has failed.
Written(w, e) ==
  [status |-> IF session[w][e].status = "pending" THEN rows[e].status
                                                  ELSE session[w][e].status,
   attempts |-> session[w][e].attempts]

Commit(w) ==
  /\ batch[w] # {} /\ todo[w] = {}
  /\ rows' = [e \in Events |-> IF e \in batch[w] THEN Written(w, e) ELSE rows[e]]
  /\ batch' = [batch EXCEPT ![w] = {}]
  /\ UNCHANGED <<todo, session, delivered, crashes>>

\* The worker stops and is started again; its session is rolled back.
Restart(w) ==
  /\ batch[w] # {} /\ crashes < MaxCrashes
  /\ crashes' = crashes + 1
  /\ batch' = [batch EXCEPT ![w] = {}]
  /\ todo' = [todo EXCEPT ![w] = {}]
  /\ UNCHANGED <<rows, session, delivered>>

Work(w) ==
  \/ Select(w)
  \/ \E e \in Events : Publish(w, e) \/ FailPublish(w, e)
  \/ Commit(w)

\* Every event is settled and no worker has anything in hand.
Quiet == /\ \A e \in Events : rows[e].status \in {"published", "failed"}
         /\ \A w \in Workers : batch[w] = {}
         /\ UNCHANGED outboxVars

OutboxNext ==
  \/ \E e \in Events : Record(e)
  \/ \E w \in Workers : Work(w) \/ Restart(w)
  \/ Quiet

OutboxSpec == OutboxInit /\ [][OutboxNext]_outboxVars

\* The worker loops for ever.
FairOutboxSpec == OutboxSpec /\ \A w \in Workers : WF_outboxVars(Work(w))

-----------------------------------------------------------------------------
(* Properties.                                                             *)

\* An event is marked published only if the broker got it, whatever crashes
\* and however many workers run: delivery is at least once.
PublishedWasDelivered ==
  \A e \in Events : rows[e].status = "published" => delivered[e] >= 1

\* With one worker every delivery is a counted attempt, or is lost from the
\* count by a crash before the batch's commit: no other duplicates.
DuplicatesNeedACrash ==
  \A w \in Workers, e \in Events :
    delivered[e] <= crashes +
      (IF e \in batch[w] THEN session[w][e].attempts ELSE rows[e].attempts)

\* An event fails only once its attempts are used up, and is never tried more
\* often than that.
FailsLate ==
  \A e \in Events : /\ rows[e].status = "failed" => rows[e].attempts = MaxAttempts
                    /\ rows[e].attempts <= MaxAttempts

\* A settled event stays settled the way it was.
SettledStays ==
  [][\A e \in Events : rows[e].status \in {"published", "failed"}
                       => rows'[e].status = rows[e].status]_outboxVars

\* Every committed event is published or fails in the end: the events that
\* keep failing at the head of the batch cannot starve the later ones.
EveryEventSettles ==
  \A e \in Events : rows[e].status = "pending" ~> rows[e].status \in {"published", "failed"}
=============================================================================
