----------------------------- MODULE MessageLog -----------------------------
(***************************************************************************)
(* What a conversation promises its clients: one log of messages, appended *)
(* at the end and never reordered, in which a sender's client_message_id   *)
(* occurs at most once however often the client retries.                   *)
(***************************************************************************)
EXTENDS Sequences

CONSTANTS Users, Messages, Keys, NoKey

VARIABLE log    \* log[n] is the message with sequence n

Entries == [id : Messages, sender : Users, key : Keys \cup {NoKey}]

\* The entry repeats a client_message_id the same sender has used before.
Repeats(entry) ==
  \E n \in DOMAIN log : /\ log[n].sender = entry.sender
                        /\ log[n].key = entry.key
                        /\ entry.key # NoKey

Init == log = <<>>

Post(entry) ==
  /\ ~Repeats(entry)
  /\ \A n \in DOMAIN log : log[n].id # entry.id
  /\ log' = Append(log, entry)

Next == \E entry \in Entries : Post(entry)

Spec == Init /\ [][Next]_log
=============================================================================
