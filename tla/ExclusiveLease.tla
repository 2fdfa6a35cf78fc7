--------------------------- MODULE ExclusiveLease ---------------------------
(***************************************************************************)
(* What a message queue of the emulator promises its clients, without      *)
(* time, tables or partial failures: every message put is handed out under *)
(* tickets, each ticket is issued for a message at most once, a new ticket *)
(* invalidates the previous one, and only the message's current ticket     *)
(* completes it, for good.                                                 *)
(***************************************************************************)
CONSTANTS
  Message,   \* identities of messages
  Ticket     \* pop receipts or lock tokens

VARIABLES
  current,   \* the live messages, each with its current ticket
  issued,    \* every <<message, ticket>> ever issued
  completed  \* every <<message, ticket>> a completion was accepted for

vars == <<current, issued, completed>>

Init ==
  /\ current = [m \in {} |-> 0]
  /\ issued = {}
  /\ completed = {}

Issue(m, t) ==
  /\ <<m, t>> \notin issued
  /\ issued' = issued \cup {<<m, t>>}
  /\ current' = [i \in DOMAIN current \cup {m} |-> IF i = m THEN t ELSE current[i]]
  /\ UNCHANGED completed

\* A new message gets its first ticket: no message is put twice.
Enqueue(m, t) ==
  /\ \A p \in issued : p[1] # m
  /\ Issue(m, t)

\* A live message is handed out again under a ticket never issued for it.
HandOut(m, t) ==
  /\ m \in DOMAIN current
  /\ Issue(m, t)

\* The current ticket, and no other, completes the message.
Complete(m) ==
  /\ m \in DOMAIN current
  /\ completed' = completed \cup {<<m, current[m]>>}
  /\ current' = [i \in DOMAIN current \ {m} |-> current[i]]
  /\ UNCHANGED issued

Next ==
  \/ \E m \in Message, t \in Ticket : Enqueue(m, t) \/ HandOut(m, t)
  \/ \E m \in Message : Complete(m)

Spec == Init /\ [][Next]_vars

=============================================================================
