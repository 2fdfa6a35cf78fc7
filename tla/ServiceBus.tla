----------------------------- MODULE ServiceBus -----------------------------
(***************************************************************************)
(* One Service Bus namespace of the emulator: its queues, and one topic    *)
(* with the subscriptions that get a copy of every message published to    *)
(* it.  Queues and subscriptions (here: entities) lease their messages out *)
(* as storage queues do, see LeaseRows and MessageQueue; what this module  *)
(* adds is the fan-out and that the copies of a message, which share its   *)
(* id, have leases and completions of their own.                           *)
(*                                                                         *)
(* The store's mutex admits one call at a time; PublishTopicMessage        *)
(* inserts one row per subscription and the receives update one row per    *)
(* message, each in a statement of its own, so that a kill or a failing    *)
(* statement can cut them in between.  Readings of the clock used for ids  *)
(* and tokens are taken to differ (FineClock of MessageQueue).             *)
(***************************************************************************)
EXTENDS LeaseRows, Sequences, FiniteSets

CONSTANTS
  Queues,         \* names of queues and of subscriptions: numbers, so that
  Subscriptions,  \* they have the order in which the store lists them
  Timeouts,       \* visibility timeouts clients ask for, in seconds
  Limits          \* values of maxMessages (the handler refuses those below 1)

ASSUME EntityAssumption ==
  /\ Queues \subseteq Nat /\ Subscriptions \subseteq Nat
  /\ Queues \cap Subscriptions = {}
  /\ Timeouts \subseteq Nat /\ Limits \subseteq Nat \ {0}

Entity == Queues \cup Subscriptions

VARIABLES
  clock,         \* what time.Now() returns
  minted,        \* the last reading used for an id or a token
  namespace,     \* the namespace has a row
  topic,         \* the topic has a row
  created,       \* the entities that have a row
  rows,          \* entity |-> its messages
  call,          \* the publish or receive in progress, else Idle
  seen,          \* <<entity, id, token>> that reached a client
  issued,        \* history: every <<entity, id, token>> written
  acks,          \* history: <<entity, id, token>> of every accepted deletion
  publications   \* history: the publishes, with the subscriptions they found

vars == <<clock, minted, namespace, topic, created, rows, call,
          seen, issued, acks, publications>>

Token == Entity \X ClockReading \X ClockReading

Idle == [kind |-> "none"]

PublishCall == [kind : {"publish"}, id : ClockReading, left : SUBSET Subscriptions,
                got : SUBSET Token]

ReceiveCall == [kind : {"receive"}, entity : Entity, now : ClockReading, timeout : Nat,
                read : Seq([id : ClockReading, dequeues : Nat]), next : Nat \ {0},
                got : SUBSET Token]

Publication == [id : ClockReading, to : SUBSET Subscriptions, ok : BOOLEAN]

Init ==
  /\ clock = Start
  /\ minted = Start
  /\ namespace = FALSE
  /\ topic = FALSE
  /\ created = {}
  /\ rows = [e \in Entity |-> EmptyTable]
  /\ call = Idle
  /\ seen = {}
  /\ issued = {}
  /\ acks = {}
  /\ publications = {}

history == <<seen, issued, acks, publications>>

-----------------------------------------------------------------------------
Tick ==
  /\ NextInstant(clock).sec <= MaxSec
  /\ clock' = NextInstant(clock)
  /\ UNCHANGED <<minted, namespace, topic, created, rows, call, history>>

Mint ==
  /\ Earlier(minted, clock)
  /\ minted' = clock

CreateNamespace ==
  /\ call = Idle
  /\ ~namespace
  /\ namespace' = TRUE
  /\ UNCHANGED <<clock, minted, topic, created, rows, call, history>>

CreateTopic ==
  /\ call = Idle
  /\ namespace
  /\ ~topic
  /\ topic' = TRUE
  /\ UNCHANGED <<clock, minted, namespace, created, rows, call, history>>

CreateQueue(q) ==
  /\ call = Idle
  /\ namespace
  /\ q \notin created
  /\ created' = created \cup {q}
  /\ UNCHANGED <<clock, minted, namespace, topic, rows, call, history>>

CreateSubscription(s) ==
  /\ call = Idle
  /\ topic
  /\ s \notin created
  /\ created' = created \cup {s}
  /\ UNCHANGED <<clock, minted, namespace, topic, rows, call, history>>

-----------------------------------------------------------------------------
\* INSERT of a message into an entity, its lock token a fresh reading.
InsertMessage(e, id) ==
  /\ rows' = [rows EXCEPT ![e] = Put(@, id, [NewRow(id) EXCEPT !.receipt = clock])]
  /\ issued' = issued \cup {<<e, id, clock>>}

SendMessage(q) ==
  /\ call = Idle
  /\ q \in created
  /\ Mint
  /\ InsertMessage(q, clock)
  /\ seen' \in {seen, seen \cup {<<q, clock, clock>>}}
  /\ UNCHANGED <<clock, namespace, topic, created, call, acks, publications>>

(***************************************************************************)
(* PublishTopicMessage up to its SELECT of the subscriptions.              *)
(***************************************************************************)
PublishTopicMessage ==
  /\ call = Idle
  /\ topic
  /\ Mint
  /\ LET to == created \cap Subscriptions
     IN  /\ call' = [kind |-> "publish", id |-> clock, left |-> to, got |-> {}]
         /\ publications' = publications \cup {[id |-> clock, to |-> to, ok |-> FALSE]}
  /\ UNCHANGED <<clock, namespace, topic, created, rows, seen, issued, acks>>

\* Faulty variant: the last subscription is not served.
InsertCopyShort ==
  /\ call.kind = "publish"
  /\ \E s \in call.left :
       /\ \A o \in call.left : s <= o
       /\ InsertMessage(s, call.id)
       /\ call' = [call EXCEPT !.left = IF Cardinality(@) = 2 THEN {} ELSE @ \ {s},
                               !.got = IF @ = {} THEN {<<s, call.id, clock>>} ELSE @]
  /\ minted' = clock
  /\ UNCHANGED <<clock, namespace, topic, created, seen, acks, publications>>

\* One turn of its loop: the INSERT for the next subscription by name.  The
\* response will carry the first copy only.
InsertCopy ==
  /\ call.kind = "publish"
  /\ \E s \in call.left :
       /\ \A o \in call.left : s <= o
       /\ InsertMessage(s, call.id)
       /\ call' = [call EXCEPT !.left = @ \ {s},
                               !.got = IF @ = {} THEN {<<s, call.id, clock>>} ELSE @]
  /\ minted' = clock
  /\ UNCHANGED <<clock, namespace, topic, created, seen, acks, publications>>

\* A publish without subscriptions succeeds, too: the message is dropped.
ReturnPublish ==
  /\ call.kind = "publish"
  /\ call.left = {}
  /\ publications' = {IF p.id = call.id THEN [p EXCEPT !.ok = TRUE] ELSE p : p \in publications}
  /\ seen' = seen \cup call.got
  /\ call' = Idle
  /\ UNCHANGED <<clock, minted, namespace, topic, created, rows, issued, acks>>

-----------------------------------------------------------------------------
(***************************************************************************)
(* ReceiveServiceBusMessages and ReceiveServiceBusSubscriptionMessages:    *)
(* the SELECT, the UPDATE of each message, the response.                   *)
(***************************************************************************)
ReceiveMessages(e, limit, timeout) ==
  /\ call = Idle
  /\ e \in created
  /\ \E read \in Selections(rows[e], clock, limit) :
       call' = [kind |-> "receive", entity |-> e, now |-> clock, timeout |-> timeout,
                read |-> read, next |-> 1, got |-> {}]
  /\ UNCHANGED <<clock, minted, namespace, topic, created, rows, history>>

UpdateVisibility ==
  /\ call.kind = "receive"
  /\ call.next \in DOMAIN call.read
  /\ Mint
  /\ LET e     == call.entity
         read  == call.read[call.next]
         token == <<e, read.id, clock>>
     IN  /\ rows' = [rows EXCEPT ![e] =
                       Relock(@, read, clock, After(call.now, call.timeout))]
         /\ issued' = issued \cup {token}
         /\ call' = [call EXCEPT !.next = @ + 1, !.got = @ \cup {token}]
  /\ UNCHANGED <<clock, namespace, topic, created, seen, acks, publications>>

ReturnMessages ==
  /\ call.kind = "receive"
  /\ call.next \notin DOMAIN call.read
  /\ seen' = seen \cup call.got
  /\ call' = Idle
  /\ UNCHANGED <<clock, minted, namespace, topic, created, rows, issued, acks, publications>>

\* The daemon is killed or a statement fails, or the response is lost.
AbortCall ==
  /\ call # Idle
  /\ call' = Idle
  /\ UNCHANGED <<clock, minted, namespace, topic, created, rows, history>>

\* Faulty variant: the WHERE clause does not name the subscription.
DeleteAllCopies(e, id, token) ==
  /\ call = Idle
  /\ id \in DOMAIN rows[e]
  /\ rows[e][id].receipt = token
  /\ rows' = [o \in Entity |-> Delete(rows[o], id)]
  /\ acks' = acks \cup {<<e, id, token>>}
  /\ UNCHANGED <<clock, minted, namespace, topic, created, call, seen, issued, publications>>

\* DELETE ... WHERE entity AND id AND lock_token; no row answers 404.
DeleteMessage(e, id, token) ==
  /\ call = Idle
  /\ id \in DOMAIN rows[e]
  /\ rows[e][id].receipt = token
  /\ rows' = [rows EXCEPT ![e] = Delete(@, id)]
  /\ acks' = acks \cup {<<e, id, token>>}
  /\ UNCHANGED <<clock, minted, namespace, topic, created, call, seen, issued, publications>>

Next ==
  \/ Tick
  \/ CreateNamespace
  \/ CreateTopic
  \/ \E q \in Queues : CreateQueue(q) \/ SendMessage(q)
  \/ \E s \in Subscriptions : CreateSubscription(s)
  \/ PublishTopicMessage
  \/ InsertCopy
  \/ ReturnPublish
  \/ \E e \in Entity, limit \in Limits, timeout \in Timeouts : ReceiveMessages(e, limit, timeout)
  \/ UpdateVisibility
  \/ ReturnMessages
  \/ AbortCall
  \/ \E t \in seen : DeleteMessage(t[1], t[2], t[3])

Spec == Init /\ [][Next]_vars

-----------------------------------------------------------------------------
TypeOK ==
  /\ clock \in ClockReading
  /\ minted \in ClockReading
  /\ namespace \in BOOLEAN
  /\ topic \in BOOLEAN
  /\ created \subseteq Entity
  /\ DOMAIN rows = Entity
  /\ \A e \in Entity : \A id \in DOMAIN rows[e] : id \in ClockReading /\ rows[e][id] \in Row
  /\ call \in {Idle} \cup PublishCall \cup ReceiveCall
  /\ seen \subseteq Token
  /\ issued \subseteq Token
  /\ acks \subseteq Token
  /\ publications \subseteq Publication

\* The subscriptions that ever got the message.
Reached(id) == {t[1] : t \in {u \in issued : u[2] = id}} \cap Subscriptions

(***************************************************************************)
(* A message reaches no subscription created after it was published; a     *)
(* publish that was answered with success has reached every subscription   *)
(* it found; one that was cut short has reached the first of them in the   *)
(* order of their names and no other.  Code: the SELECT and the INSERTs of *)
(* PublishServiceBusTopicMessage, which are not one transaction.           *)
(***************************************************************************)
FanOut ==
  \A p \in publications :
    /\ Reached(p.id) \subseteq p.to
    /\ p.ok => Reached(p.id) = p.to
    /\ \A s \in Reached(p.id), o \in p.to : o < s => o \in Reached(p.id)

(***************************************************************************)
(* Each queue and each subscription implements ExclusiveLease on its own:  *)
(* receiving and completing a copy of a published message neither touches  *)
(* nor completes the copies of other subscriptions, although they share    *)
(* its id.  Code: the WHERE clauses of the UPDATE and the DELETE.          *)
(***************************************************************************)
Lease(e) == INSTANCE ExclusiveLease WITH
  Message   <- ClockReading,
  Ticket    <- ClockReading,
  current   <- [id \in DOMAIN rows[e] |-> rows[e][id].receipt],
  issued    <- {<<t[2], t[3]>> : t \in {u \in issued : u[1] = e}},
  completed <- {<<t[2], t[3]>> : t \in {u \in acks : u[1] = e}}

EachEntityLeases ==
  /\ \A e \in Entity : Lease(e)!Init
  /\ [][\A e \in Entity : Lease(e)!Next \/ UNCHANGED Lease(e)!vars]_vars

=============================================================================
