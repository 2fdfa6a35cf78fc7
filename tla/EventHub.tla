------------------------------ MODULE EventHub ------------------------------
(***************************************************************************)
(* One event hub: an append-only stream that consumers read page by page   *)
(* from a sequence number on.                                              *)
(*                                                                         *)
(* The store numbers an event MAX(sequence_number) + 1; the table has no   *)
(* other record of the numbers it gave out.  A reset empties the table and *)
(* a restore replaces it, and either starts the numbering anew: an epoch.  *)
(* They are taken here through the admin API, whose calls the store's      *)
(* mutex keeps apart from a publish.                                       *)
(*                                                                         *)
(* The consumer is a client: it asks for a page from its checkpoint on,    *)
(* handles the events one by one and then moves the checkpoint past the    *)
(* last.  If it crashes in between, it reads the page again.               *)
(*                                                                         *)
(* HubInit, HubNext, ... have names of their own because one module proves *)
(* things about this module and ServiceBus.                                *)
(***************************************************************************)
EXTENDS Naturals, Sequences, FiniteSets, FiniteSetsExt, SequencesExt

CONSTANTS
  MaxPublish,   \* bound on the number of events ever published
  MaxEpoch,     \* bound on the number of resets and restores
  MaxCrash,     \* bound on the number of the consumer's crashes
  PageSizes     \* values of maxEvents (the handler refuses those below 1)

ASSUME BoundAssumption ==
  /\ MaxPublish \in Nat /\ MaxEpoch \in Nat /\ MaxCrash \in Nat
  /\ PageSizes \subseteq Nat \ {0}

VARIABLES
  hub,         \* the hub has a row
  events,      \* event_hub_events: the rows of the hub
  saved,       \* the snapshot file, if there is one: its rows of the hub
  published,   \* history: number of events published, which names them
  epoch,       \* history: number of resets and restores
  consumer,    \* its checkpoint, its page, and the epoch it has joined
  crashes      \* history: number of its crashes

hubVars == <<hub, events, saved, published, epoch, consumer, crashes>>

Event == [seq : 1 .. MaxPublish, name : 1 .. MaxPublish]

Stored == [hub : BOOLEAN, events : SUBSET Event]

\* handled: the events handled since the consumer joined its epoch.
Consumer == [from : Nat, page : Seq(Event), last : Nat, epoch : Nat, handled : SUBSET Event]

Joining(e) == [from |-> 0, page |-> <<>>, last |-> 0, epoch |-> e, handled |-> {}]

HubInit ==
  /\ hub = FALSE
  /\ events = {}
  /\ saved = {}
  /\ published = 0
  /\ epoch = 0
  /\ consumer = Joining(0)
  /\ crashes = 0

-----------------------------------------------------------------------------
\* An existing hub is left alone (409).
CreateEventHub ==
  /\ ~hub
  /\ hub' = TRUE
  /\ UNCHANGED <<events, saved, published, epoch, consumer, crashes>>

\* Faulty variant: the number of the last event is given again.
NextSequenceAgain == IF events = {} THEN 1 ELSE Max({e.seq : e \in events})

\* COALESCE(MAX(sequence_number), 0) + 1
NextSequence == IF events = {} THEN 1 ELSE Max({e.seq : e \in events}) + 1

(***************************************************************************)
(* The SELECT of the number and the INSERT, under the mutex.  An INSERT    *)
(* that fails, for one because its UnixNano id is taken, changes nothing.  *)
(***************************************************************************)
PublishEventHubEvent ==
  /\ hub
  /\ published < MaxPublish
  /\ events' = events \cup {[seq |-> NextSequence, name |-> published + 1]}
  /\ published' = published + 1
  /\ UNCHANGED <<hub, saved, epoch, consumer, crashes>>

Snapshot ==
  /\ saved' = {[hub |-> hub, events |-> events]}
  /\ UNCHANGED <<hub, events, published, epoch, consumer, crashes>>

Reset ==
  /\ epoch < MaxEpoch
  /\ hub' = FALSE
  /\ events' = {}
  /\ epoch' = epoch + 1
  /\ UNCHANGED <<saved, published, consumer, crashes>>

Restore ==
  /\ epoch < MaxEpoch
  /\ \E file \in saved : hub' = file.hub /\ events' = file.events
  /\ epoch' = epoch + 1
  /\ UNCHANGED <<saved, published, consumer, crashes>>

-----------------------------------------------------------------------------
\* The i-th event is the one with i - 1 before it.  (SetToSortSeq would say
\* the same, by an induction that no prover here can do.)
Ordered(es) ==
  [i \in 1 .. Cardinality(es) |->
     CHOOSE e \in es : Cardinality({f \in es : f.seq < e.seq}) = i - 1]

UpTo(s, max) == SubSeq(s, 1, IF Len(s) < max THEN Len(s) ELSE max)

\* Faulty variants: the newest events first; the limit applied before the
\* condition.
PageNewest(from, max) ==
  UpTo(Reverse(Ordered({e \in events : e.seq >= from})), max)

PageOfFirst(from, max) ==
  SelectSeq(UpTo(Ordered(events), max), LAMBDA e : e.seq >= from)

\* WHERE sequence_number >= from ORDER BY sequence_number LIMIT max
Page(from, max) == UpTo(Ordered({e \in events : e.seq >= from}), max)

ListEventHubEvents(max) ==
  /\ hub
  /\ consumer.page = <<>>
  /\ consumer.last = 0
  /\ Page(consumer.from, max) # <<>>
  /\ consumer' = [consumer EXCEPT !.page = Page(consumer.from, max)]
  /\ UNCHANGED <<hub, events, saved, published, epoch, crashes>>

Handle ==
  /\ consumer.page # <<>>
  /\ consumer' = [consumer EXCEPT !.page = Tail(@),
                                  !.last = Head(consumer.page).seq,
                                  !.handled = @ \cup {Head(consumer.page)}]
  /\ UNCHANGED <<hub, events, saved, published, epoch, crashes>>

Checkpoint ==
  /\ consumer.page = <<>>
  /\ consumer.last # 0
  /\ consumer' = [consumer EXCEPT !.from = consumer.last + 1, !.last = 0]
  /\ UNCHANGED <<hub, events, saved, published, epoch, crashes>>

CrashConsumer ==
  /\ crashes < MaxCrash
  /\ consumer' = [consumer EXCEPT !.page = <<>>, !.last = 0]
  /\ crashes' = crashes + 1
  /\ UNCHANGED <<hub, events, saved, published, epoch>>

\* The consumer learns of a reset or restore and starts from the beginning.
Rejoin ==
  /\ consumer.epoch # epoch
  /\ consumer' = Joining(epoch)
  /\ UNCHANGED <<hub, events, saved, published, epoch, crashes>>

HubNext ==
  \/ CreateEventHub
  \/ PublishEventHubEvent
  \/ Snapshot
  \/ Reset
  \/ Restore
  \/ \E max \in PageSizes : ListEventHubEvents(max)
  \/ Handle
  \/ Checkpoint
  \/ CrashConsumer
  \/ Rejoin

HubSpec == HubInit /\ [][HubNext]_hubVars

(***************************************************************************)
(* A consumer that goes on polling.  The program owes it nothing else.     *)
(***************************************************************************)
FairSpec ==
  /\ HubSpec
  /\ WF_hubVars(\E max \in PageSizes : ListEventHubEvents(max))
  /\ WF_hubVars(Handle)
  /\ WF_hubVars(Checkpoint)
  /\ WF_hubVars(Rejoin)

-----------------------------------------------------------------------------
HubTypeOK ==
  /\ hub \in BOOLEAN
  /\ events \subseteq Event
  /\ saved \subseteq Stored
  /\ published \in 0 .. MaxPublish
  /\ epoch \in 0 .. MaxEpoch
  /\ consumer \in Consumer
  /\ crashes \in 0 .. MaxCrash

(***************************************************************************)
(* Whatever mixture of publishes, resets, snapshots and restores came      *)
(* before, the n events of a hub are numbered 1 to n in the order of their *)
(* publication: a number names one event, which is what lets a consumer    *)
(* checkpoint by it.  Code: MAX + 1, which holds no memory of its own, and *)
(* the table that readLocked and writeLocked carry over.                   *)
(***************************************************************************)
Dense ==
  /\ {e.seq : e \in events} = 1 .. Cardinality(events)
  /\ \A e, f \in events : e.seq <= f.seq <=> e.name <= f.name

(***************************************************************************)
(* A consumer that has not missed a reset or a restore has handled every   *)
(* event below its checkpoint, and no event before an earlier one, however *)
(* its pages and its crashes fell between the publishes.  Code: the WHERE, *)
(* ORDER BY and LIMIT of ListEventHubEvents.                               *)
(***************************************************************************)
NoneSkipped ==
  consumer.epoch = epoch =>
    \A e \in events :
      /\ e.seq < consumer.from => e \in consumer.handled
      /\ \A f \in consumer.handled : e.seq < f.seq => e \in consumer.handled

(***************************************************************************)
(* A consumer that goes on polling gets every event, unless the event is   *)
(* reset away first: no page size and no checkpoint makes it read the same *)
(* page for ever.                                                          *)
(***************************************************************************)
EveryEventRead ==
  \A e \in Event :
    e \in events ~> (e \in consumer.handled \/ e \notin events)

=============================================================================
