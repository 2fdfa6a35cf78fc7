---------------------------- MODULE MessageQueue ----------------------------
(***************************************************************************)
(* One Azure Storage queue of the emulator: the store's CreateQueue,       *)
(* EnqueueMessage, ReceiveMessages and DeleteMessage, as its HTTP handlers *)
(* call them.                                                              *)
(*                                                                         *)
(* Every method of the store holds the store's mutex from start to end,    *)
(* but its SQL statements commit one by one.  CreateQueue, EnqueueMessage  *)
(* and DeleteMessage change the database in a single statement and are     *)
(* single steps.  ReceiveMessages selects and then updates row after row:  *)
(* it is a call in progress (variable call) that a kill of the daemon or a *)
(* failing statement can cut between any two updates.                      *)
(***************************************************************************)
EXTENDS LeaseRows, Sequences, FiniteSets

CONSTANTS
  Timeouts,   \* visibility timeouts clients ask for, in seconds
  Limits,     \* values of numofmessages (the handler refuses those below 1)
  FineClock   \* TRUE: two UnixNano readings made by two statements differ

ASSUME RequestAssumption ==
  /\ Timeouts \subseteq Nat
  /\ Limits \subseteq Nat \ {0}
  /\ FineClock \in BOOLEAN

VARIABLES
  clock,     \* what time.Now() returns
  minted,    \* the last reading used for an id or a receipt
  account,   \* the storage account has a row
  queue,     \* the queue has a row
  rows,      \* queue_messages
  call,      \* the ReceiveMessages in progress, if any, else Idle
  seen,      \* <<id, receipt>> pairs that reached a client
  grants,    \* history: every receipt written, and the lease it came with
  acks       \* history: <<id, receipt>> of every accepted DeleteMessage

vars == <<clock, minted, account, queue, rows, call, seen, grants, acks>>

Idle == [active |-> FALSE, now |-> Start, timeout |-> 0,
         read |-> <<>>, next |-> 1, got |-> {}]

Read == [id : ClockReading, dequeues : Nat]

Call == [active : BOOLEAN, now : ClockReading, timeout : Nat, read : Seq(Read),
         next : Nat \ {0}, got : SUBSET (ClockReading \X ClockReading)]

Grant == [id : ClockReading, receipt : ClockReading, from : ClockReading, until : Instant]

Init ==
  /\ clock = Start
  /\ minted = Start
  /\ account = FALSE
  /\ queue = FALSE
  /\ rows = EmptyTable
  /\ call = Idle
  /\ seen = {}
  /\ grants = {}
  /\ acks = {}

-----------------------------------------------------------------------------
(***************************************************************************)
(* The environment: time passes, storage accounts come and go.             *)
(***************************************************************************)
Tick ==
  /\ NextInstant(clock).sec <= MaxSec
  /\ clock' = NextInstant(clock)
  /\ UNCHANGED <<minted, account, queue, rows, call, seen, grants, acks>>

UpsertStorageAccount ==
  /\ ~call.active
  /\ ~account
  /\ account' = TRUE
  /\ UNCHANGED <<clock, minted, queue, rows, call, seen, grants, acks>>

\* Deletes the account's row only: its queues and their messages stay.
DeleteStorageAccount ==
  /\ ~call.active
  /\ account
  /\ account' = FALSE
  /\ UNCHANGED <<clock, minted, queue, rows, call, seen, grants, acks>>

-----------------------------------------------------------------------------
(***************************************************************************)
(* A statement that mints an id or a receipt reads the clock.  On a fine   *)
(* clock that reading is later than every earlier one.                     *)
(***************************************************************************)
Mint ==
  /\ FineClock => Earlier(minted, clock)
  /\ minted' = clock

\* An existing queue is left alone (the handler answers 409).
CreateQueue ==
  /\ ~call.active
  /\ account
  /\ ~queue
  /\ queue' = TRUE
  /\ UNCHANGED <<clock, minted, account, rows, call, seen, grants, acks>>

\* Faulty variant: INSERT OR REPLACE.
EnqueueReplacing ==
  /\ ~call.active
  /\ queue
  /\ Mint
  /\ rows' = Put(rows, clock, NewRow(clock))
  /\ grants' = grants \cup {[id |-> clock, receipt |-> clock, from |-> clock, until |-> clock]}
  /\ seen' \in {seen, seen \cup {<<clock, clock>>}}
  /\ UNCHANGED <<clock, account, queue, call, acks>>

(***************************************************************************)
(* The INSERT fails on its primary key if the id is taken.  The response   *)
(* carries the receipt, and may be lost on its way to the client.          *)
(***************************************************************************)
EnqueueMessage ==
  /\ ~call.active
  /\ queue
  /\ Mint
  /\ IF clock \in DOMAIN rows
     THEN UNCHANGED <<rows, grants, seen>>
     ELSE /\ rows' = Put(rows, clock, NewRow(clock))
          /\ grants' = grants \cup {[id |-> clock, receipt |-> clock,
                                     from |-> clock, until |-> clock]}
          /\ seen' \in {seen, seen \cup {<<clock, clock>>}}
  /\ UNCHANGED <<clock, account, queue, call, acks>>

(***************************************************************************)
(* ReceiveMessages up to the rows its SELECT returned.                     *)
(***************************************************************************)
ReceiveMessages(limit, timeout) ==
  /\ ~call.active
  /\ queue
  /\ \E read \in Selections(rows, clock, limit) :
       call' = [active |-> TRUE, now |-> clock, timeout |-> timeout,
                read |-> read, next |-> 1, got |-> {}]
  /\ UNCHANGED <<clock, minted, account, queue, rows, seen, grants, acks>>

(***************************************************************************)
(* One turn of its loop: the UPDATE of the next selected message.          *)
(***************************************************************************)
UpdateVisibility ==
  /\ call.active
  /\ call.next \in DOMAIN call.read
  /\ Mint
  /\ LET read  == call.read[call.next]
         until == After(call.now, call.timeout)
     IN  /\ rows' = Relock(rows, read, clock, until)
         /\ grants' = grants \cup {[id |-> read.id, receipt |-> clock,
                                    from |-> call.now, until |-> until]}
         /\ call' = [active |-> TRUE, now |-> call.now, timeout |-> call.timeout,
                     read |-> call.read, next |-> call.next + 1,
                     got |-> call.got \cup {<<read.id, clock>>}]
  /\ UNCHANGED <<clock, account, queue, seen, acks>>

(***************************************************************************)
(* The loop is over and the client gets the messages and their receipts.   *)
(***************************************************************************)
ReturnMessages ==
  /\ call.active
  /\ call.next \notin DOMAIN call.read
  /\ seen' = seen \cup call.got
  /\ call' = Idle
  /\ UNCHANGED <<clock, minted, account, queue, rows, grants, acks>>

(***************************************************************************)
(* The daemon is killed, a statement fails or the response is lost: what   *)
(* was committed stays and no client learns of it.                         *)
(***************************************************************************)
AbortReceive ==
  /\ call.active
  /\ call' = Idle
  /\ UNCHANGED <<clock, minted, account, queue, rows, seen, grants, acks>>

\* Faulty variant: the receipt is not compared.
DeleteById(id, receipt) ==
  /\ ~call.active
  /\ id \in DOMAIN rows
  /\ rows' = Delete(rows, id)
  /\ acks' = acks \cup {<<id, receipt>>}
  /\ UNCHANGED <<clock, minted, account, queue, call, seen, grants>>

(***************************************************************************)
(* DELETE ... WHERE id AND pop_receipt; no row affected answers 404.       *)
(***************************************************************************)
DeleteMessage(id, receipt) ==
  /\ ~call.active
  /\ id \in DOMAIN rows
  /\ rows[id].receipt = receipt
  /\ rows' = Delete(rows, id)
  /\ acks' = acks \cup {<<id, receipt>>}
  /\ UNCHANGED <<clock, minted, account, queue, call, seen, grants>>

Next ==
  \/ Tick
  \/ UpsertStorageAccount
  \/ DeleteStorageAccount
  \/ CreateQueue
  \/ EnqueueMessage
  \/ \E limit \in Limits, timeout \in Timeouts : ReceiveMessages(limit, timeout)
  \/ UpdateVisibility
  \/ ReturnMessages
  \/ AbortReceive
  \/ \E pair \in seen : DeleteMessage(pair[1], pair[2])

Spec == Init /\ [][Next]_vars

\* Time passes.  Nothing else is owed by the program to its clients.
FairSpec == Spec /\ WF_vars(Tick)

-----------------------------------------------------------------------------
TypeOK ==
  /\ clock \in ClockReading
  /\ minted \in ClockReading
  /\ account \in BOOLEAN
  /\ queue \in BOOLEAN
  /\ DOMAIN rows \subseteq ClockReading
  /\ \A id \in DOMAIN rows : rows[id] \in Row
  /\ call \in Call
  /\ seen \subseteq ClockReading \X ClockReading
  /\ grants \subseteq Grant
  /\ acks \subseteq ClockReading \X ClockReading

-----------------------------------------------------------------------------
\* The leases ReceiveMessages granted: a message's first receipt comes from
\* EnqueueMessage and leases nothing.
Leases == {g \in grants : g.receipt # g.id}

\* The messages that are, or once were, in the queue.
Enqueued == {g.id : g \in grants}

Acked(id) == \E pair \in acks : pair[1] = id

(***************************************************************************)
(* A message is not handed out again before the second in which its lease  *)
(* ends, whatever batches overlapped, were cut short or were lost, and     *)
(* although the lease is compared as text.  (Within that second it may be: *)
(* see the README.)  Code: the visible_at filter of ReceiveMessages and    *)
(* the visible_at its UPDATE writes.                                       *)
(***************************************************************************)
LeaseExclusive ==
  \A g, h \in grants :
    g.id = h.id /\ Earlier(g.receipt, h.receipt) => g.until.sec <= h.from.sec

(***************************************************************************)
(* The dequeue count clients see as the number of attempts is exactly the  *)
(* number of leases written, those of receives cut short included.  Code:  *)
(* the count is read by the SELECT and written back by a later UPDATE.     *)
(***************************************************************************)
DequeueCountExact ==
  \A id \in DOMAIN rows :
    rows[id].dequeues = Cardinality({g \in Leases : g.id = id})

(***************************************************************************)
(* First deliveries keep the order of enqueueing to the second: when a     *)
(* message has been leased, each message enqueued in an earlier second has *)
(* been leased before it or is gone.  Code: ORDER BY created_at, LIMIT and *)
(* the order of the UPDATEs, which a crash may cut anywhere.               *)
(***************************************************************************)
FirstDeliveryInOrder ==
  \A g \in Leases : \A id \in Enqueued :
    id.sec < g.id.sec =>
      \/ Acked(id)
      \/ \E h \in Leases : h.id = id /\ Earlier(h.receipt, g.receipt)

(***************************************************************************)
(* The queue implements ExclusiveLease: ids are never reused, receipts are *)
(* never reissued for a message, and a deletion was asked for with the     *)
(* receipt of the message's latest lease.  Code: the UnixNano ids and      *)
(* receipts, and the WHERE clause of DeleteMessage.                        *)
(***************************************************************************)
Lease == INSTANCE ExclusiveLease WITH
  Message   <- ClockReading,
  Ticket    <- ClockReading,
  current   <- [id \in DOMAIN rows |-> rows[id].receipt],
  issued    <- {<<g.id, g.receipt>> : g \in grants},
  completed <- acks

ImplementsExclusiveLease == Lease!Spec

(***************************************************************************)
(* No step takes attempts off a message that stays in the queue, or puts a *)
(* new message in its place, however coarse the clock its id is read from. *)
(* Code: the primary key of queue_messages, on which the INSERT of a       *)
(* second message of the same id fails.                                    *)
(***************************************************************************)
AttemptsNeverReset ==
  [][\A id \in DOMAIN rows \cap DOMAIN rows' :
       rows[id].dequeues <= rows'[id].dequeues]_vars

(***************************************************************************)
(* A lease that ends before the clock's last second does end: the message  *)
(* becomes due again unless it is deleted or leased anew, also when the    *)
(* receive that leased it was cut short and no client knows of it.  Code:  *)
(* visible_at is the only thing that hides a message.                      *)
(***************************************************************************)
LeaseEnds ==
  \A id \in ClockReading, until \in ClockReading :
    /\ id \in DOMAIN rows
    /\ rows[id].visibleAt = until
    /\ until.sec < MaxSec
    ~> \/ id \notin DOMAIN rows
       \/ rows[id].visibleAt # until
       \/ id \in Due(rows, clock)

-----------------------------------------------------------------------------
(***************************************************************************)
(* The inductive invariant behind LeaseExclusive and                       *)
(* ImplementsExclusiveLease.  None of the two is inductive: each needs to  *)
(* know that recorded readings lie in the past, that a row hides its       *)
(* message for as long as any of its leases, and that the rows a receive   *)
(* has selected and not yet updated are still there and still due.         *)
(***************************************************************************)
MintedInPast ==
  /\ ~Earlier(clock, minted)
  /\ \A id \in DOMAIN rows : ~Earlier(minted, id)
  /\ \A g \in grants : ~Earlier(minted, g.id) /\ ~Earlier(minted, g.receipt)

RowOutlastsLeases ==
  \A id \in DOMAIN rows : \A g \in grants :
    g.id = id => g.until.sec <= rows[id].visibleAt.sec

SelectedRowsStillDue ==
  /\ ~call.active => DOMAIN call.read = {}
  /\ \A i, j \in DOMAIN call.read : call.read[i].id = call.read[j].id => i = j
  /\ \A i \in DOMAIN call.read : i >= call.next =>
       /\ call.read[i].id \in DOMAIN rows
       /\ rows[call.read[i].id].dequeues = call.read[i].dequeues
       /\ rows[call.read[i].id].visibleAt.sec <= call.now.sec

LeaseInv ==
  /\ TypeOK
  /\ MintedInPast
  /\ RowOutlastsLeases
  /\ SelectedRowsStillDue
  /\ LeaseExclusive

=============================================================================
