------------------------- MODULE MessageQueueProofs -------------------------
(***************************************************************************)
(* Proofs about MessageQueue for every clock, every set of timeouts and    *)
(* limits.  What is said of leases and ids assumes a fine clock.           *)
(***************************************************************************)
EXTENDS MessageQueue, FiniteSetTheorems, TLAPS

\* First, the operators of LeaseRows.

(***************************************************************************)
(* The clock's next reading is a reading, and a later one.  About: the     *)
(* instants time.Now() returns.                                            *)
(***************************************************************************)
LEMMA NextInstantLater ==
  ASSUME NEW t \in ClockReading, NextInstant(t).sec <= MaxSec
  PROVE  /\ NextInstant(t) \in ClockReading
         /\ Earlier(t, NextInstant(t))
BY ClockAssumption DEF ClockReading, NextInstant, Earlier

(***************************************************************************)
(* Instants are linearly ordered.  About: the real order of clock readings.*)
(***************************************************************************)
LEMMA EarlierOrder ==
  ASSUME NEW a \in ClockReading, NEW b \in ClockReading, NEW c \in ClockReading
  PROVE  /\ ~Earlier(a, a)
         /\ Earlier(a, b) /\ Earlier(b, c) => Earlier(a, c)
         /\ Earlier(a, b) => ~Earlier(b, a)
         /\ ~Earlier(a, b) /\ ~Earlier(b, a) => a = b
BY ClockAssumption DEF ClockReading, Earlier

(***************************************************************************)
(* If b is not before a and c is after b, then c is after a.  About: a     *)
(* fresh reading of the clock against all recorded ones.                   *)
(***************************************************************************)
LEMMA EarlierThanFresh ==
  ASSUME NEW a \in ClockReading, NEW b \in ClockReading, NEW c \in ClockReading,
         ~Earlier(b, a), Earlier(b, c)
  PROVE  Earlier(a, c) /\ ~Earlier(c, a) /\ a # c
BY ClockAssumption DEF ClockReading, Earlier

(***************************************************************************)
(* Comparing RFC3339Nano text is exact to the second: whatever the         *)
(* fractions, a text order never inverts two different seconds.            *)
(***************************************************************************)
LEMMA TextOrderKeepsSeconds ==
  ASSUME NEW a \in Instant, NEW b \in Instant, TextAtMost(a, b)
  PROVE  a.sec <= b.sec
BY DEF Instant, TextAtMost, TextLess

(***************************************************************************)
(* Adding a visibility timeout to a reading gives an instant not before    *)
(* it.  About: nowValue.Add(visibilityTimeout) in the receive methods.     *)
(***************************************************************************)
LEMMA AfterIsInstant ==
  ASSUME NEW t \in ClockReading, NEW seconds \in Nat
  PROVE  After(t, seconds) \in Instant /\ t.sec <= After(t, seconds).sec
BY ClockAssumption DEF ClockReading, Instant, After

\* What the clock shows can be written to a row.  About: now() in an INSERT.
LEMMA ReadingsAreInstants == ClockReading \subseteq Instant
BY ClockAssumption DEF ClockReading, Instant

\* The clock can start.  About: the first reading of time.Now().
LEMMA StartIsReading == Start \in ClockReading
BY ClockAssumption DEF ClockReading, Start

(***************************************************************************)
(* An INSERT or UPDATE sets its row and leaves the other rows alone.       *)
(* About: the statements on the three lease tables, which name one id.     *)
(***************************************************************************)
LEMMA PutRow ==
  ASSUME NEW table, NEW id, NEW row
  PROVE  /\ DOMAIN Put(table, id, row) = DOMAIN table \cup {id}
         /\ Put(table, id, row)[id] = row
         /\ \A i \in DOMAIN table : i # id => Put(table, id, row)[i] = table[i]
BY DEF Put

(***************************************************************************)
(* A DELETE removes its row and leaves the other rows alone.  About: the   *)
(* DELETE statements of the three tables, which name one id.               *)
(***************************************************************************)
LEMMA DeleteRow ==
  ASSUME NEW table, NEW id
  PROVE  /\ DOMAIN Delete(table, id) = DOMAIN table \ {id}
         /\ \A i \in DOMAIN Delete(table, id) : Delete(table, id)[i] = table[i]
BY DEF Delete

(***************************************************************************)
(* A SELECT of due rows returns each row at most once, only due rows, and  *)
(* their current dequeue counts.  About: the query of the three receive    *)
(* methods of the store.                                                   *)
(***************************************************************************)
LEMMA SelectionOfDueRows ==
  ASSUME NEW table, NEW now, NEW limit \in Nat, NEW s \in Selections(table, now, limit)
  PROVE  /\ DOMAIN s \subseteq Nat \ {0}
         /\ \A i \in DOMAIN s :
              /\ s[i].id \in Due(table, now)
              /\ s[i] = [id |-> s[i].id, dequeues |-> table[s[i].id].dequeues]
         /\ \A i, j \in DOMAIN s : s[i].id = s[j].id => i = j
<1> DEFINE Found == {[id |-> id, dequeues |-> table[id].dequeues] : id \in Due(table, now)}
<1>1. PICK n \in 0 .. limit : s \in [1 .. n -> Found]
  BY DEF Selections
<1>2. DOMAIN s = 1 .. n /\ \A i \in DOMAIN s : s[i] \in Found
  BY <1>1
<1>3. \A i, j \in DOMAIN s : s[i].id = s[j].id => i = j
  BY DEF Selections
<1>4. \A x \in Found : x.id \in Due(table, now)
                       /\ x = [id |-> x.id, dequeues |-> table[x.id].dequeues]
  OBVIOUS
<1> QED
  BY <1>2, <1>3, <1>4

(***************************************************************************)
(* A SELECT leaves out no due row that was created in a second before that *)
(* of a row it returns, and returns it earlier.  About: its ORDER BY       *)
(* created_at, which compares text.                                        *)
(***************************************************************************)
LEMMA SelectionInOrder ==
  ASSUME NEW table, NEW now, NEW limit \in Nat, NEW s \in Selections(table, now, limit),
         NEW i \in DOMAIN s, NEW id \in Due(table, now),
         table[id].createdAt.sec < table[s[i].id].createdAt.sec,
         table[s[i].id].createdAt.sec \in Nat, table[id].createdAt.sec \in Nat
  PROVE  \E j \in DOMAIN s : j < i /\ s[j].id = id
<1>1. TextLess(table[id].createdAt, table[s[i].id].createdAt)
  BY DEF TextLess
<1>2. /\ \A j, k \in DOMAIN s : j < k => ~TextLess(table[s[k].id].createdAt, table[s[j].id].createdAt)
      /\ (\A j \in DOMAIN s : s[j].id # id) =>
           \A j \in DOMAIN s : ~TextLess(table[id].createdAt, table[s[j].id].createdAt)
  BY DEF Selections
<1>3. PICK j \in DOMAIN s : s[j].id = id
  BY <1>1, <1>2
<1>4. ~(i < j) /\ i # j
  BY <1>1, <1>2, <1>3
<1>5. i \in Nat /\ j \in Nat
  BY SelectionOfDueRows
<1> QED
  BY <1>3, <1>4, <1>5

(***************************************************************************)
(* A SELECT's result is a sequence of what it read.  About: the slice      *)
(* `messages` the receive methods build from their rows.                   *)
(***************************************************************************)
LEMMA SelectionIsSequence ==
  ASSUME NEW table, NEW now, NEW limit \in Nat, NEW s \in Selections(table, now, limit),
         NEW S, \A i \in DOMAIN s : s[i] \in S
  PROVE  s \in Seq(S)
<1>1. PICK n \in 0 .. limit :
        s \in [1 .. n -> {[id |-> id, dequeues |-> table[id].dequeues] : id \in Due(table, now)}]
  BY DEF Selections
<1> QED
  BY <1>1

-----------------------------------------------------------------------------
(***************************************************************************)
(* The initial state is well typed.  About: the empty queue_messages.      *)
(***************************************************************************)
LEMMA TypeInit == Init => TypeOK
<1> SUFFICES ASSUME Init PROVE TypeOK
  OBVIOUS
<1>1. Idle \in Call
  BY StartIsReading DEF Idle, Call
<1> QED
  BY <1>1, StartIsReading DEF Init, TypeOK, EmptyTable

(***************************************************************************)
(* A new or relocked row is a row.  About: the columns EnqueueMessage and  *)
(* ReceiveMessages write.                                                  *)
(***************************************************************************)
LEMMA NewRowType ==
  ASSUME NEW t \in ClockReading
  PROVE  NewRow(t) \in Row
BY ReadingsAreInstants DEF NewRow, Row

\* A well typed table stays so when a row is put.  About: its INSERT and UPDATE.
LEMMA PutType ==
  ASSUME NEW table, DOMAIN table \subseteq ClockReading,
         \A id \in DOMAIN table : table[id] \in Row,
         NEW id \in ClockReading, NEW row \in Row
  PROVE  /\ DOMAIN Put(table, id, row) \subseteq ClockReading
         /\ \A i \in DOMAIN Put(table, id, row) : Put(table, id, row)[i] \in Row
BY DEF Put

(***************************************************************************)
(* Every step keeps the types.  About: all operations on the queue.        *)
(***************************************************************************)
LEMMA TypeNext == TypeOK /\ [Next]_vars => TypeOK'
<1> SUFFICES ASSUME TypeOK, [Next]_vars PROVE TypeOK'
  OBVIOUS
<1> USE DEF TypeOK
<1>1. CASE Tick
  BY <1>1, NextInstantLater DEF Tick
<1>2. CASE UpsertStorageAccount
  BY <1>2 DEF UpsertStorageAccount
<1>3. CASE DeleteStorageAccount
  BY <1>3 DEF DeleteStorageAccount
<1>4. CASE CreateQueue
  BY <1>4 DEF CreateQueue
<1>5. CASE EnqueueMessage
  <2>1. CASE clock \in DOMAIN rows
    BY <1>5, <2>1 DEF EnqueueMessage, Mint
  <2>2. CASE clock \notin DOMAIN rows
    <3>1. rows' = Put(rows, clock, NewRow(clock))
      BY <1>5, <2>2 DEF EnqueueMessage
    <3>2. DOMAIN rows' \subseteq ClockReading /\ \A i \in DOMAIN rows' : rows'[i] \in Row
      BY <3>1, NewRowType, PutType
    <3>3. grants' \subseteq Grant
      BY <1>5, <2>2, ReadingsAreInstants DEF EnqueueMessage, Grant
    <3>4. seen' \subseteq ClockReading \X ClockReading
      BY <1>5, <2>2 DEF EnqueueMessage
    <3> QED
      BY <1>5, <3>2, <3>3, <3>4 DEF EnqueueMessage, Mint
  <2> QED
    BY <2>1, <2>2
<1>6. ASSUME NEW limit \in Limits, NEW timeout \in Timeouts, ReceiveMessages(limit, timeout)
      PROVE  TypeOK'
  <2>1. PICK read \in Selections(rows, clock, limit) :
          call' = [active |-> TRUE, now |-> clock, timeout |-> timeout,
                   read |-> read, next |-> 1, got |-> {}]
    BY <1>6 DEF ReceiveMessages
  <2>2. limit \in Nat /\ timeout \in Nat
    BY RequestAssumption
  <2>3. \A i \in DOMAIN read : read[i] \in Read
    <3> SUFFICES ASSUME NEW i \in DOMAIN read PROVE read[i] \in Read
      OBVIOUS
    <3>1. read[i].id \in DOMAIN rows
      BY <2>1, <2>2, SelectionOfDueRows DEF Due
    <3>2. read[i] = [id |-> read[i].id, dequeues |-> rows[read[i].id].dequeues]
      BY <2>1, <2>2, SelectionOfDueRows
    <3>3. read[i].id \in ClockReading /\ rows[read[i].id].dequeues \in Nat
      BY <3>1 DEF Row
    <3> QED
      BY <3>2, <3>3 DEF Read
  <2>4. read \in Seq(Read)
    BY <2>1, <2>2, <2>3, SelectionIsSequence
  <2>5. call' \in Call
    BY <2>1, <2>2, <2>4 DEF Call
  <2> QED
    BY <1>6, <2>5 DEF ReceiveMessages
<1>7. CASE UpdateVisibility
  <2> DEFINE read  == call.read[call.next]
             until == After(call.now, call.timeout)
  <2>1. read \in Read /\ call \in Call
    BY <1>7 DEF UpdateVisibility, Call
  <2>2. until \in Instant
    BY <2>1, AfterIsInstant DEF Call
  <2>3. DOMAIN rows' \subseteq ClockReading /\ \A i \in DOMAIN rows' : rows'[i] \in Row
    <3>1. rows' = Relock(rows, read, clock, until)
      BY <1>7 DEF UpdateVisibility
    <3>2. CASE read.id \in DOMAIN rows
      <4>1. [receipt |-> clock, dequeues |-> read.dequeues + 1, visibleAt |-> until,
             createdAt |-> rows[read.id].createdAt] \in Row
        BY <3>2, <2>1, <2>2 DEF Row, Read
      <4> HIDE DEF read, until
      <4> QED
        BY <3>1, <3>2, <4>1, <2>1, PutType DEF Relock, Read
    <3>3. CASE read.id \notin DOMAIN rows
      BY <3>1, <3>3 DEF Relock
    <3> QED
      BY <3>2, <3>3
  <2>4. grants' \subseteq Grant
    <3>1. [id |-> read.id, receipt |-> clock, from |-> call.now, until |-> until] \in Grant
      BY <2>1, <2>2 DEF Grant, Read, Call
    <3> QED
      BY <1>7, <3>1 DEF UpdateVisibility
  <2>5. call' \in Call
    BY <1>7, <2>1 DEF UpdateVisibility, Call, Read
  <2> QED
    BY <1>7, <2>3, <2>4, <2>5 DEF UpdateVisibility, Mint
<1>8. CASE ReturnMessages
  <2>1. Idle \in Call
    BY StartIsReading DEF Idle, Call
  <2> QED
    BY <1>8, <2>1 DEF ReturnMessages, Call
<1>9. CASE AbortReceive
  <2>1. Idle \in Call
    BY StartIsReading DEF Idle, Call
  <2> QED
    BY <1>9, <2>1 DEF AbortReceive
<1>10. ASSUME NEW pair \in seen, DeleteMessage(pair[1], pair[2])
       PROVE  TypeOK'
  <2>1. pair[1] \in ClockReading /\ pair[2] \in ClockReading
    OBVIOUS
  <2>2. rows' = Delete(rows, pair[1]) /\ acks' = acks \cup {<<pair[1], pair[2]>>}
    BY <1>10 DEF DeleteMessage
  <2>3. DOMAIN rows' \subseteq ClockReading /\ \A i \in DOMAIN rows' : rows'[i] \in Row
    BY <2>2 DEF Delete
  <2> QED
    BY <1>10, <2>1, <2>2, <2>3 DEF DeleteMessage
<1>11. CASE UNCHANGED vars
  BY <1>11 DEF vars
<1> QED
  BY <1>1, <1>2, <1>3, <1>4, <1>5, <1>6, <1>7, <1>8, <1>9, <1>10, <1>11 DEF Next

(***************************************************************************)
(* The queue's state always has its types, for every bound on time and     *)
(* every request the handlers accept.  About: all operations on the queue. *)
(***************************************************************************)
THEOREM TypeCorrect == Spec => []TypeOK
BY TypeInit, TypeNext, PTL DEF Spec

-----------------------------------------------------------------------------
(***************************************************************************)
(* No lease is recorded at first.  About: the empty queue_messages.        *)
(***************************************************************************)
LEMMA LeaseInit == Init => LeaseInv
<1> SUFFICES ASSUME Init PROVE LeaseInv
  OBVIOUS
<1>1. TypeOK
  BY TypeInit
<1>2. MintedInPast
  BY EarlierOrder, StartIsReading DEF Init, MintedInPast, EmptyTable
<1>3. RowOutlastsLeases /\ SelectedRowsStillDue /\ LeaseExclusive
  BY DEF Init, RowOutlastsLeases, SelectedRowsStillDue, LeaseExclusive, EmptyTable, Idle
<1> QED
  BY <1>1, <1>2, <1>3 DEF LeaseInv

(***************************************************************************)
(* A message enqueued on a fine clock gets an id no message ever had, and  *)
(* its first receipt starts no lease.  About: EnqueueMessage.              *)
(***************************************************************************)
LEMMA LeaseEnqueue ==
  ASSUME FineClock, LeaseInv, TypeOK', EnqueueMessage
  PROVE  LeaseInv'
<1> USE DEF LeaseInv
<1> DEFINE g0 == [id |-> clock, receipt |-> clock, from |-> clock, until |-> clock]
<1>1. Earlier(minted, clock) /\ minted' = clock /\ clock' = clock /\ call' = call
  BY DEF EnqueueMessage, Mint
<1>2. \A g \in grants : /\ g.id \in ClockReading /\ g.receipt \in ClockReading
                        /\ g.id # clock /\ g.receipt # clock
                        /\ Earlier(g.receipt, clock) /\ ~Earlier(clock, g.receipt)
                        /\ ~Earlier(clock, g.id)
  <2> TAKE g \in grants
  <2>1. g.id \in ClockReading /\ g.receipt \in ClockReading /\ clock \in ClockReading
        /\ minted \in ClockReading
    BY DEF TypeOK, Grant
  <2>2. ~Earlier(minted, g.id) /\ ~Earlier(minted, g.receipt)
    BY DEF MintedInPast
  <2> QED
    BY <1>1, <2>1, <2>2, EarlierThanFresh
<1>3. clock \in ClockReading /\ ~Earlier(clock, clock)
  BY EarlierOrder DEF TypeOK
<1>4. \A id \in DOMAIN rows : ~Earlier(clock, id)
  <2> TAKE id \in DOMAIN rows
  <2> QED
    BY <1>1, EarlierThanFresh DEF TypeOK, MintedInPast
<1>5. CASE clock \in DOMAIN rows
  <2>1. grants' = grants /\ rows' = rows
    BY <1>5 DEF EnqueueMessage
  <2>2. MintedInPast'
    BY <1>1, <1>2, <1>3, <1>4, <2>1 DEF MintedInPast
  <2> QED
    BY <1>1, <2>1, <2>2 DEF RowOutlastsLeases, SelectedRowsStillDue, LeaseExclusive
<1>6. CASE clock \notin DOMAIN rows
  <2>1. grants' = grants \cup {g0} /\ rows' = Put(rows, clock, NewRow(clock)) /\ ~call.active
    BY <1>6 DEF EnqueueMessage
  <2>2. MintedInPast'
    BY <1>1, <1>2, <1>3, <1>4, <2>1 DEF MintedInPast, Put
  <2>3. RowOutlastsLeases'
    <3> SUFFICES ASSUME NEW id \in DOMAIN rows', NEW g \in grants', g.id = id
                 PROVE  g.until.sec <= rows'[id].visibleAt.sec
      BY DEF RowOutlastsLeases
    <3>1. CASE g = g0
      <4>1. id = clock /\ g.until = clock /\ clock.sec \in Nat
        BY <3>1, <1>3 DEF ClockReading
      <4>2. rows'[clock] = NewRow(clock)
        BY <2>1 DEF Put
      <4> QED
        BY <4>1, <4>2 DEF NewRow
    <3>2. CASE g \in grants
      <4>1. id # clock
        BY <3>2, <1>2
      <4>2. id \in DOMAIN rows /\ rows'[id] = rows[id]
        BY <2>1, <4>1 DEF Put
      <4> QED
        BY <3>2, <4>2 DEF RowOutlastsLeases
    <3> QED
      BY <2>1, <3>1, <3>2
  <2>4. SelectedRowsStillDue'
    <3>1. \A id \in DOMAIN rows : id # clock => id \in DOMAIN rows' /\ rows'[id] = rows[id]
      BY <2>1 DEF Put
    <3>2. \A i \in DOMAIN call.read : i >= call.next => call.read[i].id # clock
      BY <1>6 DEF SelectedRowsStillDue
    <3> QED
      BY <1>1, <2>1, <3>1, <3>2 DEF SelectedRowsStillDue
  <2>5. LeaseExclusive'
    <3> SUFFICES ASSUME NEW g \in grants', NEW h \in grants', g.id = h.id,
                        Earlier(g.receipt, h.receipt)
                 PROVE  g.until.sec <= h.from.sec
      BY DEF LeaseExclusive
    <3>1. CASE g \in grants /\ h \in grants
      BY <3>1 DEF LeaseExclusive
    <3>2. CASE g = g0 /\ h = g0
      BY <3>2, <1>3
    <3>3. CASE (g = g0 /\ h \in grants) \/ (g \in grants /\ h = g0)
      BY <3>3, <1>2
    <3> QED
      BY <2>1, <3>1, <3>2, <3>3
  <2> QED
    BY <2>2, <2>3, <2>4, <2>5
<1> QED
  BY <1>5, <1>6

(***************************************************************************)
(* What a SELECT returns is in the table and due to the second.  About:    *)
(* the query of ReceiveMessages.                                           *)
(***************************************************************************)
LEMMA LeaseReceive ==
  ASSUME LeaseInv, TypeOK', NEW limit \in Limits, NEW timeout \in Timeouts,
         ReceiveMessages(limit, timeout)
  PROVE  LeaseInv'
<1> USE DEF LeaseInv
<1>1. PICK read \in Selections(rows, clock, limit) :
        call' = [active |-> TRUE, now |-> clock, timeout |-> timeout,
                 read |-> read, next |-> 1, got |-> {}]
  BY DEF ReceiveMessages
<1>2. limit \in Nat
  BY RequestAssumption
<1>3. UNCHANGED <<clock, minted, rows, grants>>
  BY DEF ReceiveMessages
<1>4. \A i \in DOMAIN read : /\ read[i].id \in DOMAIN rows
                             /\ rows[read[i].id].dequeues = read[i].dequeues
                             /\ TextAtMost(rows[read[i].id].visibleAt, clock)
  BY <1>1, <1>2, SelectionOfDueRows DEF Due
<1>5. \A i \in DOMAIN read : rows[read[i].id].visibleAt.sec <= clock.sec
  <2> TAKE i \in DOMAIN read
  <2>1. rows[read[i].id].visibleAt \in Instant /\ clock \in Instant
    BY <1>4, ReadingsAreInstants DEF TypeOK, Row
  <2> QED
    BY <1>4, <2>1, TextOrderKeepsSeconds
<1>6. \A i, j \in DOMAIN read : read[i].id = read[j].id => i = j
  BY <1>1, <1>2, SelectionOfDueRows
<1>7. SelectedRowsStillDue'
  BY <1>1, <1>3, <1>4, <1>5, <1>6 DEF SelectedRowsStillDue
<1> QED
  BY <1>3, <1>7 DEF MintedInPast, RowOutlastsLeases, LeaseExclusive

(***************************************************************************)
(* An UPDATE leases a selected message whose earlier leases are all over,  *)
(* and leaves the other selected messages as they were.  About: the loop   *)
(* of ReceiveMessages.                                                     *)
(***************************************************************************)
LEMMA LeaseUpdate ==
  ASSUME FineClock, LeaseInv, TypeOK', UpdateVisibility
  PROVE  LeaseInv'
<1> USE DEF LeaseInv
<1> DEFINE read  == call.read[call.next]
           until == After(call.now, call.timeout)
           row   == [receipt |-> clock, dequeues |-> read.dequeues + 1,
                     visibleAt |-> until, createdAt |-> rows[read.id].createdAt]
           g0    == [id |-> read.id, receipt |-> clock, from |-> call.now, until |-> until]
<1>1. /\ Earlier(minted, clock) /\ minted' = clock /\ clock' = clock
      /\ call.active /\ call.next \in DOMAIN call.read
      /\ grants' = grants \cup {g0}
      /\ rows' = Relock(rows, read, clock, until)
      /\ call' = [active |-> TRUE, now |-> call.now, timeout |-> call.timeout,
                  read |-> call.read, next |-> call.next + 1,
                  got |-> call.got \cup {<<read.id, clock>>}]
  BY DEF UpdateVisibility, Mint
<1>2. /\ call.read \in Seq(Read) /\ call.next \in Nat \ {0} /\ read \in Read
      /\ call.now \in ClockReading /\ call.timeout \in Nat
      /\ DOMAIN call.read \subseteq Nat
  BY <1>1 DEF TypeOK, Call
<1>3. /\ read.id \in DOMAIN rows
      /\ rows[read.id].visibleAt.sec <= call.now.sec
  BY <1>1, <1>2 DEF SelectedRowsStillDue
<1>4. rows' = Put(rows, read.id, row)
  BY <1>1, <1>3 DEF Relock
<1>5. until \in Instant /\ call.now.sec <= until.sec /\ call.now.sec \in Nat
  BY <1>2, AfterIsInstant DEF ClockReading
<1>6. \A g \in grants : /\ g.id \in ClockReading /\ g.receipt \in ClockReading
                        /\ g.until \in Instant
                        /\ Earlier(g.receipt, clock) /\ ~Earlier(clock, g.receipt)
                        /\ ~Earlier(clock, g.id)
  <2> TAKE g \in grants
  <2>1. g.id \in ClockReading /\ g.receipt \in ClockReading /\ clock \in ClockReading
        /\ minted \in ClockReading /\ g.until \in Instant
    BY DEF TypeOK, Grant
  <2>2. ~Earlier(minted, g.id) /\ ~Earlier(minted, g.receipt)
    BY DEF MintedInPast
  <2> QED
    BY <1>1, <2>1, <2>2, EarlierThanFresh
<1>7. clock \in ClockReading /\ ~Earlier(clock, clock)
  BY EarlierOrder DEF TypeOK
<1>8. \A g \in grants : g.id = read.id => g.until.sec <= call.now.sec
  <2> SUFFICES ASSUME NEW g \in grants, g.id = read.id PROVE g.until.sec <= call.now.sec
    OBVIOUS
  <2>1. g.until.sec <= rows[read.id].visibleAt.sec
    BY <1>3 DEF RowOutlastsLeases
  <2>2. rows[read.id].visibleAt.sec \in Nat /\ g.until.sec \in Nat
    BY <1>3, <1>6 DEF TypeOK, Row, Instant
  <2> QED
    BY <1>3, <1>5, <2>1, <2>2
<1>9. \A id \in DOMAIN rows : ~Earlier(clock, id)
  <2> TAKE id \in DOMAIN rows
  <2> QED
    BY <1>1, EarlierThanFresh DEF TypeOK, MintedInPast
<1>10. MintedInPast'
  <2>1. DOMAIN rows' = DOMAIN rows
    BY <1>3, <1>4 DEF Put
  <2> QED
    BY <1>1, <1>3, <1>6, <1>7, <1>9, <2>1 DEF MintedInPast
<1> HIDE DEF read, until
<1>11. RowOutlastsLeases'
  <2> SUFFICES ASSUME NEW id \in DOMAIN rows', NEW g \in grants', g.id = id
               PROVE  g.until.sec <= rows'[id].visibleAt.sec
    BY DEF RowOutlastsLeases
  <2>1. CASE id = read.id
    <3>1. rows'[id].visibleAt = until
      BY <1>4, <2>1 DEF Put
    <3>2. CASE g = g0
      BY <3>1, <3>2, <1>5 DEF Instant
    <3>3. CASE g \in grants
      BY <3>1, <3>3, <2>1, <1>5, <1>6, <1>8 DEF Instant
    <3> QED
      BY <1>1, <3>2, <3>3 DEF read, until
  <2>2. CASE id # read.id
    <3>1. id \in DOMAIN rows /\ rows'[id] = rows[id] /\ g \in grants
      BY <1>1, <1>4, <2>2 DEF Put, read, until
    <3> QED
      BY <3>1 DEF RowOutlastsLeases
  <2> QED
    BY <2>1, <2>2
<1>12. SelectedRowsStillDue'
  <2>1. \A i \in DOMAIN call.read : i >= call.next + 1 => call.read[i].id # read.id
    <3> SUFFICES ASSUME NEW i \in DOMAIN call.read, i >= call.next + 1,
                        call.read[i].id = read.id
                 PROVE  FALSE
      OBVIOUS
    <3>1. i = call.next
      BY <1>1 DEF SelectedRowsStillDue, read
    <3> QED
      BY <3>1, <1>2
  <2>2. \A id \in DOMAIN rows : id # read.id => id \in DOMAIN rows' /\ rows'[id] = rows[id]
    BY <1>4 DEF Put
  <2>3. \A i \in DOMAIN call.read : i >= call.next + 1 => i >= call.next
    BY <1>2
  <2> QED
    BY <1>1, <2>1, <2>2, <2>3 DEF SelectedRowsStillDue
<1>13. LeaseExclusive'
  <2> SUFFICES ASSUME NEW g \in grants', NEW h \in grants', g.id = h.id,
                      Earlier(g.receipt, h.receipt)
               PROVE  g.until.sec <= h.from.sec
    BY DEF LeaseExclusive
  <2>1. CASE g \in grants /\ h \in grants
    BY <2>1 DEF LeaseExclusive
  <2>2. CASE g = g0
    BY <2>2, <1>1, <1>6, <1>7 DEF read, until
  <2>3. CASE g \in grants /\ h = g0
    BY <2>3, <1>8
  <2> QED
    BY <1>1, <2>1, <2>2, <2>3 DEF read, until
<1> QED
  BY <1>10, <1>11, <1>12, <1>13

(***************************************************************************)
(* Every step keeps the invariant; those not covered above add no lease    *)
(* and no row.  About: all operations on the queue.                        *)
(***************************************************************************)
LEMMA LeaseNext ==
  ASSUME FineClock
  PROVE  LeaseInv /\ [Next]_vars => LeaseInv'
<1> SUFFICES ASSUME LeaseInv, [Next]_vars PROVE LeaseInv'
  OBVIOUS
<1>0. TypeOK'
  BY TypeNext DEF LeaseInv
<1>1. CASE Tick
  <2>1. ~Earlier(clock', minted)
    <3>1. clock \in ClockReading /\ clock' \in ClockReading /\ minted \in ClockReading
      BY <1>1, <1>0 DEF LeaseInv, TypeOK, Tick
    <3>2. ~Earlier(clock, minted) /\ Earlier(clock, clock')
      BY <1>1, <3>1, NextInstantLater DEF LeaseInv, MintedInPast, Tick
    <3> QED
      BY <3>1, <3>2, EarlierThanFresh
  <2> QED
    BY <1>0, <1>1, <2>1
    DEF Tick, LeaseInv, MintedInPast, RowOutlastsLeases, SelectedRowsStillDue, LeaseExclusive
<1>2. CASE UpsertStorageAccount \/ DeleteStorageAccount \/ CreateQueue \/ UNCHANGED vars
  <2>1. UNCHANGED <<clock, minted, rows, call, grants>>
    BY <1>2 DEF UpsertStorageAccount, DeleteStorageAccount, CreateQueue, vars
  <2> QED
    BY <1>0, <2>1
    DEF LeaseInv, MintedInPast, RowOutlastsLeases, SelectedRowsStillDue, LeaseExclusive
<1>3. CASE EnqueueMessage
  BY <1>0, <1>3, LeaseEnqueue
<1>4. ASSUME NEW limit \in Limits, NEW timeout \in Timeouts, ReceiveMessages(limit, timeout)
      PROVE  LeaseInv'
  BY <1>0, <1>4, LeaseReceive
<1>5. CASE UpdateVisibility
  BY <1>0, <1>5, LeaseUpdate
<1>6. CASE ReturnMessages \/ AbortReceive
  <2>1. call' = Idle /\ UNCHANGED <<clock, minted, rows, grants>>
    BY <1>6 DEF ReturnMessages, AbortReceive
  <2>2. SelectedRowsStillDue'
    BY <2>1 DEF SelectedRowsStillDue, Idle
  <2> QED
    BY <1>0, <2>1, <2>2 DEF LeaseInv, MintedInPast, RowOutlastsLeases, LeaseExclusive
<1>7. ASSUME NEW pair \in seen, DeleteMessage(pair[1], pair[2])
      PROVE  LeaseInv'
  <2>1. /\ rows' = Delete(rows, pair[1]) /\ ~call.active
        /\ UNCHANGED <<clock, minted, call, grants>>
    BY <1>7 DEF DeleteMessage
  <2>2. MintedInPast' /\ RowOutlastsLeases'
    BY <2>1 DEF LeaseInv, MintedInPast, RowOutlastsLeases, Delete
  <2>3. SelectedRowsStillDue'
    BY <2>1 DEF LeaseInv, SelectedRowsStillDue
  <2>4. LeaseExclusive'
    BY <2>1 DEF LeaseInv, LeaseExclusive
  <2> QED
    BY <1>0, <2>2, <2>3, <2>4 DEF LeaseInv
<1> QED
  BY <1>1, <1>2, <1>3, <1>4, <1>5, <1>6, <1>7 DEF Next

(***************************************************************************)
(* The inductive invariant holds throughout.  About: all operations.       *)
(***************************************************************************)
THEOREM LeaseInvariant == ASSUME FineClock PROVE Spec => []LeaseInv
BY LeaseInit, LeaseNext, PTL DEF Spec

(***************************************************************************)
(* No message is handed out again before the second in which its lease     *)
(* ends.  About: ReceiveMessages, with any interleaving, any batch, any    *)
(* crash between its UPDATEs, and text comparison of instants.             *)
(***************************************************************************)
THEOREM LeasesAreExclusive == ASSUME FineClock PROVE Spec => []LeaseExclusive
<1>1. LeaseInv => LeaseExclusive
  BY DEF LeaseInv
<1> QED
  BY <1>1, LeaseInvariant, PTL

-----------------------------------------------------------------------------
(***************************************************************************)
(* Dequeue counts.  About: the UPDATE that writes back the count that the  *)
(* SELECT has read, one more.                                              *)
(***************************************************************************)
LeasesOf(id) == {g \in Leases : g.id = id}

Counted(id) ==
  /\ IsFiniteSet(LeasesOf(id))
  /\ rows[id].dequeues = Cardinality(LeasesOf(id))

CountInv == LeaseInv /\ \A id \in DOMAIN rows : Counted(id)

LEMMA CountStays ==
  ASSUME CountInv, NEW id \in DOMAIN rows,
         rows'[id] = rows[id], LeasesOf(id)' = LeasesOf(id)
  PROVE  Counted(id)'
BY DEF CountInv, Counted

\* A message that was not there before has no leases.
LEMMA CountEnqueue ==
  ASSUME FineClock, CountInv, EnqueueMessage, NEW id \in DOMAIN rows'
  PROVE  Counted(id)'
<1> DEFINE g0 == [id |-> clock, receipt |-> clock, from |-> clock, until |-> clock]
<1>1. grants' = grants \/ grants' = grants \cup {g0}
  BY DEF EnqueueMessage
<1>2. \A m : LeasesOf(m)' = LeasesOf(m)
  BY <1>1 DEF LeasesOf, Leases
<1>3. CASE id \in DOMAIN rows /\ rows'[id] = rows[id]
  BY <1>2, <1>3, CountStays
<1>4. CASE ~(id \in DOMAIN rows /\ rows'[id] = rows[id])
  <2>1. id = clock /\ rows'[id] = NewRow(clock)
    BY <1>4 DEF EnqueueMessage, Put
  <2>2. \A g \in grants : g.id # clock
    <3> TAKE g \in grants
    <3>1. g.id \in ClockReading /\ clock \in ClockReading /\ minted \in ClockReading
      BY DEF CountInv, LeaseInv, TypeOK, Grant
    <3>2. ~Earlier(minted, g.id) /\ Earlier(minted, clock)
      BY DEF CountInv, LeaseInv, MintedInPast, EnqueueMessage, Mint
    <3> QED
      BY <3>2
  <2>3. LeasesOf(clock) = {}
    BY <2>2 DEF LeasesOf, Leases
  <2>4. rows'[id].dequeues = 0
    BY <2>1 DEF NewRow
  <2> QED
    BY <1>2, <2>1, <2>3, <2>4, FS_EmptySet DEF Counted
<1> QED
  BY <1>3, <1>4

\* An UPDATE adds one lease, of the message whose count it has raised.
LEMMA CountUpdate ==
  ASSUME FineClock, CountInv, UpdateVisibility, NEW id \in DOMAIN rows'
  PROVE  Counted(id)'
<1> DEFINE read  == call.read[call.next]
           until == After(call.now, call.timeout)
           g0    == [id |-> read.id, receipt |-> clock, from |-> call.now, until |-> until]
<1>1. /\ grants' = grants \cup {g0}
      /\ rows' = Relock(rows, read, clock, until)
      /\ call.next \in DOMAIN call.read /\ Earlier(minted, clock)
  BY DEF UpdateVisibility, Mint
<1>2. read.id \in DOMAIN rows /\ rows[read.id].dequeues = read.dequeues
  <2>1. call.next \in Nat /\ call.next >= call.next
    BY DEF CountInv, LeaseInv, TypeOK, Call
  <2> QED
    BY <1>1, <2>1 DEF CountInv, LeaseInv, SelectedRowsStillDue
<1>3. clock \in ClockReading /\ minted \in ClockReading /\ DOMAIN rows \subseteq ClockReading
  BY DEF CountInv, LeaseInv, TypeOK
<1>4. \A g \in grants : g.receipt # clock
  BY <1>1 DEF CountInv, LeaseInv, MintedInPast
<1>5. read.id # clock
  BY <1>1, <1>2 DEF CountInv, LeaseInv, MintedInPast
<1>6. g0 \notin Leases /\ Leases' = Leases \cup {g0}
  BY <1>1, <1>4, <1>5 DEF Leases
<1>7. g0.id = read.id
  OBVIOUS
<1> HIDE DEF read, until, g0
<1>8. CASE id = read.id
  <2>1. LeasesOf(id)' = LeasesOf(id) \cup {g0} /\ g0 \notin LeasesOf(id)
    BY <1>6, <1>7, <1>8 DEF LeasesOf
  <2>2. IsFiniteSet(LeasesOf(id)) /\ read.dequeues = Cardinality(LeasesOf(id))
    BY <1>2, <1>8 DEF CountInv, Counted
  <2>3. /\ IsFiniteSet(LeasesOf(id) \cup {g0})
        /\ Cardinality(LeasesOf(id) \cup {g0}) = read.dequeues + 1
    BY <2>1, <2>2, FS_AddElement
  <2>4. rows'[id].dequeues = read.dequeues + 1
    BY <1>1, <1>2, <1>8 DEF Relock, Put
  <2> QED
    BY <2>1, <2>3, <2>4 DEF Counted
<1>9. CASE id # read.id
  <2>1. id \in DOMAIN rows /\ rows'[id] = rows[id]
    BY <1>1, <1>2, <1>9 DEF Relock, Put
  <2>2. LeasesOf(id)' = LeasesOf(id)
    BY <1>6, <1>7, <1>9 DEF LeasesOf
  <2> QED
    BY <2>1, <2>2, CountStays
<1> QED
  BY <1>8, <1>9

LEMMA CountNext ==
  ASSUME FineClock
  PROVE  CountInv /\ [Next]_vars => CountInv'
<1> SUFFICES ASSUME CountInv, [Next]_vars, NEW id \in DOMAIN rows'
             PROVE  Counted(id)'
  BY LeaseNext DEF CountInv
<1>1. CASE EnqueueMessage
  BY <1>1, CountEnqueue
<1>2. CASE UpdateVisibility
  BY <1>2, CountUpdate
<1>3. CASE /\ UNCHANGED grants /\ id \in DOMAIN rows /\ rows'[id] = rows[id]
  <2>1. LeasesOf(id)' = LeasesOf(id)
    BY <1>3 DEF LeasesOf, Leases
  <2> QED
    BY <1>3, <2>1, CountStays
<1>4. CASE UNCHANGED <<rows, grants>>
  BY <1>3, <1>4
<1>5. ASSUME NEW pair \in seen, DeleteMessage(pair[1], pair[2])
      PROVE  UNCHANGED grants /\ id \in DOMAIN rows /\ rows'[id] = rows[id]
  BY <1>5 DEF DeleteMessage, Delete
<1> QED
  BY <1>1, <1>2, <1>3, <1>4, <1>5
  DEF Next, vars, Tick, UpsertStorageAccount, DeleteStorageAccount, CreateQueue,
      ReceiveMessages, ReturnMessages, AbortReceive

(***************************************************************************)
(* The number of attempts that clients see is that of the leases written,  *)
(* with those of receives that were cut short.  About: the count that the  *)
(* SELECT reads and a later UPDATE writes back.                            *)
(***************************************************************************)
THEOREM DequeueCountsAreExact == ASSUME FineClock PROVE Spec => []DequeueCountExact
<1>1. Init => CountInv
  BY LeaseInit DEF Init, CountInv, EmptyTable
<1>2. CountInv => DequeueCountExact
  BY DEF CountInv, Counted, LeasesOf, DequeueCountExact
<1> QED
  BY <1>1, <1>2, CountNext, PTL DEF Spec

-----------------------------------------------------------------------------
(***************************************************************************)
(* The order of first deliveries.  FirstDeliveryInOrder is not inductive:  *)
(* it needs what a receive in progress has yet to lease.  A message that   *)
(* was never leased is due as soon as it is there, so that the SELECT has  *)
(* returned it before all later ones or it has been leased by now.         *)
(***************************************************************************)
Leased(id) == \E h \in Leases : h.id = id

NoneVanishes == \A g \in grants : Acked(g.id) \/ g.id \in DOMAIN rows

RowsGranted == \A id \in DOMAIN rows : \E g \in grants : g.id = id

RowsFresh ==
  \A id \in DOMAIN rows :
    rows[id].createdAt = id /\ (Leased(id) \/ rows[id].visibleAt = id)

YetToLease ==
  \A i \in DOMAIN call.read : i >= call.next =>
    \A id \in DOMAIN rows : id.sec < call.read[i].id.sec =>
      \/ Leased(id)
      \/ \E j \in DOMAIN call.read : call.next <= j /\ j < i /\ call.read[j].id = id

OrderInv ==
  /\ LeaseInv
  /\ NoneVanishes
  /\ RowsGranted
  /\ RowsFresh
  /\ YetToLease
  /\ FirstDeliveryInOrder

LEMMA OrderEnqueue ==
  ASSUME FineClock, OrderInv, LeaseInv', EnqueueMessage
  PROVE  OrderInv'
<1> DEFINE g0 == [id |-> clock, receipt |-> clock, from |-> clock, until |-> clock]
<1>1. /\ Earlier(minted, clock) /\ call' = call /\ acks' = acks
      /\ clock \in ClockReading /\ minted \in ClockReading
  BY DEF EnqueueMessage, Mint, OrderInv, LeaseInv, TypeOK
<1>2. clock \notin DOMAIN rows
  BY <1>1 DEF OrderInv, LeaseInv, MintedInPast
<1>3. /\ rows' = Put(rows, clock, NewRow(clock)) /\ grants' = grants \cup {g0} /\ ~call.active
  BY <1>2 DEF EnqueueMessage
<1>4. DOMAIN rows' = DOMAIN rows \cup {clock} /\ rows'[clock] = NewRow(clock)
      /\ \A id \in DOMAIN rows : rows'[id] = rows[id]
  BY <1>2, <1>3 DEF Put
<1>5. Leases' = Leases /\ \A id : Leased(id)' <=> Leased(id)
  BY <1>3 DEF Leases, Leased
<1>. g0.id = clock
  OBVIOUS
<1> HIDE DEF g0
<1>6. NoneVanishes' /\ RowsGranted'
  <2>1. NoneVanishes'
    BY <1>1, <1>3, <1>4 DEF OrderInv, NoneVanishes, Acked
  <2>2. RowsGranted'
    BY <1>3, <1>4 DEF OrderInv, RowsGranted
  <2> QED
    BY <2>1, <2>2
<1>7. RowsFresh'
  BY <1>4, <1>5 DEF OrderInv, RowsFresh, NewRow
<1>8. YetToLease'
  BY <1>1, <1>3 DEF OrderInv, LeaseInv, SelectedRowsStillDue, YetToLease
<1>9. ASSUME NEW g \in Leases PROVE ~(clock.sec < g.id.sec)
  <2>1. g.id \in ClockReading /\ ~Earlier(minted, g.id)
    BY DEF Leases, OrderInv, LeaseInv, MintedInPast, TypeOK, Grant
  <2> QED
    BY <1>1, <2>1, ClockAssumption DEF Earlier, ClockReading
<1>10. FirstDeliveryInOrder'
  <2>1. Enqueued' = Enqueued \cup {clock}
    BY <1>3 DEF Enqueued
  <2> QED
    BY <1>1, <1>5, <1>9, <2>1 DEF OrderInv, FirstDeliveryInOrder, Acked
<1> QED
  BY <1>6, <1>7, <1>8, <1>10 DEF OrderInv

LEMMA OrderReceive ==
  ASSUME FineClock, OrderInv, LeaseInv', NEW limit \in Limits, NEW timeout \in Timeouts,
         ReceiveMessages(limit, timeout)
  PROVE  OrderInv'
<1>1. PICK read \in Selections(rows, clock, limit) :
        call' = [active |-> TRUE, now |-> clock, timeout |-> timeout,
                 read |-> read, next |-> 1, got |-> {}]
  BY DEF ReceiveMessages
<1>2. limit \in Nat /\ UNCHANGED <<rows, grants, acks>>
  BY RequestAssumption DEF ReceiveMessages
<1>3. ASSUME NEW i \in DOMAIN read, NEW id \in DOMAIN rows,
             id.sec < read[i].id.sec, ~Leased(id)
      PROVE  \E j \in DOMAIN read : 1 <= j /\ j < i /\ read[j].id = id
  <2>1. read[i].id \in DOMAIN rows /\ DOMAIN read \subseteq Nat \ {0}
    BY <1>2, SelectionOfDueRows DEF Due
  <2>2. /\ rows[id].createdAt = id /\ rows[id].visibleAt = id
        /\ rows[read[i].id].createdAt = read[i].id
    BY <1>3, <2>1 DEF OrderInv, RowsFresh
  <2>3. /\ id.sec \in Nat /\ read[i].id.sec \in Nat /\ read[i].id.sec <= clock.sec
        /\ clock.sec \in Nat
    <3>1. /\ id \in ClockReading /\ read[i].id \in ClockReading
          /\ clock \in ClockReading /\ minted \in ClockReading
          /\ ~Earlier(minted, read[i].id) /\ ~Earlier(clock, minted)
      BY <2>1 DEF OrderInv, LeaseInv, TypeOK, MintedInPast
    <3> QED
      BY <3>1, ClockAssumption DEF Earlier, ClockReading
  <2>4. id \in Due(rows, clock)
    BY <1>3, <2>2, <2>3 DEF Due, TextAtMost, TextLess
  <2>5. \E j \in DOMAIN read : j < i /\ read[j].id = id
    BY <1>2, <1>3, <2>2, <2>3, <2>4, SelectionInOrder
  <2> QED
    BY <2>1, <2>5
<1>4. YetToLease'
  BY <1>1, <1>2, <1>3 DEF YetToLease, Leased, Leases
<1> QED
  BY <1>2, <1>4 DEF OrderInv, NoneVanishes, RowsGranted, RowsFresh, FirstDeliveryInOrder,
     Leased, Leases, Acked, Enqueued

LEMMA OrderUpdate ==
  ASSUME FineClock, OrderInv, LeaseInv', UpdateVisibility
  PROVE  OrderInv'
<1> DEFINE read  == call.read[call.next]
           until == After(call.now, call.timeout)
           g0    == [id |-> read.id, receipt |-> clock, from |-> call.now, until |-> until]
<1>1. /\ grants' = grants \cup {g0} /\ acks' = acks
      /\ rows' = Relock(rows, read, clock, until)
      /\ call'.read = call.read /\ call'.next = call.next + 1
      /\ call.next \in DOMAIN call.read /\ Earlier(minted, clock)
  BY DEF UpdateVisibility, Mint
<1>2. /\ call.next \in Nat /\ DOMAIN call.read \subseteq Nat
      /\ clock \in ClockReading /\ minted \in ClockReading
  BY DEF OrderInv, LeaseInv, TypeOK, Call
<1>3. read.id \in DOMAIN rows
  <2>1. call.next >= call.next
    BY <1>2
  <2> QED
    BY <1>1, <2>1 DEF OrderInv, LeaseInv, SelectedRowsStillDue
<1>4. /\ DOMAIN rows' = DOMAIN rows
      /\ \A id \in DOMAIN rows :
           /\ rows'[id].createdAt = rows[id].createdAt
           /\ id # read.id => rows'[id] = rows[id]
  BY <1>1, <1>3 DEF Relock, Put
<1>5. \A g \in grants : Earlier(g.receipt, clock)
  <2> TAKE g \in grants
  <2>1. g.receipt \in ClockReading /\ ~Earlier(minted, g.receipt)
    BY DEF OrderInv, LeaseInv, MintedInPast, TypeOK, Grant
  <2> QED
    BY <1>1, <1>2, <2>1, EarlierThanFresh
<1>6. read.id # clock
  BY <1>1, <1>3 DEF OrderInv, LeaseInv, MintedInPast
<1>7. g0.id = read.id /\ g0.receipt = clock
  OBVIOUS
<1>8. Leases' = Leases \cup {g0}
  BY <1>1, <1>6 DEF Leases
<1> HIDE DEF read, until, g0
<1>. PICK m \in DOMAIN rows : m = read.id
  BY <1>3
<1>9. Leased(m)' /\ \A id : Leased(id) => Leased(id)'
  BY <1>7, <1>8 DEF Leased
<1>10. NoneVanishes' /\ RowsGranted'
  BY <1>1, <1>3, <1>4, <1>7 DEF OrderInv, NoneVanishes, RowsGranted, Acked
<1>11. RowsFresh'
  <2>1. ASSUME NEW id \in DOMAIN rows'
        PROVE  rows'[id].createdAt = id /\ (Leased(id)' \/ rows'[id].visibleAt = id)
    BY <1>4, <1>9 DEF OrderInv, RowsFresh
  <2> QED
    BY <2>1 DEF RowsFresh
<1>12. YetToLease'
  <2> SUFFICES ASSUME NEW i \in DOMAIN call.read, i >= call.next + 1,
                      NEW id \in DOMAIN rows, id.sec < call.read[i].id.sec, ~Leased(id)'
               PROVE  \E j \in DOMAIN call.read :
                        call.next + 1 <= j /\ j < i /\ call.read[j].id = id
    BY <1>1, <1>4 DEF YetToLease
  <2>1. i >= call.next /\ ~Leased(id) /\ id # m
    BY <1>2, <1>9
  <2>2. PICK j \in DOMAIN call.read : call.next <= j /\ j < i /\ call.read[j].id = id
    BY <2>1 DEF OrderInv, YetToLease
  <2>3. j # call.next
    BY <2>1, <2>2 DEF read
  <2> QED
    BY <1>2, <2>2, <2>3
<1>13. FirstDeliveryInOrder'
  <2>1. Enqueued' = Enqueued
    BY <1>1, <1>3, <1>7 DEF Enqueued, OrderInv, RowsGranted
  <2>2. ASSUME NEW id \in Enqueued, id.sec < read.id.sec
        PROVE  Acked(id) \/ \E h \in Leases : h.id = id /\ Earlier(h.receipt, clock)
    <3>1. Acked(id) \/ id \in DOMAIN rows
      BY DEF OrderInv, NoneVanishes, Enqueued
    <3>2. id \in DOMAIN rows => Leased(id)
      BY <1>1, <1>2, <2>2 DEF OrderInv, YetToLease, read
    <3> QED
      BY <1>5, <3>1, <3>2 DEF Leased, Leases
  <2> QED
    BY <1>1, <1>7, <1>8, <2>1, <2>2 DEF OrderInv, FirstDeliveryInOrder, Acked
<1> QED
  BY <1>10, <1>11, <1>12, <1>13 DEF OrderInv

LEMMA OrderDelete ==
  ASSUME OrderInv, LeaseInv', NEW pair \in seen, DeleteMessage(pair[1], pair[2])
  PROVE  OrderInv'
<1>1. /\ rows' = Delete(rows, pair[1]) /\ acks' = acks \cup {<<pair[1], pair[2]>>}
      /\ ~call.active /\ UNCHANGED <<call, grants>>
  BY DEF DeleteMessage
<1>2. /\ DOMAIN rows' = DOMAIN rows \ {pair[1]}
      /\ \A id \in DOMAIN rows' : rows'[id] = rows[id]
  BY <1>1, DeleteRow
<1>3. Acked(pair[1])' /\ \A id : Acked(id) => Acked(id)'
  <2>1. <<pair[1], pair[2]>> \in acks' /\ <<pair[1], pair[2]>>[1] = pair[1]
    BY <1>1
  <2>2. Acked(pair[1])'
    BY <2>1, Zenon DEF Acked
  <2>3. acks \subseteq acks'
    BY <1>1
  <2> QED
    BY <2>2, <2>3 DEF Acked
<1>4. NoneVanishes' /\ RowsGranted' /\ RowsFresh'
  BY <1>1, <1>2, <1>3 DEF OrderInv, NoneVanishes, RowsGranted, RowsFresh, Leased, Leases
<1>5. YetToLease'
  BY <1>1 DEF OrderInv, LeaseInv, SelectedRowsStillDue, YetToLease
<1>6. FirstDeliveryInOrder'
  BY <1>1, <1>3 DEF OrderInv, FirstDeliveryInOrder, Leases, Enqueued
<1> QED
  BY <1>4, <1>5, <1>6 DEF OrderInv

LEMMA OrderNext ==
  ASSUME FineClock
  PROVE  OrderInv /\ [Next]_vars => OrderInv'
<1> SUFFICES ASSUME OrderInv, [Next]_vars PROVE OrderInv'
  OBVIOUS
<1>1. LeaseInv'
  BY LeaseNext DEF OrderInv
<1>2. CASE UNCHANGED <<rows, grants, acks>> /\ call' \in {call, Idle}
  <2>1. NoneVanishes' /\ RowsGranted' /\ RowsFresh' /\ FirstDeliveryInOrder'
    BY <1>2 DEF OrderInv, NoneVanishes, RowsGranted, RowsFresh, FirstDeliveryInOrder,
       Leased, Leases, Acked, Enqueued
  <2>2. YetToLease'
    BY <1>2 DEF OrderInv, YetToLease, Leased, Leases, Idle
  <2> QED
    BY <1>1, <2>1, <2>2 DEF OrderInv
<1>3. ASSUME \/ Tick \/ UpsertStorageAccount \/ DeleteStorageAccount \/ CreateQueue
             \/ ReturnMessages \/ AbortReceive \/ UNCHANGED vars
      PROVE  UNCHANGED <<rows, grants, acks>> /\ call' \in {call, Idle}
  BY <1>3 DEF vars, Tick, UpsertStorageAccount, DeleteStorageAccount, CreateQueue,
     ReturnMessages, AbortReceive
<1> QED
  BY <1>1, <1>2, <1>3, OrderEnqueue, OrderReceive, OrderUpdate, OrderDelete DEF Next

(***************************************************************************)
(* First deliveries keep the order of enqueueing to the second, with any   *)
(* batches, limits, crashes between UPDATEs and lost answers.  About: the  *)
(* ORDER BY created_at of ReceiveMessages.                                 *)
(***************************************************************************)
THEOREM FirstDeliveriesInOrder == ASSUME FineClock PROVE Spec => []FirstDeliveryInOrder
<1>1. Init => OrderInv
  BY LeaseInit DEF Init, OrderInv, NoneVanishes, RowsGranted, RowsFresh, YetToLease,
     FirstDeliveryInOrder, Leases, Enqueued, EmptyTable, Idle
<1>2. OrderInv => FirstDeliveryInOrder
  BY DEF OrderInv
<1> QED
  BY <1>1, <1>2, OrderNext, PTL DEF Spec

-----------------------------------------------------------------------------
(***************************************************************************)
(* The empty queue is an empty ExclusiveLease.  About: the new queue.      *)
(***************************************************************************)
LEMMA RefinementInit == Init => Lease!Init
BY DEF Init, Lease!Init, EmptyTable

(***************************************************************************)
(* Every step of the queue is a step of ExclusiveLease or changes nothing  *)
(* it speaks of.  About: EnqueueMessage puts a message never put before,   *)
(* each UPDATE issues a ticket never issued for its message, and an        *)
(* accepted DeleteMessage completes the message with its current ticket.   *)
(***************************************************************************)
LEMMA RefinementNext ==
  ASSUME FineClock
  PROVE  LeaseInv /\ [Next]_vars => [Lease!Next]_(Lease!vars)
<1> SUFFICES ASSUME LeaseInv, [Next]_vars PROVE [Lease!Next]_(Lease!vars)
  OBVIOUS
<1> DEFINE current == [id \in DOMAIN rows |-> rows[id].receipt]
           issued  == {<<g.id, g.receipt>> : g \in grants}
<1>0. \A g \in grants : Earlier(minted, clock) => g.id # clock /\ g.receipt # clock
  <2> SUFFICES ASSUME NEW g \in grants, Earlier(minted, clock)
               PROVE  g.id # clock /\ g.receipt # clock
    OBVIOUS
  <2>1. g.id \in ClockReading /\ g.receipt \in ClockReading /\ clock \in ClockReading
        /\ minted \in ClockReading
    BY DEF LeaseInv, TypeOK, Grant
  <2>2. ~Earlier(minted, g.id) /\ ~Earlier(minted, g.receipt)
    BY DEF LeaseInv, MintedInPast
  <2> QED
    BY <2>1, <2>2, EarlierThanFresh
<1>1. CASE UNCHANGED <<rows, grants, acks>>
  BY <1>1 DEF Lease!vars
<1>2. CASE EnqueueMessage /\ clock \notin DOMAIN rows
  <2>1. /\ rows' = Put(rows, clock, NewRow(clock)) /\ acks' = acks
        /\ grants' = grants \cup {[id |-> clock, receipt |-> clock,
                                   from |-> clock, until |-> clock]}
        /\ Earlier(minted, clock)
    BY <1>2 DEF EnqueueMessage, Mint
  <2>2. \A p \in issued : p[1] # clock
    BY <1>0, <2>1
  <2>3. <<clock, clock>> \notin issued
    BY <2>2
  <2>4. issued' = issued \cup {<<clock, clock>>}
    <3> DEFINE g0 == [id |-> clock, receipt |-> clock, from |-> clock, until |-> clock]
    <3>1. grants' = grants \cup {g0} /\ g0.id = clock /\ g0.receipt = clock
      BY <2>1
    <3> HIDE DEF g0
    <3> QED
      BY <3>1
  <2>5. current' = [i \in DOMAIN current \cup {clock} |->
                      IF i = clock THEN clock ELSE current[i]]
    BY <2>1 DEF Put, NewRow
  <2>6. PICK t \in ClockReading : t = clock
    BY DEF LeaseInv, TypeOK
  <2>7. Lease!Enqueue(t, t)
    BY <2>1, <2>2, <2>3, <2>4, <2>5, <2>6 DEF Lease!Enqueue, Lease!Issue
  <2> QED
    BY <2>7 DEF Lease!Next
<1>3. CASE UpdateVisibility
  <2> DEFINE id == call.read[call.next].id
  <2>1. /\ grants' = grants \cup {[id |-> id, receipt |-> clock, from |-> call.now,
                                   until |-> After(call.now, call.timeout)]}
        /\ rows' = Relock(rows, call.read[call.next], clock, After(call.now, call.timeout))
        /\ acks' = acks /\ Earlier(minted, clock) /\ call.next \in DOMAIN call.read
    BY <1>3 DEF UpdateVisibility, Mint
  <2>2. id \in DOMAIN rows
    BY <2>1 DEF LeaseInv, SelectedRowsStillDue, TypeOK, Call
  <2>3. id \in ClockReading /\ clock \in ClockReading
    BY <2>2 DEF LeaseInv, TypeOK
  <2>4. <<id, clock>> \notin issued
    BY <1>0, <2>1
  <2>5. issued' = issued \cup {<<id, clock>>}
    <3> DEFINE g0 == [id |-> id, receipt |-> clock, from |-> call.now,
                      until |-> After(call.now, call.timeout)]
    <3>1. grants' = grants \cup {g0} /\ g0.id = id /\ g0.receipt = clock
      BY <2>1
    <3> HIDE DEF g0, id
    <3> QED
      BY <3>1
  <2>6. current' = [i \in DOMAIN current \cup {id} |-> IF i = id THEN clock ELSE current[i]]
    BY <2>1, <2>2 DEF Put, Relock
  <2>7. PICK m \in ClockReading, t \in ClockReading : m = id /\ t = clock
    BY <2>3
  <2> HIDE DEF id
  <2>8. Lease!HandOut(m, t)
    BY <2>1, <2>2, <2>4, <2>5, <2>6, <2>7 DEF Lease!HandOut, Lease!Issue
  <2> QED
    BY <2>8 DEF Lease!Next
<1>4. ASSUME NEW pair \in seen, DeleteMessage(pair[1], pair[2])
      PROVE  Lease!Next
  <2>1. /\ pair[1] \in DOMAIN rows /\ rows[pair[1]].receipt = pair[2]
        /\ rows' = Delete(rows, pair[1]) /\ grants' = grants
        /\ acks' = acks \cup {<<pair[1], pair[2]>>}
    BY <1>4 DEF DeleteMessage
  <2>2. current' = [i \in DOMAIN current \ {pair[1]} |-> current[i]]
    BY <2>1 DEF Delete
  <2>3. Lease!Complete(pair[1])
    BY <2>1, <2>2 DEF Lease!Complete
  <2> QED
    BY <2>1, <2>3 DEF Lease!Next, LeaseInv, TypeOK
<1>5. \/ UNCHANGED <<rows, grants, acks>>
      \/ EnqueueMessage /\ clock \notin DOMAIN rows
      \/ UpdateVisibility
      \/ \E pair \in seen : DeleteMessage(pair[1], pair[2])
  BY DEF Next, vars, Tick, UpsertStorageAccount, DeleteStorageAccount, CreateQueue,
         EnqueueMessage, ReceiveMessages, ReturnMessages, AbortReceive
<1> QED
  BY <1>1, <1>2, <1>3, <1>4, <1>5

(***************************************************************************)
(* On a fine clock the queue implements ExclusiveLease.  About: ids and    *)
(* receipts made of UnixNano, and the receipt a DELETE compares.           *)
(***************************************************************************)
THEOREM QueueImplementsLease == ASSUME FineClock PROVE Spec => ImplementsExclusiveLease
BY RefinementInit, RefinementNext, LeaseInvariant, PTL
DEF Spec, ImplementsExclusiveLease, Lease!Spec

-----------------------------------------------------------------------------
(***************************************************************************)
(* Attempts are never taken off a message, on a fine clock and on one so   *)
(* coarse that ids and receipts repeat.  While a receive is in progress    *)
(* the mutex keeps every other statement out, so that the counts its       *)
(* SELECT has read are still those of the rows it is about to update.      *)
(***************************************************************************)
ReadCountsCurrent ==
  /\ \A i, j \in DOMAIN call.read : call.read[i].id = call.read[j].id => i = j
  /\ call.active => \A i \in DOMAIN call.read :
       i >= call.next /\ call.read[i].id \in DOMAIN rows =>
         rows[call.read[i].id].dequeues = call.read[i].dequeues

AttemptInv == TypeOK /\ ReadCountsCurrent

\* About: the SELECT of ReceiveMessages, whose rows carry their counts.
LEMMA AttemptReceive ==
  ASSUME NEW limit \in Limits, NEW timeout \in Timeouts, ReceiveMessages(limit, timeout)
  PROVE  ReadCountsCurrent'
<1>1. PICK read \in Selections(rows, clock, limit) :
        call' = [active |-> TRUE, now |-> clock, timeout |-> timeout,
                 read |-> read, next |-> 1, got |-> {}]
  BY DEF ReceiveMessages
<1>2. limit \in Nat
  BY RequestAssumption
<1>3. /\ \A i \in DOMAIN read : read[i].dequeues = rows[read[i].id].dequeues
      /\ \A i, j \in DOMAIN read : read[i].id = read[j].id => i = j
  BY <1>2, SelectionOfDueRows
<1> QED
  BY <1>1, <1>3 DEF ReadCountsCurrent, ReceiveMessages

\* About: the UPDATE of ReceiveMessages, which raises the count it has read.
LEMMA AttemptUpdate ==
  ASSUME AttemptInv, UpdateVisibility
  PROVE  /\ ReadCountsCurrent'
         /\ \A id \in DOMAIN rows : rows[id].dequeues <= rows'[id].dequeues
<1> DEFINE read  == call.read[call.next]
           until == After(call.now, call.timeout)
<1>1. /\ call.active /\ call.next \in DOMAIN call.read
      /\ rows' = Relock(rows, read, clock, until)
      /\ call'.active /\ call'.read = call.read /\ call'.next = call.next + 1
  BY DEF UpdateVisibility
<1>2. call.next \in Nat /\ DOMAIN call.read \subseteq Nat
  BY DEF AttemptInv, TypeOK, Call
<1>3. \A id \in DOMAIN rows : rows[id].dequeues \in Nat
  BY DEF AttemptInv, TypeOK, Row
<1>4. read.id \in DOMAIN rows => rows[read.id].dequeues = read.dequeues
  BY <1>1, <1>2 DEF AttemptInv, ReadCountsCurrent
<1>5. /\ DOMAIN rows' = DOMAIN rows
      /\ \A id \in DOMAIN rows : id # read.id => rows'[id] = rows[id]
      /\ read.id \in DOMAIN rows => rows'[read.id].dequeues = read.dequeues + 1
  BY <1>1 DEF Relock, Put
<1>6. \A i \in DOMAIN call.read : i >= call.next + 1 => call.read[i].id # read.id
  BY <1>1, <1>2 DEF AttemptInv, ReadCountsCurrent
<1> HIDE DEF read, until
<1>7. ReadCountsCurrent'
  BY <1>1, <1>2, <1>5, <1>6 DEF AttemptInv, ReadCountsCurrent
<1> QED
  BY <1>3, <1>4, <1>5, <1>7

LEMMA AttemptNext ==
  AttemptInv /\ [Next]_vars =>
    /\ AttemptInv'
    /\ \A id \in DOMAIN rows \cap DOMAIN rows' : rows[id].dequeues <= rows'[id].dequeues
<1> SUFFICES ASSUME AttemptInv, [Next]_vars
             PROVE  /\ ReadCountsCurrent'
                    /\ \A id \in DOMAIN rows \cap DOMAIN rows' :
                         rows[id].dequeues <= rows'[id].dequeues
  BY TypeNext DEF AttemptInv
<1>1. \A id \in DOMAIN rows : rows[id].dequeues \in Nat
  BY DEF AttemptInv, TypeOK, Row
<1>2. ASSUME call' = call \/ call' = Idle,
             \A id \in DOMAIN rows \cap DOMAIN rows' : rows'[id] = rows[id],
             ~call.active \/ DOMAIN rows' = DOMAIN rows
      PROVE  /\ ReadCountsCurrent'
             /\ \A id \in DOMAIN rows \cap DOMAIN rows' : rows[id].dequeues <= rows'[id].dequeues
  <2>1. \A id \in DOMAIN rows \cap DOMAIN rows' : rows[id].dequeues <= rows'[id].dequeues
    BY <1>1, <1>2
  <2>2. CASE call' = call
    <3>1. \A i, j \in DOMAIN call'.read : call'.read[i].id = call'.read[j].id => i = j
      BY <2>2 DEF AttemptInv, ReadCountsCurrent
    <3>2. ASSUME call'.active, NEW i \in DOMAIN call.read,
                 i >= call.next, call.read[i].id \in DOMAIN rows'
          PROVE  rows'[call.read[i].id].dequeues = call.read[i].dequeues
      <4>1. call.active /\ call.read[i].id \in DOMAIN rows
        BY <1>2, <2>2, <3>2
      <4> QED
        BY <1>2, <3>2, <4>1 DEF AttemptInv, ReadCountsCurrent
    <3> QED
      BY <2>1, <2>2, <3>1, <3>2 DEF ReadCountsCurrent
  <2>3. CASE call' = Idle
    <3>1. DOMAIN call'.read = {} /\ ~call'.active
      BY <2>3 DEF Idle
    <3> QED
      BY <2>1, <3>1 DEF ReadCountsCurrent
  <2> QED
    BY <1>2, <2>1, <2>2, <2>3
<1>3. CASE EnqueueMessage
  <2>1. /\ call' = call /\ ~call.active
        /\ \/ rows' = rows
           \/ clock \notin DOMAIN rows /\ rows' = Put(rows, clock, NewRow(clock))
    BY <1>3 DEF EnqueueMessage
  <2>2. \A id \in DOMAIN rows \cap DOMAIN rows' : rows'[id] = rows[id]
    BY <2>1 DEF Put
  <2> QED
    BY <1>2, <2>1, <2>2
<1>4. CASE UpdateVisibility
  BY <1>4, AttemptUpdate
<1>5. ASSUME NEW limit \in Limits, NEW timeout \in Timeouts, ReceiveMessages(limit, timeout)
      PROVE  ReadCountsCurrent' /\ rows' = rows
  BY <1>5, AttemptReceive DEF ReceiveMessages
<1>6. ASSUME NEW pair \in seen, DeleteMessage(pair[1], pair[2])
      PROVE  /\ call' = call /\ ~call.active
             /\ \A id \in DOMAIN rows \cap DOMAIN rows' : rows'[id] = rows[id]
  <2>1. call' = call /\ ~call.active /\ rows' = Delete(rows, pair[1])
    BY <1>6 DEF DeleteMessage
  <2> QED
    BY <2>1 DEF Delete
<1>7. CASE UNCHANGED rows /\ (call' = call \/ call' = Idle)
  BY <1>2, <1>7
<1> QED
  BY <1>1, <1>2, <1>3, <1>4, <1>5, <1>6, <1>7
  DEF Next, vars, Tick, UpsertStorageAccount, DeleteStorageAccount, CreateQueue,
      ReturnMessages, AbortReceive

(***************************************************************************)
(* A message that stays in the queue never loses an attempt and is never   *)
(* replaced by another one, however coarse the clock.  About: the primary  *)
(* key of queue_messages and the count written back by the UPDATE.         *)
(***************************************************************************)
THEOREM AttemptsOnlyGrow == Spec => AttemptsNeverReset
<1>1. Init => AttemptInv
  BY TypeInit DEF Init, Idle, AttemptInv, ReadCountsCurrent
<1>2. AttemptInv /\ [Next]_vars =>
        [\A id \in DOMAIN rows \cap DOMAIN rows' : rows[id].dequeues <= rows'[id].dequeues]_vars
  BY AttemptNext
<1>3. AttemptInv /\ [Next]_vars => AttemptInv'
  BY AttemptNext
<1> QED
  BY <1>1, <1>2, <1>3, PTL DEF Spec, AttemptsNeverReset

=============================================================================
