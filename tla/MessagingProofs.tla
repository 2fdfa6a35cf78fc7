--------------------------- MODULE MessagingProofs ---------------------------
(***************************************************************************)
(* Proofs about ServiceBus, for every clock and for any numbers of queues  *)
(* and subscriptions, and about EventHub: the numbering of a hub's events  *)
(* and what its consumer reads of them, for any number of events, resets,  *)
(* restores and crashes of the consumer, and pages of any size.  The two   *)
(* share nothing but this module.                                          *)
(***************************************************************************)
EXTENDS ServiceBus, EventHub, FiniteSetTheorems, SequenceTheorems, TLAPS

\* Readings of the clock and their order.  About: time.Now().
LEMMA StartIsReading == Start \in ClockReading
BY ClockAssumption DEF ClockReading, Start

(***************************************************************************)
(* The clock's next reading is a later one.  About: time.Now().            *)
(***************************************************************************)
LEMMA NextInstantLater ==
  ASSUME NEW t \in ClockReading, NextInstant(t).sec <= MaxSec
  PROVE  /\ NextInstant(t) \in ClockReading
         /\ Earlier(t, NextInstant(t))
BY ClockAssumption DEF ClockReading, NextInstant, Earlier

(***************************************************************************)
(* What is not later than a reading is not later than a later one.  About: *)
(* recorded ids and tokens against the readings that follow.               *)
(***************************************************************************)
LEMMA EarlierOrder ==
  ASSUME NEW a \in ClockReading, NEW b \in ClockReading, NEW c \in ClockReading
  PROVE  /\ ~Earlier(a, a)
         /\ ~Earlier(b, a) /\ ~Earlier(c, b) => ~Earlier(c, a)
         /\ ~Earlier(b, a) /\ Earlier(b, c) => a # c /\ ~Earlier(c, a)
         /\ Earlier(a, b) => ~Earlier(b, a)
BY ClockAssumption DEF ClockReading, Earlier

(***************************************************************************)
(* A reading and an instant some seconds after it can be written to a row. *)
(* About: nowValue.Add(visibilityTimeout).                                 *)
(***************************************************************************)
LEMMA AfterIsInstant ==
  ASSUME NEW t \in ClockReading, NEW seconds \in Nat
  PROVE  t \in Instant /\ After(t, seconds) \in Instant
BY ClockAssumption DEF ClockReading, Instant, After

\* About: the slice the receive methods build from their rows.
LEMMA SeqMonotone ==
  ASSUME NEW S, NEW T, S \subseteq T
  PROVE  Seq(S) \subseteq Seq(T)
OBVIOUS

LEMMA SeqElement ==
  ASSUME NEW S, NEW s \in Seq(S), NEW i \in DOMAIN s
  PROVE  s[i] \in S
OBVIOUS

(***************************************************************************)
(* A SELECT returns a sequence of rows that are there.  About: the queries *)
(* of the two receive methods.                                             *)
(***************************************************************************)
LEMMA SelectionOfRows ==
  ASSUME NEW table, NEW now, NEW limit \in Nat, NEW s \in Selections(table, now, limit)
  PROVE  /\ s \in Seq({[id |-> id, dequeues |-> table[id].dequeues] : id \in DOMAIN table})
         /\ \A i \in DOMAIN s : s[i].id \in DOMAIN table
<1> DEFINE Found == {[id |-> id, dequeues |-> table[id].dequeues] : id \in Due(table, now)}
           All   == {[id |-> id, dequeues |-> table[id].dequeues] : id \in DOMAIN table}
<1>1. PICK n \in 0 .. limit : s \in [1 .. n -> Found]
  BY DEF Selections
<1>2. Found \subseteq All
  BY DEF Due
<1>3. \A x \in All : x.id \in DOMAIN table
  OBVIOUS
<1> HIDE DEF Found, All
<1>4. s \in Seq(Found) /\ \A i \in DOMAIN s : s[i] \in Found
  BY <1>1
<1>5. s \in Seq(All) /\ \A i \in DOMAIN s : s[i].id \in DOMAIN table
  BY <1>2, <1>3, <1>4
<1> QED
  BY <1>5 DEF All

-----------------------------------------------------------------------------
(***************************************************************************)
(* Types.                                                                  *)
(***************************************************************************)
LEMMA TypeInit == Init => TypeOK
BY StartIsReading DEF Init, TypeOK, EmptyTable

\* The call in progress is of the kind its name says.  About: the two loops.
LEMMA CallKinds ==
  ASSUME TypeOK
  PROVE  /\ call.kind = "publish" => call \in PublishCall
         /\ call.kind = "receive" => call \in ReceiveCall
BY DEF TypeOK, Idle, PublishCall, ReceiveCall

(***************************************************************************)
(* A table with one row more or one row new stays a table.  About: the     *)
(* INSERTs and the UPDATE.                                                 *)
(***************************************************************************)
LEMMA PutType ==
  ASSUME NEW table, NEW id \in ClockReading, NEW row \in Row,
         \A i \in DOMAIN table : i \in ClockReading /\ table[i] \in Row
  PROVE  \A i \in DOMAIN Put(table, id, row) :
           i \in ClockReading /\ Put(table, id, row)[i] \in Row
BY DEF Put

\* About: one turn of either INSERT loop or of SendMessage.
LEMMA InsertType ==
  ASSUME TypeOK, NEW e \in Entity, NEW id \in ClockReading, InsertMessage(e, id)
  PROVE  /\ DOMAIN rows' = Entity
         /\ \A o \in Entity : \A i \in DOMAIN rows'[o] :
              i \in ClockReading /\ rows'[o][i] \in Row
         /\ issued' \subseteq Token
<1> DEFINE row == [NewRow(id) EXCEPT !.receipt = clock]
<1>1. row \in Row
  BY AfterIsInstant DEF NewRow, Row, TypeOK
<1>2. /\ rows' = [rows EXCEPT ![e] = Put(rows[e], id, row)]
      /\ issued' = issued \cup {<<e, id, clock>>}
  BY DEF InsertMessage
<1> HIDE DEF row
<1>3. \A i \in DOMAIN Put(rows[e], id, row) :
        i \in ClockReading /\ Put(rows[e], id, row)[i] \in Row
  BY <1>1, PutType DEF TypeOK
<1> QED
  BY <1>2, <1>3 DEF TypeOK, Token

\* About: the UPDATE of a received message.
LEMMA UpdateType ==
  ASSUME TypeOK, UpdateVisibility
  PROVE  TypeOK'
<1> DEFINE read  == call.read[call.next]
           until == After(call.now, call.timeout)
           table == rows[call.entity]
           row   == [receipt |-> clock, dequeues |-> read.dequeues + 1,
                     visibleAt |-> until, createdAt |-> table[read.id].createdAt]
           token == <<call.entity, read.id, clock>>
<1>1. call \in ReceiveCall /\ call.next \in DOMAIN call.read
  BY CallKinds DEF UpdateVisibility
<1>2. /\ read.id \in ClockReading /\ read.dequeues \in Nat /\ call.entity \in Entity
      /\ until \in Instant
  <2>1. call.read \in Seq([id : ClockReading, dequeues : Nat])
    BY <1>1 DEF ReceiveCall
  <2>2. read \in [id : ClockReading, dequeues : Nat]
    BY <1>1, <2>1, SeqElement
  <2> QED
    BY <1>1, <2>2, AfterIsInstant DEF ReceiveCall
<1>3. /\ rows' = [rows EXCEPT ![call.entity] = Relock(table, read, clock, until)]
      /\ issued' = issued \cup {token}
      /\ call' = [call EXCEPT !.next = call.next + 1, !.got = call.got \cup {token}]
      /\ minted' = clock
      /\ UNCHANGED <<clock, namespace, topic, created, seen, acks, publications>>
  BY DEF UpdateVisibility, Mint
<1>4. token \in Token
  BY <1>2 DEF TypeOK, Token
<1>5. \A i \in DOMAIN table : i \in ClockReading /\ table[i] \in Row
  BY <1>2 DEF TypeOK
<1>6. \A i \in DOMAIN Relock(table, read, clock, until) :
        i \in ClockReading /\ Relock(table, read, clock, until)[i] \in Row
  <2>1. CASE read.id \in DOMAIN table
    <3>1. row \in Row
      BY <1>2, <1>5, <2>1 DEF Row, TypeOK
    <3>2. Relock(table, read, clock, until) = Put(table, read.id, row)
      BY <2>1 DEF Relock
    <3> HIDE DEF row, read, until, table
    <3> QED
      BY <1>2, <1>5, <3>1, <3>2, PutType
  <2>2. CASE read.id \notin DOMAIN table
    BY <1>5, <2>2 DEF Relock
  <2> QED
    BY <2>1, <2>2
<1> HIDE DEF token, table, read, until
<1>7. call' \in ReceiveCall
  <2>1. call.next + 1 \in Nat \ {0} /\ call.got \cup {token} \in SUBSET Token
    BY <1>1, <1>4 DEF ReceiveCall
  <2> QED
    BY <1>1, <1>3, <2>1 DEF ReceiveCall
<1> QED
  BY <1>2, <1>3, <1>4, <1>6, <1>7 DEF TypeOK

LEMMA TypeNext == TypeOK /\ [Next]_vars => TypeOK'
<1> SUFFICES ASSUME TypeOK, [Next]_vars PROVE TypeOK'
  OBVIOUS
<1>1. CASE Tick
  BY <1>1, NextInstantLater DEF TypeOK, Tick, history
<1>2. ASSUME NEW q \in Queues, SendMessage(q)
      PROVE  TypeOK'
  <2>1. /\ InsertMessage(q, clock) /\ minted' = clock
        /\ seen' \in {seen, seen \cup {<<q, clock, clock>>}}
        /\ UNCHANGED <<clock, namespace, topic, created, call, acks, publications>>
        /\ q \in Entity /\ clock \in ClockReading
    BY <1>2 DEF SendMessage, Mint, Entity, TypeOK
  <2>2. seen' \subseteq Token
    BY <2>1 DEF TypeOK, Token
  <2> QED
    BY <2>1, <2>2, InsertType DEF TypeOK
<1>3. CASE PublishTopicMessage
  <2> DEFINE to == created \cap Subscriptions
             p  == [id |-> clock, to |-> to, ok |-> FALSE]
  <2>1. /\ call' = [kind |-> "publish", id |-> clock, left |-> to, got |-> {}]
        /\ publications' = publications \cup {p} /\ minted' = clock
        /\ UNCHANGED <<clock, namespace, topic, created, rows, seen, issued, acks>>
    BY <1>3 DEF PublishTopicMessage, Mint
  <2>2. call' \in PublishCall
    BY <2>1 DEF PublishCall, TypeOK
  <2>3. p \in Publication
    BY DEF Publication, TypeOK
  <2> HIDE DEF p, to
  <2> QED
    BY <2>1, <2>2, <2>3 DEF TypeOK
<1>4. CASE InsertCopy
  <2>1. PICK s \in call.left :
          /\ InsertMessage(s, call.id)
          /\ call' = [call EXCEPT !.left = call.left \ {s},
                        !.got = IF call.got = {} THEN {<<s, call.id, clock>>} ELSE call.got]
    BY <1>4 DEF InsertCopy
  <2>2. /\ call \in PublishCall /\ minted' = clock
        /\ UNCHANGED <<clock, namespace, topic, created, seen, acks, publications>>
    BY <1>4, CallKinds DEF InsertCopy
  <2>3. s \in Entity /\ call.id \in ClockReading
    BY <2>2 DEF PublishCall, Entity
  <2>4. call' \in PublishCall
    <3>1. <<s, call.id, clock>> \in Token
      BY <2>3 DEF Token, TypeOK
    <3> DEFINE token == <<s, call.id, clock>>
               got == IF call.got = {} THEN {token} ELSE call.got
    <3>2. got \in SUBSET Token /\ call.left \ {s} \in SUBSET Subscriptions
      BY <2>2, <3>1 DEF PublishCall
    <3>3. call' = [call EXCEPT !.left = call.left \ {s}, !.got = got]
      BY <2>1
    <3> HIDE DEF got
    <3> QED
      BY <2>2, <3>2, <3>3 DEF PublishCall
  <2> QED
    BY <2>1, <2>2, <2>3, <2>4, InsertType DEF TypeOK
<1>5. CASE ReturnPublish
  <2>1. call \in PublishCall
    BY <1>5, CallKinds DEF ReturnPublish
  <2>2. \A p \in publications : [p EXCEPT !.ok = TRUE] \in Publication
    BY DEF TypeOK, Publication
  <2>3. publications' \subseteq Publication
    BY <1>5, <2>2 DEF ReturnPublish, TypeOK
  <2>4. seen' \subseteq Token
    BY <1>5, <2>1 DEF ReturnPublish, TypeOK, PublishCall
  <2> QED
    BY <1>5, <2>3, <2>4 DEF ReturnPublish, TypeOK
<1>6. ASSUME NEW e \in Entity, NEW limit \in Limits, NEW timeout \in Timeouts,
             ReceiveMessages(e, limit, timeout)
      PROVE  TypeOK'
  <2>1. PICK read \in Selections(rows[e], clock, limit) :
          call' = [kind |-> "receive", entity |-> e, now |-> clock, timeout |-> timeout,
                   read |-> read, next |-> 1, got |-> {}]
    BY <1>6 DEF ReceiveMessages
  <2> DEFINE All == {[id |-> id, dequeues |-> rows[e][id].dequeues] : id \in DOMAIN rows[e]}
  <2>2. read \in Seq(All)
    BY <2>1, EntityAssumption, SelectionOfRows
  <2>3. All \subseteq [id : ClockReading, dequeues : Nat]
    BY DEF TypeOK, Row
  <2> HIDE DEF All
  <2>4. read \in Seq([id : ClockReading, dequeues : Nat])
    BY <2>2, <2>3, SeqMonotone
  <2>5. call' \in ReceiveCall
    BY <2>1, <2>4, EntityAssumption DEF ReceiveCall, TypeOK
  <2> QED
    BY <1>6, <2>5 DEF ReceiveMessages, TypeOK, history
<1>7. CASE UpdateVisibility
  BY <1>7, UpdateType
<1>8. CASE ReturnMessages
  <2>1. call \in ReceiveCall
    BY <1>8, CallKinds DEF ReturnMessages
  <2> QED
    BY <1>8, <2>1 DEF ReturnMessages, TypeOK, ReceiveCall
<1>9. ASSUME NEW t \in seen, DeleteMessage(t[1], t[2], t[3])
      PROVE  TypeOK'
  <2>1. t[1] \in Entity /\ <<t[1], t[2], t[3]>> \in Token
    BY DEF TypeOK, Token
  <2>2. /\ rows' = [rows EXCEPT ![t[1]] = Delete(rows[t[1]], t[2])]
        /\ acks' = acks \cup {<<t[1], t[2], t[3]>>}
        /\ UNCHANGED <<clock, minted, namespace, topic, created, call, seen, issued,
                       publications>>
    BY <1>9 DEF DeleteMessage
  <2>3. \A i \in DOMAIN Delete(rows[t[1]], t[2]) :
          i \in ClockReading /\ Delete(rows[t[1]], t[2])[i] \in Row
    BY <2>1 DEF Delete, TypeOK
  <2> QED
    BY <2>1, <2>2, <2>3 DEF TypeOK
<1>10. CASE UNCHANGED vars
  BY <1>10 DEF vars, TypeOK
<1>11. CASE CreateNamespace \/ CreateTopic \/ AbortCall
  BY <1>11 DEF CreateNamespace, CreateTopic, AbortCall, history, TypeOK
<1>12. ASSUME NEW q \in Queues, CreateQueue(q)
       PROVE  TypeOK'
  BY <1>12 DEF CreateQueue, history, TypeOK, Entity
<1>13. ASSUME NEW s \in Subscriptions, CreateSubscription(s)
       PROVE  TypeOK'
  BY <1>13 DEF CreateSubscription, history, TypeOK, Entity
<1> QED
  BY <1>1, <1>2, <1>3, <1>4, <1>5, <1>6, <1>7, <1>8, <1>9, <1>10, <1>11, <1>12, <1>13
  DEF Next

(***************************************************************************)
(* Every reachable state is well typed.  About: the rows of the two        *)
(* message tables and the loops over them.                                 *)
(***************************************************************************)
THEOREM BusTypeCorrect == Spec => []TypeOK
BY TypeInit, TypeNext, PTL DEF Spec

-----------------------------------------------------------------------------
(***************************************************************************)
(* The invariant behind FanOut and EachEntityLeases: recorded readings lie *)
(* in the past, publishes have ids of their own, every row was inserted    *)
(* under a token, the publish in progress has served the first of the      *)
(* subscriptions it found, and the rows a receive has read are still there.*)
(***************************************************************************)
Past(reading) == ~Earlier(minted, reading)

MintedInPast ==
  /\ ~Earlier(clock, minted)
  /\ \A t \in issued : Past(t[2]) /\ Past(t[3])
  /\ \A p \in publications : Past(p.id)

PublishesDiffer == \A p, q \in publications : p.id = q.id => p = q

HasToken(e, id) == \E t \in issued : t[1] = e /\ t[2] = id

RowsHaveTokens == \A e \in Entity : \A id \in DOMAIN rows[e] : HasToken(e, id)

ServedSoFar ==
  call.kind = "publish" =>
    \E p \in publications :
      /\ p.id = call.id
      /\ ~p.ok
      /\ call.left \subseteq p.to
      /\ Reached(p.id) = p.to \ call.left
      /\ \A s \in Reached(p.id), o \in call.left : s < o

ReadRowsStay ==
  call.kind = "receive" =>
    \A i \in DOMAIN call.read : call.read[i].id \in DOMAIN rows[call.entity]

BusInv ==
  /\ TypeOK
  /\ MintedInPast
  /\ PublishesDiffer
  /\ RowsHaveTokens
  /\ ServedSoFar
  /\ ReadRowsStay
  /\ FanOut

\* Who ever got a message, by its tokens.  About: the rows inserted so far.
LEMMA ReachedMember ==
  ASSUME NEW s, NEW id
  PROVE  /\ s \in Reached(id) <=> s \in Subscriptions /\ HasToken(s, id)
         /\ (s \in Reached(id) <=> s \in Subscriptions /\ HasToken(s, id))'
BY DEF Reached, HasToken

(***************************************************************************)
(* One token more reaches one entity more, if any.  About: an INSERT into, *)
(* or an UPDATE of, one message table.                                     *)
(***************************************************************************)
LEMMA ReachedGrows ==
  ASSUME NEW e, NEW id, issued' = issued \cup {<<e, id, clock>>}
  PROVE  /\ \A i : Reached(i)' = Reached(i) \cup
                     (IF i = id /\ e \in Subscriptions THEN {e} ELSE {})
         /\ \A o, i : HasToken(o, i)' <=> HasToken(o, i) \/ (o = e /\ i = id)
<1> DEFINE token == <<e, id, clock>>
<1>0. token[1] = e /\ token[2] = id /\ issued' = issued \cup {token}
  OBVIOUS
<1> HIDE DEF token
<1>1. \A o, i : HasToken(o, i)' <=> HasToken(o, i) \/ (o = e /\ i = id)
  BY <1>0 DEF HasToken
<1>2. ASSUME NEW i
      PROVE  Reached(i)' = Reached(i) \cup (IF i = id /\ e \in Subscriptions THEN {e} ELSE {})
  <2>1. \A s : s \in Reached(i)' <=> s \in Subscriptions /\ HasToken(s, i)'
    BY ReachedMember
  <2>2. \A s : s \in Reached(i) <=> s \in Subscriptions /\ HasToken(s, i)
    BY ReachedMember
  <2> QED
    BY <1>1, <2>1, <2>2
<1> QED
  BY <1>1, <1>2

\* About: steps that write no token.
LEMMA ReachedStays ==
  ASSUME UNCHANGED issued
  PROVE  /\ \A i : Reached(i)' = Reached(i)
         /\ \A o, i : HasToken(o, i)' <=> HasToken(o, i)
BY DEF Reached, HasToken

(***************************************************************************)
(* What lay in the past still does after a reading.  About: the clock.     *)
(***************************************************************************)
LEMMA PastStays ==
  ASSUME BusInv, minted' = minted \/ minted' = clock
  PROVE  \A r \in ClockReading : Past(r) => Past(r)'
<1>1. clock \in ClockReading /\ minted \in ClockReading /\ ~Earlier(clock, minted)
  BY DEF BusInv, MintedInPast, TypeOK
<1> QED
  BY <1>1, EarlierOrder DEF Past

LEMMA MintedPast ==
  ASSUME BusInv, UNCHANGED clock, minted' = clock,
         NEW e, NEW id \in ClockReading, Past(id)',
         issued' = issued \cup {<<e, id, clock>>}
  PROVE  ~Earlier(clock, minted)' /\ \A t \in issued' : Past(t[2])' /\ Past(t[3])'
<1>1. clock \in ClockReading /\ Past(clock)' /\ ~Earlier(clock', minted')
  BY EarlierOrder DEF BusInv, TypeOK, Past
<1>2. \A t \in issued : Past(t[2])' /\ Past(t[3])'
  BY PastStays DEF BusInv, MintedInPast, TypeOK, Token
<1> QED
  BY <1>1, <1>2

\* A fresh reading is no message's id yet.  About: now().UnixNano() in an id.
LEMMA FreshId ==
  ASSUME BusInv, Mint
  PROVE  /\ \A e : ~HasToken(e, clock)
         /\ \A p \in publications : p.id # clock
<1>1. \A r \in ClockReading : Past(r) => r # clock
  BY EarlierOrder DEF BusInv, MintedInPast, TypeOK, Mint, Past
<1> QED
  BY <1>1 DEF BusInv, MintedInPast, TypeOK, Token, Publication, HasToken

(***************************************************************************)
(* Steps that insert, update and delete nothing.                           *)
(***************************************************************************)
LEMMA BusQuiet ==
  ASSUME BusInv, TypeOK', UNCHANGED <<minted, rows, issued, publications>>,
         call' = call \/ call' = Idle,
         clock' = clock \/ Earlier(clock, clock')
  PROVE  BusInv'
<1>1. MintedInPast'
  <2>1. ~Earlier(clock', minted')
    BY EarlierOrder DEF BusInv, MintedInPast, TypeOK
  <2> QED
    BY <2>1 DEF BusInv, MintedInPast, Past
<1>2. PublishesDiffer' /\ RowsHaveTokens' /\ FanOut'
  BY ReachedStays DEF BusInv, PublishesDiffer, RowsHaveTokens, FanOut
<1>3. ServedSoFar' /\ ReadRowsStay'
  <2>1. CASE call' = call
    BY <2>1, ReachedStays DEF BusInv, ServedSoFar, ReadRowsStay
  <2>2. CASE call' = Idle
    BY <2>2 DEF Idle, ServedSoFar, ReadRowsStay
  <2> QED
    BY <2>1, <2>2
<1> QED
  BY <1>1, <1>2, <1>3 DEF BusInv

(***************************************************************************)
(* About: SendServiceBusMessage, whose queue is no subscription.           *)
(***************************************************************************)
LEMMA BusSend ==
  ASSUME BusInv, TypeOK', NEW q \in Queues, SendMessage(q)
  PROVE  BusInv'
<1>1. /\ rows' = [rows EXCEPT ![q] = Put(rows[q], clock, [NewRow(clock) EXCEPT !.receipt = clock])]
      /\ issued' = issued \cup {<<q, clock, clock>>}
      /\ minted' = clock /\ call = Idle /\ q \in Entity
      /\ UNCHANGED <<clock, call, publications>>
  BY DEF SendMessage, Mint, InsertMessage, Entity
<1>2. clock \in ClockReading /\ Past(clock)'
  BY <1>1, EarlierOrder DEF BusInv, TypeOK, Past
<1>3. MintedInPast'
  <2>1. \A p \in publications : Past(p.id)'
    BY <1>1, PastStays DEF BusInv, MintedInPast, TypeOK, Publication
  <2> QED
    BY <1>1, <1>2, <2>1, MintedPast DEF MintedInPast
<1>4. \A i : Reached(i)' = Reached(i)
  <2>1. q \notin Subscriptions
    BY EntityAssumption
  <2>2. \A i : Reached(i)' = Reached(i) \cup (IF i = clock /\ q \in Subscriptions THEN {q} ELSE {})
    BY <1>1, ReachedGrows
  <2> QED
    BY <2>1, <2>2
<1>5. PublishesDiffer' /\ FanOut'
  BY <1>1, <1>4 DEF BusInv, PublishesDiffer, FanOut
<1>6. RowsHaveTokens'
  <2> SUFFICES ASSUME NEW e \in Entity, NEW id \in DOMAIN rows'[e] PROVE HasToken(e, id)'
    BY DEF RowsHaveTokens
  <2>1. (e = q /\ id = clock) \/ id \in DOMAIN rows[e]
    BY <1>1 DEF Put, BusInv, TypeOK
  <2> QED
    BY <1>1, <2>1, ReachedGrows DEF BusInv, RowsHaveTokens
<1>7. ServedSoFar' /\ ReadRowsStay'
  BY <1>1 DEF Idle, ServedSoFar, ReadRowsStay
<1> QED
  BY <1>3, <1>5, <1>6, <1>7 DEF BusInv

(***************************************************************************)
(* About: the SELECT of PublishServiceBusTopicMessage.                     *)
(***************************************************************************)
LEMMA BusPublish ==
  ASSUME BusInv, TypeOK', PublishTopicMessage
  PROVE  BusInv'
<1> DEFINE to == created \cap Subscriptions
           p0 == [id |-> clock, to |-> to, ok |-> FALSE]
<1>1. /\ call' = [kind |-> "publish", id |-> clock, left |-> to, got |-> {}]
      /\ publications' = publications \cup {p0}
      /\ minted' = clock /\ Mint
      /\ UNCHANGED <<clock, rows, issued>>
  BY DEF PublishTopicMessage, Mint
<1>2. p0.id = clock /\ p0.to = to /\ p0.ok = FALSE
  OBVIOUS
<1> HIDE DEF p0, to
<1>3. MintedInPast'
  <2>1. clock \in ClockReading /\ Past(clock)' /\ ~Earlier(clock', minted')
    BY <1>1, EarlierOrder DEF BusInv, TypeOK, Past
  <2>2. \A t \in issued : Past(t[2])' /\ Past(t[3])'
    BY <1>1, PastStays DEF BusInv, MintedInPast, TypeOK, Token
  <2>3. \A p \in publications : Past(p.id)'
    BY <1>1, PastStays DEF BusInv, MintedInPast, TypeOK, Publication
  <2> QED
    BY <1>1, <1>2, <2>1, <2>2, <2>3 DEF MintedInPast
<1>4. PublishesDiffer'
  BY <1>1, <1>2, FreshId DEF BusInv, PublishesDiffer
<1>5. RowsHaveTokens'
  BY <1>1, ReachedStays DEF BusInv, RowsHaveTokens
<1>6. Reached(clock) = {} /\ \A i : Reached(i)' = Reached(i)
  BY <1>1, FreshId, ReachedMember, ReachedStays
<1>7. FanOut'
  <2> SUFFICES ASSUME NEW p \in publications'
               PROVE  /\ Reached(p.id)' \subseteq p.to
                      /\ p.ok => Reached(p.id)' = p.to
                      /\ \A s \in Reached(p.id)', o \in p.to : o < s => o \in Reached(p.id)'
    BY DEF FanOut
  <2> QED
    BY <1>1, <1>2, <1>6 DEF BusInv, FanOut
<1>8. ServedSoFar'
  <2>1. PICK p, t : p = p0 /\ t = to
    OBVIOUS
  <2>2. /\ p \in publications' /\ p.id = clock /\ ~p.ok /\ p.to = t
        /\ call'.id = clock /\ call'.left = t
    BY <1>1, <1>2, <2>1
  <2>3. \A i : i = clock => Reached(i)' = {}
    BY <1>6
  <2>4. Reached(p.id)' = {}
    BY <2>2, <2>3
  <2>5. Reached(p.id)' = p.to \ call'.left
    BY <2>2, <2>4
  <2> QED
    BY <2>2, <2>4, <2>5 DEF ServedSoFar
<1>9. ReadRowsStay'
  BY <1>1 DEF ReadRowsStay
<1> QED
  BY <1>3, <1>4, <1>5, <1>7, <1>8, <1>9 DEF BusInv

(***************************************************************************)
(* About: one turn of the loop of PublishServiceBusTopicMessage, which     *)
(* serves the first of the subscriptions left.                             *)
(***************************************************************************)
LEMMA BusCopy ==
  ASSUME BusInv, TypeOK', InsertCopy
  PROVE  BusInv'
<1>1. PICK s \in call.left :
        /\ \A o \in call.left : s <= o
        /\ InsertMessage(s, call.id)
        /\ call' = [call EXCEPT !.left = call.left \ {s},
                      !.got = IF call.got = {} THEN {<<s, call.id, clock>>} ELSE call.got]
  BY DEF InsertCopy
<1>2. /\ call \in PublishCall /\ minted' = clock /\ call.kind = "publish"
      /\ UNCHANGED <<clock, publications>>
  BY CallKinds DEF InsertCopy, BusInv
<1>3. /\ s \in Subscriptions /\ s \in Entity /\ call.id \in ClockReading
      /\ call.left \subseteq Subscriptions
  BY <1>2 DEF PublishCall, Entity
<1>4. call'.kind = "publish" /\ call'.id = call.id /\ call'.left = call.left \ {s}
  BY <1>1, <1>2 DEF PublishCall
<1>5. /\ rows' = [rows EXCEPT ![s] =
                   Put(rows[s], call.id, [NewRow(call.id) EXCEPT !.receipt = clock])]
      /\ issued' = issued \cup {<<s, call.id, clock>>}
  BY <1>1 DEF InsertMessage
<1>6. PICK p \in publications :
        /\ p.id = call.id /\ ~p.ok /\ call.left \subseteq p.to
        /\ Reached(p.id) = p.to \ call.left
        /\ \A r \in Reached(p.id), o \in call.left : r < o
  BY <1>2 DEF BusInv, ServedSoFar
<1>7. /\ \A i : i # call.id => Reached(i)' = Reached(i)
      /\ Reached(p.id)' = Reached(p.id) \cup {s}
      /\ \A o, i : HasToken(o, i) => HasToken(o, i)'
      /\ HasToken(s, p.id)'
  <2>1. /\ \A i : Reached(i)' = Reached(i) \cup
                    (IF i = call.id /\ s \in Subscriptions THEN {s} ELSE {})
        /\ \A o, i : HasToken(o, i)' <=> HasToken(o, i) \/ (o = s /\ i = call.id)
    BY <1>5, ReachedGrows
  <2> QED
    BY <1>3, <1>6, <2>1
<1>8. MintedInPast'
  <2>1. p.id \in ClockReading /\ Past(p.id)'
    BY <1>2, <1>3, <1>6, PastStays DEF BusInv, MintedInPast
  <2>2. \A q \in publications : Past(q.id)'
    BY <1>2, PastStays DEF BusInv, MintedInPast, TypeOK, Publication
  <2> QED
    BY <1>2, <1>5, <1>6, <2>1, <2>2, MintedPast DEF MintedInPast
<1>9. PublishesDiffer'
  BY <1>2 DEF BusInv, PublishesDiffer
<1>10. RowsHaveTokens'
  <2> SUFFICES ASSUME NEW e \in Entity, NEW id \in DOMAIN rows'[e] PROVE HasToken(e, id)'
    BY DEF RowsHaveTokens
  <2>1. (e = s /\ id = call.id) \/ id \in DOMAIN rows[e]
    BY <1>5 DEF Put, BusInv, TypeOK
  <2> QED
    BY <1>6, <1>7, <2>1 DEF BusInv, RowsHaveTokens
<1>11. Reached(p.id)' = p.to \ call'.left
  BY <1>4, <1>6, <1>7
<1>12. \A r \in Reached(p.id)', o \in call'.left : r < o
  <2> SUFFICES ASSUME NEW r \in Reached(p.id)', NEW o \in call.left, o # s PROVE r < o
    BY <1>4
  <2>1. s <= o /\ s \in Nat /\ o \in Nat
    BY <1>1, <1>3, EntityAssumption
  <2> QED
    BY <1>6, <1>7, <2>1
<1>13. ServedSoFar'
  BY <1>2, <1>4, <1>6, <1>11, <1>12 DEF ServedSoFar
<1>14. FanOut'
  <2> SUFFICES ASSUME NEW q \in publications
               PROVE  /\ Reached(q.id)' \subseteq q.to
                      /\ q.ok => Reached(q.id)' = q.to
                      /\ \A r \in Reached(q.id)', o \in q.to : o < r => o \in Reached(q.id)'
    BY <1>2 DEF FanOut
  <2>1. CASE q.id # call.id
    BY <1>7, <2>1 DEF BusInv, FanOut
  <2>2. CASE q.id = call.id
    <3>1. q = p
      BY <1>6, <2>2 DEF BusInv, PublishesDiffer
    <3>2. ASSUME NEW r \in Reached(p.id)', NEW o \in p.to, o < r
          PROVE  o \in Reached(p.id)'
      <4>1. r \in Nat /\ o \in Nat
        <5>1. r \in Subscriptions /\ p.to \subseteq Subscriptions
          BY ReachedMember DEF BusInv, TypeOK, Publication
        <5> QED
          BY <5>1, EntityAssumption
      <4>2. o \in call'.left => r < o
        BY <1>12
      <4> QED
        BY <1>11, <3>2, <4>1, <4>2
    <3> QED
      BY <1>6, <1>11, <3>1, <3>2
  <2> QED
    BY <2>1, <2>2
<1>15. ReadRowsStay'
  BY <1>4 DEF ReadRowsStay
<1> QED
  BY <1>8, <1>9, <1>10, <1>13, <1>14, <1>15 DEF BusInv

(***************************************************************************)
(* About: the success a publish is answered with.                          *)
(***************************************************************************)
LEMMA BusPublished ==
  ASSUME BusInv, TypeOK', ReturnPublish
  PROVE  BusInv'
<1> DEFINE Ok(p) == IF p.id = call.id THEN [p EXCEPT !.ok = TRUE] ELSE p
<1>1. /\ publications' = {Ok(p) : p \in publications}
      /\ call' = Idle /\ call.kind = "publish" /\ call.left = {}
      /\ UNCHANGED <<clock, minted, rows, issued>>
  BY DEF ReturnPublish
<1>2. \A p \in publications : Ok(p).id = p.id /\ Ok(p).to = p.to
  BY DEF BusInv, TypeOK, Publication
<1>3. \A p \in publications : p.id # call.id => Ok(p) = p
  OBVIOUS
<1> HIDE DEF Ok
<1>4. MintedInPast'
  BY <1>1, <1>2 DEF BusInv, MintedInPast, Past
<1>5. PublishesDiffer'
  BY <1>1, <1>2 DEF BusInv, PublishesDiffer
<1>6. RowsHaveTokens' /\ ServedSoFar' /\ ReadRowsStay'
  BY <1>1, ReachedStays DEF BusInv, RowsHaveTokens, Idle, ServedSoFar, ReadRowsStay
<1>7. \A i : Reached(i)' = Reached(i)
  BY <1>1, ReachedStays
<1>8. ASSUME NEW p \in publications
      PROVE  /\ Reached(p.id) \subseteq p.to
             /\ Ok(p).ok => Reached(p.id) = p.to
             /\ \A s \in Reached(p.id), o \in p.to : o < s => o \in Reached(p.id)
  <2>1. p.id = call.id => Reached(p.id) = p.to
    BY <1>1 DEF BusInv, ServedSoFar, PublishesDiffer
  <2> QED
    BY <1>3, <2>1 DEF BusInv, FanOut
<1>9. FanOut'
  <2> SUFFICES ASSUME NEW q \in publications'
               PROVE  /\ Reached(q.id) \subseteq q.to
                      /\ q.ok => Reached(q.id) = q.to
                      /\ \A s \in Reached(q.id), o \in q.to : o < s => o \in Reached(q.id)
    BY <1>7 DEF FanOut
  <2>1. PICK p \in publications : q = Ok(p)
    BY <1>1
  <2> QED
    BY <1>2, <1>8, <2>1
<1> QED
  BY <1>4, <1>5, <1>6, <1>9 DEF BusInv

(***************************************************************************)
(* About: the SELECT of the receive methods, which finds rows that are     *)
(* there.                                                                  *)
(***************************************************************************)
LEMMA BusReceive ==
  ASSUME BusInv, TypeOK', NEW e \in Entity, NEW limit \in Limits, NEW timeout \in Timeouts,
         ReceiveMessages(e, limit, timeout)
  PROVE  BusInv'
<1>1. PICK read \in Selections(rows[e], clock, limit) :
        call' = [kind |-> "receive", entity |-> e, now |-> clock, timeout |-> timeout,
                 read |-> read, next |-> 1, got |-> {}]
  BY DEF ReceiveMessages
<1>2. UNCHANGED <<clock, minted, rows, issued, publications>>
  BY DEF ReceiveMessages, history
<1>3. \A i \in DOMAIN read : read[i].id \in DOMAIN rows[e]
  BY EntityAssumption, SelectionOfRows
<1>4. ReadRowsStay' /\ ServedSoFar'
  BY <1>1, <1>2, <1>3 DEF ReadRowsStay, ServedSoFar
<1>5. PublishesDiffer' /\ RowsHaveTokens' /\ FanOut' /\ MintedInPast'
  BY <1>2, ReachedStays
  DEF BusInv, PublishesDiffer, RowsHaveTokens, FanOut, MintedInPast, Past
<1> QED
  BY <1>4, <1>5 DEF BusInv

\* About: the UPDATE of a received message, whose WHERE names one message of
\* one entity.
LEMMA BusUpdate ==
  ASSUME BusInv, TypeOK', UpdateVisibility
  PROVE  BusInv'
<1> DEFINE e     == call.entity
           read  == call.read[call.next]
           until == After(call.now, call.timeout)
           token == <<e, read.id, clock>>
<1>1. /\ call \in ReceiveCall /\ call.kind = "receive" /\ call.next \in DOMAIN call.read
      /\ rows' = [rows EXCEPT ![e] = Relock(rows[e], read, clock, until)]
      /\ issued' = issued \cup {token}
      /\ call' = [call EXCEPT !.next = call.next + 1, !.got = call.got \cup {token}]
      /\ minted' = clock /\ UNCHANGED <<clock, publications>>
  BY CallKinds DEF UpdateVisibility, Mint, BusInv
<1>2. e \in Entity /\ DOMAIN rows = Entity
  BY <1>1 DEF ReceiveCall, BusInv, TypeOK
<1>3. read.id \in DOMAIN rows[e]
  BY <1>1 DEF BusInv, ReadRowsStay
<1>4. read.id \in ClockReading /\ HasToken(e, read.id)
  BY <1>2, <1>3 DEF BusInv, TypeOK, RowsHaveTokens
<1>5. DOMAIN Relock(rows[e], read, clock, until) = DOMAIN rows[e]
  BY <1>3 DEF Relock, Put
<1>6. \A o \in Entity : DOMAIN rows'[o] = DOMAIN rows[o]
  BY <1>1, <1>2, <1>5
<1>7. call'.kind = "receive" /\ call'.read = call.read /\ call'.entity = call.entity
  BY <1>1 DEF ReceiveCall
<1>8. /\ \A i : Reached(i)' = Reached(i)
      /\ \A o, i : HasToken(o, i)' <=> HasToken(o, i)
  <2>1. /\ \A i : Reached(i)' = Reached(i) \cup
                    (IF i = read.id /\ e \in Subscriptions THEN {e} ELSE {})
        /\ \A o, i : HasToken(o, i)' <=> HasToken(o, i) \/ (o = e /\ i = read.id)
    BY <1>1, ReachedGrows
  <2>2. e \in Subscriptions => e \in Reached(read.id)
    BY <1>4, ReachedMember
  <2> HIDE DEF e, read
  <2> QED
    BY <1>4, <2>1, <2>2
<1>9. MintedInPast'
  <2>1. Past(read.id)
    BY <1>4 DEF BusInv, MintedInPast, HasToken
  <2>2. PICK r \in ClockReading : r = read.id
    BY <1>4
  <2>4. Past(r)'
    BY <1>1, <2>1, <2>2, PastStays
  <2>3. \A q \in publications : Past(q.id)'
    BY <1>1, PastStays DEF BusInv, MintedInPast, TypeOK, Publication
  <2> QED
    BY <1>1, <2>2, <2>3, <2>4, MintedPast DEF MintedInPast
<1>10. PublishesDiffer' /\ FanOut'
  BY <1>1, <1>8 DEF BusInv, PublishesDiffer, FanOut
<1>11. RowsHaveTokens'
  BY <1>6, <1>8 DEF BusInv, RowsHaveTokens
<1>12. ServedSoFar' /\ ReadRowsStay'
  <2>1. ServedSoFar'
    BY <1>7 DEF ServedSoFar
  <2> QED
    BY <1>1, <1>2, <1>6, <1>7, <2>1 DEF BusInv, ReadRowsStay
<1> QED
  BY <1>9, <1>10, <1>11, <1>12 DEF BusInv

\* About: the DELETE by entity, id and lock token.
LEMMA BusDelete ==
  ASSUME BusInv, TypeOK', NEW e \in Entity, NEW id, NEW token, DeleteMessage(e, id, token)
  PROVE  BusInv'
<1>1. /\ rows' = [rows EXCEPT ![e] = Delete(rows[e], id)]
      /\ UNCHANGED <<clock, minted, call, issued, publications>> /\ call = Idle
  BY DEF DeleteMessage
<1>2. \A o \in Entity : DOMAIN rows'[o] \subseteq DOMAIN rows[o]
  BY <1>1 DEF Delete, BusInv, TypeOK
<1>3. RowsHaveTokens'
  BY <1>1, <1>2, ReachedStays DEF BusInv, RowsHaveTokens
<1>4. ServedSoFar' /\ ReadRowsStay'
  BY <1>1 DEF Idle, ServedSoFar, ReadRowsStay
<1>5. MintedInPast' /\ PublishesDiffer' /\ FanOut'
  BY <1>1, ReachedStays DEF BusInv, MintedInPast, Past, PublishesDiffer, FanOut
<1> QED
  BY <1>3, <1>4, <1>5 DEF BusInv

LEMMA BusInit == Init => BusInv
<1> SUFFICES ASSUME Init PROVE BusInv
  OBVIOUS
<1>1. MintedInPast
  BY StartIsReading, EarlierOrder DEF Init, MintedInPast, Past
<1>2. PublishesDiffer /\ RowsHaveTokens /\ ServedSoFar /\ ReadRowsStay /\ FanOut
  BY DEF Init, PublishesDiffer, RowsHaveTokens, EmptyTable, ServedSoFar, ReadRowsStay,
         FanOut, Idle
<1> QED
  BY <1>1, <1>2, TypeInit DEF BusInv

LEMMA BusNext == BusInv /\ [Next]_vars => BusInv'
<1> SUFFICES ASSUME BusInv, [Next]_vars PROVE BusInv'
  OBVIOUS
<1>1. TypeOK'
  BY TypeNext DEF BusInv
<1>2. CASE Tick
  BY <1>1, <1>2, BusQuiet, NextInstantLater DEF Tick, history, BusInv, TypeOK
<1>3. ASSUME NEW q \in Queues, CreateQueue(q) PROVE BusInv'
  BY <1>1, <1>3, BusQuiet DEF CreateQueue, history
<1>4. ASSUME NEW q \in Queues, SendMessage(q) PROVE BusInv'
  BY <1>1, <1>4, BusSend
<1>5. ASSUME NEW s \in Subscriptions, CreateSubscription(s) PROVE BusInv'
  BY <1>1, <1>5, BusQuiet DEF CreateSubscription, history
<1>6. CASE PublishTopicMessage
  BY <1>1, <1>6, BusPublish
<1>7. CASE InsertCopy
  BY <1>1, <1>7, BusCopy
<1>8. CASE ReturnPublish
  BY <1>1, <1>8, BusPublished
<1>9. ASSUME NEW e \in Entity, NEW limit \in Limits, NEW timeout \in Timeouts,
             ReceiveMessages(e, limit, timeout)
      PROVE  BusInv'
  BY <1>1, <1>9, BusReceive
<1>10. CASE UpdateVisibility
  BY <1>1, <1>10, BusUpdate
<1>11. CASE ReturnMessages
  BY <1>1, <1>11, BusQuiet DEF ReturnMessages
<1>12. CASE CreateNamespace \/ CreateTopic \/ AbortCall
  BY <1>1, <1>12, BusQuiet DEF CreateNamespace, CreateTopic, AbortCall, history
<1>13. ASSUME NEW t \in seen, DeleteMessage(t[1], t[2], t[3]) PROVE BusInv'
  <2>1. t[1] \in Entity
    BY DEF BusInv, TypeOK, Token
  <2> QED
    BY <1>1, <1>13, <2>1, BusDelete
<1>14. CASE UNCHANGED vars
  BY <1>1, <1>14, BusQuiet DEF vars
<1> QED
  BY <1>2, <1>3, <1>4, <1>5, <1>6, <1>7, <1>8, <1>9, <1>10, <1>11, <1>12, <1>13, <1>14
  DEF Next

(***************************************************************************)
(* A publish that succeeded has reached exactly the subscriptions it       *)
(* found, one cut short the first of them, and no message reaches a later  *)
(* subscription.  About: PublishServiceBusTopicMessage, cut anywhere.      *)
(***************************************************************************)
THEOREM MessagesFanOut == Spec => []FanOut
<1>1. BusInv => FanOut
  BY DEF BusInv
<1> QED
  BY <1>1, BusInit, BusNext, PTL DEF Spec

-----------------------------------------------------------------------------
(***************************************************************************)
(* Each entity implements ExclusiveLease.                                  *)
(***************************************************************************)
Current(e) == [id \in DOMAIN rows[e] |-> rows[e][id].receipt]
Tickets(tokens, e) == {<<t[2], t[3]>> : t \in {u \in tokens : u[1] = e}}
Issued(e)  == Tickets(issued, e)
Acked(e)   == Tickets(acks, e)

(***************************************************************************)
(* What a token adds to the tickets of an entity.  About: the lock token   *)
(* an INSERT or UPDATE writes.                                             *)
(***************************************************************************)
LEMMA TicketsGrow ==
  ASSUME NEW e, NEW t, NEW tokens
  PROVE  Tickets(tokens \cup {t}, e) =
           Tickets(tokens, e) \cup (IF t[1] = e THEN {<<t[2], t[3]>>} ELSE {})
BY DEF Tickets

LEMMA TicketOfToken ==
  ASSUME TypeOK, NEW e, NEW id, NEW token, <<id, token>> \in Issued(e)
  PROVE  HasToken(e, id) /\ \E t \in issued : t[3] = token
<1>1. PICK t \in issued : t[1] = e /\ <<t[2], t[3]>> = <<id, token>>
  BY DEF Issued, Tickets
<1>2. t[2] = id /\ t[3] = token
  BY <1>1
<1> QED
  BY <1>1, <1>2 DEF HasToken

LEMMA LeaseInit == Init => \A e \in Entity : Lease(e)!Init
<1> SUFFICES ASSUME Init, NEW e \in Entity PROVE Lease(e)!Init
  OBVIOUS
<1>1. issued = {} /\ acks = {} /\ rows[e] = EmptyTable
  BY DEF Init
<1> QED
  BY <1>1 DEF Lease!Init, EmptyTable

(***************************************************************************)
(* The entities a step does not name keep their leases.  About: the WHERE  *)
(* clauses, which name one entity.                                         *)
(***************************************************************************)
LEMMA OthersKeepLeases ==
  ASSUME NEW e \in Entity, UNCHANGED <<Current(e), Issued(e), Acked(e)>>
  PROVE  UNCHANGED Lease(e)!vars
BY DEF Lease!vars, Current, Issued, Acked, Tickets

\* About: an INSERT, whose id and token were never issued for the entity.
LEMMA InsertLeases ==
  ASSUME BusInv, NEW e \in Entity, NEW o \in Entity, NEW id \in ClockReading,
         InsertMessage(o, id), UNCHANGED acks, ~HasToken(o, id)
  PROVE  Lease(e)!Next \/ UNCHANGED Lease(e)!vars
<1> DEFINE row == [NewRow(id) EXCEPT !.receipt = clock]
<1>1. /\ rows' = [rows EXCEPT ![o] = Put(rows[o], id, row)]
      /\ issued' = issued \cup {<<o, id, clock>>}
  BY DEF InsertMessage
<1>2. row.receipt = clock
  BY DEF NewRow
<1> HIDE DEF row
<1>3. Issued(e)' = Issued(e) \cup (IF o = e THEN {<<id, clock>>} ELSE {})
  <2> DEFINE t == <<o, id, clock>>
  <2>1. t[1] = o /\ t[2] = id /\ t[3] = clock /\ issued' = issued \cup {t}
    BY <1>1
  <2> HIDE DEF t
  <2> QED
    BY <2>1, TicketsGrow DEF Issued
<1>4. Acked(e)' = Acked(e)
  BY DEF Acked
<1>5. CASE o # e
  <2>1. rows'[e] = rows[e]
    BY <1>1, <1>5 DEF BusInv, TypeOK
  <2> QED
    BY <1>3, <1>4, <1>5, <2>1, OthersKeepLeases DEF Current
<1>6. CASE o = e
  <2>1. rows'[e] = Put(rows[e], id, row)
    BY <1>1, <1>6 DEF BusInv, TypeOK
  <2>2. Current(e)' = [i \in DOMAIN Current(e) \cup {id} |->
                         IF i = id THEN clock ELSE Current(e)[i]]
    BY <1>2, <2>1 DEF Current, Put
  <2>3. \A p \in Issued(e) : p[1] # id
    BY <1>6, TicketOfToken DEF BusInv, Issued, Tickets, HasToken
  <2>4. <<id, clock>> \notin Issued(e)
    BY <2>3
  <2>5. clock \in ClockReading
    BY DEF BusInv, TypeOK
  <2>6. PICK token \in ClockReading : token = clock
    BY <2>5
  <2>7. Lease(e)!Enqueue(id, token)
    BY <1>3, <1>4, <1>6, <2>2, <2>3, <2>4, <2>6
    DEF Lease!Enqueue, Lease!Issue, Current, Issued, Acked, Tickets
  <2> QED
    BY <2>7 DEF Lease!Next
<1> QED
  BY <1>5, <1>6

\* About: an UPDATE, whose token was never issued.
LEMMA UpdateLeases ==
  ASSUME BusInv, NEW e \in Entity, UpdateVisibility
  PROVE  Lease(e)!Next \/ UNCHANGED Lease(e)!vars
<1> DEFINE o     == call.entity
           read  == call.read[call.next]
           until == After(call.now, call.timeout)
<1>1. /\ call \in ReceiveCall /\ call.kind = "receive" /\ call.next \in DOMAIN call.read
      /\ rows' = [rows EXCEPT ![o] = Relock(rows[o], read, clock, until)]
      /\ issued' = issued \cup {<<o, read.id, clock>>}
      /\ UNCHANGED acks /\ Mint
  BY CallKinds DEF UpdateVisibility, BusInv
<1>2. o \in Entity /\ read.id \in DOMAIN rows[o]
  BY <1>1 DEF ReceiveCall, BusInv, ReadRowsStay
<1>3. Issued(e)' = Issued(e) \cup (IF o = e THEN {<<read.id, clock>>} ELSE {})
  <2> DEFINE t == <<o, read.id, clock>>
  <2>1. t[1] = o /\ t[2] = read.id /\ t[3] = clock /\ issued' = issued \cup {t}
    BY <1>1
  <2> HIDE DEF t
  <2> QED
    BY <2>1, TicketsGrow DEF Issued
<1>4. Acked(e)' = Acked(e)
  BY <1>1 DEF Acked
<1>5. CASE o # e
  <2>1. rows'[e] = rows[e]
    BY <1>1, <1>5 DEF BusInv, TypeOK
  <2> QED
    BY <1>3, <1>4, <1>5, <2>1, OthersKeepLeases DEF Current
<1>6. CASE o = e
  <2>1. rows'[e] = Relock(rows[e], read, clock, until) /\ read.id \in DOMAIN rows[e]
    BY <1>1, <1>2, <1>6 DEF BusInv, TypeOK
  <2>2. PICK id, token : id = read.id /\ token = clock
    OBVIOUS
  <2>3. id \in ClockReading /\ token \in ClockReading
    BY <2>1, <2>2 DEF BusInv, TypeOK
  <2>4. Current(e)' = [i \in DOMAIN Current(e) \cup {id} |->
                         IF i = id THEN token ELSE Current(e)[i]]
    <3> DEFINE row == [receipt |-> clock, dequeues |-> read.dequeues + 1,
                       visibleAt |-> until, createdAt |-> rows[e][read.id].createdAt]
    <3>1. rows'[e] = Put(rows[e], id, row)
      BY <2>1, <2>2 DEF Relock
    <3>2. row.receipt = token
      BY <2>2
    <3> HIDE DEF row
    <3> QED
      BY <3>1, <3>2 DEF Current, Put
  <2>5. <<id, token>> \notin Issued(e)
    <3>1. \A r \in ClockReading : Past(r) => r # clock
      BY <1>1, EarlierOrder DEF BusInv, TypeOK, Mint, Past
    <3>2. \A t \in issued : t[3] # clock
      BY <3>1 DEF BusInv, MintedInPast, TypeOK, Token
    <3> QED
      BY <2>2, <3>2, TicketOfToken DEF BusInv
  <2>6. Issued(e)' = Issued(e) \cup {<<id, token>>} /\ id \in DOMAIN Current(e)
    BY <1>3, <1>6, <2>1, <2>2 DEF Current
  <2> HIDE DEF o, read, until
  <2>7. Lease(e)!HandOut(id, token)
    BY <1>4, <2>4, <2>5, <2>6
    DEF Lease!HandOut, Lease!Issue, Current, Issued, Acked, Tickets
  <2> QED
    BY <2>3, <2>7 DEF Lease!Next
<1> QED
  BY <1>5, <1>6

\* About: a DELETE, which compares the message's latest token.
LEMMA DeleteLeases ==
  ASSUME BusInv, NEW e \in Entity, NEW o \in Entity, NEW id, NEW token,
         DeleteMessage(o, id, token)
  PROVE  Lease(e)!Next \/ UNCHANGED Lease(e)!vars
<1>1. /\ rows' = [rows EXCEPT ![o] = Delete(rows[o], id)]
      /\ acks' = acks \cup {<<o, id, token>>}
      /\ id \in DOMAIN rows[o] /\ rows[o][id].receipt = token
      /\ UNCHANGED issued
  BY DEF DeleteMessage
<1>2. Acked(e)' = Acked(e) \cup (IF o = e THEN {<<id, token>>} ELSE {})
  <2> DEFINE t == <<o, id, token>>
  <2>1. t[1] = o /\ t[2] = id /\ t[3] = token /\ acks' = acks \cup {t}
    BY <1>1
  <2> HIDE DEF t
  <2> QED
    BY <2>1, TicketsGrow DEF Acked
<1>3. Issued(e)' = Issued(e)
  BY <1>1 DEF Issued
<1>4. CASE o # e
  <2>1. rows'[e] = rows[e]
    BY <1>1, <1>4 DEF BusInv, TypeOK
  <2> QED
    BY <1>2, <1>3, <1>4, <2>1, OthersKeepLeases DEF Current
<1>5. CASE o = e
  <2>1. rows'[e] = Delete(rows[e], id)
    BY <1>1, <1>5 DEF BusInv, TypeOK
  <2>2. Current(e)' = [i \in DOMAIN Current(e) \ {id} |-> Current(e)[i]]
    BY <2>1 DEF Current, Delete
  <2>3. id \in DOMAIN Current(e) /\ Current(e)[id] = token /\ id \in ClockReading
    BY <1>1, <1>5 DEF Current, BusInv, TypeOK
  <2>4. Lease(e)!Complete(id)
    BY <1>2, <1>3, <1>5, <2>2, <2>3 DEF Lease!Complete, Current, Issued, Acked, Tickets
  <2> QED
    BY <2>3, <2>4 DEF Lease!Next
<1> QED
  BY <1>4, <1>5

LEMMA LeasesNext ==
  BusInv /\ [Next]_vars => \A e \in Entity : Lease(e)!Next \/ UNCHANGED Lease(e)!vars
<1> SUFFICES ASSUME BusInv, [Next]_vars, NEW e \in Entity
             PROVE  Lease(e)!Next \/ UNCHANGED Lease(e)!vars
  OBVIOUS
<1>1. ASSUME NEW q \in Queues, SendMessage(q)
      PROVE  Lease(e)!Next \/ UNCHANGED Lease(e)!vars
  <2>1. q \in Entity /\ Mint /\ InsertMessage(q, clock) /\ UNCHANGED acks
    BY <1>1 DEF SendMessage, Entity
  <2>2. PICK id \in ClockReading : id = clock
    BY DEF BusInv, TypeOK
  <2> QED
    BY <2>1, <2>2, FreshId, InsertLeases
<1>2. CASE InsertCopy
  <2>1. PICK s \in call.left : InsertMessage(s, call.id)
    BY <1>2 DEF InsertCopy
  <2>2. call \in PublishCall /\ call.kind = "publish" /\ UNCHANGED acks
    BY <1>2, CallKinds DEF InsertCopy, BusInv
  <2>3. s \in Entity /\ s \in Subscriptions
    BY <2>2 DEF PublishCall, Entity
  <2>4. PICK id \in ClockReading : id = call.id
    BY <2>2 DEF PublishCall
  <2>5. ~HasToken(s, id)
    BY <2>2, <2>3, <2>4, ReachedMember DEF BusInv, ServedSoFar
  <2> QED
    BY <2>1, <2>2, <2>3, <2>4, <2>5, InsertLeases
<1>3. CASE UpdateVisibility
  BY <1>3, UpdateLeases
<1>4. ASSUME NEW t \in seen, DeleteMessage(t[1], t[2], t[3])
      PROVE  Lease(e)!Next \/ UNCHANGED Lease(e)!vars
  <2>1. t[1] \in Entity
    BY DEF BusInv, TypeOK, Token
  <2> QED
    BY <1>4, <2>1, DeleteLeases
<1>5. CASE UNCHANGED <<rows, issued, acks>>
  BY <1>5, OthersKeepLeases DEF Current, Issued, Acked
<1> QED
  BY <1>1, <1>2, <1>3, <1>4, <1>5
  DEF Next, vars, history, Tick, CreateNamespace, CreateTopic, CreateQueue, CreateSubscription,
      PublishTopicMessage, ReturnPublish, ReceiveMessages, ReturnMessages, AbortCall

(***************************************************************************)
(* Every queue and every subscription implements ExclusiveLease on its     *)
(* own.  About: the ids and lock tokens made of UnixNano, and the WHERE    *)
(* clauses that name one entity.                                           *)
(***************************************************************************)
THEOREM EntitiesLeaseAlone == Spec => EachEntityLeases
<1>1. BusInv /\ [Next]_vars =>
        [\A e \in Entity : Lease(e)!Next \/ UNCHANGED Lease(e)!vars]_vars
  BY LeasesNext
<1> QED
  BY <1>1, LeaseInit, BusInit, BusNext, PTL DEF Spec, EachEntityLeases

-----------------------------------------------------------------------------
(***************************************************************************)
(* Dense is not inductive: a restore brings the rows of the snapshot back, *)
(* and the next name is above theirs only if no row has one that was not   *)
(* given out yet.                                                          *)
(***************************************************************************)
Numbered(es, names) ==
  /\ IsFiniteSet(es) /\ es \subseteq [seq : Nat, name : Nat]
  /\ {e.seq : e \in es} = 1 .. Cardinality(es)
  /\ \A e \in es : e.name \in 1 .. names /\ e.seq <= e.name
  /\ \A e, f \in es : e.seq <= f.seq <=> e.name <= f.name

NumberedInv ==
  /\ published \in 0 .. MaxPublish
  /\ Numbered(events, published)
  /\ \A file \in saved : Numbered(file.events, published)

-----------------------------------------------------------------------------
LEMMA NothingNumbered ==
  ASSUME NEW n \in Nat
  PROVE  Numbered({}, n)
<1>1. Cardinality({}) = 0 /\ IsFiniteSet({})
  BY FS_EmptySet
<1> QED
  BY <1>1 DEF Numbered

LEMMA MoreNames ==
  ASSUME NEW n \in Nat, NEW es, Numbered(es, n)
  PROVE  Numbered(es, n + 1)
BY DEF Numbered

(* MAX + 1 is the number of the rows and one more. *)
LEMMA NextIsOneMore ==
  ASSUME NEW n \in Nat, Numbered(events, n)
  PROVE  NextSequence = Cardinality(events) + 1
<1> DEFINE c == Cardinality(events)
<1>1. c \in Nat
  BY FS_CardinalityType DEF Numbered
<1>2. CASE events = {}
  BY <1>2, FS_EmptySet DEF NextSequence
<1>3. CASE events # {}
  <2>1. c # 0
    BY <1>3, FS_EmptySet DEF Numbered
  <2>2. {e.seq : e \in events} = 1 .. c
    BY DEF Numbered
  <2>3. Max(1 .. c) = c
    <3>1. /\ c \in 1 .. c /\ \A y \in 1 .. c : c >= y
          /\ \A x \in 1 .. c : (\A y \in 1 .. c : x >= y) => x = c
      BY <1>1, <2>1
    <3> QED
      BY <3>1 DEF Max
  <2> QED
    BY <1>3, <2>2, <2>3 DEF NextSequence
<1> QED
  BY <1>2, <1>3

LEMMA PublishKeepsNumbers ==
  ASSUME NumberedInv, PublishEventHubEvent
  PROVE  NumberedInv'
<1> DEFINE c == Cardinality(events)
           e == [seq |-> c + 1, name |-> published + 1]
<1>1. events' = events \cup {e} /\ published' = published + 1 /\ saved' = saved
  <2>1. published \in Nat
    BY DEF NumberedInv
  <2> QED
    BY <2>1, NextIsOneMore DEF PublishEventHubEvent, NumberedInv
<1>2. /\ published \in Nat /\ published + 1 \in 0 .. MaxPublish
      /\ IsFiniteSet(events) /\ c \in Nat
      /\ {f.seq : f \in events} = 1 .. c
  BY FS_CardinalityType, BoundAssumption DEF NumberedInv, Numbered, PublishEventHubEvent
<1>3. \A f \in events : f.seq \in 1 .. c /\ f.name \in 1 .. published
  BY <1>2 DEF NumberedInv, Numbered
<1>4. IsFiniteSet(events \cup {e}) /\ Cardinality(events \cup {e}) = c + 1
  <2>1. e \notin events
    BY <1>2, <1>3
  <2> QED
    BY <1>2, <2>1, FS_AddElement
<1>5. {f.seq : f \in events \cup {e}} = 1 .. (c + 1)
  <2>1. {f.seq : f \in events \cup {e}} = {f.seq : f \in events} \cup {e.seq}
    OBVIOUS
  <2>2. (1 .. c) \cup {c + 1} = 1 .. (c + 1)
    BY <1>2
  <2>3. e.seq = c + 1
    OBVIOUS
  <2> HIDE DEF e, c
  <2> QED
    BY <1>2, <2>1, <2>2, <2>3
<1>6. Numbered(events', published')
  <2>1. \A f \in events' : f.name \in 1 .. published' /\ f.seq <= f.name
    <3>1. c <= published
      <4>1. c = 0 \/ \E f \in events : f.seq = c
        BY <1>2
      <4> QED
        BY <1>2, <1>3, <4>1 DEF NumberedInv, Numbered
    <3>2. e.name = published + 1 /\ e.seq = c + 1
      OBVIOUS
    <3> HIDE DEF e
    <3> QED
      BY <1>1, <1>2, <1>3, <3>1, <3>2 DEF NumberedInv, Numbered
  <2>2. \A f, g \in events' : f.seq <= g.seq <=> f.name <= g.name
    <3>1. \A f, g \in events : f.seq <= g.seq <=> f.name <= g.name
      BY DEF NumberedInv, Numbered
    <3>2. \A f \in events : f.seq < e.seq /\ f.name < e.name
      BY <1>2, <1>3
    <3> QED
      BY <1>1, <1>2, <1>3, <3>1, <3>2
  <2>3. events' \subseteq [seq : Nat, name : Nat]
    BY <1>1, <1>2 DEF NumberedInv, Numbered
  <2> QED
    BY <1>1, <1>4, <1>5, <2>1, <2>2, <2>3 DEF Numbered
<1>7. \A file \in saved : Numbered(file.events, published + 1)
  BY <1>2, MoreNames DEF NumberedInv
<1> QED
  BY <1>1, <1>2, <1>6, <1>7, Zenon DEF NumberedInv

LEMMA NumberedStep == NumberedInv /\ [HubNext]_hubVars => NumberedInv'
<1> SUFFICES ASSUME NumberedInv, [HubNext]_hubVars
             PROVE  NumberedInv'
  OBVIOUS
<1>1. CASE PublishEventHubEvent
  BY <1>1, PublishKeepsNumbers
<1>2. CASE Snapshot
  BY <1>2 DEF Snapshot, NumberedInv
<1>3. CASE Reset
  BY <1>3, NothingNumbered DEF Reset, NumberedInv
<1>4. CASE Restore
  BY <1>4 DEF Restore, NumberedInv
<1>5. CASE UNCHANGED <<events, saved, published>>
  BY <1>5 DEF NumberedInv
<1> QED
  BY <1>1, <1>2, <1>3, <1>4, <1>5
  DEF HubNext, hubVars, CreateEventHub, ListEventHubEvents, Handle, Checkpoint,
      CrashConsumer, Rejoin

(* The n events of a hub are numbered 1 to n in the order in which they    *)
(* were published, after any resets, snapshots and restores (store.go      *)
(* PublishEventHubEvent, MAX + 1).                                         *)
THEOREM NumbersAreDense == HubSpec => []Dense
<1>1. HubInit => NumberedInv
  BY NothingNumbered, BoundAssumption DEF HubInit, NumberedInv
<1>2. NumberedInv => Dense
  BY DEF NumberedInv, Numbered, Dense
<1> QED
  BY <1>1, <1>2, NumberedStep, PTL DEF HubSpec

-----------------------------------------------------------------------------
(***************************************************************************)
(* Pages.  Numbers being dense, a page is a run of numbers without a gap.  *)
(***************************************************************************)
LEMMA HowMany ==
  ASSUME NEW es, NEW n \in Nat, Numbered(es, n),
         NEW a \in Nat \ {0}, NEW k \in a .. Cardinality(es) + 1
  PROVE  Cardinality({e \in es : a <= e.seq /\ e.seq < k}) = k - a
<1> DEFINE c == Cardinality(es)
           T == {e \in es : a <= e.seq /\ e.seq < k}
           U == a .. k - 1
           g == [e \in T |-> e.seq]
<1>1. c \in Nat /\ k \in Nat
  BY FS_CardinalityType DEF Numbered
<1>2. IsFiniteSet(T)
  BY FS_Subset DEF Numbered
<1>3. \A e \in T : e.seq \in U
  BY <1>1 DEF Numbered
<1>4. \A e, f \in T : e.seq = f.seq => e = f
  <2> SUFFICES ASSUME NEW e \in T, NEW f \in T, e.seq = f.seq
               PROVE  e = f
    OBVIOUS
  <2>1. e \in [seq : Nat, name : Nat] /\ f \in [seq : Nat, name : Nat]
    BY DEF Numbered
  <2>2. e.name <= f.name /\ f.name <= e.name
    BY <2>1 DEF Numbered
  <2> QED
    BY <2>1, <2>2
<1>5. ASSUME NEW u \in U
      PROVE  \E e \in T : e.seq = u
  <2>1. u \in 1 .. c
    BY <1>1
  <2>2. u \in {e.seq : e \in es}
    BY <2>1 DEF Numbered
  <2> QED
    BY <1>1, <2>2
<1> HIDE DEF T, U
<1>6. g \in Bijection(T, U)
  BY <1>3, <1>4, <1>5 DEF Bijection, Injection, Surjection, IsInjective
<1>7. Cardinality(U) = Cardinality(T)
  BY <1>2, <1>6, FS_Bijection DEF ExistsBijection
<1>8. Cardinality(U) = k - a
  BY <1>1, FS_Interval DEF U
<1> QED
  BY <1>7, <1>8 DEF T

\* The first number of a page from n on.
First(n) == IF n = 0 THEN 1 ELSE n

LEMMA PageIsRun ==
  ASSUME NumberedInv, NEW from \in Nat, NEW max \in Nat \ {0}, Page(from, max) # <<>>
  PROVE  /\ Page(from, max) \in Seq(events)
         /\ \A i \in 1 .. Len(Page(from, max)) :
              Page(from, max)[i] \in events /\ Page(from, max)[i].seq = First(from) + i - 1
<1> DEFINE c == Cardinality(events)
           b == First(from)
           S == {e \in events : e.seq >= from}
           O == Ordered(S)
           T(k) == {f \in S : f.seq < k}
<1>1. c \in Nat /\ published \in Nat /\ Numbered(events, published) /\ b \in Nat \ {0}
  BY FS_CardinalityType, BoundAssumption DEF NumberedInv, Numbered, First
<1>2. \A e \in events : e.seq \in 1 .. c
  BY <1>1 DEF Numbered
<1>3. \A k : T(k) = {f \in events : b <= f.seq /\ f.seq < k}
  BY <1>1, <1>2 DEF First
<1> HIDE DEF b, c, T
<1>4. \A k \in b .. c + 1 : Cardinality(T(k)) = k - b
  <2>1. \A k \in b .. c + 1 : Cardinality({f \in events : b <= f.seq /\ f.seq < k}) = k - b
    BY <1>1, HowMany DEF c
  <2> QED
    BY <1>3, <2>1
<1>5. CASE b > c
  <2>1. S = {}
    BY <1>1, <1>2, <1>5 DEF First, b
  <2>2. Cardinality(S) = 0
    BY <2>1, FS_EmptySet
  <2>3. Len(O) = 0
    BY <2>2 DEF Ordered
  <2> HIDE DEF O
  <2>4. Page(from, max) = <<>>
    BY <2>3, SubSeqEmpty DEF Page, UpTo, O
  <2> QED
    BY <2>4
<1>6. CASE b <= c
  <2>1. Cardinality(S) = c + 1 - b
    <3>1. S = T(c + 1)
      BY <1>1, <1>2 DEF First, b, T
    <3>2. c + 1 \in b .. c + 1
      BY <1>1, <1>6
    <3>3. Cardinality(T(c + 1)) = c + 1 - b
      BY <1>1, <1>4, <3>2
    <3> HIDE DEF S
    <3> QED
      BY <3>1, <3>3
  <2>2. ASSUME NEW e \in S
        PROVE  Cardinality({f \in S : f.seq < e.seq}) = e.seq - b
    <3>1. e.seq \in b .. c + 1
      BY <1>1, <1>2 DEF First, b
    <3> QED
      BY <1>4, <3>1 DEF T
  <2>3. ASSUME NEW i \in 1 .. c + 1 - b
        PROVE  O[i] \in S /\ O[i].seq = b + i - 1
    <3>1. PICK e \in S : e.seq = b + i - 1
      <4>1. b + i - 1 \in 1 .. c /\ b + i - 1 >= from
        BY <1>1, <1>6 DEF First, b
      <4>2. b + i - 1 \in {e.seq : e \in events}
        BY <1>1, <4>1 DEF Numbered, c
      <4> QED
        BY <4>1, <4>2
    <3>2. Cardinality({f \in S : f.seq < e.seq}) = i - 1
      BY <1>1, <2>2, <3>1
    <3>3. O[i] = CHOOSE d \in S : Cardinality({f \in S : f.seq < d.seq}) = i - 1
      BY <2>1 DEF Ordered
    <3>4. O[i] \in S /\ Cardinality({f \in S : f.seq < O[i].seq}) = i - 1
      BY <3>2, <3>3
    <3>5. O[i].seq - b = i - 1
      BY <2>2, <3>4
    <3>6. O[i].seq \in Nat
      BY <1>2, <3>4
    <3> QED
      BY <1>1, <3>4, <3>5, <3>6
  <2>4. Len(O) = c + 1 - b
    BY <1>1, <1>6, <2>1 DEF Ordered
  <2> DEFINE m == IF Len(O) < max THEN Len(O) ELSE max
             p == SubSeq(O, 1, m)
  <2>5. m \in 1 .. c + 1 - b /\ m \in Int /\ 1 \in Int
    BY <1>1, <1>6, <2>4
  <2>6. \A i \in 1 .. m : O[i] \in events /\ O[i].seq = b + i - 1
    <3>1. \A i \in 1 .. m : i \in 1 .. c + 1 - b
      BY <1>1, <2>5
    <3> QED
      BY <2>3, <3>1
  <2>7. p = Page(from, max)
    BY DEF Page, UpTo
  <2> HIDE DEF m, O
  <2>8. p \in Seq(events) /\ Len(p) = m /\ \A i \in 1 .. m : p[i] = O[i]
    BY <2>5, <2>6, SubSeqProperties
  <2> HIDE DEF p
  <2>9. \A i \in 1 .. Len(p) : p[i] \in events /\ p[i].seq = b + i - 1
    BY <2>6, <2>8
  <2> QED
    BY <2>7, <2>8, <2>9 DEF b
<1> QED
  BY <1>1, <1>5, <1>6

-----------------------------------------------------------------------------
(***************************************************************************)
(* The consumer.  What NoneSkipped says of the checkpoint has to hold of   *)
(* the last number handled and of the first one of the page, too; and all  *)
(* three lie within the stream, so that an event published later is behind *)
(* them.                                                                   *)
(***************************************************************************)
Below(n) == \A e \in events : e.seq < n => e \in consumer.handled

ConsumerTyped ==
  /\ DOMAIN consumer = {"from", "page", "last", "epoch", "handled"}
  /\ consumer.from \in Nat /\ consumer.last \in Nat
  /\ consumer.page \in Seq(Event) /\ consumer.handled \subseteq Event
  /\ consumer.epoch \in Nat /\ consumer.epoch <= epoch
  /\ epoch \in 0 .. MaxEpoch

CurrentPage(page) ==
  page # <<>> =>
    /\ \A i \in 1 .. Len(page) : page[i] \in events /\ page[i].seq = page[1].seq + i - 1
    /\ Below(page[1].seq)

Joined ==
  consumer.epoch = epoch =>
    /\ consumer.handled \subseteq events
    /\ \A e \in events, f \in consumer.handled : e.seq < f.seq => e \in consumer.handled
    /\ Below(consumer.from) /\ consumer.from <= Cardinality(events) + 1
    /\ Below(consumer.last + 1) /\ consumer.last <= Cardinality(events)
    /\ CurrentPage(consumer.page)

ReadInv == NumberedInv /\ ConsumerTyped /\ Joined

LEMMA Numbers ==
  ASSUME NumberedInv
  PROVE  /\ Cardinality(events) \in Nat
         /\ \A e \in events : e.seq \in 1 .. Cardinality(events)
         /\ \A e, f \in events : e.seq = f.seq => e = f
<1>1. Cardinality(events) \in Nat /\ published \in Nat
  BY FS_CardinalityType, BoundAssumption DEF NumberedInv, Numbered
<1>2. \A e \in events : e.seq \in 1 .. Cardinality(events)
  BY DEF NumberedInv, Numbered
<1>3. ASSUME NEW e \in events, NEW f \in events, e.seq = f.seq
      PROVE  e = f
  <2>1. e \in [seq : Nat, name : Nat] /\ f \in [seq : Nat, name : Nat]
    BY DEF NumberedInv, Numbered
  <2>2. e.name <= f.name /\ f.name <= e.name
    BY <1>3, <2>1 DEF NumberedInv, Numbered
  <2> QED
    BY <1>3, <2>1, <2>2
<1> QED
  BY <1>1, <1>2, <1>3

LEMMA EventsTyped ==
  ASSUME NumberedInv
  PROVE  events \subseteq Event /\ \A file \in saved : file.events \subseteq Event
<1>1. ASSUME NEW es, Numbered(es, published), NEW e \in es
      PROVE  e \in Event
  <2>1. e.seq \in {f.seq : f \in es}
    OBVIOUS
  <2>2. /\ e \in [seq : Nat, name : Nat] /\ e.seq >= 1
        /\ e.name \in 1 .. published /\ e.seq <= e.name
    BY <1>1, <2>1 DEF Numbered
  <2>3. published \in 0 .. MaxPublish /\ MaxPublish \in Nat
    BY BoundAssumption DEF NumberedInv
  <2> QED
    BY <2>2, <2>3 DEF Event
<1> QED
  BY <1>1 DEF NumberedInv

\* A longer stream changes nothing for the consumer.
LEMMA PublishReadInv ==
  ASSUME ReadInv, PublishEventHubEvent
  PROVE  ReadInv'
<1> DEFINE c == Cardinality(events)
           e == [seq |-> c + 1, name |-> published + 1]
<1>0. NumberedInv'
  BY PublishKeepsNumbers DEF ReadInv
<1>1. /\ events' = events \cup {e} /\ UNCHANGED <<consumer, epoch>>
      /\ c \in Nat /\ published \in Nat
  <2>1. published \in Nat /\ Numbered(events, published)
    BY BoundAssumption DEF ReadInv, NumberedInv
  <2> QED
    BY <2>1, NextIsOneMore, FS_CardinalityType DEF PublishEventHubEvent, Numbered
<1>2. e.seq = c + 1 /\ e \notin events
  BY <1>1, Numbers DEF ReadInv
<1> HIDE DEF e
<1>3. Cardinality(events') = c + 1
  BY <1>1, <1>2, FS_AddElement DEF ReadInv, NumberedInv, Numbered
<1>4. ConsumerTyped'
  BY <1>1 DEF ReadInv, ConsumerTyped
<1>5. ASSUME consumer.epoch = epoch
      PROVE  Joined'
  <2>1. ASSUME NEW n \in 0 .. c + 1, Below(n)
        PROVE  Below(n)'
    BY <1>1, <1>2, <2>1 DEF Below
  <2>2. \A f \in consumer.handled : f.seq \in 1 .. c
    BY <1>5, Numbers DEF ReadInv, Joined
  <2>3. Below(consumer.from)' /\ Below(consumer.last + 1)'
    BY <1>1, <1>5, <2>1 DEF ReadInv, Joined, ConsumerTyped
  <2>4. CurrentPage(consumer.page)'
    <3> SUFFICES ASSUME consumer.page # <<>>
                 PROVE  /\ \A i \in 1 .. Len(consumer.page) :
                             /\ consumer.page[i] \in events'
                             /\ consumer.page[i].seq = consumer.page[1].seq + i - 1
                        /\ Below(consumer.page[1].seq)'
      BY <1>1 DEF CurrentPage
    <3>1. 1 \in 1 .. Len(consumer.page)
      BY DEF ReadInv, ConsumerTyped
    <3>2. /\ \A i \in 1 .. Len(consumer.page) :
               /\ consumer.page[i] \in events
               /\ consumer.page[i].seq = consumer.page[1].seq + i - 1
          /\ Below(consumer.page[1].seq)
      BY <1>5 DEF ReadInv, Joined, CurrentPage
    <3>3. consumer.page[1].seq \in 1 .. c
      BY <3>1, <3>2, Numbers DEF ReadInv
    <3>4. Below(consumer.page[1].seq)'
      BY <1>1, <1>2, <3>2, <3>3 DEF Below
    <3> QED
      BY <1>1, <3>2, <3>4
  <2> QED
    BY <1>1, <1>2, <1>3, <1>5, <2>2, <2>3, <2>4 DEF ReadInv, Joined, ConsumerTyped
<1>6. consumer.epoch # epoch => Joined'
  BY <1>1 DEF Joined
<1> QED
  BY <1>0, <1>4, <1>5, <1>6 DEF ReadInv

\* After a reset or a restore the consumer has missed it.
LEMMA EpochReadInv ==
  ASSUME ReadInv, Reset \/ Restore
  PROVE  ReadInv'
<1>1. NumberedInv'
  BY NumberedStep DEF ReadInv, HubNext
<1>2. consumer' = consumer /\ epoch < MaxEpoch /\ epoch' = epoch + 1
  BY DEF Reset, Restore
<1>3. ConsumerTyped'
  BY <1>2, BoundAssumption DEF ReadInv, ConsumerTyped
<1>4. consumer'.epoch # epoch'
  BY <1>2 DEF ReadInv, ConsumerTyped
<1> QED
  BY <1>1, <1>3, <1>4 DEF ReadInv, Joined

LEMMA ListReadInv ==
  ASSUME ReadInv, NEW max \in PageSizes, ListEventHubEvents(max)
  PROVE  ReadInv'
<1> DEFINE p == Page(consumer.from, max)
           n == consumer.from
<1>1. /\ consumer.page = <<>> /\ consumer.last = 0 /\ p # <<>>
      /\ consumer' = [consumer EXCEPT !.page = p]
      /\ UNCHANGED <<events, saved, published, epoch>>
  BY DEF ListEventHubEvents
<1>2. /\ p \in Seq(events)
      /\ \A i \in 1 .. Len(p) : p[i] \in events /\ p[i].seq = First(n) + i - 1
  BY <1>1, PageIsRun, BoundAssumption DEF ReadInv, ConsumerTyped
<1> HIDE DEF p
<1>3. /\ DOMAIN consumer' = DOMAIN consumer /\ consumer'.page = p /\ consumer'.from = n
      /\ consumer'.last = 0 /\ consumer'.epoch = consumer.epoch
      /\ consumer'.handled = consumer.handled
  BY <1>1 DEF ReadInv, ConsumerTyped
<1>4. NumberedInv'
  BY <1>1 DEF ReadInv, NumberedInv
<1>5. p \in Seq(Event)
  BY <1>2, EventsTyped DEF ReadInv
<1>6. ConsumerTyped'
  BY <1>1, <1>3, <1>5 DEF ReadInv, ConsumerTyped
<1>7. ASSUME consumer.epoch = epoch
      PROVE  Joined'
  <2>1. 1 \in 1 .. Len(p) /\ n \in Nat
    BY <1>1, <1>2 DEF ReadInv, ConsumerTyped
  <2>2. p[1].seq = First(n)
    BY <1>2, <2>1 DEF First
  <2>3. Below(First(n))
    BY <1>7, <2>1, Numbers DEF ReadInv, Joined, Below, First
  <2>4. \A m : Below(m) => Below(m)'
    BY <1>1, <1>3 DEF Below
  <2>5. CurrentPage(consumer.page)'
    BY <1>1, <1>2, <1>3, <2>2, <2>3, <2>4 DEF CurrentPage
  <2>6. Below(consumer.from)' /\ Below(consumer.last + 1)'
    BY <1>1, <1>3, <1>7 DEF ReadInv, Joined, Below
  <2> QED
    BY <1>1, <1>3, <1>7, <2>5, <2>6 DEF ReadInv, Joined
<1>8. consumer.epoch # epoch => Joined'
  BY <1>1, <1>3 DEF Joined
<1> QED
  BY <1>4, <1>6, <1>7, <1>8 DEF ReadInv

LEMMA HandleReadInv ==
  ASSUME ReadInv, Handle
  PROVE  ReadInv'
<1> DEFINE p == consumer.page
           h == Head(p)
           t == Tail(p)
<1>1. /\ p # <<>> /\ UNCHANGED <<events, saved, published, epoch>>
      /\ consumer' = [consumer EXCEPT !.page = t, !.last = h.seq, !.handled = @ \cup {h}]
  BY DEF Handle
<1>2. /\ p \in Seq(Event) /\ h = p[1] /\ 1 \in 1 .. Len(p)
      /\ h \in Event /\ t \in Seq(Event) /\ Len(t) = Len(p) - 1
      /\ \A i \in 1 .. Len(t) : t[i] = p[i + 1]
  BY <1>1, HeadTailProperties DEF ReadInv, ConsumerTyped
<1> HIDE DEF h, t
<1>3. /\ DOMAIN consumer' = DOMAIN consumer /\ consumer'.page = t
      /\ consumer'.from = consumer.from /\ consumer'.last = h.seq
      /\ consumer'.epoch = consumer.epoch /\ consumer'.handled = consumer.handled \cup {h}
  BY <1>1 DEF ReadInv, ConsumerTyped
<1>4. NumberedInv'
  BY <1>1 DEF ReadInv, NumberedInv
<1>5. ConsumerTyped'
  <2>1. h.seq \in Nat
    BY <1>2 DEF Event
  <2> QED
    BY <1>1, <1>2, <1>3, <2>1 DEF ReadInv, ConsumerTyped
<1>6. ASSUME consumer.epoch = epoch
      PROVE  Joined'
  <2>1. /\ \A i \in 1 .. Len(p) : p[i] \in events /\ p[i].seq = h.seq + i - 1
        /\ h \in events /\ h.seq \in 1 .. Cardinality(events) /\ Below(h.seq)
    BY <1>1, <1>2, <1>6, Numbers DEF ReadInv, Joined, CurrentPage
  <2>2. \A e \in events : e.seq < h.seq + 1 => e \in consumer.handled \cup {h}
    BY <2>1, Numbers DEF Below, ReadInv
  <2>3. \A i \in 1 .. Len(t) : t[i] \in events /\ t[i].seq = h.seq + i
    <3>1. ASSUME NEW i \in 1 .. Len(t)
          PROVE  i + 1 \in 1 .. Len(p) /\ t[i] = p[i + 1]
      BY <1>2
    <3> QED
      BY <2>1, <3>1
  <2>4. CurrentPage(consumer.page)'
    <3> SUFFICES ASSUME t # <<>>
                 PROVE  /\ \A i \in 1 .. Len(t) : t[i] \in events /\ t[i].seq = t[1].seq + i - 1
                        /\ \A e \in events : e.seq < t[1].seq => e \in consumer.handled \cup {h}
      BY <1>1, <1>3 DEF CurrentPage, Below
    <3>1. 1 \in 1 .. Len(t)
      BY <1>2
    <3>2. t[1].seq = h.seq + 1
      BY <2>3, <3>1
    <3> QED
      BY <2>1, <2>2, <2>3, <3>2
  <2>5. consumer'.handled \subseteq events'
    BY <1>1, <1>3, <1>6, <2>1 DEF ReadInv, Joined
  <2>6. ASSUME NEW e \in events, NEW f \in consumer.handled \cup {h}, e.seq < f.seq
        PROVE  e \in consumer.handled \cup {h}
    BY <1>6, <2>1, <2>6 DEF ReadInv, Joined, Below
  <2>7. Below(consumer.from)' /\ Below(consumer.last + 1)'
    BY <1>1, <1>3, <1>6, <2>2 DEF ReadInv, Joined, Below
  <2>8. consumer'.from <= Cardinality(events) + 1 /\ consumer'.last <= Cardinality(events)
    BY <1>3, <1>6, <2>1, Numbers DEF ReadInv, Joined
  <2> QED
    BY <1>1, <1>3, <2>4, <2>5, <2>6, <2>7, <2>8 DEF Joined
<1>7. consumer.epoch # epoch => Joined'
  BY <1>1, <1>3 DEF Joined
<1> QED
  BY <1>4, <1>5, <1>6, <1>7 DEF ReadInv

\* The consumer's other steps.
LEMMA ConsumerReadInv ==
  ASSUME ReadInv, Checkpoint \/ CrashConsumer \/ Rejoin
  PROVE  ReadInv'
<1>1. UNCHANGED <<events, saved, published, epoch>>
  BY DEF Checkpoint, CrashConsumer, Rejoin
<1>2. NumberedInv'
  BY <1>1 DEF ReadInv, NumberedInv
<1>3. ASSUME DOMAIN consumer' = DOMAIN consumer, consumer'.page = <<>>, consumer'.last = 0,
             consumer'.epoch = consumer.epoch, consumer'.handled = consumer.handled,
             consumer'.from \in {consumer.from, consumer.last + 1}
      PROVE  ReadInv'
  <2>1. ConsumerTyped'
    BY <1>1, <1>3 DEF ReadInv, ConsumerTyped
  <2>2. ASSUME consumer.epoch = epoch
        PROVE  Joined'
    <3>1. \A n : Below(n) => Below(n)'
      BY <1>1, <1>3 DEF Below
    <3>2. Below(consumer.from)'
      BY <1>1, <1>3, <2>2 DEF ReadInv, Joined, Below
    <3>3. Below(consumer.last + 1)'
      BY <1>1, <1>3, Numbers DEF ReadInv, Below
    <3>4. consumer'.from <= Cardinality(events) + 1 /\ consumer'.last <= Cardinality(events)
      BY <1>3, <2>2, Numbers DEF ReadInv, Joined, ConsumerTyped
    <3> QED
      BY <1>1, <1>3, <2>2, <3>2, <3>3, <3>4 DEF ReadInv, Joined, CurrentPage
  <2>3. consumer.epoch # epoch => Joined'
    BY <1>1, <1>3 DEF Joined
  <2> QED
    BY <1>2, <2>1, <2>2, <2>3 DEF ReadInv
<1>4. CASE Checkpoint
  <2>1. consumer' = [consumer EXCEPT !.from = consumer.last + 1, !.last = 0]
        /\ consumer.page = <<>>
    BY <1>4 DEF Checkpoint
  <2> QED
    BY <1>3, <2>1 DEF ReadInv, ConsumerTyped
<1>5. CASE CrashConsumer
  <2>1. consumer' = [consumer EXCEPT !.page = <<>>, !.last = 0]
    BY <1>5 DEF CrashConsumer
  <2> QED
    BY <1>3, <2>1 DEF ReadInv, ConsumerTyped
<1>6. CASE Rejoin
  <2>1. /\ DOMAIN consumer' = {"from", "page", "last", "epoch", "handled"}
        /\ consumer'.from = 0 /\ consumer'.page = <<>> /\ consumer'.last = 0
        /\ consumer'.epoch = epoch /\ consumer'.handled = {}
    BY <1>6 DEF Rejoin, Joining
  <2>2. ConsumerTyped'
    BY <1>1, <2>1 DEF ReadInv, ConsumerTyped
  <2>3. Joined'
    BY <1>1, <2>1, Numbers DEF ReadInv, Joined, Below, CurrentPage
  <2> QED
    BY <1>2, <2>2, <2>3 DEF ReadInv
<1> QED
  BY <1>4, <1>5, <1>6

LEMMA ReadInvariant == HubSpec => []ReadInv
<1>1. HubInit => ReadInv
  <2> SUFFICES ASSUME HubInit PROVE ReadInv
    OBVIOUS
  <2>1. NumberedInv
    BY NothingNumbered, BoundAssumption DEF HubInit, NumberedInv
  <2>2. ConsumerTyped
    BY BoundAssumption DEF HubInit, Joining, ConsumerTyped
  <2>3. Joined
    BY FS_EmptySet DEF HubInit, Joining, Joined, Below, CurrentPage
  <2> QED
    BY <2>1, <2>2, <2>3 DEF ReadInv
<1>2. ReadInv /\ [HubNext]_hubVars => ReadInv'
  <2> SUFFICES ASSUME ReadInv, [HubNext]_hubVars PROVE ReadInv'
    OBVIOUS
  <2>1. ASSUME UNCHANGED <<events, published, epoch, consumer>>, NumberedInv'
        PROVE  ReadInv'
    BY <2>1 DEF ReadInv, ConsumerTyped, Joined, Below, CurrentPage
  <2>2. NumberedInv'
    BY NumberedStep DEF ReadInv
  <2>3. CASE CreateEventHub \/ Snapshot \/ UNCHANGED hubVars
    BY <2>1, <2>2, <2>3 DEF CreateEventHub, Snapshot, hubVars
  <2> QED
    BY <2>3, PublishReadInv, EpochReadInv, ListReadInv, HandleReadInv, ConsumerReadInv DEF HubNext
<1> QED
  BY <1>1, <1>2, PTL DEF HubSpec

(***************************************************************************)
(* See NoneSkipped: for any number of events, resets, restores and crashes *)
(* and pages of any size.                                                  *)
(***************************************************************************)
THEOREM NothingIsSkipped == HubSpec => []NoneSkipped
<1>1. ReadInv => NoneSkipped
  BY DEF ReadInv, Joined, Below, NoneSkipped
<1> QED
  BY <1>1, ReadInvariant, PTL

-----------------------------------------------------------------------------
RestTyped ==
  /\ consumer \in Consumer
  /\ hub \in BOOLEAN /\ crashes \in 0 .. MaxCrash
  /\ \A file \in saved : file \in [hub : BOOLEAN, events : SUBSET Event]

\* See HubTypeOK.
THEOREM HubTypeCorrect == HubSpec => []HubTypeOK
<1>1. HubInit => RestTyped
  <2>1. <<>> \in Seq(Event) /\ 0 \in 0 .. MaxCrash
    BY BoundAssumption
  <2>2. Joining(0) \in Consumer
    BY <2>1 DEF Joining, Consumer
  <2> QED
    BY <2>1, <2>2 DEF HubInit, RestTyped
<1>2. ReadInv /\ ReadInv' /\ RestTyped /\ [HubNext]_hubVars => RestTyped'
  <2> SUFFICES ASSUME ReadInv, ReadInv', RestTyped, [HubNext]_hubVars PROVE RestTyped'
    OBVIOUS
  <2>1. events \subseteq Event
    BY EventsTyped DEF ReadInv
  <2>2. ConsumerTyped'
    BY DEF ReadInv
  <2>3. CASE CreateEventHub \/ PublishEventHubEvent \/ Reset \/ UNCHANGED hubVars
    <3>1. UNCHANGED <<saved, consumer, crashes>>
      BY <2>3 DEF CreateEventHub, PublishEventHubEvent, Reset, hubVars
    <3>2. hub' = hub \/ hub' = TRUE \/ hub' = FALSE
      BY <2>3 DEF CreateEventHub, PublishEventHubEvent, Reset, hubVars
    <3> QED
      BY <3>1, <3>2 DEF RestTyped
  <2>4. CASE Snapshot
    <3>1. /\ saved' = {[hub |-> hub, events |-> events]}
          /\ UNCHANGED <<hub, consumer, crashes>>
      BY <2>4 DEF Snapshot
    <3> QED
      BY <2>1, <3>1 DEF RestTyped
  <2>5. CASE Restore
    BY <2>5 DEF RestTyped, Restore
  <2>6. ASSUME NEW max \in PageSizes, ListEventHubEvents(max)
        PROVE  RestTyped'
    BY <2>2, <2>6 DEF ListEventHubEvents, RestTyped, ConsumerTyped, Consumer
  <2>7. CASE Handle
    BY <2>2, <2>7 DEF Handle, RestTyped, ConsumerTyped, Consumer
  <2>8. CASE Checkpoint
    BY <2>2, <2>8 DEF Checkpoint, RestTyped, ConsumerTyped, Consumer
  <2>9. CASE CrashConsumer
    <3>1. crashes' \in 0 .. MaxCrash
      BY <2>9, BoundAssumption DEF CrashConsumer, RestTyped
    <3>2. consumer' \in Consumer
      BY <2>2, <2>9 DEF CrashConsumer, RestTyped, ConsumerTyped, Consumer
    <3> QED
      BY <2>9, <3>1, <3>2 DEF CrashConsumer, RestTyped
  <2>10. CASE Rejoin
    BY <2>2, <2>10 DEF Rejoin, Joining, RestTyped, ConsumerTyped, Consumer
  <2> QED
    BY <2>3, <2>4, <2>5, <2>6, <2>7, <2>8, <2>9, <2>10 DEF HubNext
<1>3. ReadInv /\ RestTyped => HubTypeOK
  BY EventsTyped DEF ReadInv, NumberedInv, ConsumerTyped, RestTyped, Stored, HubTypeOK
<1> QED
  BY <1>1, <1>2, <1>3, ReadInvariant, PTL DEF HubSpec

=============================================================================
