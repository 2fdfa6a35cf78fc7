------------------------------ MODULE LeaseRows ------------------------------
(***************************************************************************)
(* What the three lease tables of the store (queue_messages,               *)
(* service_bus_messages and service_bus_subscription_messages) have in     *)
(* common: instants as the store writes them, their order as text, and the *)
(* SELECT and UPDATE that hand a message out.                              *)
(*                                                                         *)
(* The store writes every instant with time.RFC3339Nano and compares and   *)
(* orders the resulting TEXT in SQL.  That format drops the trailing zeros *)
(* of the fraction, so "12:00:07Z" sorts AFTER "12:00:07.5Z" ('.' < 'Z'):  *)
(* a whole second is the last text of its second, not the first.  An       *)
(* instant is a second and one fractional digit in base Frac; whole        *)
(* seconds, whose fraction the format drops, are those with frac = 0.      *)
(***************************************************************************)
EXTENDS Naturals

CONSTANTS
  Frac,      \* fractions of a second an instant can fall on: 0 .. Frac - 1
  MaxSec     \* last second of the clock: the bound on time

ASSUME ClockAssumption == Frac \in Nat \ {0} /\ MaxSec \in Nat

Instant == [sec : Nat, frac : 0 .. (Frac - 1)]

Start == [sec |-> 0, frac |-> 0]

\* The instants the clock can show: a finite set for TLC.
ClockReading == [sec : 0 .. MaxSec, frac : 0 .. (Frac - 1)]

\* Real order of instants.
Earlier(a, b) ==
  \/ a.sec < b.sec
  \/ a.sec = b.sec /\ a.frac < b.frac

NextInstant(t) ==
  IF t.frac + 1 < Frac
  THEN [sec |-> t.sec, frac |-> t.frac + 1]
  ELSE [sec |-> t.sec + 1, frac |-> 0]

\* t + a visibility timeout; the handlers accept whole seconds only.
After(t, seconds) == [sec |-> t.sec + seconds, frac |-> t.frac]

(***************************************************************************)
(* The order of a and b once both are RFC3339Nano text.                    *)
(***************************************************************************)
TextLess(a, b) ==
  \/ a.sec < b.sec
  \/ /\ a.sec = b.sec
     /\ a.frac # 0
     /\ b.frac = 0 \/ a.frac < b.frac

TextAtMost(a, b) == a = b \/ TextLess(a, b)

-----------------------------------------------------------------------------
(***************************************************************************)
(* A table is a function from the ids of its rows (the primary key) to     *)
(* rows.  Id and receipt are UnixNano readings: "msg-<n>", "pop-<n>".      *)
(***************************************************************************)
Row == [receipt   : ClockReading,
        dequeues  : Nat,
        visibleAt : Instant,
        createdAt : ClockReading]

EmptyTable == [id \in {} |-> 0]

NewRow(t) == [receipt |-> t, dequeues |-> 0, visibleAt |-> t, createdAt |-> t]

\* INSERT of a new key; UPDATE of an existing one.
Put(rows, id, row) ==
  [i \in DOMAIN rows \cup {id} |-> IF i = id THEN row ELSE rows[i]]

DeleteBlanks(rows, id) == [rows EXCEPT ![id] = EmptyTable]  \* faulty variant

Delete(rows, id) == [i \in DOMAIN rows \ {id} |-> rows[i]]

\* Faulty variants: no visibility filter; only messages never handed out before.
DueAlways(rows, now) == DOMAIN rows

DueOnce(rows, now) ==
  {id \in DOMAIN rows : rows[id].dequeues = 0 /\ TextAtMost(rows[id].visibleAt, now)}

\* WHERE visible_at <= ?
Due(rows, now) == {id \in DOMAIN rows : TextAtMost(rows[id].visibleAt, now)}

\* Faulty variant: no ORDER BY.
SelectionsUnordered(rows, now, limit) ==
  LET due      == Due(rows, now)
      Read(id) == [id |-> id, dequeues |-> rows[id].dequeues]
  IN {s \in UNION {[1 .. n -> {Read(id) : id \in due}] : n \in 0 .. limit} :
        /\ \A i, j \in DOMAIN s : s[i].id = s[j].id => i = j
        /\ (\E id \in due : \A i \in DOMAIN s : s[i].id # id) => DOMAIN s = 1 .. limit}

(***************************************************************************)
(* SELECT ... WHERE visible_at <= now ORDER BY created_at LIMIT limit: the *)
(* possible results, one for each order of rows of equal created_at.  Each *)
(* result keeps the dequeue count that was read, which the UPDATE uses.    *)
(***************************************************************************)
Selections(rows, now, limit) ==
  LET due      == Due(rows, now)
      Read(id) == [id |-> id, dequeues |-> rows[id].dequeues]
      Before(id, other) == TextLess(rows[id].createdAt, rows[other].createdAt)
  IN {s \in UNION {[1 .. n -> {Read(id) : id \in due}] : n \in 0 .. limit} :
        /\ \A i, j \in DOMAIN s : s[i].id = s[j].id => i = j
        /\ \A i, j \in DOMAIN s : i < j => ~Before(s[j].id, s[i].id)
        /\ \A id \in due : (\A i \in DOMAIN s : s[i].id # id) =>
             /\ DOMAIN s = 1 .. limit
             /\ \A i \in DOMAIN s : ~Before(id, s[i].id)}

\* Faulty variant: the attempt is not counted.
RelockUncounted(rows, read, receipt, until) ==
  IF read.id \in DOMAIN rows
  THEN Put(rows, read.id, [receipt   |-> receipt,
                           dequeues  |-> read.dequeues,
                           visibleAt |-> until,
                           createdAt |-> rows[read.id].createdAt])
  ELSE rows

(***************************************************************************)
(* UPDATE ... SET receipt, dequeue_count, visible_at WHERE id: no row, no  *)
(* effect.                                                                 *)
(***************************************************************************)
Relock(rows, read, receipt, until) ==
  IF read.id \in DOMAIN rows
  THEN Put(rows, read.id, [receipt   |-> receipt,
                           dequeues  |-> read.dequeues + 1,
                           visibleAt |-> until,
                           createdAt |-> rows[read.id].createdAt])
  ELSE rows

=============================================================================
