--------------------------- MODULE StateStoreProofs ---------------------------
(***************************************************************************)
(* Proofs about StateStore for any number of processes that have the       *)
(* database open, any names, and both pairs of tables or one.              *)
(***************************************************************************)
EXTENDS StateStore, SequenceTheorems, TLAPS

ReadSoFar(n) == {ReadOrder[i] : i \in 1 .. (n - 1)}

\* Document rows has no child without a parent, but for those of excused.
Tidy(rows, excused) ==
  \A t \in Parents : \A n \in rows[ChildrenOf[t]] : n \in rows[t] \/ <<t, n>> \in excused

(***************************************************************************)
(* What a call's step says of its task and argument.                       *)
(***************************************************************************)
ResourceTask == {"putParent", "deleteParent", "putChild", "deleteChild"}

CallFits(c) ==
  /\ c.task \in ResourceTask => c.arg \in Parents \X Name
  /\ c.task = "none" => c = Idle
  /\ c.task = "restore" => c.step = "run"
  /\ c.step = "children" => c.task = "deleteParent"
  /\ c.step = "insert" => c.task = "putChild"
  /\ c.step = "write" => c.task = "snapshot"

TypeInv == TypeOK /\ \A p \in Proc : CallFits(call[p])

(***************************************************************************)
(* The tables are empty until the store is initialised, and a call that    *)
(* has found or written a version runs on an initialised store.            *)
(***************************************************************************)
BootInv ==
  /\ ~initialised => db = NoRows
  /\ \A p \in Proc :
       call[p].task \notin {"none", "restore"} /\ call[p].step # "bootstrap" => initialised
  /\ ~shared => \A p \in Proc : p # Daemon => call[p] = Idle
  /\ ~shared => (call[Daemon].step = "bootstrap" => ~initialised)

(***************************************************************************)
(* What a snapshot in progress has read is bracketed by what it has        *)
(* watched, which brackets what the tables hold now.                       *)
(***************************************************************************)
Bracketed(c, rows) ==
  \A t \in Cleared :
    /\ c.kept[t] \subseteq rows[t] /\ rows[t] \subseteq c.met[t]
    /\ t \in ReadSoFar(c.next) =>
         c.kept[t] \subseteq c.rows[t] /\ c.rows[t] \subseteq c.met[t]

Watches(c) == c.task = "snapshot" /\ c.step = "run"

WatchInv == \A p \in Proc : Watches(call[p]) => Bracketed(call[p], db)

(***************************************************************************)
(* While the daemon is alone, every document, in the tables, in the file   *)
(* or in its call's hands, has a parent for each child, but for deletions  *)
(* that are in progress or were cut short.                                 *)
(***************************************************************************)
Deleting(c) ==
  IF c.task = "deleteParent" /\ c.step = "children" THEN {c.arg} ELSE {}

AllTidy(rows, saved, cuts, c) ==
  /\ Tidy(rows, cuts \cup Deleting(c))
  /\ Tidy(saved.rows, cuts)
  /\ c.task = "putChild" /\ c.step = "insert" => c.arg[2] \in rows[c.arg[1]]
  /\ c.task = "restore" \/ (c.task = "snapshot" /\ c.step = "write") => Tidy(c.rows, cuts)
  /\ Watches(c) =>
       \A t \in Table : c.rows[t] = IF t \in ReadSoFar(c.next) THEN rows[t] ELSE {}

TidyInv == ~shared => AllTidy(db, file, cut, call[Daemon])

StoreInv == TypeInv /\ BootInv /\ WatchInv /\ TidyInv

-----------------------------------------------------------------------------
\* Names of the four tables that the two pairs consist of.
LEMMA ParentNames ==
  /\ \A t \in Parents : t \in {"virtual_networks", "network_security_groups"}
  /\ ChildrenOf["virtual_networks"] = "subnets"
  /\ ChildrenOf["network_security_groups"] = "network_security_rules"
BY StoreAssumption DEF ChildrenOf

(***************************************************************************)
(* Pairs of tables do not overlap, and writeLocked clears both tables of a *)
(* pair or none.  About: the list of DELETEs of writeLocked.               *)
(***************************************************************************)
LEMMA PairsOfTables ==
  ASSUME NEW t \in Parents
  PROVE  /\ t \in Table /\ ChildrenOf[t] \in Table
         /\ \A u \in Parents : ChildrenOf[t] # u /\ (ChildrenOf[t] = ChildrenOf[u] => t = u)
         /\ t \in Cleared <=> ChildrenOf[t] \in Cleared
BY ParentNames DEF Table, Cleared

\* About: the DELETEs of writeLocked are on tables of the store.
LEMMA ClearedTables == Cleared \subseteq Table
BY DEF Cleared

(***************************************************************************)
(* The order of readLocked: every table once, the parents before their     *)
(* children.  About: its SELECTs.                                          *)
(***************************************************************************)
LEMMA OrderOfReads ==
  /\ Len(ReadOrder) \in Nat
  /\ \A i \in 1 .. Len(ReadOrder) : ReadOrder[i] \in Table
  /\ \A t \in Table : \E i \in 1 .. Len(ReadOrder) : ReadOrder[i] = t
  /\ \A t \in Parents : \A i \in 1 .. Len(ReadOrder) :
       ReadOrder[i] = ChildrenOf[t] => \E j \in 1 .. (i - 1) : ReadOrder[j] = t
<1> DEFINE v == "virtual_networks"
           g == "network_security_groups"
<1>1. CASE v \in Parents /\ g \in Parents
  <2> DEFINE first == <<v, "subnets">>
             rest  == <<g, "network_security_rules">>
  <2>0. ReadOrder = first \o rest
    BY <1>1, ParentNames DEF ReadOrder
  <2>1. /\ Len(ReadOrder) = 4
        /\ ReadOrder[1] = v /\ ReadOrder[2] = "subnets"
        /\ ReadOrder[3] = g /\ ReadOrder[4] = "network_security_rules"
    <3> DEFINE S == {v, "subnets", g, "network_security_rules"}
    <3>1. first \in Seq(S) /\ Len(first) = 2 /\ first[1] = v /\ first[2] = "subnets"
      OBVIOUS
    <3>2. /\ rest \in Seq(S) /\ Len(rest) = 2
          /\ rest[1] = g /\ rest[2] = "network_security_rules"
      OBVIOUS
    <3> HIDE DEF first, rest, S
    <3>3. /\ Len(ReadOrder) = 4
          /\ \A i \in 1 .. 4 : ReadOrder[i] = IF i <= 2 THEN first[i] ELSE rest[i - 2]
      <4>1. /\ Len(first \o rest) = Len(first) + Len(rest)
            /\ \A i \in 1 .. Len(first) + Len(rest) :
                 (first \o rest)[i] = IF i <= Len(first) THEN first[i] ELSE rest[i - Len(first)]
        BY <3>1, <3>2, ConcatProperties
      <4> QED
        BY <2>0, <3>1, <3>2, <4>1
    <3> QED
      BY <3>1, <3>2, <3>3
  <2>2. Parents = {v, g} /\ Table = {v, "subnets", g, "network_security_rules"}
    BY <1>1, ParentNames DEF Table
  <2> QED
    BY <2>1, <2>2, ParentNames
<1>2. CASE v \in Parents /\ g \notin Parents
  <2>1. ReadOrder = <<v, "subnets">>
    BY <1>2, ParentNames DEF ReadOrder
  <2>2. Parents = {v} /\ Table = {v, "subnets"}
    BY <1>2, ParentNames DEF Table
  <2> QED
    BY <2>1, <2>2, ParentNames
<1>3. CASE v \notin Parents /\ g \in Parents
  <2>1. ReadOrder = <<g, "network_security_rules">>
    BY <1>3, ParentNames DEF ReadOrder
  <2>2. Parents = {g} /\ Table = {g, "network_security_rules"}
    BY <1>3, ParentNames DEF Table
  <2> QED
    BY <2>1, <2>2, ParentNames
<1>4. CASE v \notin Parents /\ g \notin Parents
  <2>1. ReadOrder = <<>>
    BY <1>4, ParentNames DEF ReadOrder
  <2>2. Parents = {} /\ Table = {}
    BY <1>4, ParentNames DEF Table
  <2> QED
    BY <2>1, <2>2
<1> QED
  BY <1>1, <1>2, <1>3, <1>4

\* About: the tables a snapshot has read before its n-th SELECT.
LEMMA TablesRead ==
  /\ ReadSoFar(1) = {}
  /\ \A n \in 1 .. Len(ReadOrder) : ReadSoFar(n + 1) = ReadSoFar(n) \cup {ReadOrder[n]}
  /\ \A n \in 1 .. (Len(ReadOrder) + 1) : n > Len(ReadOrder) => Table \subseteq ReadSoFar(n)
  /\ \A n \in 1 .. (Len(ReadOrder) + 1) : \A t \in Parents :
       ChildrenOf[t] \in ReadSoFar(n) => t \in ReadSoFar(n)
<1>1. ReadSoFar(1) = {}
  BY DEF ReadSoFar
<1>2. ASSUME NEW n \in 1 .. Len(ReadOrder)
      PROVE  ReadSoFar(n + 1) = ReadSoFar(n) \cup {ReadOrder[n]}
  <2>1. n \in Nat /\ 1 .. (n + 1 - 1) = (1 .. (n - 1)) \cup {n}
    BY OrderOfReads
  <2> QED
    BY <2>1 DEF ReadSoFar
<1>3. ASSUME NEW n \in 1 .. (Len(ReadOrder) + 1), n > Len(ReadOrder)
      PROVE  Table \subseteq ReadSoFar(n)
  BY <1>3, OrderOfReads DEF ReadSoFar
<1>4. ASSUME NEW n \in 1 .. (Len(ReadOrder) + 1), NEW t \in Parents,
             ChildrenOf[t] \in ReadSoFar(n)
      PROVE  t \in ReadSoFar(n)
  <2>1. PICK i \in 1 .. (n - 1) : ReadOrder[i] = ChildrenOf[t]
    BY <1>4 DEF ReadSoFar
  <2>2. i \in 1 .. Len(ReadOrder) /\ n \in Nat
    BY OrderOfReads
  <2>3. PICK j \in 1 .. (i - 1) : ReadOrder[j] = t
    BY <2>1, <2>2, OrderOfReads
  <2>4. j \in 1 .. (n - 1)
    BY <2>2
  <2> QED
    BY <2>3, <2>4 DEF ReadSoFar
<1> QED
  BY <1>1, <1>2, <1>3, <1>4

-----------------------------------------------------------------------------
\* About: a call that has not begun or is over.
LEMMA IdleCall ==
  /\ Idle \in Call /\ CallFits(Idle) /\ ~Watches(Idle)
  /\ Idle.task = "none" /\ Idle.step = "idle" /\ Deleting(Idle) = {}
  /\ NoRows \in Tables
<1>1. NoRows \in Tables /\ Unwatched \in [Cleared -> SUBSET Name]
  BY DEF NoRows, Tables, Unwatched
<1>2. 1 \in 1 .. (Len(ReadOrder) + 1)
  BY OrderOfReads
<1>3. Idle \in Call
  BY <1>1, <1>2 DEF Idle, Call
<1>4. Idle.task = "none" /\ Idle.step = "idle"
  BY DEF Idle
<1> QED
  BY <1>1, <1>3, <1>4 DEF CallFits, Watches, Deleting, ResourceTask

(***************************************************************************)
(* A call that starts to run.  About: the methods once they have passed    *)
(* ensureDocumentLocked.                                                   *)
(***************************************************************************)
LEMMA RunningCall ==
  ASSUME NEW task \in {"init", "snapshot", "restore"} \cup ResourceTask,
         NEW arg \in {<<>>} \cup (Parents \X Name),
         task \in ResourceTask => arg \in Parents \X Name,
         NEW held \in Tables
  PROVE  /\ Running(task, arg, held) \in Call
         /\ CallFits(Running(task, arg, held))
         /\ Running(task, arg, held).task = task
         /\ Running(task, arg, held).step = "run"
         /\ Running(task, arg, held).arg = arg
         /\ Running(task, arg, held).next = 1
         /\ Running(task, arg, held).rows = NoRows
         /\ task = "snapshot" =>
              \A t \in Cleared : /\ Running(task, arg, held).kept[t] = held[t]
                                 /\ Running(task, arg, held).met[t] = held[t]
<1> DEFINE watched == [t \in Cleared |-> held[t]]
           seen == IF task = "snapshot" THEN watched ELSE Unwatched
           c == [task |-> task, step |-> "run", arg |-> arg, next |-> 1,
                 rows |-> NoRows, kept |-> seen, met |-> seen]
<1>1. Running(task, arg, held) = c
  <2>1. Restrict(held, Cleared) = watched
    BY DEF Restrict
  <2>2. Idle.kept = Unwatched /\ Idle.met = Unwatched
    BY DEF Idle
  <2>3. Running(task, arg, held) =
          [Idle EXCEPT !.task = task, !.step = "run", !.arg = arg, !.kept = seen, !.met = seen]
    BY <2>1, <2>2 DEF Running
  <2> HIDE DEF seen
  <2> QED
    BY <2>3 DEF Idle
<1>2. seen \in [Cleared -> SUBSET Name]
  BY ClearedTables DEF Tables, Unwatched
<1>3. 1 \in 1 .. (Len(ReadOrder) + 1) /\ NoRows \in Tables
  BY OrderOfReads DEF NoRows, Tables
<1>4. task = "snapshot" => \A t \in Cleared : seen[t] = held[t]
  OBVIOUS
<1> HIDE DEF seen
<1>5. c \in Call
  BY <1>2, <1>3 DEF Call, ResourceTask
<1>6. CallFits(c)
  BY DEF CallFits, ResourceTask
<1> QED
  BY <1>1, <1>4, <1>5, <1>6

(***************************************************************************)
(* The history a snapshot keeps changes nothing else.  About: the calls of *)
(* the other processes during a step.                                      *)
(***************************************************************************)
LEMMA WatchedCall ==
  ASSUME NEW c \in Call, NEW rows \in Tables
  PROVE  /\ Watched(c, rows) \in Call
         /\ Watched(c, rows).task = c.task /\ Watched(c, rows).step = c.step
         /\ Watched(c, rows).arg = c.arg /\ Watched(c, rows).next = c.next
         /\ Watched(c, rows).rows = c.rows
         /\ ~Watches(c) => Watched(c, rows) = c
         /\ Watches(c) => \A t \in Cleared :
              /\ Watched(c, rows).kept[t] = c.kept[t] \cap rows[t]
              /\ Watched(c, rows).met[t] = c.met[t] \cup rows[t]
         /\ CallFits(c) => CallFits(Watched(c, rows))
<1>1. CASE ~Watches(c)
  BY <1>1 DEF Watched, Watches
<1>2. CASE Watches(c)
  <2> DEFINE kept == [t \in Cleared |-> c.kept[t] \cap rows[t]]
             met  == [t \in Cleared |-> c.met[t] \cup rows[t]]
  <2>1. Watched(c, rows) = [c EXCEPT !.kept = kept, !.met = met]
    BY <1>2 DEF Watched, Watches
  <2>2. kept \in [Cleared -> SUBSET Name] /\ met \in [Cleared -> SUBSET Name]
    BY ClearedTables DEF Call, Tables
  <2>3. \A t \in Cleared : kept[t] = c.kept[t] \cap rows[t] /\ met[t] = c.met[t] \cup rows[t]
    OBVIOUS
  <2> HIDE DEF kept, met
  <2>4. Watched(c, rows) \in Call
    BY <2>1, <2>2 DEF Call
  <2>5. /\ Watched(c, rows).task = c.task /\ Watched(c, rows).step = c.step
        /\ Watched(c, rows).arg = c.arg /\ Watched(c, rows).next = c.next
        /\ Watched(c, rows).rows = c.rows
        /\ Watched(c, rows).kept = kept /\ Watched(c, rows).met = met
    BY <2>1 DEF Call
  <2>6. CallFits(c) => CallFits(Watched(c, rows))
    BY <1>2, <2>5, IdleCall DEF CallFits, Watches, ResourceTask
  <2> QED
    BY <1>2, <2>3, <2>4, <2>5, <2>6
<1> QED
  BY <1>1, <1>2

Document == [whole : BOOLEAN, rows : Tables]

\* What a step of p may make of the store, for the invariant to survive it.
Keeps(p, c, rows, cuts) ==
  /\ c \in Call /\ CallFits(c) /\ rows \in Tables /\ cuts \subseteq Parents \X Name
  /\ initialised => initialised'
  /\ ~initialised' => rows = NoRows
  /\ c.task \notin {"none", "restore"} /\ c.step # "bootstrap" => initialised'
  /\ c.step = "bootstrap" => ~initialised'
  /\ Watches(c) => Bracketed(c, rows)
  /\ p = Daemon /\ AllTidy(db, file, cut, call[p]) => AllTidy(rows, file', cuts, c)

(***************************************************************************)
(* The step of one process and all the others.  About: every statement     *)
(* and file operation.                                                     *)
(***************************************************************************)
LEMMA StoreStep ==
  ASSUME StoreInv, NEW p \in Proc, NEW c, NEW rows, NEW cuts,
         Steps(p, c, rows, cuts), Keeps(p, c, rows, cuts),
         initialised' \in BOOLEAN, file' \in Document
  PROVE  StoreInv'
<1>1. /\ db' = rows
      /\ call' = [q \in Proc |-> IF q = p THEN c ELSE Watched(call[q], rows)]
      /\ shared' = (shared \/ p # Daemon)
      /\ cut' = IF shared' THEN {} ELSE cuts
  BY DEF Steps
<1>2. /\ c \in Call /\ CallFits(c) /\ rows \in Tables /\ cuts \subseteq Parents \X Name
  BY DEF Keeps
<1>3. /\ call'[p] = c
      /\ \A q \in Proc : q # p => call'[q] = Watched(call[q], rows)
  BY <1>1
<1>4. ASSUME NEW q \in Proc, q # p
      PROVE  /\ call'[q] \in Call /\ CallFits(call'[q])
             /\ call'[q].task = call[q].task /\ call'[q].step = call[q].step
             /\ call'[q].next = call[q].next /\ call'[q].rows = call[q].rows
             /\ ~Watches(call[q]) => call'[q] = call[q]
             /\ Watches(call[q]) => \A t \in Cleared :
                  /\ call'[q].kept[t] = call[q].kept[t] \cap rows[t]
                  /\ call'[q].met[t] = call[q].met[t] \cup rows[t]
  <2>1. call[q] \in Call /\ CallFits(call[q])
    BY DEF StoreInv, TypeInv, TypeOK
  <2> QED
    BY <1>2, <1>3, <1>4, <2>1, WatchedCall
<1>5. shared \in BOOLEAN /\ shared' \in BOOLEAN
  BY <1>1 DEF StoreInv, TypeInv, TypeOK
<1>6. TypeInv'
  <2>1. \A q \in Proc : call'[q] \in Call /\ CallFits(call'[q])
    BY <1>2, <1>3, <1>4
  <2>2. call' \in [Proc -> Call]
    BY <1>1, <2>1
  <2>3. cut' \subseteq Parents \X Name
    BY <1>1, <1>2
  <2> QED
    BY <1>1, <1>2, <1>5, <2>1, <2>2, <2>3 DEF TypeInv, TypeOK, Document
<1>7. BootInv'
  <2>1. ~initialised' => db' = NoRows
    BY <1>1 DEF Keeps
  <2>2. ASSUME NEW q \in Proc, call'[q].task \notin {"none", "restore"},
               call'[q].step # "bootstrap"
        PROVE  initialised'
    BY <1>3, <1>4, <2>2 DEF Keeps, StoreInv, BootInv
  <2>3. ASSUME ~shared'
        PROVE  /\ \A q \in Proc : q # Daemon => call'[q] = Idle
               /\ call'[Daemon].step = "bootstrap" => ~initialised'
    <3>1. ~shared /\ p = Daemon
      BY <1>1, <1>5, <2>3
    <3> QED
      BY <1>3, <1>4, <3>1, IdleCall DEF Keeps, StoreInv, BootInv
  <2> QED
    BY <2>1, <2>2, <2>3 DEF BootInv
<1>8. WatchInv'
  <2> SUFFICES ASSUME NEW q \in Proc, Watches(call'[q])
               PROVE  Bracketed(call'[q], rows)
    BY <1>1 DEF WatchInv
  <2>1. CASE q = p
    BY <1>3, <2>1 DEF Keeps
  <2>2. CASE q # p
    <3>1. Watches(call[q]) /\ Bracketed(call[q], db)
      BY <1>4, <2>2 DEF Watches, StoreInv, WatchInv
    <3> QED
      BY <1>4, <2>2, <3>1 DEF Bracketed
  <2> QED
    BY <2>1, <2>2
<1>9. TidyInv'
  <2> SUFFICES ASSUME ~shared' PROVE AllTidy(db', file', cut', call'[Daemon])
    BY DEF TidyInv
  <2>1. ~shared /\ p = Daemon /\ cut' = cuts /\ call'[Daemon] = c
    BY <1>1, <1>3, <1>5
  <2>2. AllTidy(db, file, cut, call[p])
    BY <2>1 DEF StoreInv, TidyInv
  <2> QED
    BY <1>1, <2>1, <2>2 DEF Keeps
<1> QED
  BY <1>6, <1>7, <1>8, <1>9 DEF StoreInv

(***************************************************************************)
(* A call that ends.  About: its last statement, whatever that writes.     *)
(***************************************************************************)
LEMMA Ends ==
  ASSUME StoreInv, NEW p \in Proc, NEW rows \in Tables, Goes(p, Idle, rows),
         initialised' \in BOOLEAN, initialised => initialised',
         ~initialised' => rows = NoRows, file' \in Document,
         AllTidy(db, file, cut, call[p]) => Tidy(rows, cut) /\ Tidy(file'.rows, cut)
  PROVE  StoreInv'
<1>1. cut \subseteq Parents \X Name
  BY DEF StoreInv, TypeInv, TypeOK
<1>2. Tidy(rows, cut) /\ Tidy(file'.rows, cut) => AllTidy(rows, file', cut, Idle)
  BY IdleCall DEF AllTidy, Deleting
<1>3. Keeps(p, Idle, rows, cut)
  BY <1>1, <1>2, IdleCall DEF Keeps
<1> QED
  BY <1>3, StoreStep DEF Goes

(***************************************************************************)
(* A call that ends without changing anything.  About: what is answered    *)
(* with 404.                                                               *)
(***************************************************************************)
LEMMA EndsQuietly ==
  ASSUME StoreInv, NEW p \in Proc, Goes(p, Idle, db), UNCHANGED <<initialised, file>>,
         call[p].step # "children"
  PROVE  StoreInv'
<1>1. db \in Tables /\ initialised \in BOOLEAN /\ file \in Document
      /\ (~initialised => db = NoRows)
  BY DEF StoreInv, TypeInv, TypeOK, BootInv, Document
<1>2. AllTidy(db, file, cut, call[p]) => Tidy(db, cut) /\ Tidy(file.rows, cut)
  BY DEF AllTidy, Deleting
<1> QED
  BY <1>1, <1>2, Ends

(***************************************************************************)
(* About: writeLocked, which replaces both tables of a pair or neither.    *)
(***************************************************************************)
LEMMA WrittenTidy ==
  ASSUME db \in Tables, NEW rows \in Tables
  PROVE  /\ Written(rows) \in Tables
         /\ Written(NoRows) \in Tables
         /\ \A t \in Cleared : Written(rows)[t] = rows[t]
         /\ \A X : Tidy(db, X) /\ Tidy(rows, X) => Tidy(Written(rows), X)
         /\ \A X : Tidy(NoRows, X)
         /\ \A X : Tidy(db, X) => Tidy(Written(NoRows), X)
         /\ db = NoRows => Written(NoRows) = NoRows
<1>1. \A t \in Table : NoRows[t] = {}
  BY DEF NoRows
<1>2. ASSUME NEW doc \in Tables
      PROVE  Written(doc) \in Tables /\ \A t \in Table :
               Written(doc)[t] = IF t \in Cleared THEN doc[t] ELSE db[t] \cup doc[t]
  BY <1>2 DEF Written, Tables
<1>3. ASSUME NEW doc \in Tables, NEW X, Tidy(db, X), Tidy(doc, X)
      PROVE  Tidy(Written(doc), X)
  <2> DEFINE W == Written(doc)
  <2>1. \A t \in Table : W[t] = IF t \in Cleared THEN doc[t] ELSE db[t] \cup doc[t]
    BY <1>2, <1>3
  <2> HIDE DEF W
  <2>2. ASSUME NEW t \in Parents, NEW n \in W[ChildrenOf[t]]
        PROVE  n \in W[t] \/ <<t, n>> \in X
    <3>1. t \in Table /\ ChildrenOf[t] \in Table /\ (t \in Cleared <=> ChildrenOf[t] \in Cleared)
      BY PairsOfTables
    <3>2. n \in doc[ChildrenOf[t]] => n \in doc[t] \/ <<t, n>> \in X
      BY <1>3 DEF Tidy
    <3>3. n \in db[ChildrenOf[t]] => n \in db[t] \/ <<t, n>> \in X
      BY <1>3 DEF Tidy
    <3> QED
      BY <2>1, <2>2, <3>1, <3>2, <3>3
  <2>3. Tidy(W, X)
    BY <2>2 DEF Tidy
  <2> QED
    BY <2>3 DEF W
<1>4. \A X : Tidy(NoRows, X)
  BY <1>1, PairsOfTables DEF Tidy
<1>5. db = NoRows => Written(NoRows) = NoRows
  BY DEF Written, NoRows
<1> QED
  BY <1>2, <1>3, <1>4, <1>5, ClearedTables, IdleCall

(***************************************************************************)
(* A method's call once it runs.  About: the end of ensureDocumentLocked.  *)
(***************************************************************************)
LEMMA Starts ==
  ASSUME NEW task \in {"init", "snapshot"} \cup ResourceTask,
         NEW arg \in {<<>>} \cup (Parents \X Name),
         task \in ResourceTask => arg \in Parents \X Name,
         NEW rows \in Tables
  PROVE  /\ Running(task, arg, rows) \in Call
         /\ CallFits(Running(task, arg, rows))
         /\ Running(task, arg, rows).step = "run"
         /\ Watches(Running(task, arg, rows)) => Bracketed(Running(task, arg, rows), rows)
         /\ \A saved, cuts : Tidy(rows, cuts) /\ Tidy(saved.rows, cuts) =>
              AllTidy(rows, saved, cuts, Running(task, arg, rows))
<1> DEFINE c == Running(task, arg, rows)
<1>0. task \in {"init", "snapshot", "restore"} \cup ResourceTask /\ task # "restore"
  BY DEF ResourceTask
<1>1. /\ c \in Call /\ CallFits(c)
      /\ c.task = task /\ c.step = "run" /\ c.next = 1 /\ c.rows = NoRows
      /\ task = "snapshot" => \A t \in Cleared : c.kept[t] = rows[t] /\ c.met[t] = rows[t]
  BY <1>0, RunningCall
<1> HIDE DEF c
<1>2. \A t \in Table : NoRows[t] = {}
  BY DEF NoRows
<1>3. \A saved, cuts : Tidy(rows, cuts) /\ Tidy(saved.rows, cuts) =>
        AllTidy(rows, saved, cuts, c)
  BY <1>0, <1>1, <1>2, TablesRead DEF AllTidy, Deleting, Watches
<1>4. Watches(c) => Bracketed(c, rows)
  BY <1>1, TablesRead DEF Bracketed, Watches
<1> QED
  BY <1>1, <1>3, <1>4 DEF c

\* About: ensureDocumentLocked finding a version, or not.
LEMMA BeginKeeps ==
  ASSUME StoreInv, NEW p \in Proc, NEW task \in {"init", "snapshot"} \cup ResourceTask,
         NEW arg \in {<<>>} \cup (Parents \X Name),
         task \in ResourceTask => arg \in Parents \X Name,
         Begin(p, task, arg)
  PROVE  StoreInv'
<1> DEFINE c == IF initialised THEN Running(task, arg, db)
                ELSE [Running(task, arg, NoRows) EXCEPT !.step = "bootstrap"]
<1>1. /\ Steps(p, c, db, cut) /\ call[p] = Idle /\ UNCHANGED <<initialised, file>>
  BY DEF Begin, Goes
<1>2. /\ db \in Tables /\ cut \subseteq Parents \X Name /\ initialised \in BOOLEAN
      /\ file \in Document /\ (~initialised => db = NoRows)
  BY DEF StoreInv, TypeInv, TypeOK, BootInv, Document
<1>3. CASE initialised
  <2>1. c = Running(task, arg, db)
    BY <1>3
  <2>2. AllTidy(db, file, cut, call[p]) => Tidy(db, cut) /\ Tidy(file.rows, cut)
    BY <1>1, IdleCall DEF AllTidy
  <2> HIDE DEF c
  <2>3. c \in Call /\ CallFits(c) /\ c.step = "run" /\ (Watches(c) => Bracketed(c, db))
    BY <1>2, <2>1, Starts
  <2>5. AllTidy(db, file, cut, call[p]) => AllTidy(db, file, cut, c)
    BY <1>2, <2>1, <2>2, Starts
  <2>6. Keeps(p, c, db, cut)
    BY <1>1, <1>2, <1>3, <2>3, <2>5 DEF Keeps
  <2> QED
    BY <1>1, <1>2, <2>6, StoreStep
<1>4. CASE ~initialised
  <2> DEFINE r == Running(task, arg, NoRows)
  <2>1. r \in Call /\ CallFits(r) /\ r.task = task /\ r.arg = arg
    BY RunningCall, IdleCall
  <2>2. c = [r EXCEPT !.step = "bootstrap"]
    BY <1>4
  <2> HIDE DEF r, c
  <2>3. c \in Call /\ c.task = task /\ c.step = "bootstrap" /\ c.arg = arg
    BY <2>1, <2>2 DEF Call
  <2>4. task # "none" /\ task # "restore"
    BY DEF ResourceTask
  <2>5. CallFits(c) /\ ~Watches(c) /\ Deleting(c) = {}
    BY <2>3, <2>4 DEF CallFits, Watches, Deleting
  <2>6. AllTidy(db, file, cut, call[p]) => AllTidy(db, file, cut, c)
    BY <1>1, <2>3, <2>4, <2>5, IdleCall DEF AllTidy
  <2>7. Keeps(p, c, db, cut)
    BY <1>1, <1>2, <1>4, <2>3, <2>5, <2>6 DEF Keeps
  <2> QED
    BY <1>1, <1>2, <2>7, StoreStep
<1> QED
  BY <1>2, <1>3, <1>4

\* About: ensureDocumentLocked writing an empty document.
LEMMA BootstrapKeeps ==
  ASSUME StoreInv, NEW p \in Proc, Bootstrap(p)
  PROVE  StoreInv'
<1> DEFINE rows == Written(NoRows)
           c    == Running(call[p].task, call[p].arg, rows)
<1>1. Steps(p, c, rows, cut) /\ call[p].step = "bootstrap" /\ initialised' = TRUE /\ file' = file
  BY DEF Bootstrap, Goes
<1>2. /\ db \in Tables /\ cut \subseteq Parents \X Name /\ file \in Document
      /\ call[p] \in Call /\ CallFits(call[p])
  BY DEF StoreInv, TypeInv, TypeOK, Document
<1>3. /\ call[p].task \in {"init", "snapshot"} \cup ResourceTask
      /\ call[p].arg \in {<<>>} \cup (Parents \X Name)
      /\ call[p].task \in ResourceTask => call[p].arg \in Parents \X Name
      /\ Deleting(call[p]) = {}
  BY <1>1, <1>2, IdleCall DEF Call, CallFits, ResourceTask, Deleting
<1>4. rows \in Tables
  BY <1>2, WrittenTidy
<1> HIDE DEF rows
<1>5. PICK task, arg : task = call[p].task /\ arg = call[p].arg /\ c = Running(task, arg, rows)
  OBVIOUS
<1> HIDE DEF c
<1>6. c \in Call /\ CallFits(c) /\ c.step = "run" /\ (Watches(c) => Bracketed(c, rows))
  <2>1. /\ task \in {"init", "snapshot"} \cup ResourceTask
        /\ arg \in {<<>>} \cup (Parents \X Name)
        /\ task \in ResourceTask => arg \in Parents \X Name
    BY <1>3, <1>5
  <2> QED
    BY <1>4, <1>5, <2>1, Starts
<1>7. AllTidy(db, file, cut, call[p]) => AllTidy(rows, file, cut, c)
  <2> SUFFICES ASSUME AllTidy(db, file, cut, call[p]) PROVE AllTidy(rows, file, cut, c)
    OBVIOUS
  <2>1. Tidy(db, cut) /\ Tidy(file.rows, cut)
    BY <1>3 DEF AllTidy
  <2>2. Tidy(rows, cut)
    BY <1>2, <2>1, WrittenTidy DEF rows
  <2> QED
    BY <1>3, <1>4, <1>5, <2>1, <2>2, Starts
<1>8. Keeps(p, c, rows, cut)
  BY <1>1, <1>2, <1>4, <1>6, <1>7 DEF Keeps
<1> QED
  BY <1>1, <1>2, <1>8, StoreStep

\* About: Reset, the empty document.
LEMMA ResetKeeps ==
  ASSUME StoreInv, NEW p \in Proc, Reset(p)
  PROVE  StoreInv'
<1>1. /\ Goes(p, Idle, Written(NoRows)) /\ initialised' = TRUE /\ file' = file
      /\ call[p] = Idle
  BY DEF Reset
<1>2. db \in Tables /\ file \in Document
  BY DEF StoreInv, TypeInv, TypeOK, Document
<1>3. Written(NoRows) \in Tables
  BY <1>2, WrittenTidy
<1>4. AllTidy(db, file, cut, call[p]) => Tidy(Written(NoRows), cut) /\ Tidy(file.rows, cut)
  BY <1>1, <1>2, WrittenTidy, IdleCall DEF AllTidy
<1> QED
  BY <1>1, <1>2, <1>3, <1>4, Ends

(***************************************************************************)
(* About: the calls of the resource APIs, which name a parent.             *)
(***************************************************************************)
LEMMA ResourceCall ==
  ASSUME StoreInv, NEW p \in Proc, call[p].task \in ResourceTask,
         call[p].step # "bootstrap"
  PROVE  /\ call[p] \in Call /\ CallFits(call[p]) /\ initialised = TRUE
         /\ call[p].arg[1] \in Parents /\ call[p].arg[2] \in Name
         /\ call[p].arg = <<call[p].arg[1], call[p].arg[2]>>
         /\ call[p].arg \in Parents \X Name
         /\ db \in Tables /\ file \in Document
         /\ cut \subseteq Parents \X Name
<1>1. /\ call[p] \in Call /\ CallFits(call[p]) /\ db \in Tables /\ file \in Document
      /\ cut \subseteq Parents \X Name /\ initialised \in BOOLEAN
  BY DEF StoreInv, TypeInv, TypeOK, Document
<1>2. initialised
  BY DEF StoreInv, BootInv, ResourceTask
<1>3. call[p].arg \in Parents \X Name
  BY <1>1 DEF CallFits
<1> QED
  BY <1>1, <1>2, <1>3

\* One row more or one row less is still a document.  About: the upserts and
\* DELETEs by name.
LEMMA OneRow ==
  ASSUME NEW rows \in Tables, NEW t \in Table, NEW n \in Name
  PROVE  /\ [rows EXCEPT ![t] = rows[t] \cup {n}] \in Tables
         /\ [rows EXCEPT ![t] = rows[t] \ {n}] \in Tables
         /\ \A u \in Table : [rows EXCEPT ![t] = rows[t] \cup {n}][u] =
                               IF u = t THEN rows[t] \cup {n} ELSE rows[u]
         /\ \A u \in Table : [rows EXCEPT ![t] = rows[t] \ {n}][u] =
                               IF u = t THEN rows[t] \ {n} ELSE rows[u]
BY DEF Tables

\* About: the upsert of a parent.
LEMMA PutParentKeeps ==
  ASSUME StoreInv, NEW p \in Proc, PutParent(p)
  PROVE  StoreInv'
<1> DEFINE t    == call[p].arg[1]
           n    == call[p].arg[2]
           rows == [db EXCEPT ![t] = db[t] \cup {n}]
<1>1. /\ call[p].task = "putParent" /\ call[p].step = "run"
      /\ Goes(p, Idle, rows) /\ UNCHANGED <<initialised, file>>
  BY DEF PutParent, At
<1>2. /\ t \in Parents /\ n \in Name /\ t \in Table /\ db \in Tables /\ file \in Document
      /\ initialised = TRUE
  BY <1>1, ResourceCall, PairsOfTables DEF ResourceTask
<1>3. /\ rows \in Tables
      /\ \A u \in Table : rows[u] = IF u = t THEN db[t] \cup {n} ELSE db[u]
  BY <1>2, OneRow
<1> HIDE DEF rows, t, n
<1>4. AllTidy(db, file, cut, call[p]) => Tidy(rows, cut) /\ Tidy(file.rows, cut)
  <2> SUFFICES ASSUME AllTidy(db, file, cut, call[p]) PROVE Tidy(rows, cut)
    BY DEF AllTidy
  <2>1. Tidy(db, cut)
    BY <1>1 DEF AllTidy, Deleting
  <2> QED
    BY <1>2, <1>3, <2>1, PairsOfTables DEF Tidy
<1> QED
  BY <1>1, <1>2, <1>3, <1>4, Ends

\* About: the DELETE of a child.
LEMMA DeleteChildKeeps ==
  ASSUME StoreInv, NEW p \in Proc, DeleteChild(p)
  PROVE  StoreInv'
<1> DEFINE t    == ChildrenOf[call[p].arg[1]]
           n    == call[p].arg[2]
           rows == [db EXCEPT ![t] = db[t] \ {n}]
<1>1. /\ call[p].task = "deleteChild" /\ call[p].step = "run"
      /\ Goes(p, Idle, rows) /\ UNCHANGED <<initialised, file>>
  BY DEF DeleteChild, At
<1>2. /\ call[p].arg[1] \in Parents /\ n \in Name /\ t \in Table /\ db \in Tables
      /\ file \in Document /\ initialised = TRUE
  BY <1>1, ResourceCall, PairsOfTables DEF ResourceTask
<1>3. /\ rows \in Tables
      /\ \A u \in Table : rows[u] = IF u = t THEN db[t] \ {n} ELSE db[u]
  BY <1>2, OneRow
<1>4. \A u \in Parents : u # t
  BY <1>2, PairsOfTables
<1> HIDE DEF rows, t, n
<1>5. AllTidy(db, file, cut, call[p]) => Tidy(rows, cut) /\ Tidy(file.rows, cut)
  <2> SUFFICES ASSUME AllTidy(db, file, cut, call[p]) PROVE Tidy(rows, cut)
    BY DEF AllTidy
  <2>1. Tidy(db, cut)
    BY <1>1 DEF AllTidy, Deleting
  <2> QED
    BY <1>2, <1>3, <1>4, <2>1, PairsOfTables DEF Tidy
<1> QED
  BY <1>1, <1>2, <1>3, <1>5, Ends

\* About: the upsert of a child, whose parent has been seen.
LEMMA InsertChildKeeps ==
  ASSUME StoreInv, NEW p \in Proc, InsertChild(p)
  PROVE  StoreInv'
<1> DEFINE t    == call[p].arg[1]
           n    == call[p].arg[2]
           rows == [db EXCEPT ![ChildrenOf[t]] = db[ChildrenOf[t]] \cup {n}]
<1>1. /\ call[p].task = "putChild" /\ call[p].step = "insert"
      /\ Goes(p, Idle, rows) /\ UNCHANGED <<initialised, file>>
  BY DEF InsertChild, At
<1>2. /\ t \in Parents /\ n \in Name /\ ChildrenOf[t] \in Table /\ db \in Tables
      /\ file \in Document /\ initialised = TRUE
  BY <1>1, ResourceCall, PairsOfTables DEF ResourceTask
<1>3. /\ rows \in Tables
      /\ \A u \in Table : rows[u] = IF u = ChildrenOf[t] THEN db[ChildrenOf[t]] \cup {n} ELSE db[u]
  BY <1>2, OneRow
<1>4. /\ \A u \in Parents : u # ChildrenOf[t] /\ (ChildrenOf[u] = ChildrenOf[t] => u = t)
  BY <1>2, PairsOfTables
<1>5. AllTidy(db, file, cut, call[p]) => n \in db[t]
  BY <1>1 DEF AllTidy
<1> HIDE DEF rows, t, n
<1>6. AllTidy(db, file, cut, call[p]) => Tidy(rows, cut) /\ Tidy(file.rows, cut)
  <2> SUFFICES ASSUME AllTidy(db, file, cut, call[p]) PROVE Tidy(rows, cut)
    BY DEF AllTidy
  <2>1. Tidy(db, cut)
    BY <1>1 DEF AllTidy, Deleting
  <2>2. ASSUME NEW u \in Parents, NEW m \in rows[ChildrenOf[u]]
        PROVE  m \in rows[u] \/ <<u, m>> \in cut
    <3>1. rows[u] = db[u] /\ u \in Table /\ ChildrenOf[u] \in Table
      BY <1>3, <1>4, PairsOfTables
    <3>2. CASE m \in db[ChildrenOf[u]]
      BY <2>1, <3>1, <3>2 DEF Tidy
    <3>3. CASE m \notin db[ChildrenOf[u]]
      BY <1>3, <1>4, <1>5, <2>2, <3>1, <3>3
    <3> QED
      BY <3>2, <3>3
  <2> QED
    BY <2>2 DEF Tidy
<1> QED
  BY <1>1, <1>2, <1>3, <1>6, Ends

\* About: the DELETE of a parent, or 404.
LEMMA DeleteParentKeeps ==
  ASSUME StoreInv, NEW p \in Proc, DeleteParent(p)
  PROVE  StoreInv'
<1> DEFINE t    == call[p].arg[1]
           n    == call[p].arg[2]
           rows == [db EXCEPT ![t] = db[t] \ {n}]
           c    == [call[p] EXCEPT !.step = "children"]
<1>1. /\ call[p].task = "deleteParent" /\ call[p].step = "run"
      /\ IF n \in db[t] THEN Goes(p, c, rows) ELSE Goes(p, Idle, db)
      /\ UNCHANGED <<initialised, file>>
  BY DEF DeleteParent, At
<1>2. /\ t \in Parents /\ n \in Name /\ t \in Table /\ db \in Tables /\ file \in Document
      /\ initialised = TRUE /\ call[p] \in Call /\ call[p].arg = <<t, n>>
      /\ cut \subseteq Parents \X Name /\ call[p].arg \in Parents \X Name
  BY <1>1, ResourceCall, PairsOfTables DEF ResourceTask
<1>3. CASE n \notin db[t]
  BY <1>1, <1>3, EndsQuietly
<1>4. CASE n \in db[t]
  <2>1. /\ rows \in Tables
        /\ \A u \in Table : rows[u] = IF u = t THEN db[t] \ {n} ELSE db[u]
    <3>1. t \in Table /\ n \in Name /\ db \in Tables
      BY <1>2
    <3> QED
      BY <3>1, OneRow
  <2>2. /\ c \in Call /\ c.task = "deleteParent" /\ c.step = "children" /\ c.arg = call[p].arg
    BY <1>1, <1>2 DEF Call
  <2>3. Goes(p, c, rows)
    BY <1>1, <1>4
  <2>4. \A u \in Parents : ChildrenOf[u] # t
    BY <1>2, PairsOfTables
  <2> HIDE DEF rows, c, t, n
  <2>5. CallFits(c) /\ ~Watches(c) /\ Deleting(c) = {<<t, n>>}
    BY <1>2, <2>2 DEF CallFits, Watches, Deleting, ResourceTask
  <2>6. AllTidy(db, file, cut, call[p]) => AllTidy(rows, file, cut, c)
    <3> SUFFICES ASSUME AllTidy(db, file, cut, call[p]) PROVE AllTidy(rows, file, cut, c)
      OBVIOUS
    <3>1. Tidy(db, cut) /\ Tidy(file.rows, cut)
      BY <1>1 DEF AllTidy, Deleting
    <3>2. Tidy(rows, cut \cup {<<t, n>>})
      BY <1>2, <2>1, <2>4, <3>1, PairsOfTables DEF Tidy
    <3> QED
      BY <2>2, <2>5, <3>1, <3>2 DEF AllTidy
  <2>7. Keeps(p, c, rows, cut)
    BY <1>1, <1>2, <2>1, <2>2, <2>5, <2>6 DEF Keeps
  <2> QED
    BY <1>1, <1>2, <2>3, <2>7, StoreStep DEF Goes
<1> QED
  BY <1>3, <1>4

\* About: the DELETE of a parent's children, once it is gone.
LEMMA DeleteChildrenKeeps ==
  ASSUME StoreInv, NEW p \in Proc, DeleteChildren(p)
  PROVE  StoreInv'
<1> DEFINE t    == call[p].arg[1]
           n    == call[p].arg[2]
           rows == [db EXCEPT ![ChildrenOf[t]] = db[ChildrenOf[t]] \ {n}]
<1>1. /\ call[p].task = "deleteParent" /\ call[p].step = "children"
      /\ Goes(p, Idle, rows) /\ UNCHANGED <<initialised, file>>
  BY DEF DeleteChildren, At
<1>2. /\ t \in Parents /\ n \in Name /\ ChildrenOf[t] \in Table /\ db \in Tables
      /\ file \in Document /\ initialised = TRUE /\ call[p].arg = <<t, n>>
  BY <1>1, ResourceCall, PairsOfTables DEF ResourceTask
<1>3. /\ rows \in Tables
      /\ \A u \in Table : rows[u] = IF u = ChildrenOf[t] THEN db[ChildrenOf[t]] \ {n} ELSE db[u]
  <2>1. ChildrenOf[t] \in Table /\ n \in Name /\ db \in Tables
    BY <1>2
  <2> QED
    BY <2>1, OneRow
<1>4. \A u \in Parents : u # ChildrenOf[t] /\ (ChildrenOf[u] = ChildrenOf[t] => u = t)
  BY <1>2, PairsOfTables
<1>5. Deleting(call[p]) = {<<t, n>>}
  BY <1>1, <1>2 DEF Deleting
<1> HIDE DEF rows, t, n
<1>6. AllTidy(db, file, cut, call[p]) => Tidy(rows, cut) /\ Tidy(file.rows, cut)
  <2> SUFFICES ASSUME AllTidy(db, file, cut, call[p]) PROVE Tidy(rows, cut)
    BY DEF AllTidy
  <2>1. Tidy(db, cut \cup {<<t, n>>})
    BY <1>5 DEF AllTidy
  <2>2. ASSUME NEW u \in Parents, NEW m \in rows[ChildrenOf[u]]
        PROVE  m \in rows[u] \/ <<u, m>> \in cut
    <3>1. rows[u] = db[u] /\ u \in Table /\ ChildrenOf[u] \in Table
      BY <1>3, <1>4, PairsOfTables
    <3>2. m \in db[ChildrenOf[u]] /\ ~(u = t /\ m = n)
      BY <1>3, <2>2, <3>1
    <3>3. m \in db[u] \/ <<u, m>> \in cut \cup {<<t, n>>}
      BY <2>1, <3>2 DEF Tidy
    <3>4. <<u, m>> # <<t, n>>
      BY <3>2
    <3> QED
      BY <3>1, <3>3, <3>4
  <2> QED
    BY <2>2 DEF Tidy
<1> QED
  BY <1>1, <1>2, <1>3, <1>6, Ends

\* About: the SELECT EXISTS of a child's parent, or 404.
LEMMA CheckParentKeeps ==
  ASSUME StoreInv, NEW p \in Proc, CheckParent(p)
  PROVE  StoreInv'
<1> DEFINE t == call[p].arg[1]
           n == call[p].arg[2]
           c == [call[p] EXCEPT !.step = "insert"]
<1>1. /\ call[p].task = "putChild" /\ call[p].step = "run"
      /\ Goes(p, IF n \in db[t] THEN c ELSE Idle, db)
      /\ UNCHANGED <<initialised, file>>
  BY DEF CheckParent, At
<1>2. /\ db \in Tables /\ file \in Document /\ initialised = TRUE /\ call[p] \in Call
      /\ cut \subseteq Parents \X Name /\ call[p].arg \in Parents \X Name
  BY <1>1, ResourceCall DEF ResourceTask
<1>3. CASE n \notin db[t]
  BY <1>1, <1>3, EndsQuietly
<1>4. CASE n \in db[t]
  <2>1. c \in Call /\ c.task = "putChild" /\ c.step = "insert" /\ c.arg = call[p].arg
    BY <1>1, <1>2 DEF Call
  <2>2. Goes(p, c, db) /\ c.arg[2] \in db[c.arg[1]]
    BY <1>1, <1>4, <2>1
  <2> HIDE DEF c, t, n
  <2>3. CallFits(c) /\ ~Watches(c) /\ Deleting(c) = {}
    BY <1>2, <2>1 DEF CallFits, Watches, Deleting, ResourceTask
  <2>4. AllTidy(db, file, cut, call[p]) => AllTidy(db, file, cut, c)
    BY <1>1, <2>1, <2>2, <2>3 DEF AllTidy, Deleting
  <2>5. Keeps(p, c, db, cut)
    BY <1>1, <1>2, <2>1, <2>3, <2>4 DEF Keeps
  <2> QED
    BY <1>1, <1>2, <2>2, <2>5, StoreStep DEF Goes
<1> QED
  BY <1>3, <1>4

\* About: a snapshot, a call that runs on an initialised store.
LEMMA SnapshotCall ==
  ASSUME StoreInv, NEW p \in Proc, call[p].task = "snapshot", call[p].step # "bootstrap"
  PROVE  /\ call[p] \in Call /\ CallFits(call[p]) /\ initialised = TRUE
         /\ db \in Tables /\ file \in Document /\ cut \subseteq Parents \X Name
         /\ Deleting(call[p]) = {}
         /\ Watches(call[p]) => Bracketed(call[p], db)
<1>1. /\ call[p] \in Call /\ CallFits(call[p]) /\ db \in Tables /\ file \in Document
      /\ cut \subseteq Parents \X Name /\ initialised \in BOOLEAN
  BY DEF StoreInv, TypeInv, TypeOK, Document
<1>2. initialised
  BY DEF StoreInv, BootInv
<1>3. Deleting(call[p]) = {}
  BY DEF Deleting
<1>4. Watches(call[p]) => Bracketed(call[p], db)
  BY DEF StoreInv, WatchInv
<1> QED
  BY <1>1, <1>2, <1>3, <1>4

\* About: one SELECT of readLocked.
LEMMA ReadTableKeeps ==
  ASSUME StoreInv, NEW p \in Proc, ReadTable(p)
  PROVE  StoreInv'
<1> DEFINE n   == call[p].next
           t   == ReadOrder[n]
           doc == [call[p].rows EXCEPT ![t] = db[t]]
           c   == [call[p] EXCEPT !.rows = doc, !.next = n + 1]
<1>1. /\ call[p].task = "snapshot" /\ call[p].step = "run" /\ n <= Len(ReadOrder)
      /\ Goes(p, c, db) /\ UNCHANGED <<initialised, file>>
  BY DEF ReadTable, At
<1>2. /\ call[p] \in Call /\ initialised = TRUE
      /\ db \in Tables /\ file \in Document /\ cut \subseteq Parents \X Name
      /\ Deleting(call[p]) = {} /\ Watches(call[p]) /\ Bracketed(call[p], db)
  BY <1>1, SnapshotCall DEF Watches
<1>3. /\ n \in 1 .. Len(ReadOrder) /\ n + 1 \in 1 .. (Len(ReadOrder) + 1) /\ t \in Table
      /\ ReadSoFar(n + 1) = ReadSoFar(n) \cup {t}
  <2>1. n \in 1 .. Len(ReadOrder)
    BY <1>1, <1>2, OrderOfReads DEF Call
  <2> QED
    <3>1. n + 1 \in 1 .. (Len(ReadOrder) + 1) /\ t \in Table
      BY <2>1, OrderOfReads
    <3>2. ReadSoFar(n + 1) = ReadSoFar(n) \cup {t}
      BY <2>1, TablesRead
    <3> QED
      BY <2>1, <3>1, <3>2
<1>4. /\ doc \in Tables
      /\ \A u \in Table : doc[u] = IF u = t THEN db[t] ELSE call[p].rows[u]
  <2>1. call[p].rows \in Tables
    BY <1>2 DEF Call
  <2> QED
    BY <1>2, <1>3, <2>1 DEF Tables
<1> HIDE DEF doc, t, n
<1>5. /\ c \in Call /\ c.task = "snapshot" /\ c.step = "run" /\ c.arg = call[p].arg
      /\ c.rows = doc /\ c.next = n + 1 /\ c.kept = call[p].kept /\ c.met = call[p].met
  BY <1>1, <1>2, <1>3, <1>4 DEF Call
<1> HIDE DEF c
<1>6. CallFits(c) /\ Watches(c) /\ Deleting(c) = {} /\ c.task # "restore" /\ c.step # "write"
  BY <1>5 DEF CallFits, Watches, Deleting, ResourceTask
<1>7. Bracketed(c, db)
  <2>1. \A u \in Cleared : u \in Table
    BY ClearedTables
  <2> QED
    BY <1>2, <1>3, <1>4, <1>5, <2>1 DEF Bracketed, n
<1>8. AllTidy(db, file, cut, call[p]) => AllTidy(db, file, cut, c)
  <2> SUFFICES ASSUME AllTidy(db, file, cut, call[p]) PROVE AllTidy(db, file, cut, c)
    OBVIOUS
  <2>1. \A u \in Table : call[p].rows[u] = IF u \in ReadSoFar(n) THEN db[u] ELSE {}
    BY <1>2 DEF AllTidy, n
  <2>2. \A u \in Table : c.rows[u] = IF u \in ReadSoFar(c.next) THEN db[u] ELSE {}
    BY <1>3, <1>4, <1>5, <2>1
  <2>3. Tidy(db, cut \cup Deleting(c)) /\ Tidy(file.rows, cut)
    BY <1>2, <1>6 DEF AllTidy
  <2> QED
    BY <1>5, <1>6, <2>2, <2>3 DEF AllTidy
<1>9. Keeps(p, c, db, cut)
  BY <1>1, <1>2, <1>5, <1>6, <1>7, <1>8 DEF Keeps
<1> QED
  BY <1>1, <1>2, <1>9, StoreStep DEF Goes

\* About: os.WriteFile truncating the snapshot file.
LEMMA TruncateFileKeeps ==
  ASSUME StoreInv, NEW p \in Proc, TruncateFile(p)
  PROVE  StoreInv'
<1> DEFINE c == [call[p] EXCEPT !.step = "write", !.kept = Unwatched, !.met = Unwatched]
<1>1. /\ call[p].task = "snapshot" /\ call[p].step = "run" /\ call[p].next > Len(ReadOrder)
      /\ Goes(p, c, db) /\ UNCHANGED initialised /\ file' = Torn
  BY DEF TruncateFile, At
<1>2. /\ call[p] \in Call /\ initialised = TRUE
      /\ db \in Tables /\ cut \subseteq Parents \X Name
      /\ Deleting(call[p]) = {} /\ Watches(call[p])
  BY <1>1, SnapshotCall DEF Watches
<1>3. Torn \in Document /\ Torn.rows = NoRows
  BY IdleCall DEF Torn, Document
<1>4. Unwatched \in [Cleared -> SUBSET Name]
  BY DEF Unwatched
<1>5. /\ c \in Call /\ c.task = "snapshot" /\ c.step = "write" /\ c.arg = call[p].arg
      /\ c.rows = call[p].rows
  BY <1>1, <1>2, <1>4 DEF Call
<1> HIDE DEF c
<1>6. CallFits(c) /\ ~Watches(c) /\ Deleting(c) = {} /\ c.task # "putChild"
  BY <1>5 DEF CallFits, Watches, Deleting, ResourceTask
<1>7. AllTidy(db, file, cut, call[p]) => AllTidy(db, Torn, cut, c)
  <2> SUFFICES ASSUME AllTidy(db, file, cut, call[p]) PROVE AllTidy(db, Torn, cut, c)
    OBVIOUS
  <2>1. Table \subseteq ReadSoFar(call[p].next)
    <3>1. call[p].next \in 1 .. (Len(ReadOrder) + 1)
      BY <1>2 DEF Call
    <3> QED
      BY <1>1, <3>1, TablesRead
  <2>2. \A u \in Table : c.rows[u] = db[u]
    BY <1>2, <1>5, <2>1 DEF AllTidy
  <2>3. Tidy(db, cut)
    BY <1>2 DEF AllTidy
  <2>4. Tidy(c.rows, cut)
    BY <2>2, <2>3, PairsOfTables DEF Tidy
  <2>5. Tidy(NoRows, cut)
    BY <1>2, WrittenTidy, IdleCall
  <2> QED
    BY <1>3, <1>6, <2>3, <2>4, <2>5 DEF AllTidy
<1>8. Keeps(p, c, db, cut)
  BY <1>1, <1>2, <1>5, <1>6, <1>7 DEF Keeps
<1> QED
  BY <1>1, <1>2, <1>3, <1>8, StoreStep DEF Goes

\* About: os.WriteFile writing the document, over whatever the file holds.
LEMMA WriteFileKeeps ==
  ASSUME StoreInv, NEW p \in Proc, WriteFile(p)
  PROVE  StoreInv'
<1>1. /\ call[p].task = "snapshot" /\ call[p].step = "write" /\ Goes(p, Idle, db)
      /\ UNCHANGED initialised
      /\ file' = [whole |-> TRUE, rows |-> call[p].rows] \/ file' = Torn
  BY DEF WriteFile, At
<1>2. /\ call[p] \in Call /\ initialised = TRUE /\ db \in Tables /\ Deleting(call[p]) = {}
  BY <1>1, SnapshotCall
<1>3. file' \in Document /\ (file'.rows = call[p].rows \/ file'.rows = NoRows)
  <2>1. call[p].rows \in Tables /\ NoRows \in Tables
    BY <1>2, IdleCall DEF Call
  <2>2. CASE file' = [whole |-> TRUE, rows |-> call[p].rows]
    BY <2>1, <2>2 DEF Document
  <2>3. CASE file' = Torn
    BY <2>1, <2>3 DEF Torn, Document
  <2> QED
    BY <1>1, <2>2, <2>3
<1>4. AllTidy(db, file, cut, call[p]) => Tidy(db, cut) /\ Tidy(file'.rows, cut)
  <2>1. Tidy(NoRows, cut)
    BY <1>2, WrittenTidy, IdleCall
  <2> QED
    BY <1>1, <1>2, <1>3, <2>1 DEF AllTidy
<1> QED
  BY <1>1, <1>2, <1>3, <1>4, Ends

\* About: Restore reading a file it can parse.
LEMMA ReadFileKeeps ==
  ASSUME StoreInv, NEW p \in Proc, ReadFile(p)
  PROVE  StoreInv'
<1> DEFINE r == Running("restore", <<>>, db)
           c == [r EXCEPT !.rows = file.rows]
<1>1. call[p] = Idle /\ Goes(p, c, db) /\ UNCHANGED <<initialised, file>>
  BY DEF ReadFile
<1>2. /\ db \in Tables /\ file \in Document /\ cut \subseteq Parents \X Name
      /\ initialised \in BOOLEAN /\ (~initialised => db = NoRows)
  BY DEF StoreInv, TypeInv, TypeOK, BootInv, Document
<1>3. r \in Call /\ r.task = "restore" /\ r.step = "run"
  <2>1. "restore" \in {"init", "snapshot", "restore"} \cup ResourceTask
    OBVIOUS
  <2>2. "restore" \notin ResourceTask
    BY DEF ResourceTask
  <2>3. <<>> \in {<<>>} \cup (Parents \X Name)
    OBVIOUS
  <2> QED
    BY <1>2, <2>1, <2>2, <2>3, RunningCall
<1> HIDE DEF r
<1>4. c \in Call /\ c.task = "restore" /\ c.step = "run" /\ c.rows = file.rows
  BY <1>2, <1>3 DEF Call, Document
<1> HIDE DEF c
<1>5. CallFits(c) /\ ~Watches(c) /\ Deleting(c) = {}
  BY <1>4 DEF CallFits, Watches, Deleting, ResourceTask
<1>6. AllTidy(db, file, cut, call[p]) => AllTidy(db, file, cut, c)
  BY <1>1, <1>4, <1>5, IdleCall DEF AllTidy
<1>7. Keeps(p, c, db, cut)
  BY <1>1, <1>2, <1>4, <1>5, <1>6 DEF Keeps
<1> QED
  BY <1>1, <1>2, <1>7, StoreStep DEF Goes

\* About: Restore writing the document, or failing on a row that is there.
LEMMA RestoreKeeps ==
  ASSUME StoreInv, NEW p \in Proc, Restore(p)
  PROVE  StoreInv'
<1> DEFINE doc == call[p].rows
<1>1. /\ call[p].task = "restore" /\ call[p].step = "run" /\ file' = file
      /\ IF Conflict(doc) THEN Goes(p, Idle, db) /\ UNCHANGED initialised
         ELSE Goes(p, Idle, Written(doc)) /\ initialised' = TRUE
  BY DEF Restore, At
<1>2. /\ db \in Tables /\ file \in Document /\ doc \in Tables
  BY DEF StoreInv, TypeInv, TypeOK, Document, Call
<1>3. CASE Conflict(doc)
  BY <1>1, <1>3, EndsQuietly
<1>4. CASE ~Conflict(doc)
  <2>1. Goes(p, Idle, Written(doc)) /\ initialised' = TRUE
    BY <1>1, <1>4
  <2>2. Written(doc) \in Tables
    BY <1>2, WrittenTidy
  <2>3. AllTidy(db, file, cut, call[p]) => Tidy(Written(doc), cut) /\ Tidy(file.rows, cut)
    <3> SUFFICES ASSUME AllTidy(db, file, cut, call[p]) PROVE Tidy(Written(doc), cut)
      BY DEF AllTidy
    <3>1. Tidy(db, cut) /\ Tidy(doc, cut)
      BY <1>1 DEF AllTidy, Deleting
    <3> QED
      BY <1>2, <3>1, WrittenTidy
  <2> QED
    BY <1>1, <1>2, <2>1, <2>2, <2>3, Ends
<1> QED
  BY <1>3, <1>4

\* About: kills and failing statements, also between the two of a delete.
LEMMA FailKeeps ==
  ASSUME StoreInv, NEW p \in Proc, Fail(p)
  PROVE  StoreInv'
<1>1. /\ Steps(p, Idle, db, IF call[p].step = "children" THEN cut \cup {call[p].arg} ELSE cut)
      /\ UNCHANGED <<initialised, file>>
  BY DEF Fail
<1>2. CASE call[p].step # "children"
  BY <1>1, <1>2, EndsQuietly DEF Goes
<1>3. CASE call[p].step = "children"
  <2> DEFINE cuts == cut \cup {call[p].arg}
  <2>1. Steps(p, Idle, db, cuts)
    BY <1>1, <1>3
  <2>2. /\ db \in Tables /\ cut \subseteq Parents \X Name /\ initialised \in BOOLEAN
        /\ file \in Document /\ (~initialised => db = NoRows) /\ CallFits(call[p])
    BY DEF StoreInv, TypeInv, TypeOK, BootInv, Document
  <2>3. call[p].task = "deleteParent"
    BY <1>3, <2>2 DEF CallFits
  <2>4. call[p].arg \in Parents \X Name /\ Deleting(call[p]) = {call[p].arg}
    BY <1>3, <2>2, <2>3 DEF CallFits, ResourceTask, Deleting
  <2>5. AllTidy(db, file, cut, call[p]) => AllTidy(db, file, cuts, Idle)
    <3> SUFFICES ASSUME AllTidy(db, file, cut, call[p])
                 PROVE  Tidy(db, cuts) /\ Tidy(file.rows, cuts)
      BY IdleCall DEF AllTidy
    <3> QED
      BY <2>4 DEF AllTidy, Tidy
  <2> HIDE DEF cuts
  <2>6. cuts \subseteq Parents \X Name
    BY <2>2, <2>4 DEF cuts
  <2>7. Keeps(p, Idle, db, cuts)
    BY <1>1, <2>2, <2>5, <2>6, IdleCall DEF Keeps
  <2> QED
    BY <1>1, <2>1, <2>2, <2>7, StoreStep
<1> QED
  BY <1>2, <1>3

LEMMA StoreInit == Init => StoreInv
<1> SUFFICES ASSUME Init PROVE StoreInv
  OBVIOUS
<1>1. /\ db = NoRows /\ initialised = FALSE /\ file = Torn /\ cut = {} /\ shared = FALSE
      /\ call = [p \in Proc |-> Idle]
  BY DEF Init
<1>2. TypeInv
  BY <1>1, IdleCall DEF TypeInv, TypeOK, Torn
<1>3. BootInv
  BY <1>1, IdleCall, StoreAssumption DEF BootInv
<1>4. WatchInv
  BY <1>1, IdleCall DEF WatchInv
<1>5. TidyInv
  <2>1. Tidy(NoRows, {})
    BY <1>1, WrittenTidy, IdleCall
  <2>2. call[Daemon] = Idle /\ file.rows = NoRows
    BY <1>1, StoreAssumption DEF Torn
  <2>3. AllTidy(db, file, cut, call[Daemon])
    BY <1>1, <2>1, <2>2, IdleCall DEF AllTidy
  <2> QED
    BY <2>3 DEF TidyInv
<1> QED
  BY <1>2, <1>3, <1>4, <1>5 DEF StoreInv

LEMMA StoreNext == StoreInv /\ [Next]_vars => StoreInv'
<1> SUFFICES ASSUME StoreInv, [Next]_vars PROVE StoreInv'
  OBVIOUS
<1>1. CASE UNCHANGED vars
  BY <1>1
  DEF vars, StoreInv, TypeInv, TypeOK, BootInv, WatchInv, TidyInv, Bracketed, AllTidy, Tidy,
      Deleting, Watches
<1>2. ASSUME NEW p \in Proc, NEW task \in {"init", "snapshot"}, Begin(p, task, <<>>)
      PROVE  StoreInv'
  <2>1. task \in {"init", "snapshot"} \cup ResourceTask /\ task \notin ResourceTask
        /\ <<>> \in {<<>>} \cup (Parents \X Name)
    BY DEF ResourceTask
  <2> QED
    BY <1>2, <2>1, BeginKeeps
<1>3. ASSUME NEW p \in Proc, NEW task \in ResourceTask, NEW arg \in Parents \X Name,
             Begin(p, task, arg)
      PROVE  StoreInv'
  BY <1>3, BeginKeeps
<1>4. ASSUME NEW p \in Proc, InitStore(p) PROVE StoreInv'
  BY <1>4, EndsQuietly DEF InitStore, At
<1>5. CASE Next
  <2> SUFFICES ASSUME NEW p \in Proc,
                      \/ \E task \in {"init", "snapshot"} : Begin(p, task, <<>>)
                      \/ \E task \in ResourceTask, arg \in Parents \X Name :
                           p = Daemon /\ Begin(p, task, arg)
                      \/ Bootstrap(p) \/ InitStore(p) \/ Reset(p) \/ PutParent(p)
                      \/ DeleteParent(p) \/ DeleteChildren(p) \/ CheckParent(p)
                      \/ InsertChild(p) \/ DeleteChild(p) \/ ReadTable(p)
                      \/ TruncateFile(p) \/ WriteFile(p) \/ ReadFile(p) \/ Restore(p)
                      \/ Fail(p)
               PROVE  StoreInv'
    BY <1>5 DEF Next, ResourceTask
  <2> QED
    BY <1>2, <1>3, <1>4, BootstrapKeeps, ResetKeeps, PutParentKeeps, DeleteParentKeeps,
       DeleteChildrenKeeps, CheckParentKeeps, InsertChildKeeps, DeleteChildKeeps,
       ReadTableKeeps, TruncateFileKeeps, WriteFileKeeps, ReadFileKeeps, RestoreKeeps, FailKeeps
<1> QED
  BY <1>1, <1>5

LEMMA StoreInvariant == Spec => []StoreInv
BY StoreInit, StoreNext, PTL DEF Spec

(***************************************************************************)
(* Every reachable state is well typed.  About: the documents readLocked   *)
(* and writeLocked exchange with the tables and the file.                  *)
(***************************************************************************)
THEOREM TypeCorrect == Spec => []TypeOK
<1>1. StoreInv => TypeOK
  BY DEF StoreInv, TypeInv
<1> QED
  BY <1>1, StoreInvariant, PTL

(***************************************************************************)
(* While the daemon alone uses the database, children have parents but for *)
(* deletions under way or cut short.  About: the upserts' existence        *)
(* checks, the deletes' two statements, snapshots, restores and resets.    *)
(***************************************************************************)
THEOREM ChildrenHaveParents == Spec => []NoOrphans
<1>1. StoreInv => NoOrphans
  <2> SUFFICES ASSUME StoreInv, ~shared, NEW t \in Parents, NEW n \in db[ChildrenOf[t]],
                      n \notin db[t], <<t, n>> \notin cut
               PROVE  \E p \in Proc : At(p, "deleteParent", "children") /\ call[p].arg = <<t, n>>
    BY DEF NoOrphans
  <2>1. <<t, n>> \in Deleting(call[Daemon])
    BY DEF StoreInv, TidyInv, AllTidy, Tidy
  <2>2. At(Daemon, "deleteParent", "children") /\ call[Daemon].arg = <<t, n>>
    BY <2>1 DEF Deleting, At
  <2> QED
    BY <2>2, StoreAssumption
<1> QED
  BY <1>1, StoreInvariant, PTL

-----------------------------------------------------------------------------
\* About: statements that write no row away.
LEMMA NothingLost ==
  ASSUME db \in Tables, NEW t \in Parents, NEW n \in Name, NEW u \in {t, ChildrenOf[t]},
         db' = [db EXCEPT ![u] = @ \cup {n}]
  PROVE  \A s \in Table : db[s] \subseteq db'[s]
BY PairsOfTables DEF Tables

\* What may be lost by a step of the daemon alone.
Asked(p) ==
  Reset(p) \/ Restore(p) \/ DeleteParent(p) \/ DeleteChildren(p) \/ DeleteChild(p)

LEMMA OnlyAskedLoses ==
  ASSUME StoreInv, Next, ~shared', \E t \in Table : db[t] \ db'[t] # {}
  PROVE  \E p \in Proc : Asked(p)
<1>1. db \in Tables /\ \A p \in Proc : call[p] \in Call /\ CallFits(call[p])
  BY DEF StoreInv, TypeInv, TypeOK
<1>2. SUFFICES ASSUME \A p \in Proc : ~Asked(p) PROVE FALSE
  OBVIOUS
<1>3. ~(db' = db) /\ ~(\A t \in Table : db[t] \subseteq db'[t])
  OBVIOUS
<1>4. ASSUME NEW p \in Proc, NEW c, Goes(p, c, db) PROVE FALSE
  BY <1>3, <1>4 DEF Goes, Steps
<1>5. ASSUME NEW p \in Proc, Fail(p) PROVE FALSE
  BY <1>3, <1>5 DEF Fail, Steps
<1>6. ASSUME NEW p \in Proc, Bootstrap(p) PROVE FALSE
  <2>1. call[p].step = "bootstrap" /\ db' = Written(NoRows) /\ shared' = (shared \/ p # Daemon)
    BY <1>6 DEF Bootstrap, Goes, Steps
  <2>2. p = Daemon /\ ~shared
    BY <2>1
  <2>3. db = NoRows
    BY <2>1, <2>2 DEF StoreInv, BootInv
  <2> QED
    BY <1>1, <1>3, <2>1, <2>3, WrittenTidy, IdleCall
<1>7. ASSUME NEW p \in Proc, PutParent(p) PROVE FALSE
  <2>1. /\ call[p].task = "putParent"
        /\ db' = [db EXCEPT ![call[p].arg[1]] = @ \cup {call[p].arg[2]}]
    BY <1>7 DEF PutParent, At, Goes, Steps
  <2>2. call[p].arg[1] \in Parents /\ call[p].arg[2] \in Name
    BY <1>1, <2>1 DEF CallFits, ResourceTask
  <2> QED
    BY <1>1, <1>3, <2>1, <2>2, NothingLost
<1>8. ASSUME NEW p \in Proc, InsertChild(p) PROVE FALSE
  <2>1. /\ call[p].task = "putChild"
        /\ db' = [db EXCEPT ![ChildrenOf[call[p].arg[1]]] = @ \cup {call[p].arg[2]}]
    BY <1>8 DEF InsertChild, At, Goes, Steps
  <2>2. call[p].arg[1] \in Parents /\ call[p].arg[2] \in Name
    BY <1>1, <2>1 DEF CallFits, ResourceTask
  <2> QED
    BY <1>1, <1>3, <2>1, <2>2, NothingLost
<1>9. ASSUME NEW p \in Proc, NEW task, NEW arg, Begin(p, task, arg) PROVE FALSE
  BY <1>4, <1>9 DEF Begin
<1>10. ASSUME NEW p \in Proc,
              \/ InitStore(p) \/ CheckParent(p) \/ ReadTable(p) \/ TruncateFile(p)
              \/ WriteFile(p) \/ ReadFile(p)
       PROVE  FALSE
  BY <1>4, <1>10 DEF InitStore, CheckParent, ReadTable, TruncateFile, WriteFile, ReadFile
<1> QED
  BY <1>2, <1>5, <1>6, <1>7, <1>8, <1>9, <1>10 DEF Next, Asked

(***************************************************************************)
(* While the daemon alone uses the database, a row disappears only because *)
(* its deletion, a reset or a restore was asked for.  About: the empty     *)
(* document of ensureDocumentLocked, written over an empty database only.  *)
(***************************************************************************)
THEOREM OnlyRequestsDelete == Spec => NothingLostUnasked
<1>1. StoreInv /\ [Next]_vars =>
        [~shared' /\ (\E t \in Table : db[t] \ db'[t] # {}) =>
           \E p \in Proc : \/ Reset(p) \/ Restore(p)
                           \/ DeleteParent(p) \/ DeleteChildren(p) \/ DeleteChild(p)]_vars
  BY OnlyAskedLoses DEF Asked
<1> QED
  BY <1>1, StoreInvariant, PTL DEF Spec, NothingLostUnasked

-----------------------------------------------------------------------------
\* About: what readLocked has collected when the file is truncated.
LEMMA SavedRows ==
  ASSUME StoreInv, NEW p \in Proc, NEW t \in Cleared, TruncateFile(p)
  PROVE  call[p].kept[t] \subseteq call[p].rows[t] /\ call[p].rows[t] \subseteq call[p].met[t]
<1>1. Watches(call[p]) /\ call[p].next > Len(ReadOrder)
  BY DEF TruncateFile, At, Watches
<1>2. call[p].next \in 1 .. (Len(ReadOrder) + 1)
  BY DEF StoreInv, TypeInv, TypeOK, Call
<1>3. t \in ReadSoFar(call[p].next)
  BY <1>1, <1>2, TablesRead, ClearedTables
<1> QED
  BY <1>1, <1>3 DEF StoreInv, WatchInv, Bracketed

\* About: what writeLocked leaves in the tables it clears.
LEMMA RestoredRows ==
  ASSUME StoreInv, NEW p \in Proc, NEW t \in Cleared, Restore(p), ~Conflict(call[p].rows)
  PROVE  db'[t] = call[p].rows[t]
<1>1. db \in Tables /\ call[p].rows \in Tables
  BY DEF StoreInv, TypeInv, TypeOK, Call
<1>2. db' = Written(call[p].rows)
  BY DEF Restore, Goes, Steps
<1> QED
  BY <1>1, <1>2, WrittenTidy

(***************************************************************************)
(* What a snapshot saves of the tables a restore clears lies between what  *)
(* was there all the time and what was there at some time, and a restore   *)
(* brings back exactly that, whatever other processes do.  About:          *)
(* readLocked, os.WriteFile and writeLocked.                               *)
(***************************************************************************)
THEOREM SnapshotsBracket == Spec => RestoreBracketed
<1>1. StoreInv /\ [Next]_vars =>
        [\A p \in Proc : \A t \in Cleared :
           /\ TruncateFile(p) => /\ call[p].kept[t] \subseteq call[p].rows[t]
                                 /\ call[p].rows[t] \subseteq call[p].met[t]
           /\ Restore(p) /\ ~Conflict(call[p].rows) => db'[t] = call[p].rows[t]]_vars
  BY SavedRows, RestoredRows
<1> QED
  BY <1>1, StoreInvariant, PTL DEF Spec, RestoreBracketed

=============================================================================
