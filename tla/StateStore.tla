----------------------------- MODULE StateStore -----------------------------
(***************************************************************************)
(* The store as a whole: one SQLite database and one snapshot file, used   *)
(* by the daemon and by the tinycloud CLI, whose init, reset, snapshot and *)
(* seed commands open the same database from a process of their own.       *)
(*                                                                         *)
(* A Store's mutex serialises the calls of one process.  Between processes *)
(* there is only SQLite: every statement commits by itself, except those   *)
(* of writeLocked, which are one transaction.  So a process runs one call  *)
(* at a time, a step here is a statement (or a file operation), and the    *)
(* steps of two processes interleave.                                      *)
(*                                                                         *)
(* Two pairs of tables stand for the store's thirty: a parent table and    *)
(* its children, whose rows are created under an existing parent and       *)
(* deleted after it.  virtual_networks and subnets are treated by          *)
(* writeLocked as all others are; network_security_groups and              *)
(* network_security_rules are the two it does not clear.                   *)
(***************************************************************************)
EXTENDS Naturals, Sequences, FiniteSets, Functions

CONSTANTS
  Parents,   \* the parent tables, see ChildrenOf
  Name,      \* names of parents; a child is named by its parent
  Proc,      \* processes that have the database open
  Daemon,    \* the one that serves the resource APIs
  MayFail    \* TRUE: statements may fail and processes may be killed

ChildrenOf == [virtual_networks        |-> "subnets",
               network_security_groups |-> "network_security_rules"]

ASSUME StoreAssumption ==
  /\ Parents \subseteq DOMAIN ChildrenOf
  /\ Daemon \in Proc
  /\ MayFail \in BOOLEAN

VARIABLES
  db,            \* table |-> the rows it holds
  initialised,   \* metadata holds a version
  file,          \* the snapshot file
  call,          \* process |-> its call in progress
  cut,           \* history: names of parents whose deletion was cut short
  shared         \* history: another process than the daemon has used the store

vars == <<db, initialised, file, call, cut, shared>>

Table == Parents \cup {ChildrenOf[t] : t \in Parents}

Tables == [Table -> SUBSET Name]

NoRows == [t \in Table |-> {}]

\* Faulty variant: readLocked forgets a table.
ReadOrderShort ==
  (IF "virtual_networks" \in Parents THEN <<"virtual_networks">> ELSE <<>>) \o
  (IF "network_security_groups" \in Parents
   THEN <<"network_security_groups", "network_security_rules">> ELSE <<>>)

\* The order of readLocked's SELECTs: parents first.
ReadOrder ==
  LET Pair(t) == IF t \in Parents THEN <<t, ChildrenOf[t]>> ELSE <<>>
  IN  Pair("virtual_networks") \o Pair("network_security_groups")

\* Faulty variant: writeLocked forgets the children.
ClearedParents == Table \cap {"virtual_networks"}

\* The tables writeLocked starts by deleting from.
Cleared == Table \cap {"virtual_networks", "subnets"}

-----------------------------------------------------------------------------
(***************************************************************************)
(* A call: its task, its next step, its argument, and the document that a  *)
(* snapshot has read so far or a restore is about to write.  kept and met  *)
(* are history: the rows that were in the cleared tables all the time a    *)
(* snapshot has been reading, and those that were there at any time of it. *)
(***************************************************************************)
Unwatched == [t \in Cleared |-> {}]

Idle == [task |-> "none", step |-> "idle", arg |-> <<>>, next |-> 1,
         rows |-> NoRows, kept |-> Unwatched, met |-> Unwatched]

Call == [task : {"none", "init", "putParent", "deleteParent", "putChild",
                 "deleteChild", "snapshot", "restore"},
         step : {"idle", "bootstrap", "run", "insert", "children", "write"},
         arg  : {<<>>} \cup (Parents \X Name),
         next : 1 .. (Len(ReadOrder) + 1),
         rows : Tables,
         kept : [Cleared -> SUBSET Name],
         met  : [Cleared -> SUBSET Name]]

\* A missing or truncated file: Restore cannot parse it.
Torn == [whole |-> FALSE, rows |-> NoRows]

Init ==
  /\ db = NoRows
  /\ initialised = FALSE
  /\ file = Torn
  /\ call = [p \in Proc |-> Idle]
  /\ cut = {}
  /\ shared = FALSE

At(p, task, step) == call[p].task = task /\ call[p].step = step

\* What the tables hold meanwhile, for a snapshot being read.
Watched(c, rows) ==
  IF c.task = "snapshot" /\ c.step = "run"
  THEN [c EXCEPT !.kept = [t \in Cleared |-> @[t] \cap rows[t]],
                 !.met  = [t \in Cleared |-> @[t] \cup rows[t]]]
  ELSE c

\* A step of p: its call becomes c and the database holds rows.  The
\* deletions cut short are remembered while the daemon is alone.
Steps(p, c, rows, cuts) ==
  /\ db' = rows
  /\ call' = [q \in Proc |-> IF q = p THEN c ELSE Watched(call[q], rows)]
  /\ shared' = (shared \/ p # Daemon)
  /\ cut' = IF shared' THEN {} ELSE cuts

Goes(p, c, rows) == Steps(p, c, rows, cut)

\* The call of a task once the document is known to exist: a snapshot
\* begins to read what the database holds then.
Running(task, arg, held) ==
  [Idle EXCEPT !.task = task, !.step = "run", !.arg = arg,
               !.kept = IF task = "snapshot" THEN Restrict(held, Cleared) ELSE @,
               !.met  = IF task = "snapshot" THEN Restrict(held, Cleared) ELSE @]

-----------------------------------------------------------------------------
(***************************************************************************)
(* writeLocked, one transaction: DELETE FROM the cleared tables, INSERT    *)
(* the document's rows.  An INSERT of a row that was not cleared fails on  *)
(* its primary key and rolls everything back.                              *)
(***************************************************************************)
Conflict(rows) == \E t \in Table \ Cleared : db[t] \cap rows[t] # {}

Written(rows) ==
  [t \in Table |-> IF t \in Cleared THEN rows[t] ELSE db[t] \cup rows[t]]

(***************************************************************************)
(* Every method but Reset and Restore begins with ensureDocumentLocked: it *)
(* reads the version and, if there is none, writes an empty document.      *)
(***************************************************************************)
Begin(p, task, arg) ==
  /\ call[p] = Idle
  /\ Goes(p, IF initialised THEN Running(task, arg, db)
             ELSE [Running(task, arg, NoRows) EXCEPT !.step = "bootstrap"], db)
  /\ UNCHANGED <<initialised, file>>

\* Faulty variant: the version is not written.
BootstrapUnversioned(p) ==
  /\ call[p].step = "bootstrap"
  /\ Goes(p, Running(call[p].task, call[p].arg, Written(NoRows)), Written(NoRows))
  /\ UNCHANGED <<initialised, file>>

Bootstrap(p) ==
  /\ call[p].step = "bootstrap"
  /\ Goes(p, Running(call[p].task, call[p].arg, Written(NoRows)), Written(NoRows))
  /\ initialised' = TRUE
  /\ UNCHANGED file

InitStore(p) ==
  /\ At(p, "init", "run")
  /\ Goes(p, Idle, db)
  /\ UNCHANGED <<initialised, file>>

Reset(p) ==
  /\ call[p] = Idle
  /\ Goes(p, Idle, Written(NoRows))
  /\ initialised' = TRUE
  /\ UNCHANGED file

-----------------------------------------------------------------------------
(***************************************************************************)
(* Resources.  A parent is written by an upsert.                           *)
(***************************************************************************)
PutParent(p) ==
  /\ At(p, "putParent", "run")
  /\ LET t == call[p].arg[1]  n == call[p].arg[2]
     IN  Goes(p, Idle, [db EXCEPT ![t] = @ \cup {n}])
  /\ UNCHANGED <<initialised, file>>

\* Deletes the parent (404 if there is none), then its children.
DeleteParent(p) ==
  /\ At(p, "deleteParent", "run")
  /\ LET t == call[p].arg[1]  n == call[p].arg[2]
     IN  IF n \in db[t]
         THEN Goes(p, [call[p] EXCEPT !.step = "children"], [db EXCEPT ![t] = @ \ {n}])
         ELSE Goes(p, Idle, db)
  /\ UNCHANGED <<initialised, file>>

DeleteChildren(p) ==
  /\ At(p, "deleteParent", "children")
  /\ LET t == ChildrenOf[call[p].arg[1]]  n == call[p].arg[2]
     IN  Goes(p, Idle, [db EXCEPT ![t] = @ \ {n}])
  /\ UNCHANGED <<initialised, file>>

\* SELECT EXISTS of the parent (404 if there is none), then the upsert.
CheckParent(p) ==
  /\ At(p, "putChild", "run")
  /\ LET t == call[p].arg[1]  n == call[p].arg[2]
     IN  Goes(p, IF n \in db[t] THEN [call[p] EXCEPT !.step = "insert"] ELSE Idle, db)
  /\ UNCHANGED <<initialised, file>>

\* Faulty variant: the row is filed under its whole path.
InsertChildByPair(p) ==
  /\ At(p, "putChild", "insert")
  /\ LET t == ChildrenOf[call[p].arg[1]]
     IN  Goes(p, Idle, [db EXCEPT ![t] = @ \cup {call[p].arg}])
  /\ UNCHANGED <<initialised, file>>

InsertChild(p) ==
  /\ At(p, "putChild", "insert")
  /\ LET t == ChildrenOf[call[p].arg[1]]  n == call[p].arg[2]
     IN  Goes(p, Idle, [db EXCEPT ![t] = @ \cup {n}])
  /\ UNCHANGED <<initialised, file>>

DeleteChild(p) ==
  /\ At(p, "deleteChild", "run")
  /\ LET t == ChildrenOf[call[p].arg[1]]  n == call[p].arg[2]
     IN  Goes(p, Idle, [db EXCEPT ![t] = @ \ {n}])
  /\ UNCHANGED <<initialised, file>>

-----------------------------------------------------------------------------
(***************************************************************************)
(* Snapshot: one SELECT per table, then the file is truncated and written. *)
(***************************************************************************)
ReadTable(p) ==
  /\ At(p, "snapshot", "run")
  /\ call[p].next <= Len(ReadOrder)
  /\ LET t == ReadOrder[call[p].next]
     IN  Goes(p, [call[p] EXCEPT !.rows[t] = db[t], !.next = @ + 1], db)
  /\ UNCHANGED <<initialised, file>>

TruncateFile(p) ==
  /\ At(p, "snapshot", "run")
  /\ call[p].next > Len(ReadOrder)
  /\ Goes(p, [call[p] EXCEPT !.step = "write", !.kept = Unwatched, !.met = Unwatched], db)
  /\ file' = Torn
  /\ UNCHANGED initialised

\* If another process has written the file since it was truncated, the tail
\* of a longer document stays behind.
WriteFile(p) ==
  /\ At(p, "snapshot", "write")
  /\ Goes(p, Idle, db)
  /\ file' \in {[whole |-> TRUE, rows |-> call[p].rows]} \cup (IF file.whole THEN {Torn} ELSE {})
  /\ UNCHANGED initialised

(***************************************************************************)
(* Restore reads and parses the file before it opens the database; a file  *)
(* it cannot parse changes nothing.                                        *)
(***************************************************************************)
ReadFile(p) ==
  /\ call[p] = Idle
  /\ file.whole
  /\ Goes(p, [Running("restore", <<>>, db) EXCEPT !.rows = file.rows], db)
  /\ UNCHANGED <<initialised, file>>

Restore(p) ==
  /\ At(p, "restore", "run")
  /\ LET rows == call[p].rows
     IN  IF Conflict(rows)
         THEN Goes(p, Idle, db) /\ UNCHANGED initialised
         ELSE Goes(p, Idle, Written(rows)) /\ initialised' = TRUE
  /\ UNCHANGED file

(***************************************************************************)
(* The next statement of p's call fails (a database locked by the other    *)
(* process, a full disk), or p is killed: what was committed stays.        *)
(***************************************************************************)
Fail(p) ==
  /\ MayFail
  /\ call[p] # Idle
  /\ Steps(p, Idle, db,
           IF call[p].step = "children" THEN cut \cup {call[p].arg} ELSE cut)
  /\ UNCHANGED <<initialised, file>>

Next ==
  \E p \in Proc :
    \/ \E task \in {"init", "snapshot"} : Begin(p, task, <<>>)
    \/ \E task \in {"putParent", "deleteParent", "putChild", "deleteChild"},
          arg \in Parents \X Name : p = Daemon /\ Begin(p, task, arg)
    \/ Bootstrap(p)
    \/ InitStore(p)
    \/ Reset(p)
    \/ PutParent(p)
    \/ DeleteParent(p)
    \/ DeleteChildren(p)
    \/ CheckParent(p)
    \/ InsertChild(p)
    \/ DeleteChild(p)
    \/ ReadTable(p)
    \/ TruncateFile(p)
    \/ WriteFile(p)
    \/ ReadFile(p)
    \/ Restore(p)
    \/ Fail(p)

Spec == Init /\ [][Next]_vars

-----------------------------------------------------------------------------
TypeOK ==
  /\ db \in Tables
  /\ initialised \in BOOLEAN
  /\ file \in [whole : BOOLEAN, rows : Tables]
  /\ call \in [Proc -> Call]
  /\ cut \subseteq Parents \X Name
  /\ shared \in BOOLEAN

(***************************************************************************)
(* As long as the daemon alone uses the database, a child has a parent,    *)
(* unless the deletion of its parent was cut between its two statements.   *)
(* Snapshots, restores and resets in between change nothing about that.    *)
(* Code: the existence checks of the upserts, the two statements of the    *)
(* deletes, and the list of tables writeLocked clears.                     *)
(***************************************************************************)
NoOrphans ==
  \A t \in Parents : \A n \in db[ChildrenOf[t]] :
    \/ n \in db[t]
    \/ shared
    \/ <<t, n>> \in cut
    \/ \E p \in Proc : At(p, "deleteParent", "children") /\ call[p].arg = <<t, n>>

(***************************************************************************)
(* As long as the daemon alone uses the database, a row disappears only    *)
(* because its deletion, a reset or a restore was asked for: no put, read, *)
(* snapshot or first use of the store removes anything.  Code:             *)
(* ensureDocumentLocked, which writes an empty document before a method    *)
(* runs.                                                                   *)
(***************************************************************************)
NothingLostUnasked ==
  [][~shared' /\ (\E t \in Table : db[t] \ db'[t] # {}) =>
       \E p \in Proc : \/ Reset(p) \/ Restore(p)
                       \/ DeleteParent(p) \/ DeleteChildren(p) \/ DeleteChild(p)]_vars

(***************************************************************************)
(* A snapshot saves, of the tables a restore clears, every row that was in *)
(* the database all the time it was reading, and no row that was not there *)
(* at some time of it; a restore that succeeds leaves in them exactly the  *)
(* rows saved; whatever another process does.  With one process these are  *)
(* the rows of that time.  Code: readLocked, os.WriteFile and writeLocked  *)
(* agree on the tables and on the file.                                    *)
(***************************************************************************)
RestoreBracketed ==
  [][\A p \in Proc : \A t \in Cleared :
       /\ TruncateFile(p) => /\ call[p].kept[t] \subseteq call[p].rows[t]
                             /\ call[p].rows[t] \subseteq call[p].met[t]
       /\ Restore(p) /\ ~Conflict(call[p].rows) => db'[t] = call[p].rows[t]]_vars

-----------------------------------------------------------------------------
(***************************************************************************)
(* What azure/examples/terraform/resource-group/README.md:43 says of the   *)
(* reset that tinyterraform init runs: no stale resource survives it.      *)
(* writeLocked does not clear the two tables of network security groups.   *)
(***************************************************************************)
ResetEmptiesStore ==
  [][\A p \in Proc : Reset(p) => db' = NoRows]_vars

=============================================================================
