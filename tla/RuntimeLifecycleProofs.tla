----------------------- MODULE RuntimeLifecycleProofs -----------------------
(***************************************************************************)
(* Unless commands overlap or have lost hold of a daemon, none runs that   *)
(* the record does not name, and a start that reports a runtime is right,  *)
(* for any number of shells, starts, cuts and failures.                    *)
(***************************************************************************)
EXTENDS RuntimeLifecycle, FiniteSetTheorems, TLAPS

Look == <<"look">>
Stop == <<"stop">>
Start == <<"start">>
Attach == <<"attach">>
Restart == <<"look", "stop", "start">>
Rest == <<"stop", "start">>

Todos == {<<>>, Look, Stop, Start, Attach, Restart, Rest}

Places == {"idle", "check", "unlink stale", "spawn", "truncate", "write",
           "health", "attached", "kill", "forget"}

ShellStates == [at : Places, todo : Todos, pid : {0} \union Pids]

Types ==
  /\ record \in Records
  /\ daemon \in [Pids -> DaemonStates]
  /\ shell \in [Shells -> ShellStates]
  /\ lost \subseteq Pids /\ overlap \in BOOLEAN
  /\ cuts \in 0..MaxCut

(* What a command has yet to do, and the process it has to do with, go     *)
(* with the place it is at.                                                *)
Fitting(x) ==
  /\ x.at = "idle" <=> x.todo = <<>>
  /\ x.at \in {"spawn", "truncate", "write"} => x.todo \in {Start, Attach}
  /\ x.at = "health" => x.todo = Start
  /\ x.at = "attached" => x.todo = Attach
  /\ x.at = "kill" => x.todo \in {Stop, Rest}
  /\ x.at = "forget" => x.todo \in {Start, Attach, Stop, Rest}
  /\ x.at \in {"truncate", "write", "health", "attached", "kill"} => x.pid \in Pids

ShellsFit == \A s \in Shells : Fitting(shell[s])

-----------------------------------------------------------------------------
LEMMA TodosApart ==
  /\ Look # <<>> /\ Stop # <<>> /\ Start # <<>> /\ Attach # <<>>
  /\ Restart # <<>> /\ Rest # <<>>
  /\ Head(Look) = "look" /\ Head(Stop) = "stop" /\ Head(Start) = "start"
  /\ Head(Attach) = "attach" /\ Head(Restart) = "look" /\ Head(Rest) = "stop"
  /\ Len(Look) = 1 /\ Len(Stop) = 1 /\ Len(Start) = 1 /\ Len(Attach) = 1
  /\ Len(Restart) = 3 /\ Len(Rest) = 2
  /\ Tail(Restart) = Rest /\ Tail(Rest) = Start
BY DEF Look, Stop, Start, Attach, Restart, Rest

LEMMA PlansAre ==
  /\ Commands = {"status", "stop", "start", "attach", "restart"}
  /\ Plans["status"] = Look /\ Plans["stop"] = Stop /\ Plans["start"] = Start
  /\ Plans["attach"] = Attach /\ Plans["restart"] = Restart
BY DEF Plans, Commands, Look, Stop, Start, Attach, Restart

LEMMA RecordWhole ==
  ASSUME record \in Records, record.state = "whole"
  PROVE  record.pid \in Pids /\ record = Whole(record.pid)
BY DEF Records, Absent, Torn, Whole

LEMMA Turning ==
  ASSUME Types,
         NEW s \in Shells, NEW a \in Places, NEW t \in Todos, NEW p \in {0} \union Pids,
         Turn(s, a, t, p)
  PROVE  /\ shell' \in [Shells -> ShellStates]
         /\ shell'[s] = [at |-> a, todo |-> t, pid |-> p]
         /\ \A q \in Shells : q # s => shell'[q] = shell[q]
BY DEF Types, ShellStates, Turn

LEMMA Finishing ==
  ASSUME NEW s, Finish(s)
  PROVE  Turn(s, "idle", <<>>, 0)
BY DEF Finish, Idle, Turn

LEMMA Proceeding ==
  ASSUME Types, NEW s \in Shells, shell[s].todo # <<>>, Proceed(s)
  PROVE  \/ shell[s].todo \in {Look, Stop, Start, Attach} /\ Turn(s, "idle", <<>>, 0)
         \/ shell[s].todo = Restart /\ Turn(s, "check", Rest, shell[s].pid)
         \/ shell[s].todo = Rest /\ Turn(s, "check", Start, shell[s].pid)
<1>1. shell[s].todo \in Todos
  BY DEF Types, ShellStates
<1>2. CASE shell[s].todo \in {Look, Stop, Start, Attach}
  BY <1>2, Finishing, TodosApart DEF Proceed
<1>3. CASE shell[s].todo = Restart
  <2>1. Check(s, Tail(shell[s].todo)) /\ Tail(shell[s].todo) = Rest
    BY <1>3, TodosApart DEF Proceed
  <2> QED
    BY <1>3, <2>1 DEF Check, Turn
<1>4. CASE shell[s].todo = Rest
  BY <1>4, TodosApart DEF Proceed, Check, Turn
<1> QED
  BY <1>1, <1>2, <1>3, <1>4 DEF Todos

-----------------------------------------------------------------------------
(* What the steps of a command that go different ways do to its shell. *)

LEMMA CheckNoRecordTurns ==
  ASSUME Types, ShellsFit, NEW s \in Shells, CheckNoRecord(s)
  PROVE  /\ shell[s].at = "check" /\ record \in {Absent, Torn}
         /\ UNCHANGED <<record, daemon, starts, cuts, lost, overlap>>
         /\ \/ shell[s].todo \in {Start, Attach}
                 /\ Turn(s, "spawn", shell[s].todo, shell[s].pid)
            \/ shell[s].todo \in {Restart, Rest} /\ Turn(s, "check", Start, shell[s].pid)
            \/ Turn(s, "idle", <<>>, 0)
<1>1. /\ shell[s].at = "check" /\ record \in {Absent, Torn}
      /\ UNCHANGED <<record, daemon, starts, cuts, lost, overlap>>
  BY DEF CheckNoRecord, At
<1>2. shell[s].todo \in Todos \ {<<>>}
  BY <1>1 DEF Types, ShellStates, ShellsFit, Fitting
<1>3. CASE Starting(s) /\ (Goto(s, "spawn") \/ WithoutRuntime(s))
  <2>1. Goto(s, "spawn")
    BY <1>3, PlansAre, TodosApart DEF WithoutRuntime, Starting, Doing
  <2> QED
    BY <1>1, <1>2, <1>3, <2>1, TodosApart DEF Starting, Doing, Goto, Todos
<1>4. CASE Finish(s)
  BY <1>1, <1>4, Finishing
<1>5. CASE ~Starting(s) /\ WithoutRuntime(s)
  <2>1. CASE shell[s].todo = Restart
    BY <1>1, <1>5, <2>1, PlansAre DEF WithoutRuntime, Check
  <2>2. CASE shell[s].todo # Restart
    <3>1. Proceed(s)
      BY <1>5, <2>2, PlansAre DEF WithoutRuntime
    <3> QED
      BY <1>1, <1>2, <2>2, <3>1, Proceeding
  <2> QED
    BY <2>1, <2>2
<1> QED
  BY <1>3, <1>4, <1>5 DEF CheckNoRecord

LEMMA CheckActiveTurns ==
  ASSUME Types, ShellsFit, NEW s \in Shells, CheckActive(s)
  PROVE  /\ shell[s].at = "check" /\ record.pid \in Pids /\ record = Whole(record.pid)
         /\ UNCHANGED <<record, daemon, starts, cuts, lost, overlap>>
         /\ \/ shell[s].todo \in {Stop, Rest} /\ Turn(s, "kill", shell[s].todo, record.pid)
            \/ shell[s].todo = Restart /\ Turn(s, "check", Rest, shell[s].pid)
            \/ Turn(s, "idle", <<>>, 0)
<1>1. /\ shell[s].at = "check" /\ record.state = "whole"
      /\ UNCHANGED <<record, daemon, starts, cuts, lost, overlap>>
  BY DEF CheckActive, At
<1>2. shell[s].todo \in Todos \ {<<>>}
  BY <1>1 DEF Types, ShellStates, ShellsFit, Fitting
<1>3. record.pid \in Pids /\ record = Whole(record.pid)
  BY <1>1, RecordWhole DEF Types
<1>4. CASE Finish(s)
  BY <1>1, <1>3, <1>4, Finishing
<1>5. CASE Doing(s, "stop") /\ Turn(s, "kill", shell[s].todo, record.pid)
  BY <1>1, <1>2, <1>3, <1>5, TodosApart DEF Doing, Todos
<1>6. CASE Doing(s, "look") /\ Proceed(s)
  <2>1. shell[s].todo \in {Look, Restart}
    BY <1>2, <1>6, TodosApart DEF Doing, Todos
  <2> QED
    BY <1>1, <1>2, <1>3, <1>6, <2>1, Proceeding, TodosApart
<1> QED
  BY <1>4, <1>5, <1>6 DEF CheckActive

LEMMA CheckUnreadableTurns ==
  ASSUME Types, ShellsFit, NEW s \in Shells, CheckUnreadable(s)
  PROVE  /\ shell[s].at = "check" /\ record.pid \in Pids /\ record = Whole(record.pid)
         /\ UNCHANGED <<record, daemon, starts, cuts, overlap>>
         /\ \/ Turn(s, "idle", <<>>, 0) /\ (UNCHANGED lost \/ Lose(record.pid))
            \/ /\ shell[s].todo \in {Start, Attach} /\ Lose(record.pid)
               /\ Turn(s, "spawn", shell[s].todo, shell[s].pid)
         /\ shell[s].todo = Stop => Turn(s, "idle", <<>>, 0) /\ Lose(record.pid)
<1>1. /\ shell[s].at = "check" /\ record.state = "whole"
      /\ UNCHANGED <<record, daemon, starts, cuts, overlap>>
  BY DEF CheckUnreadable, At
<1>2. shell[s].todo \in Todos \ {<<>>}
  BY <1>1 DEF Types, ShellStates, ShellsFit, Fitting
<1>3. record.pid \in Pids /\ record = Whole(record.pid)
  BY <1>1, RecordWhole DEF Types
<1>4. CASE Doing(s, "look") /\ Finish(s) /\ UNCHANGED lost
  BY <1>1, <1>3, <1>4, Finishing, TodosApart DEF Doing
<1>5. CASE Doing(s, "stop") /\ Finish(s) /\ Lose(record.pid)
  BY <1>1, <1>3, <1>5, Finishing
<1>6. CASE Starting(s) /\ Goto(s, "spawn") /\ Lose(record.pid)
  <2>1. shell[s].todo \in {Start, Attach}
    BY <1>2, <1>6, TodosApart DEF Starting, Doing, Todos
  <2>2. shell[s].todo # Stop
    BY <2>1 DEF Start, Attach, Stop
  <2> QED
    BY <1>1, <1>3, <1>6, <2>1, <2>2 DEF Goto
<1> QED
  BY <1>4, <1>5, <1>6 DEF CheckUnreadable

LEMMA UnlinkStaleTurns ==
  ASSUME Types, ShellsFit, NEW s \in Shells, UnlinkStale(s)
  PROVE  /\ shell[s].at = "unlink stale" /\ record' \in {Absent, record}
         /\ UNCHANGED <<daemon, starts, cuts, lost, overlap>>
         /\ \/ shell[s].todo \in {Start, Attach}
                 /\ Turn(s, "spawn", shell[s].todo, shell[s].pid)
            \/ shell[s].todo \in {Restart, Rest} /\ Turn(s, "check", Start, shell[s].pid)
            \/ Turn(s, "idle", <<>>, 0)
<1>1. /\ shell[s].at = "unlink stale" /\ record' \in {Absent, record}
      /\ UNCHANGED <<daemon, starts, cuts, lost, overlap>>
  BY DEF UnlinkStale, At
<1>2. shell[s].todo \in Todos \ {<<>>}
  BY <1>1 DEF Types, ShellStates, ShellsFit, Fitting
<1>3. CASE Starting(s) /\ Goto(s, "spawn")
  BY <1>1, <1>2, <1>3, TodosApart DEF Starting, Doing, Goto, Todos
<1>4. CASE shell[s].todo = Restart /\ Check(s, Start)
  BY <1>1, <1>4 DEF Check
<1>5. CASE shell[s].todo # Restart /\ Proceed(s)
  BY <1>1, <1>2, <1>5, Proceeding
<1> QED
  BY <1>3, <1>4, <1>5, PlansAre DEF UnlinkStale

LEMMA ForgetTurns ==
  ASSUME Types, ShellsFit, NEW s \in Shells, Forget(s)
  PROVE  /\ shell[s].at = "forget" /\ record' \in {Absent, record}
         /\ UNCHANGED <<daemon, starts, cuts, lost, overlap>>
         /\ \/ shell[s].todo = Rest /\ Turn(s, "check", Start, shell[s].pid)
            \/ Turn(s, "idle", <<>>, 0)
<1>1. /\ shell[s].at = "forget" /\ record' \in {Absent, record}
      /\ Proceed(s) \/ Finish(s)
      /\ UNCHANGED <<daemon, starts, cuts, lost, overlap>>
  BY DEF Forget, At
<1>2. shell[s].todo \in {Start, Attach, Stop, Rest}
  BY <1>1 DEF ShellsFit, Fitting
<1>3. CASE Proceed(s)
  BY <1>1, <1>2, <1>3, Proceeding, TodosApart DEF Restart, Start, Attach, Stop, Rest
<1> QED
  BY <1>1, <1>3, Finishing

-----------------------------------------------------------------------------
(* The command of x is still to start a daemon. *)
ToSpawn(x) ==
  \/ x.todo \in {Restart, Rest}
  \/ x.todo \in {Start, Attach} /\ x.at \in {"check", "unlink stale", "spawn"}

Pending == {s \in Shells : ToSpawn(shell[s])}

(* There is a process id for every start that is still to spawn: those     *)
(* given are the first ones, one at most per start.                        *)
Spawned(k) == k \in Nat /\ \A pid \in Pids : daemon[pid] = "none" <=> pid > k

SpawnsInv ==
  /\ starts \in 0..MaxStart
  /\ IsFiniteSet(Pending)
  /\ \E k \in Nat : Spawned(k) /\ k + Cardinality(Pending) <= starts

(* A step that starts no daemon, and lets no command come nearer to that.  *)
Tame ==
  /\ Types' /\ ShellsFit' /\ starts' = starts
  /\ \A s \in Shells : ToSpawn(shell'[s]) => ToSpawn(shell[s])
  /\ \A pid \in Pids : daemon'[pid] = "none" <=> daemon[pid] = "none"

LEMMA SpawnsKept ==
  ASSUME SpawnsInv, Tame
  PROVE  SpawnsInv'
<1>1. Pending' \subseteq Pending
  BY DEF Pending, Tame
<1>2. IsFiniteSet(Pending') /\ Cardinality(Pending') <= Cardinality(Pending)
  BY <1>1, FS_Subset DEF SpawnsInv
<1>3. Cardinality(Pending') \in Nat /\ Cardinality(Pending) \in Nat
  BY <1>2, FS_CardinalityType DEF SpawnsInv
<1>4. PICK k \in Nat : Spawned(k) /\ k + Cardinality(Pending) <= starts
  BY DEF SpawnsInv
<1>5. Spawned(k)'
  BY <1>4 DEF Spawned, Tame
<1>6. k + Cardinality(Pending') <= starts' /\ starts' \in 0..MaxStart
  BY <1>2, <1>3, <1>4 DEF SpawnsInv, Tame
<1> QED
  BY <1>2, <1>5, <1>6 DEF SpawnsInv

LEMMA NextPidThere ==
  ASSUME SpawnsInv, LifecycleAssumption, NEW s \in Pending
  PROVE  \E k \in Nat : /\ Spawned(k) /\ NextPid = k + 1 /\ k + 1 \in Pids
                        /\ k + Cardinality(Pending) <= starts
<1>1. PICK k \in Nat : Spawned(k) /\ k + Cardinality(Pending) <= starts
  BY DEF SpawnsInv
<1>2. Cardinality(Pending) \in Nat /\ Cardinality(Pending) # 0
  BY FS_CardinalityType, FS_EmptySet DEF SpawnsInv
<1>3. k + 1 \in Pids
  BY <1>1, <1>2 DEF SpawnsInv, Pids, LifecycleAssumption
<1>4. \A pid \in Pids :
        (daemon[pid] = "none" /\ \A p \in 1..(pid - 1) : daemon[p] # "none")
          <=> pid = k + 1
  <2> TAKE pid \in Pids
  <2>1. CASE pid <= k
    BY <1>1, <2>1 DEF Spawned, Pids
  <2>2. CASE pid = k + 1
    BY <1>1, <1>3, <2>2 DEF Spawned, Pids, LifecycleAssumption
  <2>3. CASE pid > k + 1
    <3>1. k + 1 \in 1..(pid - 1) /\ daemon[k + 1] = "none"
      BY <1>1, <1>3, <2>3 DEF Spawned, Pids, LifecycleAssumption
    <3> QED
      BY <2>3, <3>1 DEF Pids
  <2> QED
    BY <2>1, <2>2, <2>3 DEF Pids
<1>5. NextPid = k + 1
  BY <1>3, <1>4 DEF NextPid
<1> QED
  BY <1>1, <1>3, <1>5

LEMMA TurningTamely ==
  ASSUME Types, ShellsFit,
         NEW s \in Shells, NEW a \in Places, NEW t \in Todos, NEW p \in {0} \union Pids,
         Turn(s, a, t, p),
         Fitting([at |-> a, todo |-> t, pid |-> p]),
         ToSpawn([at |-> a, todo |-> t, pid |-> p]) => ToSpawn(shell[s])
  PROVE  /\ shell' \in [Shells -> ShellStates] /\ ShellsFit'
         /\ \A q \in Shells : ToSpawn(shell'[q]) => ToSpawn(shell[q])
<1>1. /\ shell' \in [Shells -> ShellStates]
      /\ shell'[s] = [at |-> a, todo |-> t, pid |-> p]
      /\ \A q \in Shells : q # s => shell'[q] = shell[q]
  BY Turning
<1>2. ASSUME NEW q \in Shells
      PROVE  Fitting(shell'[q]) /\ (ToSpawn(shell'[q]) => ToSpawn(shell[q]))
  <2>1. CASE q = s
    BY <1>1, <2>1, Zenon
  <2>2. CASE q # s
    BY <1>1, <2>2, Zenon DEF ShellsFit
  <2> QED
    BY <2>1, <2>2
<1> QED
  BY <1>1, <1>2 DEF ShellsFit

LEMMA Killing ==
  ASSUME Types, NEW pid \in Pids, Kill(pid)
  PROVE  /\ daemon' \in [Pids -> DaemonStates]
         /\ \A p \in Pids : daemon'[p] = "none" <=> daemon[p] = "none"
         /\ \A p \in Pids : Live(p)' => Live(p) /\ p # pid
BY DEF Types, Kill, Exists, Live, DaemonStates

LEMMA Losing ==
  ASSUME Types, NEW pid \in Pids, Lose(pid)
  PROVE  /\ lost \subseteq lost' /\ lost' \subseteq Pids
         /\ Live(pid) => pid \in lost'
BY DEF Types, Lose

LEMMA TryingToKill ==
  ASSUME Types, NEW pid \in Pids, TryKill(pid)
  PROVE  /\ daemon' \in [Pids -> DaemonStates]
         /\ \A p \in Pids : daemon'[p] = "none" <=> daemon[p] = "none"
         /\ \A p \in Pids : Live(p)' => Live(p)
         /\ lost \subseteq lost' /\ lost' \subseteq Pids
<1>1. CASE Kill(pid) /\ UNCHANGED lost
  BY <1>1, Killing DEF Types
<1>2. CASE Lose(pid) /\ UNCHANGED daemon
  BY <1>2, Losing DEF Types, Live
<1> QED
  BY <1>1, <1>2 DEF TryKill

LEMMA FinishingTamely ==
  ASSUME Types, ShellsFit, NEW s \in Shells, Turn(s, "idle", <<>>, 0)
  PROVE  /\ shell' \in [Shells -> ShellStates] /\ ShellsFit'
         /\ \A q \in Shells : ToSpawn(shell'[q]) => ToSpawn(shell[q])
<1>1. Fitting([at |-> "idle", todo |-> <<>>, pid |-> 0])
  BY DEF Fitting
<1>2. ~ToSpawn([at |-> "idle", todo |-> <<>>, pid |-> 0])
  BY TodosApart DEF ToSpawn
<1>3. "idle" \in Places /\ <<>> \in Todos
  BY DEF Places, Todos
<1> QED
  BY <1>1, <1>2, <1>3, TurningTamely

(* As TurningTamely, for a step that leaves the task as it is. *)
LEMMA GoingTamely ==
  ASSUME Types, ShellsFit, NEW s \in Shells, NEW a \in Places, NEW p \in {0} \union Pids,
         Turn(s, a, shell[s].todo, p),
         Fitting([at |-> a, todo |-> shell[s].todo, pid |-> p]),
         \/ shell[s].at \in {"check", "unlink stale", "spawn"}
         \/ a \notin {"check", "unlink stale", "spawn"}
  PROVE  /\ shell' \in [Shells -> ShellStates] /\ ShellsFit'
         /\ \A q \in Shells : ToSpawn(shell'[q]) => ToSpawn(shell[q])
<1>1. shell[s].todo \in Todos
  BY DEF Types, ShellStates
<1>2. ToSpawn([at |-> a, todo |-> shell[s].todo, pid |-> p]) => ToSpawn(shell[s])
  BY DEF ToSpawn
<1> QED
  BY <1>1, <1>2, TurningTamely

LEMMA RestartingTamely ==
  ASSUME Types, ShellsFit, NEW s \in Shells, NEW t \in {Rest, Start},
         shell[s].todo \in {Restart, Rest},
         Turn(s, "check", t, shell[s].pid)
  PROVE  /\ shell' \in [Shells -> ShellStates] /\ ShellsFit'
         /\ \A q \in Shells : ToSpawn(shell'[q]) => ToSpawn(shell[q])
<1>1. /\ "check" \in Places /\ t \in Todos /\ shell[s].pid \in {0} \union Pids
      /\ ToSpawn(shell[s])
  BY DEF Places, Todos, Types, ShellStates, ToSpawn
<1>2. Fitting([at |-> "check", todo |-> t, pid |-> shell[s].pid])
  BY TodosApart DEF Fitting
<1> QED
  BY <1>1, <1>2, TurningTamely

-----------------------------------------------------------------------------
LEMMA CheckIsTame ==
  ASSUME Types, ShellsFit, NEW s \in Shells,
         CheckNoRecord(s) \/ CheckUnreadable(s) \/ CheckActive(s) \/ CheckStale(s)
  PROVE  Tame
<1>1. /\ shell[s].at = "check" /\ shell[s].todo # <<>>
      /\ shell[s].pid \in {0} \union Pids
      /\ {"spawn", "kill", "unlink stale"} \subseteq Places
      /\ UNCHANGED <<record, daemon, starts, cuts, overlap>>
  BY DEF Types, ShellStates, ShellsFit, Fitting, Places, At,
         CheckNoRecord, CheckUnreadable, CheckActive, CheckStale
<1>3. lost' \subseteq Pids
  <2>1. CASE UNCHANGED lost
    BY <2>1 DEF Types
  <2>2. CASE record.state = "whole" /\ Lose(record.pid)
    BY <2>2, RecordWhole, Losing DEF Types
  <2> QED
    BY <2>1, <2>2 DEF CheckNoRecord, CheckUnreadable, CheckActive, CheckStale
<1>2. /\ shell' \in [Shells -> ShellStates] /\ ShellsFit'
      /\ \A q \in Shells : ToSpawn(shell'[q]) => ToSpawn(shell[q])
  <2>1. CASE CheckNoRecord(s)
    <3>1. CASE shell[s].todo \in {Start, Attach}
                 /\ Turn(s, "spawn", shell[s].todo, shell[s].pid)
      <4>1. Fitting([at |-> "spawn", todo |-> shell[s].todo, pid |-> shell[s].pid])
        BY <1>1, <3>1 DEF Fitting
      <4> QED
        BY <1>1, <3>1, <4>1, GoingTamely
    <3> QED
      BY <2>1, <3>1, CheckNoRecordTurns, RestartingTamely, FinishingTamely
  <2>2. CASE CheckActive(s)
    <3>1. CASE shell[s].todo \in {Stop, Rest} /\ Turn(s, "kill", shell[s].todo, record.pid)
      <4>1. record.pid \in Pids
        BY <2>2, CheckActiveTurns
      <4>2. Fitting([at |-> "kill", todo |-> shell[s].todo, pid |-> record.pid])
        BY <1>1, <3>1, <4>1 DEF Fitting
      <4> QED
        BY <1>1, <3>1, <4>1, <4>2, GoingTamely
    <3> QED
      BY <2>2, <3>1, CheckActiveTurns, RestartingTamely, FinishingTamely
  <2>3. CASE CheckStale(s)
    <3>1. Turn(s, "unlink stale", shell[s].todo, shell[s].pid)
      BY <2>3 DEF CheckStale, Goto
    <3>2. Fitting([at |-> "unlink stale", todo |-> shell[s].todo, pid |-> shell[s].pid])
      BY <1>1 DEF Fitting
    <3> QED
      BY <1>1, <3>1, <3>2, GoingTamely
  <2>4. CASE CheckUnreadable(s)
    <3>1. CASE shell[s].todo \in {Start, Attach}
                 /\ Turn(s, "spawn", shell[s].todo, shell[s].pid)
      <4>1. Fitting([at |-> "spawn", todo |-> shell[s].todo, pid |-> shell[s].pid])
        BY <1>1, <3>1 DEF Fitting
      <4> QED
        BY <1>1, <3>1, <4>1, GoingTamely
    <3> QED
      BY <2>4, <3>1, CheckUnreadableTurns, FinishingTamely
  <2> QED
    BY <2>1, <2>2, <2>3, <2>4
<1> QED
  BY <1>1, <1>2, <1>3 DEF Tame, Types

LEMMA UnlinkIsTame ==
  ASSUME Types, ShellsFit, NEW s \in Shells, UnlinkStale(s)
  PROVE  Tame
<1>1. /\ shell[s].at = "unlink stale" /\ shell[s].todo # <<>>
      /\ shell[s].pid \in {0} \union Pids /\ "spawn" \in Places
      /\ record' \in {Absent, record}
      /\ UNCHANGED <<daemon, starts, cuts, lost, overlap>>
  BY DEF Types, ShellStates, ShellsFit, Fitting, Places, At, UnlinkStale
<1>2. CASE shell[s].todo \in {Start, Attach}
             /\ Turn(s, "spawn", shell[s].todo, shell[s].pid)
  <2>1. Fitting([at |-> "spawn", todo |-> shell[s].todo, pid |-> shell[s].pid])
    BY <1>1, <1>2 DEF Fitting
  <2> QED
    BY <1>1, <1>2, <2>1, GoingTamely DEF Tame, Types, Records
<1>3. CASE \/ shell[s].todo \in {Restart, Rest} /\ Turn(s, "check", Start, shell[s].pid)
           \/ Turn(s, "idle", <<>>, 0)
  BY <1>1, <1>3, RestartingTamely, FinishingTamely DEF Tame, Types, Records
<1> QED
  BY <1>2, <1>3, UnlinkStaleTurns

LEMMA ForgetIsTame ==
  ASSUME Types, ShellsFit, NEW s \in Shells, Forget(s)
  PROVE  Tame
<1>1. record' \in {Absent, record} /\ UNCHANGED <<daemon, starts, cuts, lost, overlap>>
  BY DEF Forget
<1> QED
  BY <1>1, ForgetTurns, RestartingTamely, FinishingTamely DEF Tame, Types, Records

LEMMA WritingIsTame ==
  ASSUME Types, ShellsFit, NEW s \in Shells, Truncate(s) \/ Write(s)
  PROVE  Tame
<1>1. /\ shell[s].at \in {"truncate", "write"} /\ shell[s].todo \in {Start, Attach}
      /\ shell[s].pid \in Pids
      /\ {"write", "attached", "health"} \subseteq Places
      /\ UNCHANGED <<starts, cuts, overlap>>
  BY DEF ShellsFit, Fitting, At, Truncate, Write, Places
<1>2. CASE /\ Truncate(s) /\ record' = Torn /\ Goto(s, "write")
           /\ UNCHANGED <<daemon, lost>>
  <2>1. Fitting([at |-> "write", todo |-> shell[s].todo, pid |-> shell[s].pid])
    BY <1>1, TodosApart DEF Fitting
  <2> QED
    BY <1>1, <1>2, <2>1, GoingTamely DEF Goto, Tame, Types, Records
<1>3. CASE TryKill(shell[s].pid) /\ Finish(s) /\ UNCHANGED record
  BY <1>1, <1>3, TryingToKill, Finishing, FinishingTamely DEF Tame, Types
<1>4. CASE /\ record' \in Written(shell[s].pid) /\ UNCHANGED <<daemon, lost>>
           /\ Goto(s, IF Doing(s, "attach") THEN "attached" ELSE "health")
  <2>1. record' \in Records
    BY <1>1, <1>4 DEF Written, Records
  <2>2. CASE shell[s].todo = Attach
    <3>1. Turn(s, "attached", shell[s].todo, shell[s].pid)
      BY <1>4, <2>2, TodosApart DEF Goto, Doing
    <3>2. Fitting([at |-> "attached", todo |-> shell[s].todo, pid |-> shell[s].pid])
      BY <1>1, <2>2, TodosApart DEF Fitting
    <3> QED
      BY <1>1, <1>4, <2>1, <3>1, <3>2, GoingTamely DEF Tame, Types
  <2>3. CASE shell[s].todo = Start
    <3>1. Turn(s, "health", shell[s].todo, shell[s].pid)
      BY <1>4, <2>3, TodosApart DEF Goto, Doing
    <3>2. Fitting([at |-> "health", todo |-> shell[s].todo, pid |-> shell[s].pid])
      BY <1>1, <2>3, TodosApart DEF Fitting
    <3> QED
      BY <1>1, <1>4, <2>1, <3>1, <3>2, GoingTamely DEF Tame, Types
  <2> QED
    BY <1>1, <2>2, <2>3
<1> QED
  BY <1>2, <1>3, <1>4 DEF Truncate, Write

LEMMA EndingIsTame ==
  ASSUME Types, ShellsFit, NEW s \in Shells,
         Healthy(s) \/ GiveUp(s) \/ AttachedEnds(s) \/ KillRead(s)
  PROVE  Tame
<1>1. /\ shell[s].at \in {"health", "attached", "kill"} /\ shell[s].pid \in Pids
      /\ shell[s].todo \in {Start, Attach, Stop, Rest}
      /\ "forget" \in Places
      /\ UNCHANGED <<record, starts, cuts, overlap>>
  BY DEF ShellsFit, Fitting, At, Healthy, GiveUp, AttachedEnds, KillRead, Places
<1>2. CASE Goto(s, "forget") /\ (TryKill(shell[s].pid) \/ UNCHANGED <<daemon, lost>>)
  <2>1. Fitting([at |-> "forget", todo |-> shell[s].todo, pid |-> shell[s].pid])
    BY <1>1, TodosApart DEF Fitting
  <2> QED
    BY <1>1, <1>2, <2>1, TryingToKill, GoingTamely DEF Goto, Tame, Types
<1>3. CASE Finish(s) /\ (TryKill(shell[s].pid) \/ UNCHANGED <<daemon, lost>>)
  BY <1>1, <1>3, TryingToKill, Finishing, FinishingTamely DEF Tame, Types
<1> QED
  BY <1>2, <1>3 DEF Healthy, GiveUp, AttachedEnds, KillRead, TryKill

(* A command that is cut, whoever counts the cuts. *)
Cutting(s) ==
  /\ Abandon(s) \/ Interrupt(s)
  /\ UNCHANGED <<record, starts, overlap>>
  /\ cuts' \in 0..MaxCut

LEMMA CuttingIsTame ==
  ASSUME Types, ShellsFit, NEW s \in Shells, Cutting(s)
  PROVE  Tame
<1>1. /\ Turn(s, "idle", <<>>, 0)
      /\ UNCHANGED <<record, starts, overlap>>
      /\ cuts' \in 0..MaxCut
  BY Finishing DEF Cutting, Abandon, Interrupt
<1>2. CASE Abandon(s)
  <2>1. lost' \subseteq Pids /\ UNCHANGED daemon
    BY <1>2 DEF Abandon, Types, ShellsFit, Fitting, At
  <2> QED
    BY <1>1, <2>1, FinishingTamely DEF Tame, Types
<1>3. CASE Interrupt(s)
  <2>1. shell[s].pid \in Pids /\ Kill(shell[s].pid) /\ UNCHANGED lost
    BY <1>3 DEF Interrupt, ShellsFit, Fitting, At
  <2> QED
    BY <1>1, <2>1, Killing, FinishingTamely DEF Tame, Types
<1> QED
  BY <1>2, <1>3 DEF Cutting

(* A process that is killed, or not even that, by other means than a       *)
(* command.                                                                *)
KilledBeside(pid) ==
  /\ TryKill(pid)
  /\ UNCHANGED <<record, shell, starts, overlap>>
  /\ cuts' \in 0..MaxCut

LEMMA KilledIsTame ==
  ASSUME Types, ShellsFit, NEW pid \in Pids, KilledBeside(pid)
  PROVE  Tame
<1>1. /\ daemon' \in [Pids -> DaemonStates] /\ lost' \subseteq Pids
      /\ \A p \in Pids : daemon'[p] = "none" <=> daemon[p] = "none"
  BY TryingToKill DEF KilledBeside
<1> QED
  BY <1>1 DEF Tame, Types, ShellsFit, KilledBeside

(* Nothing happens but for the count of the cuts. *)
Calm ==
  UNCHANGED <<record, daemon, shell, starts, lost, overlap>> /\ cuts' \in 0..MaxCut

LEMMA CalmIsTame ==
  ASSUME Types, ShellsFit, Calm
  PROVE  Tame
BY DEF Calm, Tame, Types, ShellsFit

LEMMA DaemonsAreTame ==
  ASSUME Types, ShellsFit, NEW pid \in Pids, Serve(pid) \/ BindFails(pid) \/ Die(pid)
  PROVE  Tame
<1>1. UNCHANGED <<record, shell, starts, cuts, lost, overlap>>
  BY DEF Serve, BindFails, Die
<1>2. /\ daemon' \in [Pids -> DaemonStates]
      /\ \A p \in Pids : daemon'[p] = "none" <=> daemon[p] = "none"
  BY DEF Serve, BindFails, Die, Exists, Types, DaemonStates
<1> QED
  BY <1>1, <1>2 DEF Tame, Types, ShellsFit

-----------------------------------------------------------------------------
(* A process id is used once, and there are as many as starts. *)

LEMMA SpawnIsTyped ==
  ASSUME Types, ShellsFit, SpawnsInv, LifecycleAssumption, NEW s \in Shells, Spawn(s)
  PROVE  Types' /\ ShellsFit' /\ SpawnsInv'
<1>1. /\ shell[s].at = "spawn" /\ shell[s].todo \in {Start, Attach}
      /\ "truncate" \in Places /\ s \in Pending
      /\ UNCHANGED <<record, starts, cuts, lost, overlap>>
  BY DEF ShellsFit, Fitting, At, Spawn, Places, Pending, ToSpawn
<1>2. CASE Finish(s) /\ UNCHANGED daemon
  <2>1. Tame
    BY <1>1, <1>2, Finishing, FinishingTamely DEF Tame, Types
  <2> QED
    BY <2>1, SpawnsKept DEF Tame
<1>3. CASE /\ daemon' = [daemon EXCEPT ![NextPid] = "starting"]
           /\ Turn(s, "truncate", shell[s].todo, NextPid)
  <2>1. PICK k \in Nat : /\ Spawned(k) /\ NextPid = k + 1 /\ k + 1 \in Pids
                         /\ k + Cardinality(Pending) <= starts
    BY <1>1, NextPidThere
  <2>2. Fitting([at |-> "truncate", todo |-> shell[s].todo, pid |-> NextPid])
    BY <1>1, <2>1, TodosApart DEF Fitting
  <2>3. /\ shell' \in [Shells -> ShellStates] /\ ShellsFit'
        /\ \A q \in Shells : ToSpawn(shell'[q]) => ToSpawn(shell[q])
    BY <1>1, <1>3, <2>1, <2>2, GoingTamely
  <2>4. /\ shell'[s].at = "truncate" /\ shell'[s].todo \in {Start, Attach}
        /\ \A q \in Shells : q # s => shell'[q] = shell[q]
    <3>1. shell[s].todo \in Todos
      BY <1>1 DEF Todos
    <3>2. /\ shell'[s] = [at |-> "truncate", todo |-> shell[s].todo, pid |-> NextPid]
          /\ \A q \in Shells : q # s => shell'[q] = shell[q]
      BY <1>1, <1>3, <2>1, <3>1, Turning
    <3> QED
      BY <1>1, <3>2
  <2>5. ~ToSpawn(shell'[s])
    BY <2>4 DEF ToSpawn, Start, Attach, Restart, Rest
  <2>6. Pending' = Pending \ {s}
    BY <2>3, <2>4, <2>5 DEF Pending
  <2>7. /\ IsFiniteSet(Pending')
        /\ Cardinality(Pending') = Cardinality(Pending) - 1
        /\ Cardinality(Pending) \in Nat
    BY <1>1, <2>6, FS_RemoveElement, FS_CardinalityType DEF SpawnsInv
  <2>8. daemon' \in [Pids -> DaemonStates] /\ Spawned(k + 1)'
    <3>1. daemon' \in [Pids -> DaemonStates]
      BY <1>3, <2>1 DEF Types, DaemonStates
    <3>2. \A pid \in Pids : daemon'[pid] = "none" <=> pid > k + 1
      BY <1>3, <2>1 DEF Types, Spawned, Pids, LifecycleAssumption
    <3> QED
      BY <3>1, <3>2 DEF Spawned
  <2>9. SpawnsInv'
    <3>1. starts \in Nat /\ starts' = starts /\ starts' \in 0..MaxStart
      BY <1>1 DEF SpawnsInv, LifecycleAssumption
    <3>2. (k + 1) + Cardinality(Pending') <= starts' /\ k + 1 \in Nat
      BY <2>1, <2>7, <3>1
    <3> QED
      BY <2>7, <2>8, <3>1, <3>2 DEF SpawnsInv
  <2> QED
    BY <1>1, <2>3, <2>8, <2>9 DEF Types
<1> QED
  BY <1>2, <1>3 DEF Spawn

LEMMA BeginIsTyped ==
  ASSUME Types, ShellsFit, SpawnsInv, LifecycleAssumption,
         NEW s \in Shells, NEW command \in Commands, Begin(s, command)
  PROVE  /\ Types' /\ ShellsFit' /\ SpawnsInv'
         /\ shell'[s] = [at |-> "check", todo |-> Plans[command], pid |-> 0]
         /\ \A q \in Shells : q # s => shell'[q] = shell[q]
<1> DEFINE todo == Plans[command]
           new == [at |-> "check", todo |-> todo, pid |-> 0]
<1>1. /\ shell[s].todo = <<>> /\ todo \in Todos \ {<<>>} /\ "check" \in Places
      /\ Turn(s, "check", todo, 0)
      /\ UNCHANGED <<record, daemon, cuts, lost>>
  BY PlansAre, TodosApart DEF ShellsFit, Fitting, At, Begin, Todos, Places
<1>2. /\ shell' \in [Shells -> ShellStates]
      /\ shell'[s] = new
      /\ \A q \in Shells : q # s => shell'[q] = shell[q]
  BY <1>1, Turning
<1>3. Fitting(new) /\ (ToSpawn(new) <=> todo \in {Start, Attach, Restart, Rest})
  BY <1>1 DEF Fitting, ToSpawn
<1>4. ShellsFit'
  <2>1. ASSUME NEW q \in Shells PROVE Fitting(shell'[q])
    BY <1>2, <1>3, Zenon DEF ShellsFit
  <2> QED
    BY <2>1 DEF ShellsFit
<1>5. Types'
  BY <1>1, <1>2 DEF Types, Begin
<1>6. CASE command \in {"status", "stop"}
  <2>1. ~ToSpawn(new)
    BY <1>3, <1>6, PlansAre DEF Look, Stop, Start, Attach, Restart, Rest
  <2>2. ASSUME NEW q \in Shells, ToSpawn(shell'[q]) PROVE ToSpawn(shell[q])
    BY <1>2, <2>1, <2>2, Zenon
  <2>3. Tame
    BY <1>1, <1>4, <1>5, <1>6, <2>2 DEF Tame, Begin
  <2> QED
    BY <1>2, <1>4, <1>5, <2>3, SpawnsKept
<1>7. CASE command \in {"start", "attach", "restart"}
  <2>1. starts < MaxStart /\ starts' = starts + 1
    BY <1>7 DEF Begin
  <2>2. ToSpawn(new) /\ ~ToSpawn(shell[s])
    BY <1>1, <1>3, <1>7, PlansAre, TodosApart DEF ToSpawn
  <2>3. \A q \in Shells : ToSpawn(shell'[q]) <=> q = s \/ ToSpawn(shell[q])
    BY <1>2, <2>2, Zenon
  <2>4. Pending' = Pending \union {s} /\ s \notin Pending
    BY <2>2, <2>3 DEF Pending
  <2>5. /\ IsFiniteSet(Pending')
        /\ Cardinality(Pending') = Cardinality(Pending) + 1
        /\ Cardinality(Pending) \in Nat
    BY <2>4, FS_AddElement, FS_CardinalityType DEF SpawnsInv
  <2>6. PICK k \in Nat : Spawned(k) /\ k + Cardinality(Pending) <= starts
    BY DEF SpawnsInv
  <2>7. Spawned(k)'
    BY <1>1, <2>6 DEF Spawned
  <2>8. k + Cardinality(Pending') <= starts' /\ starts' \in 0..MaxStart
    BY <2>1, <2>5, <2>6 DEF SpawnsInv, LifecycleAssumption
  <2>9. SpawnsInv'
    BY <2>5, <2>7, <2>8 DEF SpawnsInv
  <2> QED
    BY <1>2, <1>4, <1>5, <2>9
<1> QED
  BY <1>6, <1>7, PlansAre

LEMMA WorkIsTame ==
  ASSUME Types, ShellsFit, NEW s \in Shells, Step(s), ~Spawn(s)
  PROVE  Tame
BY CheckIsTame, UnlinkIsTame, ForgetIsTame, WritingIsTame, EndingIsTame DEF Step, Work

TypesInv == Types /\ ShellsFit /\ SpawnsInv

LEMMA TypesInit == Init => TypesInv
<1> SUFFICES ASSUME Init PROVE TypesInv
  OBVIOUS
<1>1. Types
  <2>1. Idle \in ShellStates
    BY DEF Idle, ShellStates, Places, Todos
  <2>2. shell \in [Shells -> ShellStates]
    BY <2>1 DEF Init
  <2>3. /\ record \in Records /\ daemon \in [Pids -> DaemonStates]
        /\ lost \subseteq Pids /\ overlap \in BOOLEAN
    BY DEF Init, Records, DaemonStates
  <2>4. cuts \in 0..MaxCut
    BY LifecycleAssumption DEF Init, LifecycleAssumption
  <2> QED
    BY <2>2, <2>3, <2>4 DEF Types
<1>2. ShellsFit
  BY DEF Init, ShellsFit, Fitting, Idle
<1>3. SpawnsInv
  <2>1. Pending = {}
    BY TodosApart DEF Init, Pending, ToSpawn, Idle
  <2>2. IsFiniteSet(Pending) /\ Cardinality(Pending) = 0
    BY <2>1, FS_EmptySet
  <2>3. Spawned(0)
    BY LifecycleAssumption DEF Init, Spawned, Pids, LifecycleAssumption
  <2>4. starts = 0 /\ starts \in 0..MaxStart
    BY LifecycleAssumption DEF Init, LifecycleAssumption
  <2> QED
    BY <2>2, <2>3, <2>4 DEF SpawnsInv
<1> QED
  BY <1>1, <1>2, <1>3 DEF TypesInv

(* What may happen to daemons and commands, be it that the commands are    *)
(* part of something larger, which cuts them or kills a daemon.            *)
Moves ==
  \/ \E s \in Shells :
       (\E command \in Commands : Begin(s, command)) \/ Step(s) \/ Cutting(s)
  \/ \E pid \in Pids : Serve(pid) \/ BindFails(pid) \/ Die(pid) \/ KilledBeside(pid)
  \/ Calm

LEMMA NextMoves ==
  ASSUME Types, LifecycleAssumption, [Next]_vars
  PROVE  Moves
<1>1. ASSUME NEW s \in Shells, Cut(s) PROVE Cutting(s)
  BY <1>1 DEF Cut, Cutting, Types, LifecycleAssumption
<1>2. CASE UNCHANGED vars
  BY <1>2 DEF vars, Moves, Calm, Types
<1> QED
  BY <1>1, <1>2 DEF Next, Moves

LEMMA TypesMove ==
  ASSUME TypesInv, LifecycleAssumption, Moves
  PROVE  TypesInv'
<1>1. ASSUME NEW s \in Shells, NEW command \in Commands, Begin(s, command)
      PROVE  TypesInv'
  BY <1>1, BeginIsTyped DEF TypesInv
<1>2. ASSUME NEW s \in Shells, Spawn(s) PROVE TypesInv'
  BY <1>2, SpawnIsTyped DEF TypesInv
<1>3. ASSUME Tame PROVE TypesInv'
  BY <1>3, SpawnsKept DEF Tame, TypesInv
<1> QED
  BY <1>1, <1>2, <1>3, WorkIsTame, CuttingIsTame, DaemonsAreTame, KilledIsTame,
     CalmIsTame DEF Moves, TypesInv

LEMMA TypesNext == TypesInv /\ [Next]_vars => TypesInv'
BY NextMoves, TypesMove, LifecycleAssumption DEF TypesInv

LEMMA WellTyped ==
  ASSUME TypesInv
  PROVE  TypeOK
<1>1. Todos \subseteq Seq({"look", "stop", "start", "attach"})
  <2> DEFINE T == {"look", "stop", "start", "attach"}
  <2>1. Look \in Seq(T) /\ Stop \in Seq(T) /\ Start \in Seq(T) /\ Attach \in Seq(T)
    BY DEF Look, Stop, Start, Attach
  <2>2. Restart \in Seq(T) /\ Rest \in Seq(T) /\ <<>> \in Seq(T)
    BY DEF Restart, Rest
  <2> QED
    BY <2>1, <2>2 DEF Todos
<1>2. ASSUME NEW s \in Shells
      PROVE  /\ shell[s].at \in Places
             /\ shell[s].todo \in Seq({"look", "stop", "start", "attach"})
             /\ shell[s].pid \in {0} \union Pids
             /\ At(s, "idle") <=> shell[s].todo = <<>>
  <2>1. /\ shell[s].at \in Places /\ shell[s].todo \in Todos
        /\ shell[s].pid \in {0} \union Pids
    BY DEF TypesInv, Types, ShellStates
  <2>2. At(s, "idle") <=> shell[s].todo = <<>>
    BY DEF TypesInv, ShellsFit, Fitting, At
  <2> QED
    BY <1>1, <2>1, <2>2
<1>3. /\ record \in Records /\ daemon \in [Pids -> DaemonStates]
      /\ starts \in 0..MaxStart /\ cuts \in 0..MaxCut
      /\ lost \subseteq Pids /\ overlap \in BOOLEAN
  BY DEF TypesInv, Types, SpawnsInv
<1> QED
  BY <1>2, <1>3 DEF TypeOK, Places

(* Every state is well typed, and no start lacks a process id.  *)
THEOREM TypeCorrect == Spec => []TypeOK
BY WellTyped, TypesInit, TypesNext, PTL DEF Spec

-----------------------------------------------------------------------------
(* Commands that do not overlap.  Two commands are in progress only if one *)
(* is an attached start and the other looks at its runtime or stops it.    *)

Home(x) == x.at \in {"attached", "forget"} /\ x.todo = Attach

Visiting(x) == x.todo \in {Look, Stop}

Apart ==
  \A s, t \in Shells :
    s # t /\ shell[s].at # "idle" /\ shell[t].at # "idle" =>
      \/ Home(shell[s]) /\ Visiting(shell[t])
      \/ Home(shell[t]) /\ Visiting(shell[s])

NoneLive == \A pid \in Pids \ lost : ~Live(pid)

OnlyLive(p) == \A pid \in Pids \ lost : Live(pid) => pid = p

(* A command that is about to remove the record, or to start a daemon, has *)
(* made sure that none lives; one that has to do with a daemon, that no    *)
(* other one does.                                                         *)
Safe(s) ==
  /\ shell[s].at \in {"unlink stale", "spawn", "forget"} => NoneLive
  /\ shell[s].at \in {"truncate", "write", "health", "attached", "kill"}
       => OnlyLive(shell[s].pid)
  /\ shell[s].at = "write" => record = Torn

Writing(s) == shell[s].at \in {"truncate", "write"}

Recorded ==
  \A pid \in Pids \ lost :
    Live(pid) => record = Whole(pid) \/ \E s \in Shells : shell[s].pid = pid /\ Writing(s)

Orderly == Apart /\ (\A s \in Shells : Safe(s)) /\ Recorded

OrderInv == TypesInv /\ (~overlap => Orderly)

(* No step but Spawn makes a daemon live. *)
Shrinking ==
  /\ \A pid \in Pids : Live(pid)' => Live(pid)
  /\ lost \subseteq lost'

LEMMA AloneWhileWriting ==
  ASSUME TypesInv, Apart, NEW s \in Shells, NEW q \in Shells, s # q,
         shell[s].at # "idle", shell[q].at # "idle"
  PROVE  shell[q].at \notin {"spawn", "truncate", "write"}
<1> SUFFICES ASSUME shell[q].at \in {"spawn", "truncate", "write"}
             PROVE  FALSE
  OBVIOUS
<1>1. shell[q].todo \in {Start, Attach}
  BY DEF TypesInv, ShellsFit, Fitting
<1>2. ~Home(shell[q]) /\ ~Visiting(shell[q])
  BY <1>1 DEF Home, Visiting, Start, Attach, Look, Stop
<1> QED
  BY <1>2 DEF Apart

(* A step of one command leaves the others as safe as they were. *)
LEMMA StepKeepsOrder ==
  ASSUME TypesInv, Orderly, NEW s \in Shells, shell[s].at # "idle",
         \A q \in Shells : q # s => shell'[q] = shell[q],
         Shrinking,
         shell'[s].at = "idle" \/ (Home(shell[s]) => Home(shell'[s])),
         shell'[s].at = "idle" \/ (Visiting(shell[s]) => Visiting(shell'[s])),
         Safe(s)', Recorded'
  PROVE  Orderly'
<1>1. Apart'
  <2> SUFFICES ASSUME NEW q \in Shells, NEW t \in Shells, q # t,
                      shell'[q].at # "idle", shell'[t].at # "idle"
               PROVE  \/ Home(shell'[q]) /\ Visiting(shell'[t])
                      \/ Home(shell'[t]) /\ Visiting(shell'[q])
    BY DEF Apart
  <2>1. shell[q].at # "idle" /\ shell[t].at # "idle"
    BY Zenon
  <2>2. \/ Home(shell[q]) /\ Visiting(shell[t])
        \/ Home(shell[t]) /\ Visiting(shell[q])
    BY <2>1 DEF Orderly, Apart
  <2>3. CASE q = s
    BY <2>2, <2>3, Zenon
  <2>4. CASE t = s
    BY <2>2, <2>4, Zenon
  <2>5. CASE q # s /\ t # s
    BY <2>2, <2>5, Zenon
  <2> QED
    BY <2>3, <2>4, <2>5
<1>2. ASSUME NEW q \in Shells PROVE Safe(q)'
  <2>1. CASE q = s
    BY <2>1
  <2>2. CASE q # s
    <3>1. shell'[q] = shell[q] /\ Safe(q)
      BY <2>2 DEF Orderly
    <3>2. NoneLive => NoneLive'
      BY DEF NoneLive, Shrinking
    <3>3. OnlyLive(shell[q].pid) => OnlyLive(shell[q].pid)'
      BY <3>1 DEF OnlyLive, Shrinking
    <3>4. shell[q].at # "write"
      <4>1. CASE shell[q].at = "idle"
        BY <4>1
      <4>2. CASE shell[q].at # "idle"
        BY <2>2, <4>2, AloneWhileWriting DEF Orderly
      <4> QED
        BY <4>1, <4>2
    <3> QED
      BY <3>1, <3>2, <3>3, <3>4 DEF Safe
  <2> QED
    BY <2>1, <2>2
<1> QED
  BY <1>1, <1>2 DEF Orderly

LEMMA RecordedStays ==
  ASSUME Recorded, Shrinking, record' = record,
         NEW s \in Shells, ~Writing(s),
         \A q \in Shells : q # s => shell'[q] = shell[q]
  PROVE  Recorded'
<1> SUFFICES ASSUME NEW pid \in Pids \ lost', Live(pid)'
             PROVE  \/ record' = Whole(pid)
                    \/ \E q \in Shells : shell'[q].pid = pid /\ Writing(q)'
  BY DEF Recorded
<1>1. pid \in Pids \ lost /\ Live(pid)
  BY DEF Shrinking
<1>2. CASE record = Whole(pid)
  BY <1>2
<1>3. ASSUME NEW q \in Shells, shell[q].pid = pid, Writing(q)
      PROVE  shell'[q].pid = pid /\ Writing(q)'
  BY <1>3 DEF Writing
<1> QED
  BY <1>1, <1>2, <1>3 DEF Recorded

LEMMA NoneLiveRecorded ==
  ASSUME NoneLive'
  PROVE  Recorded'
BY DEF NoneLive, Recorded

(* Once the only daemon that lives is killed, none does. *)
LEMMA KillingTheOnlyOne ==
  ASSUME Types, NEW p \in Pids, OnlyLive(p), Kill(p), lost' = lost
  PROVE  Shrinking /\ NoneLive'
BY Killing DEF OnlyLive, NoneLive, Shrinking

(* Nor does any that is of account once it is lost. *)
LEMMA LosingTheOnlyOne ==
  ASSUME Types, NEW p \in Pids, OnlyLive(p), Lose(p), daemon' = daemon
  PROVE  Shrinking /\ NoneLive'
BY Losing DEF OnlyLive, NoneLive, Shrinking, Live

LEMMA TryingTheOnlyOne ==
  ASSUME Types, NEW p \in Pids, OnlyLive(p), TryKill(p)
  PROVE  Shrinking /\ NoneLive'
BY KillingTheOnlyOne, LosingTheOnlyOne DEF TryKill

-----------------------------------------------------------------------------
(* What a step of a command makes of its own shell, field by field. *)
LEMMA Fields ==
  ASSUME Types, NEW s \in Shells, NEW a \in Places, NEW t \in Todos,
         NEW p \in {0} \union Pids, Turn(s, a, t, p)
  PROVE  /\ shell'[s].at = a /\ shell'[s].todo = t /\ shell'[s].pid = p
         /\ \A q \in Shells : q # s => shell'[q] = shell[q]
<1>1. /\ shell'[s] = [at |-> a, todo |-> t, pid |-> p]
      /\ \A q \in Shells : q # s => shell'[q] = shell[q]
  BY Turning
<1> QED
  BY <1>1

LEMMA Known ==
  ASSUME Types, NEW s \in Shells
  PROVE  /\ shell[s].todo \in Todos /\ shell[s].pid \in {0} \union Pids
         /\ <<>> \in Todos /\ Rest \in Todos /\ Start \in Todos
         /\ Places = {"idle", "check", "unlink stale", "spawn", "truncate", "write",
                      "health", "attached", "kill", "forget"}
BY DEF Types, ShellStates, Todos, Places

LEMMA Ended ==
  ASSUME Types, NEW s \in Shells, Turn(s, "idle", <<>>, 0)
  PROVE  /\ shell'[s].at = "idle" /\ Safe(s)'
         /\ \A q \in Shells : q # s => shell'[q] = shell[q]
<1>1. "idle" \in Places /\ <<>> \in Todos
  BY Known
<1>2. /\ shell'[s].at = "idle"
      /\ \A q \in Shells : q # s => shell'[q] = shell[q]
  BY <1>1, Fields
<1> QED
  BY <1>2 DEF Safe

LEMMA EndKeepsOrder ==
  ASSUME TypesInv, Orderly, NEW s \in Shells, shell[s].at # "idle",
         Turn(s, "idle", <<>>, 0), Shrinking, Recorded'
  PROVE  Orderly'
<1>1. Types
  BY DEF TypesInv
<1> QED
  BY <1>1, Ended, StepKeepsOrder

(* A command that goes to a place where nothing is asked for. *)
LEMMA RestartingKeepsOrder ==
  ASSUME TypesInv, Orderly, NEW s \in Shells, shell[s].at # "idle",
         NEW t \in {Start, Rest}, shell[s].todo \in {Restart, Rest},
         Turn(s, "check", t, shell[s].pid), Shrinking, Recorded'
  PROVE  Orderly'
<1>1. /\ shell'[s].at = "check"
      /\ \A q \in Shells : q # s => shell'[q] = shell[q]
  <2>1. /\ Types /\ "check" \in Places /\ t \in Todos
        /\ shell[s].pid \in {0} \union Pids
    BY Known DEF TypesInv
  <2> QED
    BY <2>1, Fields
<1>2. ~Home(shell[s]) /\ ~Visiting(shell[s])
  BY DEF Home, Visiting, Restart, Rest, Attach, Look, Stop
<1>3. Safe(s)'
  BY <1>1 DEF Safe
<1> QED
  BY <1>1, <1>2, <1>3, StepKeepsOrder

(* A command that goes on with its task. *)
LEMMA GoingKeepsOrder ==
  ASSUME TypesInv, Orderly, NEW s \in Shells, shell[s].at # "idle",
         NEW a \in Places, NEW p \in {0} \union Pids,
         Turn(s, a, shell[s].todo, p), Shrinking, Recorded',
         shell[s].at = "attached" => a = "forget",
         shell[s].at # "forget",
         a \in {"unlink stale", "spawn", "forget"} => NoneLive',
         a \in {"truncate", "write", "health", "attached", "kill"} => OnlyLive(p)',
         a = "write" => record' = Torn
  PROVE  Orderly'
<1>1. /\ shell'[s].at = a /\ shell'[s].todo = shell[s].todo /\ shell'[s].pid = p
      /\ \A q \in Shells : q # s => shell'[q] = shell[q]
  BY Fields, Known DEF TypesInv
<1>2. /\ Home(shell[s]) => Home(shell'[s])
      /\ Visiting(shell[s]) => Visiting(shell'[s])
  BY <1>1 DEF Home, Visiting
<1>3. Safe(s)'
  BY <1>1 DEF Safe, OnlyLive
<1> QED
  BY <1>1, <1>2, <1>3, StepKeepsOrder

LEMMA NoChange ==
  ASSUME UNCHANGED <<daemon, lost>>
  PROVE  /\ Shrinking
         /\ NoneLive' <=> NoneLive
         /\ \A p : OnlyLive(p)' <=> OnlyLive(p)
BY DEF Shrinking, NoneLive, OnlyLive, Live

-----------------------------------------------------------------------------
(* Nothing lives while there is no whole record and nobody writes one.     *)
LEMMA NothingOnRecord ==
  ASSUME TypesInv, Orderly, NEW s \in Shells, shell[s].at = "check",
         record \in {Absent, Torn}
  PROVE  NoneLive
<1>1. ASSUME NEW q \in Shells PROVE ~Writing(q)
  BY AloneWhileWriting DEF Orderly, Writing
<1>2. \A pid \in Pids : record # Whole(pid)
  BY DEF Absent, Torn, Whole
<1> QED
  BY <1>1, <1>2 DEF Orderly, Recorded, NoneLive

LEMMA CheckNoRecordKeepsOrder ==
  ASSUME TypesInv, Orderly, NEW s \in Shells, CheckNoRecord(s)
  PROVE  Orderly'
<1>1. /\ shell[s].at = "check" /\ record \in {Absent, Torn}
      /\ UNCHANGED <<record, daemon, lost>>
      /\ \/ shell[s].todo \in {Start, Attach}
              /\ Turn(s, "spawn", shell[s].todo, shell[s].pid)
         \/ shell[s].todo \in {Restart, Rest} /\ Turn(s, "check", Start, shell[s].pid)
         \/ Turn(s, "idle", <<>>, 0)
  BY CheckNoRecordTurns DEF TypesInv
<1>2. NoneLive
  BY <1>1, NothingOnRecord
<1>3. Shrinking /\ NoneLive' /\ Recorded'
  BY <1>1, <1>2, NoChange, NoneLiveRecorded
<1>4. "spawn" \in Places /\ shell[s].pid \in {0} \union Pids
  BY Known DEF TypesInv
<1> QED
  BY <1>1, <1>3, <1>4, GoingKeepsOrder, RestartingKeepsOrder, EndKeepsOrder

(* All that lives is on record while nobody writes it. *)
LEMMA OnRecord ==
  ASSUME TypesInv, Orderly, NEW s \in Shells, shell[s].at = "check",
         NEW p \in Pids, record = Whole(p)
  PROVE  OnlyLive(p)
<1>1. ASSUME NEW q \in Shells PROVE ~Writing(q)
  BY AloneWhileWriting DEF Orderly, Writing
<1>2. \A pid \in Pids : record = Whole(pid) => pid = p
  BY DEF Whole
<1> QED
  BY <1>1, <1>2 DEF Orderly, Recorded, OnlyLive

LEMMA CheckActiveKeepsOrder ==
  ASSUME TypesInv, Orderly, NEW s \in Shells, CheckActive(s)
  PROVE  Orderly'
<1>1. /\ shell[s].at = "check" /\ record.pid \in Pids /\ record = Whole(record.pid)
      /\ UNCHANGED <<record, daemon, lost>>
      /\ \/ shell[s].todo \in {Stop, Rest} /\ Turn(s, "kill", shell[s].todo, record.pid)
         \/ shell[s].todo = Restart /\ Turn(s, "check", Rest, shell[s].pid)
         \/ Turn(s, "idle", <<>>, 0)
  BY CheckActiveTurns DEF TypesInv
<1>2. OnlyLive(record.pid)
  BY <1>1, OnRecord
<1>3. Shrinking /\ OnlyLive(record.pid)'
  BY <1>1, <1>2, NoChange DEF OnlyLive
<1>4. Recorded'
  <2>1. \A q \in Shells : q # s => shell'[q] = shell[q]
    BY <1>1, Fields, Known DEF TypesInv
  <2> QED
    BY <1>1, <1>3, <2>1, RecordedStays DEF Orderly, Writing
<1>5. "kill" \in Places
  BY Known DEF TypesInv
<1> QED
  BY <1>1, <1>3, <1>4, <1>5, GoingKeepsOrder, RestartingKeepsOrder, EndKeepsOrder

LEMMA CheckUnreadableKeepsOrder ==
  ASSUME TypesInv, Orderly, NEW s \in Shells, CheckUnreadable(s)
  PROVE  Orderly'
<1>1. /\ shell[s].at = "check" /\ record.pid \in Pids /\ record = Whole(record.pid)
      /\ UNCHANGED <<record, daemon>>
      /\ \/ Turn(s, "idle", <<>>, 0) /\ (UNCHANGED lost \/ Lose(record.pid))
         \/ /\ shell[s].todo \in {Start, Attach} /\ Lose(record.pid)
            /\ Turn(s, "spawn", shell[s].todo, shell[s].pid)
  BY CheckUnreadableTurns DEF TypesInv
<1>2. OnlyLive(record.pid)
  BY <1>1, OnRecord
<1>3. CASE UNCHANGED lost /\ Turn(s, "idle", <<>>, 0)
  <2>1. Shrinking
    BY <1>1, <1>3, NoChange
  <2>2. \A q \in Shells : q # s => shell'[q] = shell[q]
    BY <1>3, Ended DEF TypesInv
  <2>3. Recorded'
    BY <1>1, <2>1, <2>2, RecordedStays DEF Orderly, Writing
  <2> QED
    BY <1>1, <1>3, <2>1, <2>3, EndKeepsOrder
<1>4. CASE Lose(record.pid)
  <2>1. Shrinking /\ NoneLive' /\ Recorded'
    BY <1>1, <1>2, <1>4, LosingTheOnlyOne, NoneLiveRecorded DEF TypesInv
  <2>2. "spawn" \in Places /\ shell[s].pid \in {0} \union Pids
    BY Known DEF TypesInv
  <2> QED
    BY <1>1, <2>1, <2>2, GoingKeepsOrder, EndKeepsOrder
<1> QED
  BY <1>1, <1>3, <1>4

LEMMA CheckStaleKeepsOrder ==
  ASSUME TypesInv, Orderly, NEW s \in Shells, CheckStale(s)
  PROVE  Orderly'
<1>1. /\ shell[s].at = "check" /\ record.state = "whole" /\ Lose(record.pid)
      /\ UNCHANGED <<record, daemon>>
      /\ Turn(s, "unlink stale", shell[s].todo, shell[s].pid)
  BY DEF CheckStale, At, Goto
<1>2. record.pid \in Pids /\ record = Whole(record.pid)
  BY <1>1, RecordWhole DEF TypesInv, Types
<1>3. OnlyLive(record.pid)
  BY <1>1, <1>2, OnRecord
<1>4. Shrinking /\ NoneLive' /\ Recorded'
  BY <1>1, <1>2, <1>3, LosingTheOnlyOne, NoneLiveRecorded DEF TypesInv
<1>5. "unlink stale" \in Places /\ shell[s].pid \in {0} \union Pids
  BY Known DEF TypesInv
<1> QED
  BY <1>1, <1>4, <1>5, GoingKeepsOrder

LEMMA UnlinkKeepsOrder ==
  ASSUME TypesInv, Orderly, NEW s \in Shells, UnlinkStale(s)
  PROVE  Orderly'
<1>1. /\ shell[s].at = "unlink stale"
      /\ UNCHANGED <<daemon, lost>>
      /\ \/ shell[s].todo \in {Start, Attach}
              /\ Turn(s, "spawn", shell[s].todo, shell[s].pid)
         \/ shell[s].todo \in {Restart, Rest} /\ Turn(s, "check", Start, shell[s].pid)
         \/ Turn(s, "idle", <<>>, 0)
  BY UnlinkStaleTurns DEF TypesInv
<1>2. Shrinking /\ NoneLive' /\ Recorded'
  BY <1>1, NoChange, NoneLiveRecorded DEF Orderly, Safe
<1>3. "spawn" \in Places /\ shell[s].pid \in {0} \union Pids
  BY Known DEF TypesInv
<1> QED
  BY <1>1, <1>2, <1>3, GoingKeepsOrder, RestartingKeepsOrder, EndKeepsOrder

LEMMA ForgetKeepsOrder ==
  ASSUME TypesInv, Orderly, NEW s \in Shells, Forget(s)
  PROVE  Orderly'
<1>1. /\ shell[s].at = "forget"
      /\ UNCHANGED <<daemon, lost>>
      /\ \/ shell[s].todo = Rest /\ Turn(s, "check", Start, shell[s].pid)
         \/ Turn(s, "idle", <<>>, 0)
  BY ForgetTurns DEF TypesInv
<1>2. Shrinking /\ NoneLive' /\ Recorded'
  BY <1>1, NoChange, NoneLiveRecorded DEF Orderly, Safe
<1> QED
  BY <1>1, <1>2, RestartingKeepsOrder, EndKeepsOrder

(* A command that kills the daemon it has to do with, the only one there,  *)
(* or loses hold of it.                                                    *)
LEMMA KillAndFinish ==
  ASSUME TypesInv, Orderly, NEW s \in Shells,
         shell[s].at \in {"truncate", "write", "health", "attached", "kill"},
         TryKill(shell[s].pid), Finish(s)
  PROVE  Orderly'
<1>1. shell[s].pid \in Pids /\ OnlyLive(shell[s].pid)
  BY DEF TypesInv, ShellsFit, Fitting, Orderly, Safe
<1>2. Shrinking /\ NoneLive'
  BY <1>1, TryingTheOnlyOne DEF TypesInv
<1> QED
  BY <1>2, NoneLiveRecorded, Finishing, EndKeepsOrder

LEMMA KillAndForget ==
  ASSUME TypesInv, Orderly, NEW s \in Shells,
         shell[s].at \in {"health", "kill"},
         TryKill(shell[s].pid), Goto(s, "forget")
  PROVE  Orderly'
<1>1. shell[s].pid \in Pids /\ OnlyLive(shell[s].pid) /\ "forget" \in Places
  BY DEF TypesInv, ShellsFit, Fitting, Orderly, Safe, Places
<1>2. Shrinking /\ NoneLive'
  BY <1>1, TryingTheOnlyOne DEF TypesInv
<1> QED
  BY <1>1, <1>2, NoneLiveRecorded, GoingKeepsOrder DEF Goto

LEMMA WritingKeepsOrder ==
  ASSUME TypesInv, Orderly, NEW s \in Shells, Truncate(s) \/ Write(s)
  PROVE  Orderly'
<1>1. /\ Writing(s) /\ shell[s].pid \in Pids /\ OnlyLive(shell[s].pid)
      /\ shell[s].todo \in {Start, Attach}
  BY DEF TypesInv, ShellsFit, Fitting, Orderly, Safe, Truncate, Write, At, Writing
<1>2. PICK p \in Pids : p = shell[s].pid /\ OnlyLive(p)
  BY <1>1
<1>3. CASE TryKill(shell[s].pid) /\ Finish(s)
  BY <1>1, <1>3, KillAndFinish DEF Writing
<1>4. CASE /\ Truncate(s) /\ record' = Torn /\ Goto(s, "write")
           /\ UNCHANGED <<daemon, lost>>
  <2>1. Shrinking /\ OnlyLive(p)'
    BY <1>1, <1>2, <1>4, NoChange
  <2>2. "write" \in Places /\ Turn(s, "write", shell[s].todo, p)
    BY <1>2, <1>4 DEF Goto, Places
  <2>3. shell'[s].pid = p /\ shell'[s].at = "write"
    <3>1. Types /\ shell[s].todo \in Todos
      BY Known DEF TypesInv
    <3> QED
      BY <2>2, <3>1, Fields
  <2>4. Recorded'
    BY <2>1, <2>3 DEF Recorded, OnlyLive, Writing
  <2>5. shell[s].at \in {"truncate", "write"}
    BY <1>1 DEF Writing
  <2> QED
    BY <1>4, <2>1, <2>2, <2>4, <2>5, GoingKeepsOrder
<1>5. CASE /\ Write(s) /\ record' \in Written(shell[s].pid)
           /\ UNCHANGED <<daemon, lost>>
           /\ Goto(s, IF Doing(s, "attach") THEN "attached" ELSE "health")
  <2>1. Shrinking /\ OnlyLive(p)'
    BY <1>1, <1>2, <1>5, NoChange
  <2>2. shell[s].at = "write" /\ record = Torn
    BY <1>5 DEF Write, At, Orderly, Safe
  <2>3. record' = Whole(p)
    <3>1. Written(p) = {Whole(p)}
      BY <2>2 DEF Written, Torn, Absent
    <3> QED
      BY <1>2, <1>5, <3>1
  <2>4. Recorded'
    BY <2>1, <2>3 DEF Recorded, OnlyLive
  <2>5. PICK a \in {"attached", "health"} : Turn(s, a, shell[s].todo, p)
    BY <1>2, <1>5 DEF Goto
  <2>6. a \in Places
    BY DEF Places
  <2> QED
    BY <2>1, <2>2, <2>4, <2>5, <2>6, GoingKeepsOrder
<1> QED
  BY <1>3, <1>4, <1>5 DEF Truncate, Write

LEMMA EndingKeepsOrder ==
  ASSUME TypesInv, Orderly, NEW s \in Shells,
         Healthy(s) \/ GiveUp(s) \/ AttachedEnds(s) \/ KillRead(s)
  PROVE  Orderly'
<1>1. /\ shell[s].at \in {"health", "attached", "kill"}
      /\ shell[s].pid \in Pids /\ OnlyLive(shell[s].pid) /\ "forget" \in Places
      /\ UNCHANGED record
  BY DEF TypesInv, ShellsFit, Fitting, Orderly, Safe, At, Places,
         Healthy, GiveUp, AttachedEnds, KillRead
<1>2. CASE Finish(s) /\ UNCHANGED <<daemon, lost>>
  <2>1. Turn(s, "idle", <<>>, 0) /\ Shrinking
    BY <1>1, <1>2, Finishing, NoChange
  <2>2. \A q \in Shells : q # s => shell'[q] = shell[q]
    BY <2>1, Ended DEF TypesInv
  <2>3. Recorded'
    BY <1>1, <2>1, <2>2, RecordedStays DEF Orderly, Writing
  <2> QED
    BY <1>1, <2>1, <2>3, EndKeepsOrder
<1>3. CASE /\ shell[s].at \in {"health", "kill"}
           /\ TryKill(shell[s].pid) /\ Goto(s, "forget")
  BY <1>1, <1>3, KillAndForget
<1>5. CASE TryKill(shell[s].pid) /\ Finish(s)
  BY <1>1, <1>5, KillAndFinish
<1>4. CASE AttachedEnds(s)
  <2>1. NoneLive /\ UNCHANGED <<daemon, lost>> /\ Goto(s, "forget")
    BY <1>1, <1>4 DEF AttachedEnds, OnlyLive, NoneLive, Exists, Live
  <2>2. Shrinking /\ NoneLive' /\ Recorded'
    BY <1>1, <2>1, NoChange, NoneLiveRecorded
  <2> QED
    BY <1>1, <2>1, <2>2, GoingKeepsOrder DEF Goto
<1> QED
  BY <1>2, <1>3, <1>4, <1>5 DEF Healthy, GiveUp, KillRead, TryKill, At

(* What makes no daemon live and goes on with no command. *)
LEMMA RestingKeepsOrder ==
  ASSUME Orderly, Shrinking, record' = record,
         \A q \in Shells : \/ shell'[q] = shell[q]
                           \/ shell[q].at = "idle" /\ shell'[q].at = "idle"
  PROVE  Orderly'
<1>1. ASSUME NEW q \in Shells, shell'[q].at # "idle" PROVE shell'[q] = shell[q]
  BY <1>1
<1>2. Apart'
  <2> SUFFICES ASSUME NEW q \in Shells, NEW t \in Shells, q # t,
                      shell'[q].at # "idle", shell'[t].at # "idle"
               PROVE  \/ Home(shell'[q]) /\ Visiting(shell'[t])
                      \/ Home(shell'[t]) /\ Visiting(shell'[q])
    BY DEF Apart
  <2>1. shell'[q] = shell[q] /\ shell'[t] = shell[t]
    BY <1>1
  <2> QED
    BY <2>1 DEF Orderly, Apart
<1>3. ASSUME NEW q \in Shells PROVE Safe(q)'
  <2>1. CASE shell'[q].at = "idle"
    BY <2>1 DEF Safe
  <2>2. CASE shell'[q] = shell[q]
    <3>1. Safe(q)
      BY DEF Orderly
    <3> QED
      BY <2>2, <3>1 DEF Safe, NoneLive, OnlyLive, Shrinking
  <2> QED
    BY <2>1, <2>2
<1>4. Recorded'
  <2> SUFFICES ASSUME NEW pid \in Pids \ lost', Live(pid)'
               PROVE  \/ record' = Whole(pid)
                      \/ \E q \in Shells : shell'[q].pid = pid /\ Writing(q)'
    BY DEF Recorded
  <2>1. pid \in Pids \ lost /\ Live(pid)
    BY DEF Shrinking
  <2>2. ASSUME NEW q \in Shells, shell[q].pid = pid, Writing(q)
        PROVE  shell'[q].pid = pid /\ Writing(q)'
    BY <2>2 DEF Writing
  <2> QED
    BY <2>1, <2>2 DEF Orderly, Recorded
<1> QED
  BY <1>2, <1>3, <1>4 DEF Orderly

LEMMA CuttingShrinks ==
  ASSUME TypesInv, NEW s \in Shells, Cutting(s)
  PROVE  Shrinking
<1>1. CASE Abandon(s)
  BY <1>1 DEF Abandon, Shrinking, Live
<1>2. CASE Interrupt(s)
  <2>1. shell[s].pid \in Pids /\ Kill(shell[s].pid) /\ UNCHANGED lost
    BY <1>2 DEF Interrupt, TypesInv, ShellsFit, Fitting, At
  <2> QED
    BY <2>1, Killing DEF TypesInv, Shrinking
<1> QED
  BY <1>1, <1>2 DEF Cutting

LEMMA CuttingKeepsOrder ==
  ASSUME TypesInv, Orderly, NEW s \in Shells, Cutting(s)
  PROVE  Orderly'
<1>1. /\ record' = record /\ Turn(s, "idle", <<>>, 0) /\ shell'[s].at = "idle"
      /\ \A q \in Shells : q # s => shell'[q] = shell[q]
  <2>1. record' = record /\ Turn(s, "idle", <<>>, 0)
    BY Finishing DEF Cutting, Abandon, Interrupt
  <2> QED
    BY <2>1, Ended DEF TypesInv
<1>2. Shrinking
  BY CuttingShrinks
<1>3. CASE shell[s].at = "idle"
  BY <1>1, <1>2, <1>3, RestingKeepsOrder
<1>4. CASE Abandon(s) /\ shell[s].at # "idle"
  <2>1. Writing(s) => shell[s].pid \in lost'
    BY <1>4 DEF Abandon, Writing, At
  <2>2. ASSUME Writing(s) PROVE Recorded'
    <3>1. ASSUME NEW q \in Shells, q # s PROVE ~Writing(q)
      BY <1>4, <3>1, AloneWhileWriting DEF Orderly, Writing
    <3> QED
      BY <1>1, <1>2, <2>1, <2>2, <3>1 DEF Orderly, Recorded, Shrinking
  <2>3. ASSUME ~Writing(s) PROVE Recorded'
    BY <1>1, <1>2, <2>3, RecordedStays DEF Orderly
  <2> QED
    BY <1>1, <1>2, <1>4, <2>2, <2>3, EndKeepsOrder
<1>5. CASE Interrupt(s)
  BY <1>5, KillAndFinish DEF Interrupt, TryKill, At
<1> QED
  BY <1>3, <1>4, <1>5 DEF Cutting

(* What daemons do, and what is done to them by other means than commands. *)
Besides(pid) == Serve(pid) \/ BindFails(pid) \/ Die(pid) \/ KilledBeside(pid)

LEMMA BesidesShrinks ==
  ASSUME TypesInv, NEW pid \in Pids, Besides(pid)
  PROVE  Shrinking
<1>1. CASE Serve(pid) \/ BindFails(pid) \/ Die(pid)
  BY <1>1 DEF Serve, BindFails, Die, Live, TypesInv, Types, Shrinking
<1>2. CASE KilledBeside(pid)
  BY <1>2, TryingToKill DEF KilledBeside, TypesInv, Shrinking
<1> QED
  BY <1>1, <1>2 DEF Besides

LEMMA BesidesKeepsOrder ==
  ASSUME TypesInv, Orderly, NEW pid \in Pids, Besides(pid)
  PROVE  Orderly'
<1>1. UNCHANGED <<record, shell>>
  BY DEF Besides, Serve, BindFails, Die, KilledBeside
<1> QED
  BY <1>1, BesidesShrinks, RestingKeepsOrder

(* A daemon is begun while no other command does anything. *)
LEMMA SpawnKeepsOrder ==
  ASSUME TypesInv, Orderly, LifecycleAssumption, NEW s \in Shells, Spawn(s)
  PROVE  Orderly'
<1>1. /\ shell[s].at = "spawn" /\ NoneLive /\ UNCHANGED <<record, lost>>
      /\ shell[s].todo \in {Start, Attach}
  BY DEF Spawn, At, Orderly, Safe, TypesInv, ShellsFit, Fitting
<1>2. CASE Finish(s) /\ UNCHANGED daemon
  BY <1>1, <1>2, NoChange, NoneLiveRecorded, Finishing, EndKeepsOrder
<1>3. CASE /\ daemon' = [daemon EXCEPT ![NextPid] = "starting"]
           /\ Turn(s, "truncate", shell[s].todo, NextPid)
  <2>1. NextPid \in Pids
    <3>1. s \in Pending
      BY <1>1 DEF Pending, ToSpawn
    <3> QED
      BY <3>1, NextPidThere DEF TypesInv
  <2>. PICK p \in Pids : p = NextPid
    BY <2>1
  <2>2. /\ shell'[s].at = "truncate" /\ shell'[s].pid = p
        /\ \A q \in Shells : q # s => shell'[q] = shell[q]
    <3>1. Types /\ "truncate" \in Places /\ shell[s].todo \in Todos
      BY Known DEF TypesInv
    <3> QED
      BY <1>3, <2>1, <3>1, Fields
  <2>3. OnlyLive(p)'
    <3>1. daemon' = [daemon EXCEPT ![p] = "starting"]
      BY <1>3
    <3> QED
      BY <1>1, <3>1 DEF TypesInv, Types, OnlyLive, NoneLive, Live
  <2>4. ASSUME NEW q \in Shells, q # s PROVE shell'[q].at = "idle"
    <3>1. ~Home(shell[s]) /\ ~Visiting(shell[s])
      BY <1>1 DEF Home, Visiting, Start, Attach, Look, Stop
    <3> QED
      BY <1>1, <2>2, <2>4, <3>1 DEF Orderly, Apart
  <2>5. Apart'
    BY <2>4 DEF Apart
  <2>6. ASSUME NEW q \in Shells PROVE Safe(q)'
    <3>1. CASE q = s
      BY <2>2, <2>3, <3>1 DEF Safe, OnlyLive
    <3>2. CASE q # s
      BY <2>4, <3>2 DEF Safe
    <3> QED
      BY <3>1, <3>2
  <2>7. Recorded'
    BY <2>2, <2>3 DEF Recorded, OnlyLive, Writing
  <2> QED
    BY <2>5, <2>6, <2>7 DEF Orderly
<1> QED
  BY <1>2, <1>3 DEF Spawn

(* A command that does not overlap another one looks at the runtime of an  *)
(* attached start or stops it, or is the only one.                         *)
LEMMA BeginKeepsOrder ==
  ASSUME TypesInv, Orderly, LifecycleAssumption,
         NEW s \in Shells, NEW command \in Commands, Begin(s, command), ~overlap'
  PROVE  Orderly'
<1>1. /\ shell'[s] = [at |-> "check", todo |-> Plans[command], pid |-> 0]
      /\ \A q \in Shells : q # s => shell'[q] = shell[q]
  BY BeginIsTyped DEF TypesInv
<1>2. shell'[s].at = "check" /\ shell'[s].todo = Plans[command]
  BY <1>1
<1>3. shell[s].at = "idle" /\ UNCHANGED <<record, daemon, lost>>
  BY DEF Begin, At
<1>4. ASSUME NEW q \in Shells, q # s, shell[q].at # "idle"
      PROVE  Home(shell'[q]) /\ Visiting(shell'[s])
  <2>1. shell[q].at = "attached" /\ command \in {"status", "stop"}
    BY <1>4 DEF Begin, Overlaps, At
  <2>2. shell[q].todo = Attach
    BY <2>1 DEF TypesInv, ShellsFit, Fitting
  <2> QED
    BY <1>1, <1>2, <1>4, <2>1, <2>2, PlansAre DEF Home, Visiting
<1>5. Apart'
  <2> SUFFICES ASSUME NEW q \in Shells, NEW t \in Shells, q # t,
                      shell'[q].at # "idle", shell'[t].at # "idle"
               PROVE  \/ Home(shell'[q]) /\ Visiting(shell'[t])
                      \/ Home(shell'[t]) /\ Visiting(shell'[q])
    BY DEF Apart
  <2>1. ASSUME NEW r \in Shells, r # s, shell'[r].at # "idle"
        PROVE  Home(shell'[r]) /\ Visiting(shell'[s])
    <3>1. shell[r].at # "idle"
      BY <1>1, <2>1
    <3> QED
      BY <1>4, <2>1, <3>1
  <2>2. CASE q # s /\ t # s
    <3>1. shell'[q] = shell[q] /\ shell'[t] = shell[t]
      BY <1>1, <2>2
    <3>2. \/ Home(shell[q]) /\ Visiting(shell[t])
          \/ Home(shell[t]) /\ Visiting(shell[q])
      BY <3>1 DEF Orderly, Apart
    <3> QED
      BY <3>1, <3>2, Zenon
  <2>3. CASE q = s
    BY <2>1, <2>3, Zenon
  <2>4. CASE t = s
    BY <2>1, <2>4, Zenon
  <2> QED
    BY <2>2, <2>3, <2>4
<1>6. ASSUME NEW q \in Shells PROVE Safe(q)'
  <2>1. CASE q = s
    BY <1>2, <2>1 DEF Safe
  <2>2. CASE q # s
    <3>1. shell'[q] = shell[q] /\ Safe(q)
      BY <1>1, <2>2 DEF Orderly
    <3> QED
      BY <1>3, <3>1 DEF Safe, NoneLive, OnlyLive, Live
  <2> QED
    BY <2>1, <2>2
<1>7. Recorded'
  BY <1>1, <1>3, NoChange, RecordedStays DEF Orderly, Writing
<1> QED
  BY <1>5, <1>6, <1>7 DEF Orderly

-----------------------------------------------------------------------------
LEMMA OrderInit == Init => OrderInv
<1> SUFFICES ASSUME Init PROVE OrderInv
  OBVIOUS
<1>1. \A s \in Shells : shell[s].at = "idle"
  BY DEF Init, Idle
<1>2. Apart /\ (\A s \in Shells : Safe(s)) /\ Recorded
  BY <1>1 DEF Init, Apart, Safe, Recorded, Live
<1> QED
  BY <1>2, TypesInit DEF OrderInv, Orderly

LEMMA OrderMoves ==
  ASSUME OrderInv, LifecycleAssumption, Moves
  PROVE  OrderInv'
<1>1. SUFFICES ASSUME ~overlap' PROVE Orderly'
  BY TypesMove DEF OrderInv
<1>2. TypesInv /\ (overlap => overlap')
  <2>1. ASSUME NEW s \in Shells, Step(s) PROVE UNCHANGED overlap
    BY <2>1 DEF Step, Work, CheckNoRecord, CheckUnreadable, CheckActive, CheckStale,
                UnlinkStale, Spawn, Truncate, Write, Healthy, GiveUp, AttachedEnds, KillRead, Forget
  <2>2. ASSUME NEW s \in Shells, Cutting(s) PROVE UNCHANGED overlap
    BY <2>2 DEF Cutting
  <2>3. ASSUME NEW s \in Shells, NEW command \in Commands, Begin(s, command)
        PROVE  overlap => overlap'
    BY <2>3 DEF Begin
  <2>4. ASSUME NEW pid \in Pids,
               Serve(pid) \/ BindFails(pid) \/ Die(pid) \/ KilledBeside(pid)
        PROVE  UNCHANGED overlap
    BY <2>4 DEF Serve, BindFails, Die, KilledBeside
  <2> QED
    BY <2>1, <2>2, <2>3, <2>4 DEF OrderInv, Moves, Calm
<1>3. Orderly
  BY <1>1, <1>2 DEF OrderInv
<1>4. CASE Calm
  <2>1. UNCHANGED <<record, shell, daemon, lost>>
    BY <1>4 DEF Calm
  <2> QED
    BY <1>3, <2>1, NoChange, RestingKeepsOrder
<1>5. ASSUME NEW s \in Shells, Step(s) PROVE Orderly'
  BY <1>2, <1>3, <1>5, CheckNoRecordKeepsOrder, CheckUnreadableKeepsOrder,
     CheckActiveKeepsOrder, CheckStaleKeepsOrder, UnlinkKeepsOrder, SpawnKeepsOrder, WritingKeepsOrder,
     EndingKeepsOrder, ForgetKeepsOrder DEF Step, Work
<1> QED
  BY <1>1, <1>2, <1>3, <1>4, <1>5, BeginKeepsOrder, CuttingKeepsOrder,
     BesidesKeepsOrder DEF Moves, Besides

LEMMA OrderNext == OrderInv /\ [Next]_vars => OrderInv'
BY NextMoves, OrderMoves, LifecycleAssumption DEF OrderInv, TypesInv

-----------------------------------------------------------------------------
(* What can be said of a command that only stops or starts a runtime, for  *)
(* those who run such commands.                                            *)

LEMMA StepsAt ==
  ASSUME NEW s \in Shells, Step(s)
  PROVE  /\ shell[s].at # "idle" /\ overlap' = overlap
         /\ Spawn(s) <=> shell[s].at = "spawn"
BY DEF Step, Work, CheckNoRecord, CheckUnreadable, CheckActive, CheckStale, UnlinkStale,
   Spawn, Truncate, Write, Healthy, GiveUp, AttachedEnds, KillRead, Forget, At

LEMMA StepsKill ==
  ASSUME TypesInv, NEW s \in Shells, Step(s)
  PROVE  \/ Spawn(s) /\ UNCHANGED lost
         \/ UNCHANGED <<daemon, lost>>
         \/ \E pid \in Pids : TryKill(pid)
<1>1. shell[s].at \in {"truncate", "write", "health", "kill"} => shell[s].pid \in Pids
  BY DEF TypesInv, ShellsFit, Fitting
<1>2. record.state = "whole" => record.pid \in Pids
  BY RecordWhole DEF TypesInv, Types
<1>3. CASE CheckNoRecord(s) \/ CheckUnreadable(s) \/ CheckActive(s) \/ CheckStale(s)
  BY <1>2, <1>3 DEF CheckNoRecord, CheckUnreadable, CheckActive, CheckStale, TryKill
<1>4. CASE Truncate(s) \/ Write(s) \/ GiveUp(s) \/ KillRead(s)
  BY <1>1, <1>4 DEF Truncate, Write, GiveUp, KillRead, TryKill, At
<1>5. CASE Spawn(s) \/ UnlinkStale(s) \/ Healthy(s) \/ AttachedEnds(s) \/ Forget(s)
  BY <1>5 DEF Spawn, UnlinkStale, Healthy, AttachedEnds, Forget
<1> QED
  BY <1>3, <1>4, <1>5 DEF Step, Work

LEMMA StepShrinks ==
  ASSUME TypesInv, NEW s \in Shells, Step(s), ~Spawn(s)
  PROVE  Shrinking
<1>1. CASE UNCHANGED <<daemon, lost>>
  BY <1>1, NoChange
<1>2. CASE \E pid \in Pids : TryKill(pid)
  BY <1>2, TryingToKill DEF TypesInv, Shrinking
<1> QED
  BY <1>1, <1>2, StepsKill

LEMMA StepsGo ==
  ASSUME TypesInv, NEW s \in Shells, Step(s), shell[s].todo \in {Stop, Start}
  PROVE  \/ Turn(s, "idle", <<>>, 0)
         \/ \E a \in Places \ {"idle"}, p \in {0} \union Pids : Turn(s, a, shell[s].todo, p)
<1> USE DEF TypesInv
<1>0. shell[s].todo \notin {Restart, Rest}
  BY DEF Stop, Start, Restart, Rest
<1>1. CASE CheckNoRecord(s)
  <2>1. shell[s].pid \in {0} \union Pids /\ "spawn" \in Places \ {"idle"}
    BY Known
  <2> QED
    BY <1>0, <1>1, <2>1, CheckNoRecordTurns
<1>9. CASE CheckUnreadable(s)
  <2>1. shell[s].pid \in {0} \union Pids /\ "spawn" \in Places \ {"idle"}
    BY Known
  <2> QED
    BY <1>9, <2>1, CheckUnreadableTurns
<1>2. CASE CheckActive(s)
  <2>1. "kill" \in Places \ {"idle"}
    BY Known
  <2> QED
    BY <1>0, <1>2, <2>1, CheckActiveTurns
<1>3. CASE UnlinkStale(s)
  <2>1. shell[s].pid \in {0} \union Pids /\ "spawn" \in Places \ {"idle"}
    BY Known
  <2> QED
    BY <1>0, <1>3, <2>1, UnlinkStaleTurns
<1>4. CASE Forget(s)
  BY <1>0, <1>4, ForgetTurns
<1>5. CASE Finish(s)
  BY <1>5, Finishing
<1>6. ASSUME NEW a \in {"unlink stale", "write", "forget"}, Goto(s, a)
      PROVE  \E b \in Places \ {"idle"}, p \in {0} \union Pids : Turn(s, b, shell[s].todo, p)
  <2>1. a \in Places \ {"idle"} /\ shell[s].pid \in {0} \union Pids
    BY Known
  <2> QED
    BY <1>6, <2>1 DEF Goto
<1>7. CASE Spawn(s)
  <2>1. s \in Pending /\ "truncate" \in Places \ {"idle"}
    BY <1>7, Known DEF Pending, ToSpawn, Spawn, At, ShellsFit, Fitting
  <2>2. NextPid \in Pids
    BY <2>1, NextPidThere, LifecycleAssumption
  <2> QED
    BY <1>5, <1>7, <2>1, <2>2 DEF Spawn
<1>8. CASE Write(s)
  <2>1. ASSUME Goto(s, IF Doing(s, "attach") THEN "attached" ELSE "health")
        PROVE  \E b \in Places \ {"idle"}, p \in {0} \union Pids :
                 Turn(s, b, shell[s].todo, p)
    <3>1. /\ {"attached", "health"} \subseteq Places \ {"idle"}
          /\ shell[s].pid \in {0} \union Pids
      BY Known
    <3> QED
      BY <2>1, <3>1 DEF Goto
  <2> QED
    BY <1>5, <1>8, <2>1 DEF Write
<1> QED
  BY <1>1, <1>2, <1>3, <1>4, <1>5, <1>6, <1>7, <1>8, <1>9 DEF Step, Work, CheckStale,
     Truncate, Healthy, GiveUp, AttachedEnds, KillRead

(* A command keeps to its task until it ends. *)
LEMMA StepKeepsTask ==
  ASSUME TypesInv, NEW s \in Shells, Step(s), shell[s].todo \in {Stop, Start}
  PROVE  /\ shell[s].at # "idle"
         /\ \A q \in Shells : q # s => shell'[q] = shell[q]
         /\ \/ shell'[s].at = "idle" /\ shell'[s].todo = <<>> /\ shell'[s].pid = 0
            \/ shell'[s].at # "idle" /\ shell'[s].todo = shell[s].todo
<1>1. shell[s].at # "idle" /\ Types
  BY TodosApart DEF TypesInv, ShellsFit, Fitting
<1>2. /\ "idle" \in Places /\ <<>> \in Todos /\ 0 \in {0} \union Pids
      /\ shell[s].todo \in Todos
  BY <1>1, Known
<1>3. CASE Turn(s, "idle", <<>>, 0)
  BY <1>1, <1>2, <1>3, Fields
<1>4. ASSUME NEW a \in Places \ {"idle"}, NEW p \in {0} \union Pids,
             Turn(s, a, shell[s].todo, p)
      PROVE  /\ \A q \in Shells : q # s => shell'[q] = shell[q]
             /\ shell'[s].at # "idle" /\ shell'[s].todo = shell[s].todo
  BY <1>1, <1>2, <1>4, Fields
<1> QED
  BY <1>1, <1>3, <1>4, StepsGo

(* A stop that is past its check and its kill, or has ended, leaves no     *)
(* daemon that lives, but for those that are lost.                         *)
LEMMA StopLeavesNone ==
  ASSUME TypesInv, Orderly, Orderly', NEW s \in Shells, Step(s), shell[s].todo = Stop,
         shell'[s].at \notin {"check", "kill"}
  PROVE  NoneLive'
<1>1. ~Spawn(s) /\ shell[s].at \notin {"truncate", "write", "health", "attached"}
  BY DEF TypesInv, ShellsFit, Fitting, Spawn, At, Stop, Start, Attach
<1>2. CASE shell'[s].at \in {"unlink stale", "spawn", "forget"}
  BY <1>2 DEF Orderly, Safe
<1>3. ASSUME NoneLive PROVE NoneLive'
  BY <1>1, <1>3, StepShrinks DEF NoneLive, Shrinking
<1>4. CASE CheckNoRecord(s)
  <2>1. shell[s].at = "check" /\ record \in {Absent, Torn}
    BY <1>4, CheckNoRecordTurns DEF TypesInv
  <2> QED
    BY <1>3, <2>1, NothingOnRecord
<1>5. CASE CheckActive(s)
  <2>1. Turn(s, "kill", shell[s].todo, record.pid) /\ record.pid \in Pids
    <3>1. Doing(s, "stop") /\ ~Doing(s, "start") /\ ~Doing(s, "attach") /\ ~Doing(s, "look")
      BY TodosApart DEF Doing
    <3>2. record.pid \in Pids
      BY <1>5, CheckActiveTurns DEF TypesInv
    <3> QED
      BY <1>5, <3>1, <3>2 DEF CheckActive, Starting
  <2>2. "kill" \in Places /\ shell[s].todo \in Todos /\ Types
    BY Known DEF TypesInv
  <2>3. shell'[s].at = "kill"
    BY <2>1, <2>2, Fields
  <2> QED
    BY <2>3
<1>6. CASE CheckStale(s)
  <2>1. Turn(s, "unlink stale", shell[s].todo, shell[s].pid)
    BY <1>6 DEF CheckStale, Goto
  <2>2. /\ "unlink stale" \in Places /\ shell[s].todo \in Todos
        /\ shell[s].pid \in {0} \union Pids /\ Types
    BY Known DEF TypesInv
  <2>3. shell'[s].at = "unlink stale"
    BY <2>1, <2>2, Fields
  <2> QED
    BY <1>2, <2>3
<1>7. CASE UnlinkStale(s) \/ Forget(s)
  BY <1>3, <1>7 DEF UnlinkStale, Forget, At, Orderly, Safe
<1>8. CASE KillRead(s)
  <2>1. /\ shell[s].at = "kill" /\ shell[s].pid \in Pids /\ TryKill(shell[s].pid)
        /\ OnlyLive(shell[s].pid) /\ Types
    BY <1>8 DEF KillRead, TryKill, At, TypesInv, ShellsFit, Fitting, Orderly, Safe
  <2> QED
    BY <2>1, TryingTheOnlyOne
<1>9. CASE CheckUnreadable(s)
  <2>1. /\ shell[s].at = "check" /\ record.pid \in Pids /\ record = Whole(record.pid)
        /\ UNCHANGED daemon /\ Lose(record.pid)
    BY <1>9, CheckUnreadableTurns DEF TypesInv
  <2>2. OnlyLive(record.pid)
    BY <2>1, OnRecord
  <2> QED
    BY <2>1, <2>2, LosingTheOnlyOne DEF TypesInv
<1> QED
  BY <1>1, <1>4, <1>5, <1>6, <1>7, <1>8, <1>9 DEF Step, Work, Truncate, Write, Healthy,
     GiveUp, AttachedEnds, At

(* What a start has begun, nothing if that fails, is all that lives. *)
LEMMA SpawnedIsAll ==
  ASSUME TypesInv, Orderly, Orderly', NEW s \in Shells, Spawn(s)
  PROVE  \A pid \in Pids \ lost' : Live(pid)' => pid = shell'[s].pid
<1>1. CASE shell'[s].at = "truncate"
  BY <1>1 DEF Orderly, Safe, OnlyLive
<1>2. CASE Finish(s) /\ UNCHANGED daemon
  BY <1>2, NoChange DEF Spawn, At, Orderly, Safe, NoneLive
<1>3. CASE Turn(s, "truncate", shell[s].todo, NextPid)
  BY <1>1, <1>3 DEF Turn, TypesInv, Types
<1> QED
  BY <1>2, <1>3 DEF Spawn

-----------------------------------------------------------------------------
(* How far a command has still to go: by its tasks, and by its place in    *)
(* the first of them.                                                      *)
Ahead ==
  [place \in Places |->
     CASE place = "idle"                           -> 0
       [] place = "forget"                         -> 1
       [] place \in {"kill", "health", "attached"} -> 2
       [] place = "write"                          -> 3
       [] place = "truncate"                       -> 4
       [] place = "spawn"                          -> 5
       [] place = "unlink stale"                   -> 6
       [] place = "check"                          -> 7]

Left(x) == 8 * Len(x.todo) + Ahead[x.at]

Descending(s) ==
  /\ Left(shell'[s]) < Left(shell[s])
  /\ \A q \in Shells : q # s => shell'[q] = shell[q]

LEMMA Downward ==
  /\ Ahead["unlink stale"] < Ahead["check"]
  /\ Ahead["spawn"] < Ahead["check"]
  /\ Ahead["kill"] < Ahead["check"]
  /\ Ahead["spawn"] < Ahead["unlink stale"]
  /\ Ahead["truncate"] < Ahead["spawn"]
  /\ Ahead["write"] < Ahead["truncate"]
  /\ Ahead["attached"] < Ahead["write"]
  /\ Ahead["health"] < Ahead["write"]
  /\ Ahead["forget"] < Ahead["attached"]
  /\ Ahead["forget"] < Ahead["health"]
  /\ Ahead["forget"] < Ahead["kill"]
BY DEF Ahead, Places

LEMMA Weighing ==
  ASSUME NEW m \in 0..3, NEW n \in 0..3, NEW i \in 0..7, NEW j \in 0..7
  PROVE  /\ m < n => 8 * m + i < 8 * n + j
         /\ i < j => 8 * n + i < 8 * n + j
OBVIOUS

LEMMA Measured ==
  ASSUME TypesInv, NEW s \in Shells
  PROVE  /\ Ahead \in [Places -> 0..7] /\ Ahead["idle"] = 0
         /\ shell[s].at \in Places /\ shell[s].todo \in Todos
         /\ Len(shell[s].todo) \in 0..3
         /\ shell[s].at # "idle" => Len(shell[s].todo) > 0
<1>1. Ahead \in [Places -> 0..7] /\ Ahead["idle"] = 0
  BY DEF Ahead, Places
<1>2. shell[s].at \in Places /\ shell[s].todo \in Todos
  BY DEF TypesInv, Types, ShellStates
<1>3. /\ Len(shell[s].todo) \in 0..3
      /\ shell[s].at # "idle" => Len(shell[s].todo) > 0
  BY <1>2, TodosApart DEF Todos, TypesInv, ShellsFit, Fitting
<1> QED
  BY <1>1, <1>2, <1>3

LEMMA TurningDown ==
  ASSUME TypesInv, NEW s \in Shells, NEW a \in Places, NEW t \in Todos,
         NEW p \in {0} \union Pids, Turn(s, a, t, p),
         8 * Len(t) + Ahead[a] < 8 * Len(shell[s].todo) + Ahead[shell[s].at]
  PROVE  Descending(s)
<1>1. /\ shell'[s].at = a /\ shell'[s].todo = t
      /\ \A q \in Shells : q # s => shell'[q] = shell[q]
  BY Fields DEF TypesInv
<1> QED
  BY <1>1 DEF Descending, Left

LEMMA GoDescends ==
  ASSUME TypesInv, NEW s \in Shells, NEW a \in Places, NEW p \in {0} \union Pids,
         Turn(s, a, shell[s].todo, p), Ahead[a] < Ahead[shell[s].at]
  PROVE  Descending(s)
<1>1. /\ shell[s].todo \in Todos /\ Len(shell[s].todo) \in 0..3
      /\ Ahead[a] \in 0..7 /\ Ahead[shell[s].at] \in 0..7
  BY Measured
<1>2. 8 * Len(shell[s].todo) + Ahead[a] < 8 * Len(shell[s].todo) + Ahead[shell[s].at]
  BY <1>1, Weighing
<1> QED
  BY <1>1, <1>2, TurningDown

(* On to the next task, or to none. *)
LEMMA NextTaskDescends ==
  ASSUME TypesInv, NEW s \in Shells, NEW a \in Places, NEW t \in Todos,
         NEW p \in {0} \union Pids, Len(t) < Len(shell[s].todo), Turn(s, a, t, p)
  PROVE  Descending(s)
<1>1. /\ Ahead[a] \in 0..7 /\ Ahead[shell[s].at] \in 0..7
      /\ Len(shell[s].todo) \in 0..3
  BY Measured
<1>2. Len(t) \in 0..3
  BY TodosApart DEF Todos
<1>3. 8 * Len(t) + Ahead[a] < 8 * Len(shell[s].todo) + Ahead[shell[s].at]
  BY <1>1, <1>2, Weighing
<1> QED
  BY <1>3, TurningDown

LEMMA EndDescends ==
  ASSUME TypesInv, NEW s \in Shells, shell[s].at # "idle", Turn(s, "idle", <<>>, 0)
  PROVE  Descending(s)
<1>1. Len(<<>>) < Len(shell[s].todo)
  BY Measured
<1>2. "idle" \in Places /\ <<>> \in Todos /\ 0 \in {0} \union Pids
  BY Known DEF TypesInv
<1> QED
  BY <1>1, <1>2, NextTaskDescends

LEMMA StepDescends ==
  ASSUME TypesInv, LifecycleAssumption, NEW s \in Shells, Step(s)
  PROVE  Descending(s)
<1> USE DEF TypesInv
<1>1. /\ shell[s].at # "idle" /\ shell[s].pid \in {0} \union Pids
      /\ "check" \in Places /\ Rest \in Todos /\ Start \in Todos
  BY StepsAt, Known
<1>2. ASSUME Turn(s, "idle", <<>>, 0) PROVE Descending(s)
  BY <1>1, <1>2, EndDescends
<1>3. CASE Finish(s)
  BY <1>2, <1>3, Finishing
<1>4. ASSUME NEW a \in Places, Goto(s, a), Ahead[a] < Ahead[shell[s].at]
      PROVE  Descending(s)
  BY <1>1, <1>4, GoDescends DEF Goto
<1>5. ASSUME shell[s].todo \in {Restart, Rest}, Turn(s, "check", Start, shell[s].pid)
      PROVE  Descending(s)
  <2>1. Len(Start) < Len(shell[s].todo)
    BY <1>5, TodosApart
  <2> QED
    BY <1>1, <1>5, <2>1, NextTaskDescends
<1>6. ASSUME shell[s].at \in {"check", "unlink stale"},
             Turn(s, "spawn", shell[s].todo, shell[s].pid)
      PROVE  Descending(s)
  <2>1. "spawn" \in Places /\ Ahead["spawn"] < Ahead[shell[s].at]
    BY <1>6, Downward, Known
  <2> QED
    BY <1>1, <1>6, <2>1, GoDescends
<1>7. CASE CheckNoRecord(s)
  BY <1>2, <1>5, <1>6, <1>7, CheckNoRecordTurns
<1>18. CASE CheckUnreadable(s)
  BY <1>2, <1>6, <1>18, CheckUnreadableTurns
<1>8. CASE CheckActive(s)
  <2>1. ASSUME Turn(s, "kill", shell[s].todo, record.pid) PROVE Descending(s)
    <3>1. /\ "kill" \in Places /\ record.pid \in {0} \union Pids
          /\ Ahead["kill"] < Ahead[shell[s].at]
      BY <1>8, Downward, CheckActiveTurns, Known
    <3> QED
      BY <2>1, <3>1, GoDescends
  <2>2. ASSUME shell[s].todo = Restart, Turn(s, "check", Rest, shell[s].pid)
        PROVE  Descending(s)
    BY <1>1, <2>2, TodosApart, NextTaskDescends
  <2> QED
    BY <1>2, <1>8, <2>1, <2>2, CheckActiveTurns
<1>9. CASE UnlinkStale(s)
  BY <1>2, <1>5, <1>6, <1>9, UnlinkStaleTurns
<1>10. CASE Forget(s)
  BY <1>2, <1>5, <1>10, ForgetTurns
<1>11. CASE CheckStale(s)
  BY <1>4, <1>11, Downward, Known DEF CheckStale, At
<1>12. CASE Spawn(s)
  <2>1. s \in Pending /\ shell[s].at = "spawn" /\ "truncate" \in Places
    BY <1>12, Known DEF Pending, ToSpawn, Spawn, At, ShellsFit, Fitting
  <2>2. NextPid \in Pids
    BY <2>1, NextPidThere
  <2>3. ASSUME Turn(s, "truncate", shell[s].todo, NextPid) PROVE Descending(s)
    BY <2>1, <2>2, <2>3, Downward, GoDescends
  <2> QED
    BY <1>3, <1>12, <2>3 DEF Spawn
<1>13. CASE Truncate(s)
  BY <1>3, <1>4, <1>13, Downward, Known DEF Truncate, At
<1>14. CASE Write(s)
  <2>1. ASSUME Goto(s, IF Doing(s, "attach") THEN "attached" ELSE "health")
        PROVE  Descending(s)
    <3>1. /\ {"attached", "health"} \subseteq Places
          /\ Ahead["attached"] < Ahead[shell[s].at] /\ Ahead["health"] < Ahead[shell[s].at]
      BY <1>14, Downward, Known DEF Write, At
    <3> QED
      BY <1>4, <2>1, <3>1
  <2> QED
    BY <1>3, <1>14, <2>1 DEF Write
<1>15. CASE GiveUp(s) \/ AttachedEnds(s)
  BY <1>4, <1>15, Downward, Known DEF GiveUp, AttachedEnds, At
<1>16. CASE KillRead(s)
  BY <1>3, <1>4, <1>16, Downward, Known DEF KillRead, At
<1>17. CASE Healthy(s)
  BY <1>3, <1>17 DEF Healthy
<1> QED
  BY <1>7, <1>8, <1>9, <1>10, <1>11, <1>12, <1>13, <1>14, <1>15, <1>16, <1>17, <1>18
     DEF Step, Work

-----------------------------------------------------------------------------
(* No daemon runs that the record does not name, whatever fails and is     *)
(* cut, but for those whose record could not be written or read, and those *)
(* that could not be looked up or killed (run.go 269-293, 364-372,         *)
(* 400-413, 874-889).                                                      *)
THEOREM NoDaemonIsLost == Spec => []NoDaemonLost
<1>1. OrderInv => NoDaemonLost
  BY DEF OrderInv, Orderly, Recorded, NoDaemonLost, Writing, At
<1> QED
  BY <1>1, OrderInit, OrderNext, PTL DEF Spec

(* A start that reports a runtime is right, unless a daemon still runs     *)
(* that commands have lost hold of: what answers its health check is its   *)
(* own, and on record (run.go 289-303).                                    *)
THEOREM StartsAreTruthful == Spec => StartTruthful
<1>1. OrderInv => \A s \in Shells :
           Healthy(s) /\ ~overlap /\ (\A pid \in lost : ~Live(pid))
           => daemon[shell[s].pid] = "serving" /\ record = Whole(shell[s].pid)
  <2> SUFFICES ASSUME OrderInv, NEW s \in Shells,
                      Healthy(s), ~overlap, \A pid \in lost : ~Live(pid)
               PROVE  daemon[shell[s].pid] = "serving" /\ record = Whole(shell[s].pid)
    OBVIOUS
  <2>1. shell[s].at = "health" /\ Orderly /\ TypesInv
    BY DEF Healthy, At, OrderInv
  <2>2. PICK pid \in Pids : daemon[pid] = "serving"
    BY DEF Healthy
  <2>3. pid \in Pids \ lost /\ Live(pid)
    BY <2>2 DEF Live
  <2>4. pid = shell[s].pid
    BY <2>1, <2>3 DEF Orderly, Safe, OnlyLive
  <2>5. ASSUME NEW q \in Shells PROVE ~Writing(q)
    BY <2>1, AloneWhileWriting DEF Orderly, Writing
  <2> QED
    BY <2>1, <2>2, <2>3, <2>4, <2>5 DEF Orderly, Recorded
<1>2. OrderInv /\ [Next]_vars =>
       [ \A s \in Shells :
          Healthy(s) /\ ~overlap /\ (\A pid \in lost : ~Live(pid))
          => /\ daemon[shell[s].pid] = "serving"
             /\ record = Whole(shell[s].pid) ]_vars
  BY <1>1
<1> QED
  BY <1>2, OrderInit, OrderNext, PTL DEF Spec, StartTruthful

(* Every step of a command brings it nearer to its end, and nothing that   *)
(* another command, a daemon or a cut does takes it back, whatever they    *)
(* do to the record meanwhile: activeRuntime reads the record again for    *)
(* each task of a restart, but no command starts over (run.go 199-506).    *)
CommandsDescend ==
  [][ \A s \in Shells :
        /\ Step(s) => Left(shell'[s]) < Left(shell[s])
        /\ ~At(s, "idle") /\ shell'[s] # shell[s]
             => Left(shell'[s]) < Left(shell[s]) ]_vars

(* No command goes round, overlapping or not: it takes at most 31 steps,   *)
(* of 3 tasks with 8 places each, and only an attached start and a health  *)
(* check wait for a daemon in between.                                     *)
THEOREM CommandsGoOn == Spec => CommandsDescend
<1>1. TypesInv /\ [Next]_vars =>
       [ \A s \in Shells :
          /\ Step(s) => Left(shell'[s]) < Left(shell[s])
          /\ ~At(s, "idle") /\ shell'[s] # shell[s]
               => Left(shell'[s]) < Left(shell[s]) ]_vars
  <2> SUFFICES ASSUME TypesInv, Next, NEW s \in Shells
               PROVE  /\ Step(s) => Left(shell'[s]) < Left(shell[s])
                      /\ ~At(s, "idle") /\ shell'[s] # shell[s]
                           => Left(shell'[s]) < Left(shell[s])
    OBVIOUS
  <2>1. ASSUME NEW q \in Shells, Step(q) PROVE Descending(q)
    BY <2>1, StepDescends, LifecycleAssumption
  <2>2. ASSUME ~At(s, "idle"), shell'[s] # shell[s]
        PROVE  Left(shell'[s]) < Left(shell[s])
    <3>1. ASSUME NEW q \in Shells, NEW command \in Commands, Begin(q, command)
          PROVE  FALSE
      BY <2>2, <3>1 DEF Begin, Turn, At, TypesInv, Types
    <3>2. ASSUME NEW q \in Shells, Step(q) PROVE Left(shell'[s]) < Left(shell[s])
      BY <2>1, <2>2, <3>2 DEF Descending
    <3>3. ASSUME NEW q \in Shells, Cut(q) PROVE Left(shell'[s]) < Left(shell[s])
      <4>1. Finish(q) /\ shell[q].at # "idle"
        BY <3>3 DEF Cut, Abandon, Interrupt, At
      <4>2. Descending(q)
        BY <4>1, Finishing, EndDescends
      <4> QED
        BY <2>2, <4>2 DEF Descending
    <3>4. ASSUME NEW pid \in Pids, Serve(pid) \/ BindFails(pid) \/ Die(pid)
          PROVE  FALSE
      BY <2>2, <3>4 DEF Serve, BindFails, Die
    <3> QED
      BY <3>1, <3>2, <3>3, <3>4 DEF Next
  <2> QED
    BY <2>1, <2>2 DEF Descending
<1> QED
  BY <1>1, TypesInit, TypesNext, PTL DEF Spec, CommandsDescend
=============================================================================
