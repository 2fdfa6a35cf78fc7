---------------------- MODULE TerraformLauncherProofs -----------------------
(***************************************************************************)
(* For any number of consoles, runs and kills: terraform runs only while   *)
(* management.azure.com is mapped to this machine, it is served by the     *)
(* daemon of its own run, and a run that ends leaves nothing behind but    *)
(* what it could not remove.                                               *)
(***************************************************************************)
EXTENDS TerraformLauncher, TLAPS

(* From the write of the block to its removal a run relies on it. *)
Holding == {"trust", "terraform", "unmap"}

Claiming(r) == run[r] \in Holding \union {"map"}

(* The block is there for those that rely on it because there is one of    *)
(* them at most: a second run finds the block of the first, and is refused.*)
HostsInv ==
  /\ run \in [Runs -> Places]
  /\ ~crossed =>
       /\ \A r \in Runs : run[r] \in Holding => hosts = "whole"
       /\ \A q, r \in Runs : Claiming(q) /\ Claiming(r) => q = r

-----------------------------------------------------------------------------
(* A run that goes to a place where it does not rely on the block, or did  *)
(* before, disturbs nobody.                                                *)
LEMMA Moving ==
  ASSUME HostsInv,
         NEW r \in Runs, NEW place \in Places,
         run' = [run EXCEPT ![r] = place],
         UNCHANGED hosts, crossed => crossed',
         place \in Holding \union {"map"} => run[r] \in Holding /\ place \in Holding
  PROVE  HostsInv'
BY DEF HostsInv, Claiming

LEMMA Staying ==
  ASSUME HostsInv, UNCHANGED <<run, hosts, crossed>>
  PROVE  HostsInv'
BY DEF HostsInv, Claiming

LEMMA PlacesApart ==
  /\ Holding \union {"map"} \subseteq Places
  /\ {"ready", "old", "init", "start", "health", "load", "hosts", "stop",
      "stopping", "undo override"} \subseteq Places \ (Holding \union {"map"})
BY DEF Places, Holding

(* The one run that may write is done, whatever it has written. *)
LEMMA LeavingMap ==
  ASSUME HostsInv, NEW r \in Runs, run[r] = "map", UNCHANGED crossed,
         NEW place \in Places \ (Holding \union {"map"}),
         run' = [run EXCEPT ![r] = place]
  PROVE  HostsInv'
BY DEF HostsInv, Claiming

(* The steps before the hosts file is read, and those after the block is   *)
(* removed.                                                                *)
LEMMA AwayFromHosts ==
  ASSUME HostsInv, NEW r \in Runs,
         \/ BeginRun(r) \/ StopOld(r) \/ InitRuntime(r) \/ StartRuntime(r)
         \/ RuntimeHealthy(r) \/ RuntimeUnhealthy(r) \/ LoadRecord(r)
         \/ StopRuntime(r) \/ KillDaemon(r) \/ UndoOverride(r)
         \/ KillRun(r) /\ UNCHANGED hosts
  PROVE  HostsInv'
<1>1. /\ UNCHANGED hosts
      /\ crossed' = crossed
  BY DEF BeginRun, StopOld, InitRuntime, StartRuntime, RuntimeHealthy,
         RuntimeUnhealthy, LoadRecord, StopRuntime, KillDaemon, UndoOverride,
         KillRun, Command, NoStop, KillStart, history
<1>2. \E place \in {"ready", "old", "init", "start", "health", "load", "hosts",
                    "stop", "stopping", "undo override"} :
        run' = [run EXCEPT ![r] = place]
  BY DEF BeginRun, StopOld, InitRuntime, StartRuntime, RuntimeHealthy,
         RuntimeUnhealthy, LoadRecord, StopRuntime, KillDaemon, UndoOverride,
         KillRun, Command, NoStop, Go, Reset, FailLaunch
<1> QED
  BY <1>1, <1>2, Moving, PlacesApart

(* A run that finds the file clean finds nobody relying on the block; if   *)
(* another one has found it clean, the two have crossed.                   *)
LEMMA Reading ==
  ASSUME HostsInv, NEW r \in Runs, ReadHosts(r)
  PROVE  HostsInv'
<1>1. CASE FailLaunch(r)
  <2>1. run' = [run EXCEPT ![r] = "stop"] /\ UNCHANGED hosts /\ (crossed => crossed')
    BY <1>1 DEF ReadHosts, FailLaunch
  <2> QED
    BY <2>1, Moving, PlacesApart
<1>2. CASE hosts = "clean" /\ Go(r, "map")
  <2>1. /\ run' = [run EXCEPT ![r] = "map"] /\ UNCHANGED hosts
        /\ run[r] = "hosts"
    BY <1>2 DEF ReadHosts, Go, In
  <2>2. crossed' = (crossed \/ \E q \in Runs : run[q] = "map")
    BY <2>1 DEF ReadHosts, In, HostsInv
  <2> QED
    BY <1>2, <2>1, <2>2 DEF HostsInv, Claiming, Holding, Places
<1> QED
  BY <1>1, <1>2 DEF ReadHosts

(* The block is written, whole or in part, by the one run that has found   *)
(* the file clean.                                                         *)
LEMMA Writing ==
  ASSUME HostsInv, NEW r \in Runs, WriteHosts(r)
  PROVE  HostsInv'
<1>1. UNCHANGED crossed
  BY DEF WriteHosts, history
<1>2. CASE FailLaunch(r)
  BY <1>1, <1>2, LeavingMap, PlacesApart DEF FailLaunch, WriteHosts, In
<1>3. CASE hosts' = "whole" /\ Go(r, "trust")
  <2>1. run' = [run EXCEPT ![r] = "trust"] /\ run[r] = "map"
    BY <1>3 DEF WriteHosts, Go, In
  <2> QED
    BY <1>1, <1>3, <2>1 DEF HostsInv, Claiming, Holding, Places
<1> QED
  BY <1>2, <1>3 DEF WriteHosts

LEMMA KillingRun ==
  ASSUME HostsInv, NEW r \in Runs, KillRun(r)
  PROVE  HostsInv'
<1>1. CASE UNCHANGED hosts
  BY <1>1, AwayFromHosts
<1>2. CASE run[r] = "map"
  <2>1. run' = [run EXCEPT ![r] = "ready"] /\ UNCHANGED crossed
    BY DEF KillRun, Reset
  <2> QED
    BY <1>2, <2>1, LeavingMap, PlacesApart
<1> QED
  BY <1>1, <1>2 DEF KillRun, In

(* It is removed by the one run that relies on it, or not at all. *)
LEMMA Unmapping ==
  ASSUME HostsInv, NEW r \in Runs, Unmap(r)
  PROVE  HostsInv'
<1>1. /\ run' = [run EXCEPT ![r] = "stop"] /\ run[r] = "unmap"
      /\ UNCHANGED crossed
  BY DEF Unmap, Go, In, history
<1> QED
  BY <1>1 DEF HostsInv, Claiming, Holding, Places

LEMMA Relying ==
  ASSUME HostsInv, NEW r \in Runs, Trust(r) \/ TerraformEnds(r)
  PROVE  HostsInv'
<1>1. /\ UNCHANGED hosts /\ crossed' = crossed
      /\ run[r] = "trust" \/ run[r] = "terraform"
      /\ \/ run' = [run EXCEPT ![r] = "terraform"]
         \/ run' = [run EXCEPT ![r] = "unmap"]
  BY DEF Trust, TerraformEnds, Go, In, history
<1>2. {"terraform", "unmap"} \subseteq Places /\ run[r] \in Holding
  BY <1>1 DEF Holding, Places
<1>3. CASE run' = [run EXCEPT ![r] = "terraform"]
  BY <1>1, <1>2, <1>3, Moving DEF Holding
<1>4. CASE run' = [run EXCEPT ![r] = "unmap"]
  BY <1>1, <1>2, <1>4, Moving DEF Holding
<1> QED
  BY <1>1, <1>3, <1>4

-----------------------------------------------------------------------------
LEMMA HostsInvInit == Init => HostsInv
BY DEF Init, HostsInv, Claiming, Holding, Places

LEMMA HostsInvNext == HostsInv /\ [Next]_vars => HostsInv'
<1> SUFFICES ASSUME HostsInv, [Next]_vars
             PROVE  HostsInv'
  OBVIOUS
<1>1. ASSUME NEW r \in Runs,
             LocalCommand(r) \/ BeginRun(r) \/ BeginFails(r) \/ RunStep(r)
               \/ TerraformEnds(r) \/ CommandWorks(r) \/ KillRun(r)
      PROVE  HostsInv'
  <2>1. CASE LocalCommand(r) \/ BeginFails(r) \/ CommandWorks(r)
    BY <2>1, Staying DEF LocalCommand, BeginFails, CommandWorks, vars, history
  <2>2. CASE RunStep(r)
    BY <2>2, AwayFromHosts, Reading, Writing, Relying, Unmapping DEF RunStep
  <2> QED
    BY <1>1, <2>1, <2>2, AwayFromHosts, Relying, KillingRun
<1>2. CASE EditHosts
  BY <1>2 DEF EditHosts, In, HostsInv, Claiming, Holding
<1>3. ASSUME NEW pid \in Runtime!Pids, DaemonMoves(pid)
      PROVE  HostsInv'
  BY <1>3, Staying DEF DaemonMoves, history
<1>4. CASE UNCHANGED vars
  BY <1>4, Staying DEF vars, history
<1> QED
  BY <1>1, <1>2, <1>3, <1>4 DEF Next

(* Whatever ends or refuses a run, and whichever of its writes fail, no    *)
(* terraform runs without the block, as long as no two runs have found the *)
(* hosts file clean at the same time (run.go 314-358).                     *)
THEOREM TerraformStaysLocal == Spec => []NeverToAzure
<1>1. HostsInv => NeverToAzure
  BY DEF HostsInv, NeverToAzure, Mapped, In, Holding
<1> QED
  BY <1>1, HostsInvInit, HostsInvNext, PTL DEF Spec
-----------------------------------------------------------------------------
(* The runtime.  A run does with the commands and the daemons what a user  *)
(* may do, but for the commands that it cuts and the daemon that it kills, *)
(* for which RuntimeLifecycleProofs allows: its invariants hold here, too. *)

Life == INSTANCE RuntimeLifecycleProofs WITH Shells <- Runs, MaxStart <- MaxRun + 1

(* RuntimeLifecycle is used here and there by one instance each, which say *)
(* the same.                                                               *)
USE DEF Runtime!Pids, Life!Pids, Runtime!Absent, Life!Absent, Runtime!Torn, Life!Torn,
        Runtime!Whole, Life!Whole, Runtime!Exists, Life!Exists, Runtime!Plans, Life!Plans,
        Runtime!Idle, Life!Idle, Runtime!At, Life!At, Runtime!Doing, Life!Doing,
        Runtime!Starting, Life!Starting, Runtime!Turn, Life!Turn, Runtime!Goto, Life!Goto,
        Runtime!Check, Life!Check, Runtime!Finish, Life!Finish,
        Runtime!Proceed, Life!Proceed, Runtime!Kill, Life!Kill,
        Runtime!Live, Life!Live, Runtime!Lose, Life!Lose, Runtime!TryKill, Life!TryKill

LEMMA SameBegin ==
  ASSUME NEW r \in Runs, NEW command, Runtime!Begin(r, command)
  PROVE  Life!Begin(r, command)
BY DEF Runtime!Begin, Life!Begin, Runtime!Overlaps, Life!Overlaps

LEMMA SameChecks ==
  ASSUME NEW r \in Runs
  PROVE  /\ Runtime!CheckActive(r) => Life!CheckActive(r)
         /\ Runtime!CheckUnreadable(r) => Life!CheckUnreadable(r)
         /\ Runtime!CheckStale(r) => Life!CheckStale(r)
         /\ Runtime!UnlinkStale(r) => Life!UnlinkStale(r)
         /\ Runtime!Forget(r) => Life!Forget(r)
<1>1. Runtime!CheckActive(r) => Life!CheckActive(r)
  BY DEF Runtime!CheckActive, Life!CheckActive
<1>2. Runtime!CheckStale(r) => Life!CheckStale(r)
  BY DEF Runtime!CheckStale, Life!CheckStale
<1>3. Runtime!UnlinkStale(r) => Life!UnlinkStale(r)
  BY DEF Runtime!UnlinkStale, Life!UnlinkStale
<1>4. Runtime!Forget(r) => Life!Forget(r)
  BY DEF Runtime!Forget, Life!Forget
<1>5. Runtime!CheckUnreadable(r) => Life!CheckUnreadable(r)
  BY DEF Runtime!CheckUnreadable, Life!CheckUnreadable
<1> QED
  BY <1>1, <1>2, <1>3, <1>4, <1>5

LEMMA SameNoRecord ==
  ASSUME NEW r \in Runs, Runtime!CheckNoRecord(r)
  PROVE  Life!CheckNoRecord(r)
<1>1. Runtime!WithoutRuntime(r) <=> Life!WithoutRuntime(r)
  BY Zenon DEF Runtime!WithoutRuntime, Life!WithoutRuntime
<1> QED
  BY <1>1 DEF Runtime!CheckNoRecord, Life!CheckNoRecord

LEMMA SameWrites ==
  ASSUME NEW r \in Runs
  PROVE  /\ Runtime!Spawn(r) => Life!Spawn(r)
         /\ Runtime!Truncate(r) => Life!Truncate(r)
         /\ Runtime!Write(r) => Life!Write(r)
<1>1. Runtime!Spawn(r) => Life!Spawn(r)
  BY DEF Runtime!Spawn, Life!Spawn, Runtime!NextPid, Life!NextPid
<1>2. Runtime!Truncate(r) => Life!Truncate(r)
  BY DEF Runtime!Truncate, Life!Truncate
<1>3. Runtime!Write(r) => Life!Write(r)
  <2>1. \A pid : Runtime!Written(pid) = Life!Written(pid)
    BY Zenon DEF Runtime!Written, Life!Written
  <2> QED
    BY <2>1 DEF Runtime!Write, Life!Write
<1> QED
  BY <1>1, <1>2, <1>3

LEMMA SameEnds ==
  ASSUME NEW r \in Runs
  PROVE  /\ Runtime!Healthy(r) => Life!Healthy(r)
         /\ Runtime!GiveUp(r) => Life!GiveUp(r)
         /\ Runtime!AttachedEnds(r) => Life!AttachedEnds(r)
         /\ Runtime!KillRead(r) => Life!KillRead(r)
<1>1. Runtime!Healthy(r) => Life!Healthy(r)
  BY DEF Runtime!Healthy, Life!Healthy
<1>2. Runtime!GiveUp(r) => Life!GiveUp(r)
  BY DEF Runtime!GiveUp, Life!GiveUp
<1>3. Runtime!AttachedEnds(r) => Life!AttachedEnds(r)
  BY DEF Runtime!AttachedEnds, Life!AttachedEnds
<1>4. Runtime!KillRead(r) => Life!KillRead(r)
  BY DEF Runtime!KillRead, Life!KillRead
<1> QED
  BY <1>1, <1>2, <1>3, <1>4

LEMMA SameCuts ==
  ASSUME NEW r \in Runs
  PROVE  /\ Runtime!Abandon(r) => Life!Abandon(r)
         /\ Runtime!Interrupt(r) => Life!Interrupt(r)
         /\ \A pid : Runtime!Kill(pid) => Life!Kill(pid)
         /\ \A pid : Runtime!TryKill(pid) => Life!TryKill(pid)
         /\ \A pid : Runtime!Lose(pid) => Life!Lose(pid)
BY DEF Runtime!Abandon, Life!Abandon, Runtime!Interrupt, Life!Interrupt

LEMMA SameDaemons ==
  ASSUME NEW pid
  PROVE  /\ Runtime!Serve(pid) => Life!Serve(pid)
         /\ Runtime!BindFails(pid) => Life!BindFails(pid)
         /\ Runtime!Die(pid) => Life!Die(pid)
BY DEF Runtime!Serve, Life!Serve, Runtime!BindFails, Life!BindFails, Runtime!Die, Life!Die,
       Runtime!PortTaken, Life!PortTaken

HIDE DEF Runtime!Pids, Life!Pids, Runtime!Absent, Life!Absent, Runtime!Torn, Life!Torn,
         Runtime!Whole, Life!Whole, Runtime!Exists, Life!Exists, Runtime!Plans, Life!Plans,
         Runtime!Idle, Life!Idle, Runtime!At, Life!At, Runtime!Doing, Life!Doing,
         Runtime!Starting, Life!Starting, Runtime!Turn, Life!Turn, Runtime!Goto, Life!Goto,
         Runtime!Check, Life!Check, Runtime!Finish, Life!Finish,
         Runtime!Proceed, Life!Proceed, Runtime!Kill, Life!Kill,
         Runtime!Live, Life!Live, Runtime!Lose, Life!Lose, Runtime!TryKill, Life!TryKill

-----------------------------------------------------------------------------
RunTypes ==
  /\ run \in [Runs -> Places]
  /\ loaded \in [Runs -> {0} \union Life!Pids] /\ own \in [Runs -> {0} \union Life!Pids]
  /\ \A r \in Runs : In(r, "ready") => loaded[r] = 0 /\ own[r] = 0
  /\ begun \in 0..MaxRun
  /\ hosts \in HostsFiles
  /\ {override, met, crossed, dirty, litter, stale} \subseteq BOOLEAN

TypesInv == RunTypes /\ Life!TypesInv

(* Ways that a run goes without a command. *)
Ways ==
  {<<"old", "init">>, <<"init", "start">>, <<"init", "undo override">>,
   <<"start", "undo override">>, <<"load", "hosts">>, <<"load", "stop">>,
   <<"hosts", "map">>, <<"hosts", "stop">>, <<"map", "trust">>, <<"map", "stop">>,
   <<"trust", "terraform">>, <<"trust", "unmap">>, <<"terraform", "unmap">>,
   <<"unmap", "stop">>, <<"stop", "stopping">>, <<"stopping", "undo override">>}

(* What is on record is lost. *)
LosingRecorded ==
  /\ UNCHANGED daemon
  /\ record.state = "whole" => Life!Lose(record.pid)
  /\ record.state # "whole" => UNCHANGED lost

Walk(r) ==
  /\ \E place \in Places \ {"ready"} :
       run' = [run EXCEPT ![r] = place] /\ <<run[r], place>> \in Ways
  /\ run[r] \in {"init", "stopping"} => shell[r].at = "idle"
  /\ loaded' \in [Runs -> {0} \union Life!Pids]
  /\ \A q \in Runs : q # r => loaded'[q] = loaded[q]
  /\ \/ UNCHANGED <<hosts, stale>> /\ run[r] # "unmap"
     \/ WriteHosts(r) \/ Unmap(r)
  /\ crossed' \in BOOLEAN
  /\ UNCHANGED <<record, shell, starts, overlap, begun, cuts, override, own, met,
                 dirty, litter>>
  /\ UNCHANGED <<daemon, lost>> \/ \E pid \in Life!Pids : Life!TryKill(pid)
  /\ run[r] \in {"old", "stop"} => LosingRecorded

(* Ways that it goes by giving a command. *)
Calls == {<<"old", "stop", "init">>, <<"start", "start", "health">>,
          <<"stop", "stop", "stopping">>}

Call(r) ==
  /\ \E command \in {"start", "stop"}, place \in Places \ {"ready"} :
       /\ Life!Begin(r, command)
       /\ run' = [run EXCEPT ![r] = place] /\ <<run[r], command, place>> \in Calls
  /\ UNCHANGED <<loaded, begun, override, hosts, history>>

CutStart(r) ==
  /\ run[r] = "health"
  /\ \E place \in {"load", "stop"} : run' = [run EXCEPT ![r] = place]
  /\ loaded' \in [Runs -> {0} \union Life!Pids]
  /\ \A q \in Runs : q # r => loaded'[q] = loaded[q]
  /\ Life!Cutting(r)
  /\ UNCHANGED <<begun, override, hosts, history>>

LEMMA OneRecorded ==
  ASSUME TypesInv, record.state = "whole"
  PROVE  record.pid \in Life!Pids /\ record = Life!Whole(record.pid)
BY Life!RecordWhole, LauncherAssumption DEF TypesInv, Life!TypesInv, Life!Types

LEMMA Paths ==
  ASSUME TypesInv, NEW r \in Runs
  PROVE  /\ StopOld(r) => Walk(r) \/ Call(r)
         /\ StartRuntime(r) => Walk(r) \/ Call(r)
         /\ StopRuntime(r) => Walk(r) \/ Call(r)
<1> USE DEF Walk, Call, Ways, Calls, Places, TypesInv, RunTypes
<1>1. ASSUME NEW command \in {"start", "stop"}, NEW place \in Places \ {"ready"},
             <<run[r], command, place>> \in Calls, Command(r, command, place)
      PROVE  Call(r)
  BY <1>1, SameBegin DEF Command, Go, history
<1>2. ASSUME NEW place \in Places \ {"ready"}, <<run[r], place>> \in Ways, NoStop(r, place),
             run[r] \in {"old", "stop"}
      PROVE  Walk(r)
  <2>1. record.state = "whole" => record.pid \in Life!Pids
    BY OneRecorded
  <2>2. /\ UNCHANGED daemon
        /\ record.state = "whole" => Life!Lose(record.pid)
        /\ record.state # "whole" => UNCHANGED lost
    BY <1>2, SameCuts DEF NoStop
  <2>3. UNCHANGED <<daemon, lost>> \/ \E pid \in Life!Pids : Life!TryKill(pid)
    BY <2>1, <2>2 DEF Life!TryKill
  <2>4. /\ \E p \in Places \ {"ready"} :
             run' = [run EXCEPT ![r] = p] /\ <<run[r], p>> \in Ways
        /\ UNCHANGED <<loaded, hosts, record, shell, starts, overlap, begun, cuts, override,
                       history>>
    BY <1>2 DEF NoStop, Go
  <2> QED
    BY <1>2, <2>2, <2>3, <2>4 DEF history, LosingRecorded
<1>3. StopOld(r) => Walk(r) \/ Call(r)
  BY <1>1, <1>2 DEF StopOld, In
<1>4. StartRuntime(r) => Walk(r) \/ Call(r)
  <2>1. ASSUME run[r] = "start", Go(r, "undo override"),
               UNCHANGED <<runtime, begun, cuts, override, hosts, history>>
        PROVE  Walk(r)
    BY <2>1 DEF Go, history, runtime
  <2> QED
    BY <1>1, <2>1 DEF StartRuntime, In
<1>5. StopRuntime(r) => Walk(r) \/ Call(r)
  BY <1>1, <1>2 DEF StopRuntime, In
<1> QED
  BY <1>3, <1>4, <1>5

LEMMA MoreWays ==
  ASSUME TypesInv, NEW r \in Runs,
         \/ InitRuntime(r) \/ LoadRecord(r) \/ ReadHosts(r) \/ WriteHosts(r) \/ Trust(r)
         \/ TerraformEnds(r) \/ Unmap(r)
  PROVE  Walk(r)
<1>1. /\ UNCHANGED <<runtime, begun, cuts, override, own, met, dirty, litter>>
      /\ crossed' \in BOOLEAN
      /\ \/ UNCHANGED <<hosts, stale>> /\ run[r] # "unmap"
         \/ WriteHosts(r) \/ Unmap(r)
  <2>1. crossed \in BOOLEAN
    BY DEF TypesInv, RunTypes
  <2>2. UNCHANGED <<runtime, begun, cuts, override, own, met, dirty, litter>>
    BY DEF InitRuntime, LoadRecord, ReadHosts, WriteHosts, Trust, TerraformEnds, Unmap,
           history
  <2>3. crossed' \in BOOLEAN
    BY <2>1 DEF InitRuntime, LoadRecord, ReadHosts, WriteHosts, Trust, TerraformEnds, Unmap,
           history
  <2>4. \/ UNCHANGED <<hosts, stale>> /\ run[r] # "unmap"
        \/ WriteHosts(r) \/ Unmap(r)
    BY DEF InitRuntime, LoadRecord, ReadHosts, Trust, TerraformEnds, In, history
  <2> QED
    BY <2>2, <2>3, <2>4
<1>2. \E place \in Places \ {"ready"} :
        run' = [run EXCEPT ![r] = place] /\ <<run[r], place>> \in Ways
  BY DEF InitRuntime, LoadRecord, ReadHosts, WriteHosts, Trust, TerraformEnds, Unmap,
         Go, FailLaunch, In, Ways, Places
<1>3. /\ run[r] \notin {"stopping", "old", "stop"}
      /\ run[r] = "init" => shell[r].at = "idle"
  BY DEF InitRuntime, LoadRecord, ReadHosts, WriteHosts, Trust, TerraformEnds, Unmap,
         In, Waited, Runtime!At
<1>4. \/ UNCHANGED loaded
      \/ \E pid \in {0} \union Life!Pids : loaded' = [loaded EXCEPT ![r] = pid]
  <2>1. Runtime!Pids = Life!Pids
    BY DEF Runtime!Pids, Life!Pids
  <2> QED
    BY <2>1 DEF InitRuntime, LoadRecord, ReadHosts, WriteHosts, Trust, TerraformEnds, Unmap,
         Go, FailLaunch
<1>5. /\ loaded' \in [Runs -> {0} \union Life!Pids]
      /\ \A q \in Runs : q # r => loaded'[q] = loaded[q]
  BY <1>4 DEF TypesInv, RunTypes
<1> QED
  BY <1>1, <1>2, <1>3, <1>5 DEF Walk, runtime

LEMMA KillWay ==
  ASSUME TypesInv, NEW r \in Runs, KillDaemon(r)
  PROVE  Walk(r)
<1>1. loaded[r] \in {0} \union Life!Pids
  BY DEF TypesInv, RunTypes
<1>2. UNCHANGED <<daemon, lost>> \/ \E pid \in Life!Pids : Life!TryKill(pid)
  <2>1. loaded[r] > 0 => loaded[r] \in Life!Pids
    BY <1>1
  <2>2. Runtime!TryKill(loaded[r]) => Life!TryKill(loaded[r])
    BY SameCuts
  <2> QED
    BY <2>1, <2>2 DEF KillDaemon
<1> QED
  BY <1>2 DEF KillDaemon, Walk, Ways, Places, Go, In, Waited, Runtime!At, TypesInv,
     RunTypes, history

LEMMA HealthWay ==
  ASSUME TypesInv, NEW r \in Runs, RuntimeHealthy(r) \/ RuntimeUnhealthy(r)
  PROVE  CutStart(r)
<1>1. Life!Cutting(r) /\ UNCHANGED <<begun, override, hosts, history>>
  <2>1. Life!Abandon(r) /\ UNCHANGED <<record, starts, overlap>> /\ cuts' \in 0..MaxCut
    BY SameCuts DEF RuntimeHealthy, RuntimeUnhealthy, KillStart, TypesInv, Life!TypesInv,
       Life!Types
  <2> QED
    BY <2>1 DEF Life!Cutting, RuntimeHealthy, RuntimeUnhealthy, KillStart
<1>2. UNCHANGED loaded \/ loaded' = [loaded EXCEPT ![r] = 0]
  BY DEF RuntimeHealthy, RuntimeUnhealthy, Go, FailLaunch
<1>3. /\ loaded' \in [Runs -> {0} \union Life!Pids]
      /\ \A q \in Runs : q # r => loaded'[q] = loaded[q]
  BY <1>2 DEF TypesInv, RunTypes
<1> QED
  BY <1>1, <1>3 DEF RuntimeHealthy, RuntimeUnhealthy, CutStart, Go, FailLaunch, In

(* A step of a run is one of these, or its last. *)
LEMMA RunStepsAre ==
  ASSUME TypesInv, NEW r \in Runs, RunStep(r) \/ TerraformEnds(r)
  PROVE  Walk(r) \/ Call(r) \/ CutStart(r) \/ UndoOverride(r)
BY Paths, MoreWays, KillWay, HealthWay DEF RunStep

LEMMA WorksStep ==
  ASSUME NEW r \in Runs, CommandWorks(r)
  PROVE  Life!Step(r)
BY SameChecks, SameNoRecord, SameWrites, SameEnds
   DEF CommandWorks, Runtime!Work, Life!Work, Life!Step

LEMMA DaemonsMove ==
  ASSUME NEW pid, DaemonMoves(pid)
  PROVE  Life!Besides(pid)
BY SameDaemons DEF DaemonMoves, Life!Besides

(* A run that is killed cuts its command, or kills its daemon, or does     *)
(* neither.                                                                *)
LEMMA KillRunMoves ==
  ASSUME TypesInv, NEW r \in Runs, KillRun(r)
  PROVE  \/ Life!Calm
         \/ Life!Cutting(r)
         \/ own[r] \in Life!Pids /\ Life!KilledBeside(own[r])
<1>1. UNCHANGED <<record, starts, overlap>> /\ cuts' \in 0..MaxCut
  <2>1. cuts \in 0..MaxCut
    BY DEF TypesInv, Life!TypesInv, Life!Types
  <2> QED
    BY <2>1, LauncherAssumption DEF KillRun, LauncherAssumption
<1>2. own[r] \in {0} \union Life!Pids
  BY DEF TypesInv, RunTypes
<1>3. CASE UNCHANGED <<shell, lost, daemon>>
  BY <1>1, <1>3 DEF Life!Calm
<1>4. CASE Runtime!Abandon(r) \/ Runtime!Interrupt(r)
  BY <1>1, <1>4, SameCuts DEF Life!Cutting
<1>5. CASE own[r] # 0 /\ Runtime!Kill(own[r]) /\ UNCHANGED <<shell, lost>>
  <2>1. Life!Kill(own[r])
    BY <1>5, SameCuts
  <2> QED
    BY <1>1, <1>2, <1>5, <2>1 DEF Life!KilledBeside, Life!TryKill
<1> QED
  BY <1>3, <1>4, <1>5 DEF KillRun

LEMMA WalkMoves ==
  ASSUME TypesInv, NEW r \in Runs, Walk(r)
  PROVE  Life!Calm \/ \E pid \in Life!Pids : Life!KilledBeside(pid)
<1>1. cuts' \in 0..MaxCut
  BY DEF Walk, TypesInv, Life!TypesInv, Life!Types
<1> QED
  BY <1>1 DEF Walk, Life!Calm, Life!KilledBeside

LEMMA RuntimeMoves ==
  ASSUME TypesInv, [Next]_vars
  PROVE  Life!Moves
<1>1. ASSUME UNCHANGED <<runtime, cuts>> PROVE Life!Moves
  BY <1>1 DEF runtime, Life!Moves, Life!Calm, TypesInv, Life!TypesInv, Life!Types
<1>2. ASSUME NEW r \in Runs, Walk(r) \/ Call(r) \/ CutStart(r)
      PROVE  Life!Moves
  <2>1. CASE Walk(r)
    BY <2>1, WalkMoves DEF Life!Moves
  <2>2. CASE Call(r)
    <3>1. {"start", "stop"} \subseteq Life!Commands
      BY Life!PlansAre, LauncherAssumption
    <3>2. \E command \in Life!Commands : Life!Begin(r, command)
      BY <2>2, <3>1 DEF Call
    <3> QED
      BY <3>2 DEF Life!Moves
  <2>3. CASE CutStart(r)
    BY <2>3 DEF CutStart, Life!Moves
  <2> QED
    BY <1>2, <2>1, <2>2, <2>3
<1>3. ASSUME NEW r \in Runs,
             LocalCommand(r) \/ BeginRun(r) \/ BeginFails(r) \/ UndoOverride(r)
      PROVE  Life!Moves
  BY <1>1, <1>3 DEF LocalCommand, BeginRun, BeginFails, UndoOverride, vars
<1>4. ASSUME NEW r \in Runs, CommandWorks(r) PROVE Life!Moves
  BY <1>4, WorksStep DEF Life!Moves
<1>5. ASSUME NEW r \in Runs, KillRun(r) PROVE Life!Moves
  BY <1>5, KillRunMoves DEF Life!Moves
<1>6. ASSUME NEW pid \in Runtime!Pids, DaemonMoves(pid) PROVE Life!Moves
  <2>1. pid \in Life!Pids
    BY DEF Runtime!Pids, Life!Pids
  <2> QED
    BY <1>6, <2>1, DaemonsMove DEF Life!Moves, Life!Besides
<1>7. CASE EditHosts
  BY <1>1, <1>7 DEF EditHosts
<1>8. CASE UNCHANGED vars
  BY <1>1, <1>8 DEF vars
<1> QED
  BY <1>2, <1>3, <1>4, <1>5, <1>6, <1>7, <1>8, RunStepsAre DEF Next

-----------------------------------------------------------------------------
LEMMA ResetTypes ==
  ASSUME RunTypes, NEW r \in Runs, NEW place \in Places, Reset(r, place)
  PROVE  /\ run' \in [Runs -> Places]
         /\ loaded' \in [Runs -> {0} \union Life!Pids]
         /\ own' \in [Runs -> {0} \union Life!Pids]
         /\ \A q \in Runs : In(q, "ready")' => loaded'[q] = 0 /\ own'[q] = 0
BY DEF RunTypes, Reset, In

(* A run that goes on, and does not come to its end. *)
LEMMA GoingTypes ==
  ASSUME RunTypes, NEW r \in Runs, NEW place \in Places \ {"ready"},
         run' = [run EXCEPT ![r] = place],
         loaded' \in [Runs -> {0} \union Life!Pids],
         \A q \in Runs : q # r => loaded'[q] = loaded[q],
         own' = own
  PROVE  /\ run' \in [Runs -> Places]
         /\ \A q \in Runs : In(q, "ready")' => loaded'[q] = 0 /\ own'[q] = 0
BY DEF RunTypes, In

LEMMA RunTypesNext ==
  ASSUME TypesInv, Life!TypesInv', [Next]_vars
  PROVE  RunTypes'
<1>1. ASSUME UNCHANGED <<run, loaded, own, begun, override, hosts, met, crossed, dirty,
                         litter, stale>>
      PROVE  RunTypes'
  BY <1>1 DEF TypesInv, RunTypes, In
<1>2. ASSUME NEW r \in Runs, Walk(r) \/ Call(r) \/ CutStart(r)
      PROVE  RunTypes'
  <2>1. PICK place \in Places \ {"ready"} : run' = [run EXCEPT ![r] = place]
    BY <1>2 DEF Walk, Call, CutStart, Places
  <2>2. /\ loaded' \in [Runs -> {0} \union Life!Pids] /\ own' = own
        /\ \A q \in Runs : q # r => loaded'[q] = loaded[q]
    BY <1>2 DEF Walk, Call, CutStart, history, TypesInv, RunTypes
  <2>3. /\ run' \in [Runs -> Places]
        /\ \A q \in Runs : In(q, "ready")' => loaded'[q] = 0 /\ own'[q] = 0
    BY <2>1, <2>2, GoingTypes DEF TypesInv
  <2>4. UNCHANGED <<begun, override, met, dirty, litter>> /\ crossed' \in BOOLEAN
    BY <1>2 DEF Walk, Call, CutStart, history, TypesInv, RunTypes
  <2>5. hosts' \in HostsFiles /\ stale' \in BOOLEAN
    <3>1. hosts \in HostsFiles /\ stale \in BOOLEAN
      BY DEF TypesInv, RunTypes
    <3>2. CASE UNCHANGED <<hosts, stale>>
      BY <3>1, <3>2
    <3>3. CASE WriteHosts(r) \/ Unmap(r)
      BY <3>1, <3>3 DEF WriteHosts, Unmap, WrittenInPart, HostsFiles
    <3> QED
      BY <1>2, <3>2, <3>3 DEF Walk, Call, CutStart, history
  <2> QED
    BY <2>2, <2>3, <2>4, <2>5 DEF TypesInv, RunTypes
<1>3. ASSUME NEW r \in Runs, BeginRun(r) PROVE RunTypes'
  <2>1. Reset(r, "old") /\ "old" \in Places
    BY <1>3 DEF BeginRun, Places
  <2>2. begun' \in 0..MaxRun
    BY <1>3, LauncherAssumption DEF BeginRun, TypesInv, RunTypes, LauncherAssumption
  <2>3. /\ {override', met', crossed', dirty', litter', stale'} \subseteq BOOLEAN
        /\ hosts' \in HostsFiles
    BY <1>3 DEF BeginRun, TypesInv, RunTypes
  <2> QED
    BY <2>1, <2>2, <2>3, ResetTypes DEF TypesInv, RunTypes
<1>10. ASSUME NEW r \in Runs, BeginFails(r) PROVE RunTypes'
  <2>1. begun' \in 0..MaxRun
    BY <1>10, LauncherAssumption DEF BeginFails, TypesInv, RunTypes, LauncherAssumption
  <2> QED
    BY <1>10, <2>1 DEF BeginFails, TypesInv, RunTypes, In
<1>4. ASSUME NEW r \in Runs, UndoOverride(r) \/ KillRun(r) PROVE RunTypes'
  <2>1. Reset(r, "ready") /\ "ready" \in Places
    BY <1>4 DEF UndoOverride, KillRun, Places
  <2>2. begun' \in 0..MaxRun
    BY <1>4 DEF UndoOverride, KillRun, TypesInv, RunTypes
  <2>3. /\ {override', met', crossed', dirty', litter', stale'} \subseteq BOOLEAN
        /\ hosts' \in HostsFiles
    BY <1>4 DEF UndoOverride, KillRun, WrittenInPart, TypesInv, RunTypes
  <2> QED
    BY <2>1, <2>2, <2>3, ResetTypes DEF TypesInv, RunTypes
<1>5. ASSUME NEW r \in Runs, CommandWorks(r) PROVE RunTypes'
  <2>1. shell'[r].pid \in {0} \union Life!Pids
    BY DEF Life!TypesInv, Life!Types, Life!ShellStates
  <2>2. own' \in [Runs -> {0} \union Life!Pids]
    BY <1>5, <2>1 DEF CommandWorks, TypesInv, RunTypes
  <2>3. \A q \in Runs : In(q, "ready") => own'[q] = own[q]
    BY <1>5 DEF CommandWorks, TypesInv, RunTypes, In
  <2> QED
    BY <1>5, <2>2, <2>3 DEF CommandWorks, TypesInv, RunTypes, In
<1>6. ASSUME NEW r \in Runs, LocalCommand(r) PROVE RunTypes'
  BY <1>1, <1>6 DEF LocalCommand, vars, history
<1>7. ASSUME NEW pid \in Runtime!Pids, DaemonMoves(pid) PROVE RunTypes'
  BY <1>1, <1>7 DEF DaemonMoves, history
<1>8. CASE EditHosts
  BY <1>8 DEF EditHosts, TypesInv, RunTypes, HostsFiles, In
<1>9. CASE UNCHANGED vars
  BY <1>1, <1>9 DEF vars, history
<1> QED
  BY <1>2, <1>3, <1>4, <1>5, <1>6, <1>7, <1>8, <1>9, <1>10, RunStepsAre DEF Next

-----------------------------------------------------------------------------
(* What there is of a block in the hosts file is the whole one of a run    *)
(* that is to remove it, or stale; the override is that of a run in        *)
(* progress, or litter.                                                    *)
FilesInv ==
  /\ hosts # "clean" => stale \/ (hosts = "whole" /\ \E r \in Runs : run[r] \in Holding)
  /\ override => litter \/ \E r \in Runs : run[r] # "ready"

(* Who fails to write, or is killed while it writes, did not rely on the   *)
(* block.                                                                  *)
LEMMA PartsAreStale ==
  ASSUME FilesInv, NEW r \in Runs, run[r] = "map", WrittenInPart,
         \A q \in Runs : q # r => run'[q] = run[q]
  PROVE  hosts' # "clean" => stale' \/ (hosts' = "whole" /\ \E q \in Runs : run'[q] \in Holding)
<1>1. run[r] \notin Holding
  BY DEF Holding
<1> QED
  BY <1>1 DEF FilesInv, WrittenInPart

LEMMA FilesInvNext ==
  ASSUME TypesInv, FilesInv, [Next]_vars
  PROVE  FilesInv'
<1>1. ASSUME UNCHANGED <<run, override, hosts, litter, stale>> PROVE FilesInv'
  BY <1>1 DEF FilesInv
<1>2. ASSUME NEW r \in Runs, NEW place \in Places \ {"ready"},
             run' = [run EXCEPT ![r] = place]
      PROVE  run'[r] = place /\ \A q \in Runs : q # r => run'[q] = run[q]
  BY <1>2 DEF TypesInv, RunTypes
<1>3. ASSUME NEW r \in Runs, Walk(r) PROVE FilesInv'
  <2>1. PICK place \in Places \ {"ready"} :
          run' = [run EXCEPT ![r] = place] /\ <<run[r], place>> \in Ways
    BY <1>3 DEF Walk
  <2>2. run[r] \in Holding => run[r] = "unmap" \/ run'[r] \in Holding
    BY <1>2, <2>1 DEF Ways, Holding
  <2>3. \A q \in Runs : q # r => run'[q] = run[q]
    BY <1>2, <2>1
  <2>4. hosts' # "clean" => stale' \/ (hosts' = "whole" /\ \E q \in Runs : run'[q] \in Holding)
    <3>1. CASE UNCHANGED <<hosts, stale>> /\ run[r] # "unmap"
      BY <2>2, <2>3, <3>1 DEF FilesInv
    <3>2. CASE WriteHosts(r) /\ hosts' = "whole" /\ Go(r, "trust")
      <4>1. run'[r] \in Holding
        BY <3>2 DEF Go, Holding, TypesInv, RunTypes
      <4> QED
        BY <3>2, <4>1
    <3>3. CASE WriteHosts(r) /\ WrittenInPart
      BY <2>3, <3>3, PartsAreStale DEF WriteHosts, In
    <3>4. CASE Unmap(r)
      BY <3>4 DEF Unmap, FilesInv
    <3> QED
      BY <1>3, <3>1, <3>2, <3>3, <3>4 DEF Walk, WriteHosts
  <2>5. run'[r] # "ready"
    BY <1>2, <2>1
  <2> QED
    BY <2>4, <2>5 DEF FilesInv
<1>4. ASSUME NEW r \in Runs, Call(r) \/ CutStart(r) PROVE FilesInv'
  <2>1. PICK place \in Places \ {"ready"} : run' = [run EXCEPT ![r] = place]
    BY <1>4 DEF Call, CutStart, Places
  <2>2. /\ run[r] \notin Holding /\ run'[r] # "ready"
        /\ \A q \in Runs : q # r => run'[q] = run[q]
    BY <1>2, <1>4, <2>1 DEF Call, CutStart, Calls, Holding
  <2> QED
    BY <1>4, <2>2 DEF Call, CutStart, history, FilesInv
<1>5. ASSUME NEW r \in Runs, BeginRun(r) PROVE FilesInv'
  <2>1. run' = [run EXCEPT ![r] = "old"] /\ "old" \in Places \ {"ready"}
    BY <1>5 DEF BeginRun, Reset, Places
  <2>2. run[r] \notin Holding
    BY <1>5 DEF BeginRun, In, Holding
  <2> QED
    BY <1>2, <1>5, <2>1, <2>2 DEF BeginRun, FilesInv
<1>6. ASSUME NEW r \in Runs, UndoOverride(r) PROVE FilesInv'
  <2>1. \A q \in Runs : run[q] \in Holding => run'[q] = run[q]
    BY <1>6 DEF UndoOverride, Reset, In, Holding, TypesInv, RunTypes
  <2>2. override' => litter'
    BY <1>6, Zenon DEF UndoOverride
  <2>3. UNCHANGED <<hosts, stale>>
    BY <1>6 DEF UndoOverride
  <2> QED
    BY <2>1, <2>2, <2>3 DEF FilesInv
<1>7. ASSUME NEW r \in Runs, KillRun(r) PROVE FilesInv'
  <2>1. \A q \in Runs : q # r => run'[q] = run[q]
    BY <1>7 DEF KillRun, Reset, TypesInv, RunTypes
  <2>2. override' => litter'
    BY <1>7 DEF KillRun
  <2>3. hosts' # "clean" => stale' \/ (hosts' = "whole" /\ \E q \in Runs : run'[q] \in Holding)
    <3>1. CASE run[r] = "map" /\ WrittenInPart
      BY <2>1, <3>1, PartsAreStale
    <3>2. CASE /\ UNCHANGED hosts
               /\ stale' = (stale \/ (hosts # "clean" /\ run[r] \in Holding))
      BY <2>1, <3>2 DEF FilesInv
    <3> QED
      BY <1>7, <3>1, <3>2 DEF KillRun, In, Holding
  <2> QED
    BY <2>2, <2>3 DEF FilesInv
<1>8. ASSUME NEW r \in Runs, LocalCommand(r) \/ CommandWorks(r) PROVE FilesInv'
  BY <1>1, <1>8 DEF LocalCommand, CommandWorks, vars, history
<1>12. ASSUME NEW r \in Runs, BeginFails(r) PROVE FilesInv'
  BY <1>12 DEF BeginFails, FilesInv
<1>9. ASSUME NEW pid \in Runtime!Pids, DaemonMoves(pid) PROVE FilesInv'
  BY <1>1, <1>9 DEF DaemonMoves, history
<1>10. CASE EditHosts
  BY <1>10 DEF EditHosts, FilesInv
<1>11. CASE UNCHANGED vars
  BY <1>1, <1>11 DEF vars, history
<1> QED
  BY <1>3, <1>4, <1>5, <1>6, <1>7, <1>8, <1>9, <1>10, <1>11, <1>12, RunStepsAre DEF Next

-----------------------------------------------------------------------------
(* The command that a run has given goes with the place where it is.  What *)
(* is left of a run that was killed may be any command.                    *)
Fitting(r) ==
  /\ shell[r].todo \in {<<>>, Life!Stop, Life!Start}
  /\ shell[r].at # "idle" =>
       \/ run[r] = "ready" /\ dirty
       \/ run[r] \in {"init", "stopping"} /\ shell[r].todo = Life!Stop
       \/ run[r] = "health" /\ shell[r].todo = Life!Start

Busy(r) == run[r] # "ready" \/ shell[r].at # "idle"

(* As long as no two runs have met, one at most does anything. *)
Alone ==
  ~met => ~overlap /\ \A q, r \in Runs : Busy(q) /\ Busy(r) => q = r

CommandsInv == (\A r \in Runs : Fitting(r)) /\ Alone

LEMMA OneGoesOn ==
  ASSUME TypesInv, CommandsInv, NEW r \in Runs,
         \A q \in Runs : q # r => run'[q] = run[q] /\ shell'[q] = shell[q],
         dirty => dirty', met' = met, ~met => ~overlap',
         Busy(r)' => Busy(r),
         Fitting(r)'
  PROVE  CommandsInv'
<1>1. ASSUME NEW q \in Runs PROVE Fitting(q)'
  BY DEF CommandsInv, Fitting
<1>2. Alone'
  BY DEF CommandsInv, Alone, Busy
<1> QED
  BY <1>1, <1>2 DEF CommandsInv

(* A command that has ended is as good as none. *)
LEMMA IdleFits ==
  ASSUME TypesInv', NEW r \in Runs, shell'[r].at = "idle"
  PROVE  Fitting(r)'
BY DEF TypesInv, Life!TypesInv, Life!ShellsFit, Life!Fitting, Fitting

LEMMA CommandsInvNext ==
  ASSUME TypesInv, TypesInv', CommandsInv, [Next]_vars
  PROVE  CommandsInv'
<1>1. ASSUME UNCHANGED <<run, shell, overlap, dirty, met>> PROVE CommandsInv'
  BY <1>1 DEF CommandsInv, Fitting, Alone, Busy
<1>2. ASSUME NEW r \in Runs, Walk(r) PROVE CommandsInv'
  <2>1. PICK place \in Places \ {"ready"} :
          run' = [run EXCEPT ![r] = place] /\ <<run[r], place>> \in Ways
    BY <1>2 DEF Walk
  <2>2. \A q \in Runs : q # r => run'[q] = run[q]
    BY <2>1 DEF TypesInv, RunTypes
  <2>3. shell[r].at = "idle" /\ Busy(r)
    BY <1>2, <2>1 DEF Ways, Walk, CommandsInv, Fitting, Busy
  <2>4. UNCHANGED <<shell, overlap, dirty, met>>
    BY <1>2 DEF Walk
  <2>5. Fitting(r)'
    BY <2>3, <2>4 DEF Fitting, CommandsInv
  <2> QED
    BY <2>2, <2>3, <2>4, <2>5, OneGoesOn DEF CommandsInv, Alone
<1>3. ASSUME NEW r \in Runs, Call(r) PROVE CommandsInv'
  <2>1. PICK command \in {"start", "stop"}, place \in Places \ {"ready"} :
          /\ Life!Begin(r, command)
          /\ run' = [run EXCEPT ![r] = place] /\ <<run[r], command, place>> \in Calls
    BY <1>3 DEF Call
  <2>2. /\ run'[r] = place /\ run[r] # "ready"
        /\ \A q \in Runs : q # r => run'[q] = run[q]
    BY <2>1 DEF TypesInv, RunTypes, Calls
  <2>3. /\ shell'[r] = [at |-> "check", todo |-> Life!Plans[command], pid |-> 0]
        /\ \A q \in Runs : q # r => shell'[q] = shell[q]
    <3>1. command \in Life!Commands
      BY Life!PlansAre, LauncherAssumption
    <3> QED
      BY <2>1, <3>1, Life!BeginIsTyped, LauncherAssumption
         DEF TypesInv, Life!TypesInv, Life!LifecycleAssumption, LauncherAssumption
  <2>4. Fitting(r)'
    <3>1. /\ shell'[r].todo = Life!Plans[command]
          /\ Life!Plans["stop"] = Life!Stop /\ Life!Plans["start"] = Life!Start
      BY <2>3, Life!PlansAre, LauncherAssumption
    <3>2. \/ run'[r] \in {"init", "stopping"} /\ command = "stop"
          \/ run'[r] = "health" /\ command = "start"
      BY <2>1, <2>2 DEF Calls
    <3> QED
      BY <3>1, <3>2 DEF Fitting
  <2>5. ASSUME ~met PROVE ~overlap'
    <3>1. \A q \in Runs \ {r} : ~Busy(q)
      BY <2>2, <2>5 DEF CommandsInv, Alone, Busy
    <3>2. ~Life!Overlaps(r, command)
      BY <3>1 DEF Life!Overlaps, Life!At, Busy
    <3> QED
      BY <2>1, <2>5, <3>2 DEF Life!Begin, CommandsInv, Alone
  <2>6. UNCHANGED <<met, dirty>> /\ Busy(r)
    BY <1>3, <2>2 DEF Call, history, Busy
  <2> QED
    BY <2>2, <2>3, <2>4, <2>5, <2>6, OneGoesOn
<1>4. ASSUME NEW r \in Runs, Life!Cutting(r)
      PROVE  /\ shell'[r].at = "idle" /\ overlap' = overlap
             /\ \A q \in Runs : q # r => shell'[q] = shell[q]
  <2>1. Life!Turn(r, "idle", <<>>, 0) /\ overlap' = overlap
    BY <1>4, Life!Finishing, LauncherAssumption
       DEF Life!Cutting, Life!Abandon, Life!Interrupt
  <2> QED
    BY <2>1, Life!Ended, LauncherAssumption DEF TypesInv, Life!TypesInv
<1>5. ASSUME NEW r \in Runs, CutStart(r) PROVE CommandsInv'
  <2>1. \A q \in Runs : q # r => run'[q] = run[q] /\ shell'[q] = shell[q]
    BY <1>4, <1>5 DEF CutStart, TypesInv, RunTypes
  <2>2. UNCHANGED <<met, dirty>> /\ overlap' = overlap /\ Busy(r)
    BY <1>4, <1>5 DEF CutStart, history, Busy
  <2>3. Fitting(r)'
    <3>1. shell'[r].at = "idle"
      BY <1>4, <1>5 DEF CutStart
    <3> QED
      BY <3>1, IdleFits
  <2> QED
    BY <2>1, <2>2, <2>3, OneGoesOn DEF CommandsInv, Alone
<1>6. ASSUME NEW r \in Runs, BeginRun(r) PROVE CommandsInv'
  <2>1. /\ run'[r] = "old" /\ shell[r].at = "idle"
        /\ \A q \in Runs : q # r => run'[q] = run[q]
    BY <1>6 DEF BeginRun, Reset, Waited, Runtime!At, TypesInv, RunTypes
  <2>2. UNCHANGED <<shell, overlap, dirty>>
    BY <1>6 DEF BeginRun, runtime
  <2>3. ASSUME NEW q \in Runs PROVE Fitting(q)'
    BY <2>1, <2>2 DEF CommandsInv, Fitting
  <2>4. ~met' => ~met /\ \A q \in Runs \ {r} : ~Busy(q)
    BY <1>6 DEF BeginRun, In, Waited, Runtime!At, Busy
  <2>5. Alone'
    BY <2>1, <2>2, <2>4 DEF CommandsInv, Alone, Busy
  <2> QED
    BY <2>3, <2>5 DEF CommandsInv
<1>7. ASSUME NEW r \in Runs, UndoOverride(r) PROVE CommandsInv'
  <2>1. /\ run'[r] = "ready" /\ run[r] = "undo override"
        /\ \A q \in Runs : q # r => run'[q] = run[q]
    BY <1>7 DEF UndoOverride, Reset, In, TypesInv, RunTypes
  <2>2. UNCHANGED <<shell, overlap, met>> /\ dirty' = (dirty /\ met)
    BY <1>7 DEF UndoOverride, runtime
  <2>3. shell[r].at = "idle" /\ Busy(r)
    BY <2>1 DEF CommandsInv, Fitting, Busy
  <2>4. ASSUME NEW q \in Runs PROVE Fitting(q)'
    <3>1. CASE q = r
      BY <2>2, <2>3, <3>1, IdleFits
    <3>2. CASE q # r /\ met
      BY <2>1, <2>2, <3>2 DEF CommandsInv, Fitting
    <3>3. CASE q # r /\ ~met
      <4>1. shell'[q].at = "idle"
        BY <2>2, <2>3, <3>3 DEF CommandsInv, Alone, Busy
      <4> QED
        BY <4>1, IdleFits
    <3> QED
      BY <3>1, <3>2, <3>3
  <2>5. Alone'
    BY <2>1, <2>2, <2>3 DEF CommandsInv, Alone, Busy
  <2> QED
    BY <2>4, <2>5 DEF CommandsInv
<1>8. ASSUME NEW r \in Runs, KillRun(r) PROVE CommandsInv'
  <2>1. /\ run'[r] = "ready" /\ run[r] # "ready"
        /\ \A q \in Runs : q # r => run'[q] = run[q]
    BY <1>8 DEF KillRun, Reset, In, TypesInv, RunTypes
  <2>2. UNCHANGED <<overlap, met>> /\ dirty' = TRUE /\ Busy(r)
    BY <1>8, <2>1 DEF KillRun, Busy
  <2>3. /\ \A q \in Runs : q # r => shell'[q] = shell[q]
        /\ shell'[r] = shell[r] \/ shell'[r].at = "idle"
    BY <1>4, <1>8, KillRunMoves DEF Life!Calm, Life!KilledBeside
  <2>4. Fitting(r)'
    <3>1. CASE shell'[r] = shell[r]
      BY <2>1, <2>2, <3>1 DEF CommandsInv, Fitting
    <3> QED
      BY <2>3, <3>1, IdleFits
  <2> QED
    BY <2>1, <2>2, <2>3, <2>4, OneGoesOn DEF CommandsInv, Alone
<1>9. ASSUME NEW r \in Runs, CommandWorks(r) PROVE CommandsInv'
  <2>1. UNCHANGED <<run, met, dirty>> /\ Life!Step(r)
    BY <1>9, WorksStep DEF CommandWorks
  <2>2. shell[r].at # "idle" /\ shell[r].todo \in {Life!Stop, Life!Start}
    BY <2>1, Life!StepsAt, LauncherAssumption
       DEF CommandsInv, Fitting, TypesInv, Life!TypesInv, Life!ShellsFit, Life!Fitting
  <2>3. /\ \A q \in Runs : q # r => shell'[q] = shell[q]
        /\ \/ shell'[r].at = "idle"
           \/ shell'[r].at # "idle" /\ shell'[r].todo = shell[r].todo
    BY <2>1, <2>2, Life!StepKeepsTask, LauncherAssumption DEF TypesInv
  <2>4. overlap' = overlap
    BY <2>1, Life!StepsAt, LauncherAssumption
  <2>5. Fitting(r)'
    <3>1. CASE shell'[r].at # "idle"
      BY <2>1, <2>2, <2>3, <3>1 DEF CommandsInv, Fitting
    <3> QED
      BY <3>1, IdleFits
  <2>6. Busy(r) /\ (~met => ~overlap')
    BY <2>2, <2>4 DEF Busy, CommandsInv, Alone
  <2> QED
    BY <2>1, <2>3, <2>5, <2>6, OneGoesOn
<1>10. ASSUME NEW r \in Runs, LocalCommand(r) \/ BeginFails(r) PROVE CommandsInv'
  BY <1>1, <1>10 DEF LocalCommand, BeginFails, vars, runtime, history
<1>11. ASSUME NEW pid \in Runtime!Pids, DaemonMoves(pid) PROVE CommandsInv'
  <2>1. Life!Besides(pid) /\ UNCHANGED <<run, dirty, met>>
    BY <1>11, DaemonsMove DEF DaemonMoves, history
  <2>2. UNCHANGED <<shell, overlap>>
    BY <2>1 DEF Life!Besides, Life!Serve, Life!BindFails, Life!Die, Life!KilledBeside
  <2> QED
    BY <1>1, <2>1, <2>2
<1>12. CASE EditHosts
  BY <1>1, <1>12 DEF EditHosts, runtime
<1>13. CASE UNCHANGED vars
  BY <1>1, <1>13 DEF vars, runtime, history
<1> QED
  BY <1>2, <1>3, <1>5, <1>6, <1>7, <1>8, <1>9, <1>10, <1>11, <1>12, <1>13, RunStepsAre
     DEF Next

-----------------------------------------------------------------------------
(* The daemons.  A run is due to stop what its start may have begun, until *)
(* its stop is past the kill.                                              *)
Due(r) ==
  \/ run[r] \in {"health", "load", "hosts", "map", "trust", "terraform", "unmap", "stop"}
  \/ run[r] = "stopping" /\ shell[r].at \in {"check", "kill"}

(* It has not yet stopped what a run before it has left.                   *)
Before(r) ==
  \/ run[r] \in {"ready", "old"}
  \/ run[r] = "init" /\ shell[r].at \in {"check", "kill"}

OnlyLive(r) == \A pid \in Life!Pids \ lost : Life!Live(pid) => pid = own[r]

(* A daemon lives only while a run is due to stop it, or if one was killed *)
(* and left it to the next one; and that has stopped it before it starts   *)
(* its own.                                                                *)
DaemonsInv ==
  /\ ~overlap /\ ~Life!NoneLive =>
       \/ \E r \in Runs : Due(r)
       \/ dirty /\ (met \/ \A r \in Runs : Before(r))
  /\ ~met => \A r \in Runs : Before(r) \/ OnlyLive(r)

RuntimeInv == Life!OrderInv

LEMMA OneGoesOnTidily ==
  ASSUME DaemonsInv, NEW r \in Runs,
         \A q \in Runs : q # r => run'[q] = run[q] /\ shell'[q] = shell[q] /\ own'[q] = own[q],
         met' = met, dirty' = dirty, overlap => overlap', ~met => ~overlap',
         Life!Shrinking,
         ~overlap' =>
           \/ Life!NoneLive'
           \/ /\ Due(r) => Due(r)'
              /\ ~met /\ Before(r) => Before(r)'
              /\ own'[r] = own[r]
  PROVE  DaemonsInv'
<1>1. Life!NoneLive => Life!NoneLive'
  BY DEF Life!NoneLive, Life!Shrinking
<1>2. ASSUME NEW q \in Runs, own'[q] = own[q], OnlyLive(q) PROVE OnlyLive(q)'
  BY <1>2 DEF OnlyLive, Life!Shrinking
<1>3. ASSUME NEW q \in Runs, q # r
      PROVE  (Due(q)' <=> Due(q)) /\ (Before(q)' <=> Before(q))
  BY <1>3 DEF Due, Before
<1>4. CASE Life!NoneLive'
  BY <1>4 DEF DaemonsInv, OnlyLive, Life!NoneLive
<1>5. CASE ~Life!NoneLive' /\ ~overlap'
  BY <1>1, <1>2, <1>3, <1>5 DEF DaemonsInv
<1>6. CASE overlap'
  BY <1>6 DEF DaemonsInv
<1> QED
  BY <1>4, <1>5, <1>6

(* While nobody writes the record, what lives is on it. *)
LEMMA RecordedIsLost ==
  ASSUME TypesInv, RuntimeInv, ~overlap, LosingRecorded,
         \A q \in Runs : ~Life!Writing(q)
  PROVE  Life!NoneLive'
<1>1. Life!Recorded
  BY DEF RuntimeInv, Life!OrderInv, Life!Orderly
<1>2. CASE record.state = "whole"
  <2>1. record.pid \in Life!Pids /\ record = Life!Whole(record.pid)
    BY <1>2, OneRecorded
  <2>2. \A pid \in Life!Pids : record = Life!Whole(pid) => pid = record.pid
    BY DEF Life!Whole
  <2>3. Life!OnlyLive(record.pid)
    BY <1>1, <2>2 DEF Life!Recorded, Life!OnlyLive
  <2> QED
    BY <1>2, <2>1, <2>3, Life!LosingTheOnlyOne, LauncherAssumption
       DEF LosingRecorded, TypesInv, Life!TypesInv
<1>3. CASE record.state # "whole"
  <2>1. \A pid : record # Life!Whole(pid)
    BY <1>3 DEF Life!Whole
  <2>2. Life!NoneLive
    BY <1>1, <2>1 DEF Life!Recorded, Life!NoneLive
  <2> QED
    BY <1>3, <2>2, Life!NoChange, LauncherAssumption DEF LosingRecorded
<1> QED
  BY <1>2, <1>3

LEMMA WalkTidily ==
  ASSUME TypesInv, RuntimeInv, CommandsInv, DaemonsInv, NEW r \in Runs, Walk(r)
  PROVE  DaemonsInv'
<1>1. PICK place \in Places \ {"ready"} :
        run' = [run EXCEPT ![r] = place] /\ <<run[r], place>> \in Ways
  BY DEF Walk
<1>2. run'[r] = place /\ \A q \in Runs : q # r => run'[q] = run[q]
  BY <1>1 DEF TypesInv, RunTypes
<1>3. shell[r].at = "idle" /\ Busy(r)
  BY <1>1 DEF Ways, Walk, CommandsInv, Fitting, Busy
<1>4. UNCHANGED <<shell, overlap, own, met, dirty>>
  BY DEF Walk
<1>5. Life!Shrinking
  <2>1. CASE Life!Calm
    BY <2>1, Life!NoChange, LauncherAssumption DEF Life!Calm
  <2>2. ASSUME NEW pid \in Life!Pids, Life!KilledBeside(pid) PROVE Life!Shrinking
    BY <2>2, Life!BesidesShrinks, LauncherAssumption DEF TypesInv, Life!Besides
  <2> QED
    BY <2>1, <2>2, WalkMoves
<1>6. CASE run[r] \notin {"old", "stop"}
  <2>1. (Due(r) => Due(r)') /\ ~Before(r)
    BY <1>1, <1>2, <1>3, <1>6 DEF Due, Before, Ways
  <2> QED
    BY <1>2, <1>4, <1>5, <2>1, OneGoesOnTidily DEF CommandsInv, Alone, DaemonsInv
<1>7. CASE Life!NoneLive'
  BY <1>2, <1>4, <1>5, <1>7, OneGoesOnTidily DEF CommandsInv, Alone
<1>8. CASE overlap
  BY <1>4, <1>8 DEF DaemonsInv, CommandsInv, Alone
<1>9. ASSUME NEW q \in Runs, Life!Writing(q) PROVE DaemonsInv'
  <2>1. shell[q].at \notin {"idle", "check", "kill"} /\ q # r
    BY <1>3, <1>9 DEF Life!Writing
  <2>2. shell[q].todo # Life!Stop
    BY <1>9 DEF Life!Writing, TypesInv, Life!TypesInv, Life!ShellsFit, Life!Fitting,
       Life!Stop, Life!Start, Life!Attach
  <2>3. met
    BY <1>3, <2>1 DEF CommandsInv, Alone, Busy
  <2>4. run[q] = "health" \/ dirty
    BY <2>1, <2>2 DEF CommandsInv, Fitting
  <2>5. Due(q)' \/ dirty'
    BY <1>2, <1>4, <2>1, <2>4 DEF Due
  <2> QED
    BY <1>4, <2>3, <2>5 DEF DaemonsInv
<1>10. CASE /\ run[r] \in {"old", "stop"} /\ ~overlap
            /\ \A q \in Runs : ~Life!Writing(q)
  BY <1>7, <1>10, RecordedIsLost DEF Walk
<1> QED
  BY <1>6, <1>8, <1>9, <1>10

LEMMA CallTidily ==
  ASSUME TypesInv, CommandsInv, CommandsInv', DaemonsInv, NEW r \in Runs, Call(r)
  PROVE  DaemonsInv'
<1>1. PICK command \in {"start", "stop"}, place \in Places \ {"ready"} :
        /\ Life!Begin(r, command)
        /\ run' = [run EXCEPT ![r] = place] /\ <<run[r], command, place>> \in Calls
  BY DEF Call
<1>2. run'[r] = place /\ \A q \in Runs : q # r => run'[q] = run[q]
  BY <1>1 DEF TypesInv, RunTypes
<1>3. /\ shell'[r].at = "check" /\ shell[r].at = "idle"
      /\ \A q \in Runs : q # r => shell'[q] = shell[q]
  BY <1>1 DEF Life!Begin, Life!Turn, Life!At, TypesInv, Life!TypesInv, Life!Types
<1>4. UNCHANGED <<daemon, lost, own, met, dirty>> /\ (overlap => overlap')
  BY <1>1 DEF Call, history, Life!Begin
<1>5. Life!Shrinking
  BY <1>4, Life!NoChange, LauncherAssumption
<1>6. (Due(r) => Due(r)') /\ (Before(r) => Before(r)')
  BY <1>1, <1>2, <1>3 DEF Due, Before, Calls
<1> QED
  BY <1>2, <1>3, <1>4, <1>5, <1>6, OneGoesOnTidily DEF CommandsInv, Alone

LEMMA CutTidily ==
  ASSUME TypesInv, CommandsInv, DaemonsInv, NEW r \in Runs, CutStart(r)
  PROVE  DaemonsInv'
<1>1. PICK place \in {"load", "stop"} : run' = [run EXCEPT ![r] = place]
  BY DEF CutStart
<1>2. /\ run[r] = "health" /\ run'[r] = place
      /\ \A q \in Runs : q # r => run'[q] = run[q]
  BY <1>1 DEF TypesInv, RunTypes, CutStart
<1>3. Life!Cutting(r) /\ UNCHANGED <<own, met, dirty>>
  BY DEF CutStart, history
<1>4. overlap' = overlap /\ \A q \in Runs : q # r => shell'[q] = shell[q]
  <2>1. Life!Turn(r, "idle", <<>>, 0) /\ overlap' = overlap
    BY <1>3, Life!Finishing, LauncherAssumption
       DEF Life!Cutting, Life!Abandon, Life!Interrupt
  <2> QED
    BY <2>1, Life!Ended, LauncherAssumption DEF TypesInv, Life!TypesInv
<1>5. Life!Shrinking
  BY <1>3, Life!CuttingShrinks, LauncherAssumption DEF TypesInv
<1>6. Due(r)' /\ ~Before(r)
  BY <1>2 DEF Due, Before
<1> QED
  BY <1>2, <1>3, <1>4, <1>5, <1>6, OneGoesOnTidily DEF CommandsInv, Alone

(* A stop that lets go of its runtime has left none; a start makes one     *)
(* live, of a run that is due to stop it or one that was killed.           *)
LEMMA WorkTidily ==
  ASSUME TypesInv, TypesInv', RuntimeInv, RuntimeInv', CommandsInv, DaemonsInv,
         NEW r \in Runs, CommandWorks(r)
  PROVE  DaemonsInv'
<1>1. Life!Step(r) /\ UNCHANGED <<run, met, dirty>>
  BY WorksStep DEF CommandWorks
<1>2. shell[r].at # "idle" /\ overlap' = overlap
  BY <1>1, Life!StepsAt, LauncherAssumption
<1>3. shell[r].todo \in {Life!Stop, Life!Start}
  BY <1>2 DEF CommandsInv, Fitting, TypesInv, Life!TypesInv, Life!ShellsFit, Life!Fitting
<1>4. \A q \in Runs : q # r => shell'[q] = shell[q]
  BY <1>1, <1>3, Life!StepKeepsTask, LauncherAssumption DEF TypesInv
<1>5. /\ \A q \in Runs : q # r => own'[q] = own[q]
      /\ ~Life!Spawn(r) => own' = own
      /\ Life!Spawn(r) => own'[r] = IF run[r] = "health" THEN shell'[r].pid ELSE own[r]
  <2>1. own' = IF run[r] = "health" /\ shell[r].at = "spawn"
               THEN [own EXCEPT ![r] = shell'[r].pid] ELSE own
    BY DEF CommandWorks, In, Runtime!At
  <2>2. own \in [Runs -> {0} \union Life!Pids]
    BY DEF TypesInv, RunTypes
  <2>3. Life!Spawn(r) <=> shell[r].at = "spawn"
    BY <1>1, Life!StepsAt, LauncherAssumption
  <2> QED
    BY <2>1, <2>2, <2>3
<1>6. ~overlap => Life!Orderly /\ Life!Orderly'
  BY <1>2 DEF RuntimeInv, Life!OrderInv
<1>7. CASE ~Life!Spawn(r)
  <2>1. Life!Shrinking
    BY <1>1, <1>7, Life!StepShrinks, LauncherAssumption DEF TypesInv
  <2>2. CASE \/ run[r] \notin {"init", "stopping"}
             \/ shell'[r].at \in {"check", "kill"}
    <3>1. (Due(r) => Due(r)') /\ (Before(r) => Before(r)')
      BY <1>1, <2>2 DEF Due, Before
    <3> QED
      BY <1>1, <1>2, <1>4, <1>5, <1>7, <2>1, <3>1, OneGoesOnTidily DEF CommandsInv, Alone
  <2>3. CASE run[r] \in {"init", "stopping"} /\ shell'[r].at \notin {"check", "kill"}
    <3>1. shell[r].todo = Life!Stop
      BY <1>2, <2>3 DEF CommandsInv, Fitting
    <3>2. ~overlap => Life!NoneLive'
      BY <1>1, <1>6, <2>3, <3>1, Life!StopLeavesNone, LauncherAssumption DEF TypesInv
    <3> QED
      BY <1>1, <1>2, <1>4, <1>5, <1>7, <2>1, <3>2, OneGoesOnTidily DEF CommandsInv, Alone
  <2> QED
    BY <2>2, <2>3
<1>8. CASE Life!Spawn(r)
  <2>1. run[r] = "health" \/ (run[r] = "ready" /\ dirty)
    <3>1. shell[r].todo # Life!Stop
      BY <1>8 DEF Life!Spawn, Life!At, TypesInv, Life!TypesInv, Life!ShellsFit,
         Life!Fitting, Life!Stop, Life!Start, Life!Attach
    <3> QED
      BY <1>2, <3>1 DEF CommandsInv, Fitting
  <2>2. ~met => \A q \in Runs : q # r => run[q] = "ready"
    BY <1>2 DEF CommandsInv, Alone, Busy
  <2>3. Due(r)' \/ (dirty' /\ (met' \/ \A q \in Runs : Before(q)'))
    BY <1>1, <2>1, <2>2 DEF Due, Before
  <2>4. ASSUME ~met PROVE \A q \in Runs : Before(q)' \/ OnlyLive(q)'
    <3>1. \A pid \in Life!Pids \ lost' : Life!Live(pid)' => pid = shell'[r].pid
      BY <1>6, <1>8, <2>4, Life!SpawnedIsAll, LauncherAssumption
         DEF TypesInv, CommandsInv, Alone
    <3>2. CASE run[r] = "health"
      BY <1>1, <1>5, <1>8, <2>2, <2>4, <3>1, <3>2 DEF Before, OnlyLive
    <3>3. CASE run[r] = "ready"
      BY <1>1, <2>2, <2>4, <3>3 DEF Before
    <3> QED
      BY <2>1, <3>2, <3>3
  <2> QED
    BY <1>1, <2>3, <2>4 DEF DaemonsInv
<1> QED
  BY <1>7, <1>8

LEMMA ShrinkingTidily ==
  ASSUME DaemonsInv, Life!Shrinking, UNCHANGED <<run, shell, own, met, dirty, overlap>>
  PROVE  DaemonsInv'
<1>1. Life!NoneLive => Life!NoneLive'
  BY DEF Life!NoneLive, Life!Shrinking
<1>2. ASSUME NEW q \in Runs, OnlyLive(q) PROVE OnlyLive(q)'
  BY <1>2 DEF OnlyLive, Life!Shrinking
<1>3. ASSUME NEW q \in Runs
      PROVE  (Due(q)' <=> Due(q)) /\ (Before(q)' <=> Before(q))
  BY DEF Due, Before
<1> QED
  BY <1>1, <1>2, <1>3 DEF DaemonsInv

LEMMA DaemonsInvNext ==
  ASSUME TypesInv, TypesInv', RuntimeInv, RuntimeInv', CommandsInv, CommandsInv',
         DaemonsInv, [Next]_vars
  PROVE  DaemonsInv'
<1>1. ASSUME UNCHANGED <<daemon, lost, run, shell, own, met, dirty, overlap>>
      PROVE  DaemonsInv'
  BY <1>1, ShrinkingTidily, Life!NoChange, LauncherAssumption
<1>2. ASSUME NEW r \in Runs, BeginRun(r) PROVE DaemonsInv'
  <2>1. /\ run[r] = "ready" /\ run'[r] = "old"
        /\ \A q \in Runs : q # r => run'[q] = run[q] /\ own'[q] = own[q]
    BY <1>2 DEF BeginRun, Reset, In, TypesInv, RunTypes
  <2>2. UNCHANGED <<daemon, lost, shell, overlap, dirty>> /\ (met => met')
    BY <1>2 DEF BeginRun, runtime
  <2>3. Life!NoneLive' <=> Life!NoneLive
    BY <2>2, Life!NoChange, LauncherAssumption
  <2>4. \A q \in Runs : (Due(q) => Due(q)') /\ (Before(q) => Before(q)')
    BY <2>1, <2>2 DEF Due, Before
  <2>5. ASSUME NEW q \in Runs, ~met' PROVE Before(q)' \/ OnlyLive(q)'
    <3>1. CASE Before(q)
      BY <2>4, <3>1
    <3>2. CASE ~Before(q) /\ OnlyLive(q)
      <4>1. own'[q] = own[q]
        BY <2>1, <3>2 DEF Before
      <4> QED
        BY <2>2, <3>2, <4>1 DEF OnlyLive, Life!Live
    <3> QED
      BY <2>2, <2>5, <3>1, <3>2 DEF DaemonsInv
  <2> QED
    BY <2>2, <2>3, <2>4, <2>5 DEF DaemonsInv
<1>3. ASSUME NEW r \in Runs, UndoOverride(r) PROVE DaemonsInv'
  <2>1. /\ run[r] = "undo override" /\ run'[r] = "ready"
        /\ \A q \in Runs : q # r => run'[q] = run[q] /\ own'[q] = own[q]
    BY <1>3 DEF UndoOverride, Reset, In, TypesInv, RunTypes
  <2>2. UNCHANGED <<daemon, lost, shell, overlap, met>> /\ dirty' = (dirty /\ met)
    BY <1>3 DEF UndoOverride, runtime
  <2>3. Life!NoneLive' <=> Life!NoneLive
    BY <2>2, Life!NoChange, LauncherAssumption
  <2>4. ~Due(r) /\ ~Before(r)
    BY <2>1 DEF Due, Before
  <2>5. \A q \in Runs : q # r => (Due(q) => Due(q)')
    BY <2>1, <2>2 DEF Due
  <2>6. CASE met
    BY <2>2, <2>3, <2>4, <2>5, <2>6 DEF DaemonsInv
  <2>7. CASE ~met
    <3>1. ASSUME NEW q \in Runs, q # r PROVE run[q] = "ready"
      BY <2>1, <2>7, <3>1 DEF CommandsInv, Alone, Busy
    <3>2. \A q \in Runs : Before(q)' /\ ~Due(q)
      BY <2>1, <2>4, <3>1 DEF Before, Due
    <3>3. ~overlap => Life!NoneLive
      BY <2>4, <2>7, <3>2 DEF DaemonsInv
    <3> QED
      BY <2>2, <2>3, <3>2, <3>3 DEF DaemonsInv
  <2> QED
    BY <2>6, <2>7
<1>4. ASSUME NEW r \in Runs, KillRun(r) PROVE DaemonsInv'
  <2>1. /\ run[r] # "ready" /\ run'[r] = "ready"
        /\ \A q \in Runs : q # r => run'[q] = run[q]
    BY <1>4 DEF KillRun, Reset, In, TypesInv, RunTypes
  <2>2. dirty' = TRUE /\ met' = met
    BY <1>4 DEF KillRun
  <2>3. ~met => \A q \in Runs : Before(q)'
    BY <2>1 DEF CommandsInv, Alone, Busy, Before
  <2> QED
    BY <2>2, <2>3 DEF DaemonsInv
<1>5. ASSUME NEW pid \in Runtime!Pids, DaemonMoves(pid) PROVE DaemonsInv'
  <2>1. Life!Besides(pid) /\ pid \in Life!Pids /\ UNCHANGED <<run, own, met, dirty>>
    BY <1>5, DaemonsMove DEF DaemonMoves, history, Runtime!Pids, Life!Pids
  <2>2. UNCHANGED <<shell, overlap>>
    BY <2>1 DEF Life!Besides, Life!Serve, Life!BindFails, Life!Die, Life!KilledBeside
  <2>3. Life!Shrinking
    BY <2>1, Life!BesidesShrinks, LauncherAssumption DEF TypesInv
  <2> QED
    BY <2>1, <2>2, <2>3, ShrinkingTidily
<1>6. ASSUME NEW r \in Runs, LocalCommand(r) \/ BeginFails(r) PROVE DaemonsInv'
  BY <1>1, <1>6 DEF LocalCommand, BeginFails, vars, runtime, history
<1>7. CASE EditHosts
  BY <1>1, <1>7 DEF EditHosts, runtime
<1>8. CASE UNCHANGED vars
  BY <1>1, <1>8 DEF vars, runtime, history
<1> QED
  BY <1>2, <1>3, <1>4, <1>5, <1>6, <1>7, <1>8, RunStepsAre, WalkTidily, CallTidily,
     CutTidily, WorkTidily DEF Next

-----------------------------------------------------------------------------
LaunchInv == TypesInv /\ RuntimeInv /\ FilesInv /\ CommandsInv /\ DaemonsInv

(* The daemon that is there at first has the first process id, and its     *)
(* start is counted.                                                       *)
LEMMA RuntimeInit == Init => Life!OrderInv
<1> SUFFICES ASSUME Init PROVE Life!OrderInv
  OBVIOUS
<1> USE LauncherAssumption DEF LauncherAssumption
<1>1. \A r \in Runs : shell[r].at = "idle" /\ shell[r].todo = <<>>
  BY DEF Init, Runtime!Idle
<1>2. Life!Types
  <2>1. shell \in [Runs -> Life!ShellStates]
    BY DEF Init, Runtime!Idle, Life!ShellStates, Life!Places, Life!Todos
  <2>2. 1 \in Life!Pids /\ Runtime!Pids = Life!Pids
    BY DEF Life!Pids, Runtime!Pids
  <2>3. lost \subseteq Life!Pids /\ daemon \in [Life!Pids -> Life!DaemonStates]
    BY <2>2 DEF Init, Life!DaemonStates
  <2>4. record \in Life!Records /\ overlap \in BOOLEAN /\ cuts \in 0..MaxCut
    <3>1. record = Life!Absent /\ overlap = FALSE /\ cuts = 0
      BY Zenon DEF Init, Runtime!Absent, Life!Absent
    <3>2. record \in Life!Records
      BY <3>1 DEF Life!Records
    <3>3. overlap \in BOOLEAN
      BY <3>1, Zenon
    <3>4. cuts = 0 /\ cuts \in 0..MaxCut
      <4>1. cuts = 0
        BY <3>1
      <4> QED
        BY <4>1
    <3> QED
      BY <3>2, <3>3, <3>4
  <2> QED
    BY <2>1, <2>3, <2>4 DEF Life!Types
<1>3. Life!ShellsFit
  BY <1>1 DEF Life!ShellsFit, Life!Fitting
<1>4. Life!SpawnsInv
  <2>1. Life!Pending = {}
    <3>1. /\ Life!Restart # <<>> /\ Life!Rest # <<>> /\ Life!Start # <<>>
          /\ Life!Attach # <<>>
      BY DEF Life!Restart, Life!Rest, Life!Start, Life!Attach
    <3>2. \A r \in Runs : ~Life!ToSpawn(shell[r])
      BY <1>1, <3>1, Zenon DEF Life!ToSpawn
    <3> QED
      BY <3>2, Zenon DEF Life!Pending
  <2>2. Life!IsFiniteSet(Life!Pending) /\ Life!Cardinality(Life!Pending) = 0
    BY <2>1, Life!FS_EmptySet
  <2>3. Life!Spawned(1)
    BY DEF Init, Runtime!Pids, Life!Pids, Life!Spawned
  <2>4. starts = 1 /\ starts \in 0..(MaxRun + 1)
    BY DEF Init
  <2> QED
    BY <2>2, <2>3, <2>4 DEF Life!SpawnsInv
<1>5. Life!Orderly
  <2>1. Life!NoneLive
    BY DEF Init, Life!NoneLive, Life!Live, Runtime!Pids, Life!Pids
  <2>2. Life!Apart /\ \A r \in Runs : Life!Safe(r)
    BY <1>1 DEF Life!Apart, Life!Safe
  <2>3. Life!Recorded
    BY <2>1 DEF Life!Recorded, Life!NoneLive
  <2> QED
    BY <2>2, <2>3 DEF Life!Orderly
<1> QED
  BY <1>2, <1>3, <1>4, <1>5 DEF Life!OrderInv, Life!TypesInv

LEMMA LaunchInit == Init => LaunchInv
<1> SUFFICES ASSUME Init PROVE LaunchInv
  OBVIOUS
<1>1. RunTypes
  <2>1. /\ run = [r \in Runs |-> "ready"]
        /\ loaded = [r \in Runs |-> 0] /\ own = [r \in Runs |-> 0]
        /\ begun \in 0..MaxRun
    BY LauncherAssumption DEF Init, LauncherAssumption
  <2>2. {override, met, crossed, dirty, litter, stale} \subseteq BOOLEAN
    BY Zenon DEF Init
  <2>3. hosts \in HostsFiles
    BY DEF Init, HostsFiles
  <2> QED
    BY <2>1, <2>2, <2>3 DEF RunTypes, Places, In
<1>2. FilesInv
  BY DEF Init, FilesInv
<1>3. CommandsInv
  BY DEF Init, CommandsInv, Fitting, Alone, Busy, Runtime!Idle
<1>4. DaemonsInv
  <2>1. Life!NoneLive
    BY DEF Init, Life!NoneLive, Life!Live, Runtime!Pids, Life!Pids
  <2> QED
    BY <2>1 DEF Init, DaemonsInv, Before
<1> QED
  BY <1>1, <1>2, <1>3, <1>4, RuntimeInit
     DEF LaunchInv, TypesInv, RuntimeInv, Life!OrderInv

LEMMA LaunchNext == LaunchInv /\ [Next]_vars => LaunchInv'
<1> SUFFICES ASSUME LaunchInv, [Next]_vars PROVE LaunchInv'
  OBVIOUS
<1> USE DEF LaunchInv
<1>1. RuntimeInv'
  BY RuntimeMoves, Life!OrderMoves, LauncherAssumption
     DEF RuntimeInv, Life!LifecycleAssumption, LauncherAssumption
<1>2. TypesInv'
  BY <1>1, RunTypesNext DEF RuntimeInv, Life!OrderInv, TypesInv
<1>3. FilesInv' /\ CommandsInv'
  BY <1>2, FilesInvNext, CommandsInvNext
<1>4. DaemonsInv'
  BY <1>1, <1>2, <1>3, DaemonsInvNext
<1> QED
  BY <1>1, <1>2, <1>3, <1>4

LEMMA LaunchHolds == Spec => []LaunchInv
BY LaunchInit, LaunchNext, PTL DEF Spec

(* Every state is well typed, those of the runtime's file, processes and   *)
(* commands too: a process id is there for every start (run.go 176-358).   *)
THEOREM TypeCorrect == Spec => []TypeOK
<1>1. LaunchInv => TypeOK
  <2> SUFFICES ASSUME LaunchInv PROVE TypeOK
    OBVIOUS
  <2>1. Life!TypeOK
    BY Life!WellTyped, LauncherAssumption DEF LaunchInv, TypesInv
  <2>2. Runtime!TypeOK
    BY <2>1 DEF Runtime!TypeOK, Life!TypeOK, Runtime!Records, Life!Records, Runtime!Pids,
       Life!Pids, Runtime!DaemonStates, Life!DaemonStates, Runtime!At, Life!At,
       Runtime!Absent, Life!Absent, Runtime!Torn, Life!Torn, Runtime!Whole, Life!Whole
  <2>3. Runtime!Pids = Life!Pids
    BY DEF Runtime!Pids, Life!Pids
  <2> QED
    BY <2>2, <2>3 DEF LaunchInv, TypesInv, RunTypes, TypeOK
<1> QED
  BY <1>1, LaunchHolds, PTL

(* terraform never talks to the daemon of an earlier run, though the       *)
(* health check does not tell daemons apart: the stop before the start has *)
(* left none but what has been lost hold of, whatever a killed run had     *)
(* left (run.go 234-283).                                                  *)
THEOREM TerraformIsServedByOwn == Spec => []ServedByOwn
<1>1. LaunchInv => ServedByOwn
  <2> SUFFICES ASSUME LaunchInv, ~met, NEW r \in Runs, NEW pid \in Runtime!Pids,
                      run[r] = "terraform", daemon[pid] = "serving", pid \notin lost
               PROVE  pid = own[r]
    BY DEF ServedByOwn, In
  <2>1. OnlyLive(r)
    BY DEF LaunchInv, DaemonsInv, Before
  <2>2. pid \in Life!Pids \ lost /\ Life!Live(pid)
    BY DEF Runtime!Pids, Life!Pids, Life!Live
  <2> QED
    BY <2>1, <2>2 DEF OnlyLive
<1> QED
  BY <1>1, LaunchHolds, PTL

(* When no run is in progress, what is there of one is that of a run which *)
(* was killed, or what could not be written or removed: every way through  *)
(* a run ends in a cleanup that covers what it has begun (run.go 176-214,  *)
(* 267-309).                                                               *)
THEOREM NothingIsLeft == Spec => []QuietIsClean
<1>1. LaunchInv => QuietIsClean
  <2> SUFFICES ASSUME LaunchInv, Quiet
               PROVE  /\ hosts # "clean" => stale
                      /\ override => litter
                      /\ ~dirty /\ ~overlap =>
                           \A pid \in Runtime!Pids : Runtime!Live(pid) => pid \in lost
    BY DEF QuietIsClean
  <2>1. \A r \in Runs : run[r] = "ready"
    BY DEF Quiet, In
  <2>2. (hosts # "clean" => stale) /\ (override => litter)
    BY <2>1 DEF LaunchInv, FilesInv, Holding
  <2>3. ~dirty /\ ~overlap => Life!NoneLive
    BY <2>1 DEF LaunchInv, DaemonsInv, Due
  <2> QED
    BY <2>2, <2>3 DEF Life!NoneLive, Runtime!Pids, Life!Pids, Runtime!Live, Life!Live
<1> QED
  BY <1>1, LaunchHolds, PTL

-----------------------------------------------------------------------------
(* How far a run has still to go. *)
Ahead ==
  [place \in Places |->
     CASE place = "ready"         -> 0
       [] place = "undo override" -> 1
       [] place = "stopping"      -> 2
       [] place = "stop"          -> 3
       [] place = "unmap"         -> 4
       [] place = "terraform"     -> 5
       [] place = "trust"         -> 6
       [] place = "map"           -> 7
       [] place = "hosts"         -> 8
       [] place = "load"          -> 9
       [] place = "health"        -> 10
       [] place = "start"         -> 11
       [] place = "init"          -> 12
       [] place = "old"           -> 13]

LEMMA WaysLead ==
  /\ Ahead["init"] < Ahead["old"]
  /\ Ahead["start"] < Ahead["init"]
  /\ Ahead["undo override"] < Ahead["init"]
  /\ Ahead["undo override"] < Ahead["start"]
  /\ Ahead["health"] < Ahead["start"]
  /\ Ahead["load"] < Ahead["health"]
  /\ Ahead["stop"] < Ahead["health"]
  /\ Ahead["hosts"] < Ahead["load"]
  /\ Ahead["stop"] < Ahead["load"]
  /\ Ahead["map"] < Ahead["hosts"]
  /\ Ahead["stop"] < Ahead["hosts"]
  /\ Ahead["trust"] < Ahead["map"]
  /\ Ahead["stop"] < Ahead["map"]
  /\ Ahead["terraform"] < Ahead["trust"]
  /\ Ahead["unmap"] < Ahead["trust"]
  /\ Ahead["unmap"] < Ahead["terraform"]
  /\ Ahead["stop"] < Ahead["unmap"]
  /\ Ahead["stopping"] < Ahead["stop"]
  /\ Ahead["undo override"] < Ahead["stopping"]
BY DEF Ahead, Places

LEMMA ReadyIsLast == \A place \in Places \ {"ready"} : Ahead["ready"] < Ahead[place]
<1>1. Ahead \in [Places -> 0..13]
  BY DEF Ahead, Places
<1>2. Ahead["ready"] = 0 /\ \A place \in Places : Ahead[place] = 0 => place = "ready"
  BY DEF Ahead, Places
<1> QED
  BY <1>1, <1>2

(* What becomes of a run. *)
Onward(r) ==
  /\ Ahead[run'[r]] < Ahead[run[r]]
  /\ \A q \in Runs : q # r => run'[q] = run[q]

LEMMA Onwards ==
  ASSUME TypesInv, NEW r \in Runs, NEW place, run' = [run EXCEPT ![r] = place],
         Ahead[place] < Ahead[run[r]]
  PROVE  Onward(r)
<1>1. run'[r] = place /\ \A q \in Runs : q # r => run'[q] = run[q]
  BY DEF TypesInv, RunTypes
<1> QED
  BY <1>1 DEF Onward

LEMMA ReadyOnwards ==
  ASSUME TypesInv, NEW r \in Runs, run[r] # "ready", Reset(r, "ready")
  PROVE  Onward(r)
<1>1. run[r] \in Places \ {"ready"}
  BY DEF TypesInv, RunTypes
<1> QED
  BY <1>1, ReadyIsLast, Onwards DEF Reset

LEMMA RunStepsLead ==
  ASSUME TypesInv, NEW r \in Runs, RunStep(r) \/ TerraformEnds(r)
  PROVE  Onward(r)
<1>1. CASE Walk(r)
  <2>1. PICK place \in Places \ {"ready"} :
          run' = [run EXCEPT ![r] = place] /\ <<run[r], place>> \in Ways
    BY <1>1 DEF Walk
  <2>2. Ahead[place] < Ahead[run[r]]
    BY <2>1, WaysLead DEF Ways
  <2> QED
    BY <2>1, <2>2, Onwards
<1>2. CASE Call(r)
  <2>1. PICK command \in {"start", "stop"}, place \in Places \ {"ready"} :
          run' = [run EXCEPT ![r] = place] /\ <<run[r], command, place>> \in Calls
    BY <1>2 DEF Call
  <2>2. Ahead[place] < Ahead[run[r]]
    BY <2>1, WaysLead DEF Calls
  <2> QED
    BY <2>1, <2>2, Onwards
<1>3. CASE CutStart(r)
  <2>1. PICK place \in {"load", "stop"} : run' = [run EXCEPT ![r] = place]
    BY <1>3 DEF CutStart
  <2>2. Ahead[place] < Ahead[run[r]]
    BY <1>3, <2>1, WaysLead DEF CutStart
  <2> QED
    BY <2>1, <2>2, Onwards
<1>4. CASE UndoOverride(r)
  BY <1>4, ReadyOnwards DEF UndoOverride, In
<1> QED
  BY <1>1, <1>2, <1>3, <1>4, RunStepsAre

(* Each step of a run, and each of the command that it waits for, brings   *)
(* it nearer to its end, and nothing else changes where it is but a kill,  *)
(* which ends it: a launch that fails, or finds another run's block in the *)
(* hosts file, goes on to its cleanup and never back to retry              *)
(* (run.go 176-214, 234-309).                                              *)
RunsDescend ==
  [][ \A r \in Runs :
        /\ RunStep(r) \/ TerraformEnds(r) => Ahead[run'[r]] < Ahead[run[r]]
        /\ ~In(r, "ready") /\ run'[r] # run[r] => Ahead[run'[r]] < Ahead[run[r]]
        /\ CommandWorks(r)
             => run'[r] = run[r] /\ Life!Left(shell'[r]) < Life!Left(shell[r]) ]_vars

(* No run goes round, whatever the other runs do: it takes at most 13      *)
(* steps, besides those of its two stops and its start.                    *)
THEOREM RunsGoOn == Spec => RunsDescend
<1>1. LaunchInv /\ [Next]_vars =>
       [ \A r \in Runs :
          /\ RunStep(r) \/ TerraformEnds(r) => Ahead[run'[r]] < Ahead[run[r]]
          /\ ~In(r, "ready") /\ run'[r] # run[r] => Ahead[run'[r]] < Ahead[run[r]]
          /\ CommandWorks(r)
               => run'[r] = run[r] /\ Life!Left(shell'[r]) < Life!Left(shell[r]) ]_vars
  <2> SUFFICES ASSUME TypesInv, Next, NEW r \in Runs
               PROVE  /\ RunStep(r) \/ TerraformEnds(r) => Onward(r)
                      /\ ~In(r, "ready") /\ run'[r] # run[r] => Onward(r)
                      /\ CommandWorks(r)
                           => run'[r] = run[r] /\ Life!Left(shell'[r]) < Life!Left(shell[r])
    BY DEF LaunchInv, Onward
  <2>1. ASSUME NEW q \in Runs, RunStep(q) \/ TerraformEnds(q) PROVE Onward(q)
    BY <2>1, RunStepsLead
  <2>2. ASSUME ~In(r, "ready"), run'[r] # run[r] PROVE Onward(r)
    <3>1. ASSUME NEW q \in Runs, Onward(q) PROVE Onward(r)
      BY <2>2, <3>1 DEF Onward
    <3>2. ASSUME NEW q \in Runs, BeginRun(q) PROVE FALSE
      BY <2>2, <3>2 DEF BeginRun, Reset, In, TypesInv, RunTypes
    <3>3. ASSUME NEW q \in Runs, KillRun(q) PROVE Onward(q)
      BY <3>3, ReadyOnwards DEF KillRun, In
    <3>4. ASSUME NEW q \in Runs, LocalCommand(q) \/ BeginFails(q) \/ CommandWorks(q)
          PROVE  FALSE
      BY <2>2, <3>4 DEF LocalCommand, BeginFails, CommandWorks, vars
    <3>5. ASSUME EditHosts \/ \E pid \in Runtime!Pids : DaemonMoves(pid) PROVE FALSE
      BY <2>2, <3>5 DEF EditHosts, DaemonMoves
    <3> QED
      BY <2>1, <3>1, <3>2, <3>3, <3>4, <3>5 DEF Next
  <2>3. ASSUME CommandWorks(r)
        PROVE  run'[r] = run[r] /\ Life!Left(shell'[r]) < Life!Left(shell[r])
    <3>1. Life!Descending(r)
      BY <2>3, WorksStep, Life!StepDescends, LauncherAssumption
         DEF TypesInv, Life!LifecycleAssumption, LauncherAssumption
    <3> QED
      BY <2>3, <3>1 DEF CommandWorks, Life!Descending
  <2> QED
    BY <2>1, <2>2, <2>3
<1> QED
  BY <1>1, LaunchHolds, PTL DEF Spec, RunsDescend
=============================================================================
