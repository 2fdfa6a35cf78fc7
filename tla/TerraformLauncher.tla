------------------------- MODULE TerraformLauncher -------------------------
(***************************************************************************)
(* tinyterraform, for the subcommands of terraform that talk to Azure: it  *)
(* writes a provider override into the working directory, starts a daemon  *)
(* by the commands of RuntimeLifecycle, sends management.azure.com to this *)
(* machine by a block in the hosts file, runs terraform and takes it all   *)
(* back.                                                                   *)
(*                                                                         *)
(* Runs share a working directory, a runtime root (hence one record) and   *)
(* the hosts file.  Each step of a run may fail, those of its cleanup too, *)
(* and a file that could not be written may have been written in part; a   *)
(* run can be killed, alone or, by an interrupt of its console, with its   *)
(* child and its daemon.                                                   *)
(***************************************************************************)
EXTENDS Naturals, Sequences

CONSTANTS
  Runs,    \* consoles in which tinyterraform is run, one run at a time each
  MaxRun,  \* bound on the number of runs
  MaxCut   \* bound on the number of runs that are killed

ASSUME LauncherAssumption == MaxRun \in Nat /\ MaxCut \in Nat

VARIABLES
  record, daemon, shell, starts, lost, overlap,  \* see RuntimeLifecycle; here
             \* shell[r] is the tinycloud command that run r has started last
  run,       \* per console, where its run is
  loaded,    \* per console, the process id that its run has read from the record
  begun,     \* number of runs begun
  cuts,      \* number of runs killed
  override,  \* tinycloud_providers_override.tf is there, whole or not
  hosts,     \* what the hosts file has of TinyCloud's block
  \* history, read by no guard
  own,       \* per console, the daemon that its run's start has spawned
  met,       \* whether two runs have ever been in progress at a time
  crossed,   \* whether two runs ever had found the hosts file clean at a time
  dirty,     \* a run was killed and none has come to its end since
  litter,    \* an override was there when its writing or its removal failed,
             \* or a run was killed, and none was removed since
  stale      \* a run was killed that had mapped or was about to, or failed to
             \* write the block or to take it back, and nothing has made the
             \* hosts file clean since

Runtime == INSTANCE RuntimeLifecycle
             WITH Shells <- Runs, MaxStart <- MaxRun + 1

runtime == <<record, daemon, shell, starts, lost, overlap>>
history == <<own, met, crossed, dirty, litter, stale>>
vars == <<runtime, run, loaded, begun, cuts, override, hosts, history>>

(* The block has a first line, that maps nothing, the line that maps, and  *)
(* a last one; of a block that is cut short there are the first ones.      *)
HostsFiles == {"clean", "begun", "cut", "whole"}

(* management.azure.com is this machine. *)
Mapped == hosts \in {"cut", "whole"}

In(r, place) == run[r] = place

Go(r, place) == run' = [run EXCEPT ![r] = place] /\ UNCHANGED loaded

(* Nothing of a run is left but what it has done. *)
Reset(r, place) ==
  /\ run' = [run EXCEPT ![r] = place]
  /\ loaded' = [loaded EXCEPT ![r] = 0]
  /\ own' = [own EXCEPT ![r] = 0]

(* A launch that fails stops the runtime and undoes the override. *)
FailLaunch(r) ==
  /\ run' = [run EXCEPT ![r] = "stop"]
  /\ loaded' = [loaded EXCEPT ![r] = 0]

(* The tinycloud command that the run waits for has ended. *)
Waited(r) == Runtime!At(r, "idle")

(* At first a daemon of another runtime root is there, started by hand on  *)
(* the same port, if it has not ended before anything else happens.  It is *)
(* on no record, as are those lost later, and its start counts as one.     *)
Init ==
  /\ record = Runtime!Absent
  /\ lost = {1}
  /\ daemon = [pid \in Runtime!Pids |-> IF pid \in lost THEN "serving" ELSE "none"]
  /\ shell = [r \in Runs |-> Runtime!Idle]
  /\ starts = 1 /\ cuts = 0 /\ overlap = FALSE
  /\ run = [r \in Runs |-> "ready"]
  /\ loaded = [r \in Runs |-> 0] /\ own = [r \in Runs |-> 0]
  /\ begun = 0
  /\ override = FALSE /\ hosts = "clean"
  /\ met = FALSE /\ crossed = FALSE
  /\ dirty = FALSE /\ litter = FALSE /\ stale = FALSE

-----------------------------------------------------------------------------
(* RuntimeWrapperEnv and EnsureLauncherTinyCloudRuntime. *)

(* RunE hands what needs no Azure, and requests for help, to terraform. *)
LocalCommand(r) == In(r, "ready") /\ UNCHANGED vars

(* tinycloud is built and the override written. *)
BeginRun(r) ==
  /\ begun < MaxRun
  /\ In(r, "ready") /\ Waited(r)
  /\ begun' = begun + 1
  /\ Reset(r, "old")
  /\ override' = TRUE
  /\ met' = (met \/ \E q \in Runs \ {r} : ~In(q, "ready") \/ ~Waited(q))
  /\ UNCHANGED <<runtime, cuts, hosts, crossed, dirty, litter, stale>>

(* tinycloud cannot be built or the override not be written, which may be  *)
(* there all the same, empty or in part; the run is over, with no cleanup  *)
(* due.                                                                    *)
BeginFails(r) ==
  /\ begun < MaxRun
  /\ In(r, "ready") /\ Waited(r)
  /\ begun' = begun + 1
  /\ override' \in {TRUE, override}
  /\ litter' = (litter \/ override')
  /\ UNCHANGED <<runtime, run, loaded, cuts, hosts, own, met, crossed, dirty, stale>>

Command(r, command, place) ==
  /\ Runtime!Begin(r, command)
  /\ Go(r, place)
  /\ UNCHANGED <<begun, override, hosts, history>>

(* No stop is run, or none can be: what is on record goes on. *)
NoStop(r, place) ==
  /\ Go(r, place)
  /\ IF record.state = "whole" THEN Runtime!Lose(record.pid) ELSE UNCHANGED lost
  /\ UNCHANGED <<record, daemon, shell, starts, overlap, begun, cuts, override,
                 hosts, history>>

(* Faulty variant: the run before is taken to have cleaned up. *)
StopOldNever(r) ==
  /\ In(r, "old")
  /\ Go(r, "init")
  /\ UNCHANGED <<runtime, begun, cuts, override, hosts, history>>

(* If there is a record, of whichever run, its runtime is stopped first;   *)
(* how that goes is ignored.                                               *)
StopOld(r) ==
  /\ In(r, "old")
  /\ \/ record # Runtime!Absent /\ Command(r, "stop", "init")
     \/ NoStop(r, "init")

(* tinycloud init ends well or not. *)
InitRuntime(r) ==
  /\ In(r, "init") /\ Waited(r)
  /\ Go(r, "start") \/ Go(r, "undo override")
  /\ UNCHANGED <<runtime, begun, cuts, override, hosts, history>>

(* tinycloud start is begun and not waited for. *)
StartRuntime(r) ==
  /\ In(r, "start")
  /\ \/ Command(r, "start", "health")
     \/ /\ Go(r, "undo override")
        /\ UNCHANGED <<runtime, begun, cuts, override, hosts, history>>

(* Once some daemon answers on the port, the start is killed: it would     *)
(* wait for an answer at management.azure.com, which is not mapped yet.    *)
KillStart(r) ==
  /\ Runtime!Abandon(r)
  /\ UNCHANGED <<record, starts, overlap, begun, cuts, override, hosts, history>>

RuntimeHealthy(r) ==
  /\ In(r, "health")
  /\ \E pid \in Runtime!Pids : daemon[pid] = "serving"
  /\ Go(r, "load")
  /\ KillStart(r)

(* After forty attempts the start is killed and the launch fails. *)
RuntimeUnhealthy(r) ==
  /\ In(r, "health")
  /\ FailLaunch(r)
  /\ KillStart(r)

(* The record's process id, or none if no whole record can be read; then   *)
(* tinycloud env terraform, which may fail.                                *)
LoadRecord(r) ==
  /\ In(r, "load")
  /\ \/ /\ run' = [run EXCEPT ![r] = "hosts"]
        /\ \E pid \in {0} \union Runtime!Pids :
             /\ pid # 0 => record = Runtime!Whole(pid)
             /\ loaded' = [loaded EXCEPT ![r] = pid]
     \/ FailLaunch(r)
  /\ UNCHANGED <<runtime, begun, cuts, override, hosts, history>>

(* Faulty variant: a launch that finds a mapping takes it down. *)
ReadHostsUndoing(r) ==
  /\ In(r, "hosts")
  /\ IF Mapped THEN Go(r, "unmap")
     ELSE Go(r, "map") \/ FailLaunch(r)
  /\ crossed' = (crossed \/ (~Mapped /\ \E q \in Runs : In(q, "map")))
  /\ UNCHANGED <<runtime, begun, cuts, override, hosts, own, met, dirty, litter, stale>>

(* EnsureTinyTerraformHostsMapping: the file is read; the first line of a  *)
(* block, whoever has left it, is an error.                                *)
ReadHosts(r) ==
  /\ In(r, "hosts")
  /\ \/ hosts = "clean" /\ Go(r, "map")
     \/ FailLaunch(r)
  /\ crossed' = (crossed \/ (run'[r] = "map" /\ \E q \in Runs : In(q, "map")))
  /\ UNCHANGED <<runtime, begun, cuts, override, hosts, own, met, dirty, litter, stale>>

(* The hosts file is empty when its writing begins.  What fails or is      *)
(* killed before the end leaves it as it was or cut short.                 *)
WrittenInPart ==
  /\ hosts' \in HostsFiles
  /\ stale' = (hosts' # "clean" /\ (stale \/ hosts' # hosts))

(* The file is written: what was read, and the block.  After a failure no  *)
(* cleanup of it is due.                                                   *)
WriteHosts(r) ==
  /\ In(r, "map")
  /\ \/ hosts' = "whole" /\ Go(r, "trust") /\ UNCHANGED stale
     \/ FailLaunch(r) /\ WrittenInPart
  /\ UNCHANGED <<runtime, begun, cuts, override, own, met, crossed, dirty, litter>>

(* Faulty variant: a failure here undoes the override only. *)
TrustLeaving(r) ==
  /\ In(r, "trust")
  /\ Go(r, "terraform") \/ Go(r, "undo override")
  /\ UNCHANGED <<runtime, begun, cuts, override, hosts, history>>

(* The certificate is imported and the az shim written; from here on the   *)
(* whole cleanup is due.                                                   *)
Trust(r) ==
  /\ In(r, "trust")
  /\ Go(r, "terraform") \/ Go(r, "unmap")
  /\ UNCHANGED <<runtime, begun, cuts, override, hosts, history>>

-----------------------------------------------------------------------------
(* terraform, and the cleanup. *)

TerraformEnds(r) ==
  /\ In(r, "terraform")
  /\ Go(r, "unmap")
  /\ UNCHANGED <<runtime, begun, cuts, override, hosts, history>>

(* RemoveTinyTerraformHostsMapping takes whole blocks out, and its error   *)
(* is ignored; if writing fails the block is gone, with lines of others.   *)
Unmap(r) ==
  /\ In(r, "unmap")
  /\ \/ /\ hosts' = IF hosts = "whole" THEN "clean" ELSE hosts
        /\ stale' = (stale /\ hosts' # "clean")
     \/ /\ UNCHANGED hosts
        /\ stale' = (stale \/ hosts # "clean")
  /\ Go(r, "stop")
  /\ UNCHANGED <<runtime, begun, cuts, override, own, met, crossed, dirty, litter>>

StopRuntime(r) ==
  /\ In(r, "stop")
  /\ Command(r, "stop", "stopping") \/ NoStop(r, "stopping")

(* KillProcess, for the case that the stop has not. *)
KillDaemon(r) ==
  /\ In(r, "stopping") /\ Waited(r)
  /\ IF loaded[r] > 0 THEN Runtime!TryKill(loaded[r]) ELSE UNCHANGED <<daemon, lost>>
  /\ Go(r, "undo override")
  /\ UNCHANGED <<record, shell, starts, overlap, begun, cuts, override, hosts, history>>

(* Faulty variant: what the run knew stays. *)
UndoOverrideKeeping(r) ==
  /\ In(r, "undo override")
  /\ override' = FALSE /\ litter' = FALSE
  /\ Go(r, "ready")
  /\ dirty' = (dirty /\ met)
  /\ UNCHANGED <<runtime, begun, cuts, hosts, own, met, crossed, stale>>

(* The override is removed, unless that fails; the run is over. *)
UndoOverride(r) ==
  /\ In(r, "undo override")
  /\ \/ override' = FALSE /\ litter' = FALSE
     \/ UNCHANGED override /\ litter' = (litter \/ override)
  /\ Reset(r, "ready")
  /\ dirty' = (dirty /\ met)
  /\ UNCHANGED <<runtime, begun, cuts, hosts, met, crossed, stale>>

-----------------------------------------------------------------------------
(* The tinycloud command at work: its health check goes to this machine if *)
(* management.azure.com is mapped to it.                                   *)
CommandWorks(r) ==
  /\ Runtime!Work(r) \/ (Mapped /\ Runtime!Healthy(r))
  /\ own' = IF In(r, "health") /\ Runtime!At(r, "spawn")
             THEN [own EXCEPT ![r] = shell'[r].pid] ELSE own
  /\ UNCHANGED <<run, loaded, begun, cuts, override, hosts, met, crossed, dirty,
                 litter, stale>>

(* The process is killed, be it in the middle of writing the hosts file,   *)
(* and runs no cleanup.  A command that it waits for goes on or is killed, *)
(* too; a daemon goes on or, by the interrupt of the console, ends.        *)
KillRun(r) ==
  /\ cuts < MaxCut
  /\ ~In(r, "ready")
  /\ cuts' = cuts + 1
  /\ Reset(r, "ready")
  /\ \/ UNCHANGED <<shell, lost, daemon>>
     \/ ~Waited(r) /\ (Runtime!Abandon(r) \/ Runtime!Interrupt(r))
     \/ /\ Waited(r) /\ own[r] # 0
        /\ Runtime!Kill(own[r])
        /\ UNCHANGED <<shell, lost>>
  /\ dirty' = TRUE
  /\ litter' = (litter \/ override)
  /\ \/ In(r, "map") /\ WrittenInPart
     \/ /\ UNCHANGED hosts
        /\ stale' = \/ stale
                    \/ hosts # "clean" /\ run[r] \in {"trust", "terraform", "unmap"}
  /\ UNCHANGED <<record, starts, overlap, begun, override, met, crossed>>

(* The user takes what is left of a block out of the hosts file by hand. *)
EditHosts ==
  /\ hosts # "clean" /\ \A r \in Runs : In(r, "ready")
  /\ hosts' = "clean"
  /\ stale' = FALSE
  /\ UNCHANGED <<runtime, run, loaded, begun, cuts, override, own, met, crossed,
                 dirty, litter>>

DaemonMoves(pid) ==
  /\ Runtime!Serve(pid) \/ Runtime!BindFails(pid) \/ Runtime!Die(pid)
  /\ UNCHANGED <<run, loaded, begun, override, hosts, history>>

RunStep(r) ==
  \/ StopOld(r) \/ InitRuntime(r) \/ StartRuntime(r)
  \/ RuntimeHealthy(r) \/ RuntimeUnhealthy(r) \/ LoadRecord(r)
  \/ ReadHosts(r) \/ WriteHosts(r) \/ Trust(r)
  \/ Unmap(r) \/ StopRuntime(r) \/ KillDaemon(r) \/ UndoOverride(r)

Next ==
  \/ \E r \in Runs :
       LocalCommand(r) \/ BeginRun(r) \/ BeginFails(r) \/ RunStep(r) \/ TerraformEnds(r)
         \/ CommandWorks(r) \/ KillRun(r)
  \/ EditHosts
  \/ \E pid \in Runtime!Pids : DaemonMoves(pid)

Spec == Init /\ [][Next]_vars

-----------------------------------------------------------------------------
Places == {"ready", "old", "init", "start", "health", "load",
           "hosts", "map", "trust", "terraform", "unmap", "stop", "stopping",
           "undo override"}

TypeOK ==
  /\ Runtime!TypeOK
  /\ \A r \in Runs :
       /\ run[r] \in Places
       /\ {loaded[r], own[r]} \subseteq {0} \union Runtime!Pids
       /\ In(r, "ready") => loaded[r] = 0 /\ own[r] = 0
  /\ begun \in 0..MaxRun
  /\ hosts \in HostsFiles
  /\ {override, met, crossed, dirty, litter, stale} \subseteq BOOLEAN

(* terraform runs only while management.azure.com is mapped to this        *)
(* machine: a run that ends, or fails, or is refused because of another    *)
(* one, never takes the block away under it, and what terraform does goes  *)
(* to no real subscription (run.go 314-337, 340-358).  Two runs that both  *)
(* find the file clean before either writes it are set apart: the first of *)
(* them to end unmaps for both.                                            *)
NeverToAzure ==
  ~crossed => \A r \in Runs : In(r, "terraform") => Mapped

(* As long as no two runs have met, the daemon that terraform talks to is  *)
(* the one this run has started or one that its commands have lost hold    *)
(* of; never that of an earlier run, killed before its cleanup, unless     *)
(* stopping it has failed (run.go 234-283: the health check does not tell  *)
(* daemons apart).                                                         *)
ServedByOwn ==
  ~met => \A r \in Runs, pid \in Runtime!Pids :
    In(r, "terraform") /\ daemon[pid] = "serving" => pid = own[r] \/ pid \in lost

Quiet == \A r \in Runs : In(r, "ready") /\ Waited(r)

(* When no run is in progress, nothing of one is left but what a kill or a *)
(* failure, of an operation on the very thing, can account for: a block or *)
(* a part of it only if a run that had mapped was killed, or its writing   *)
(* or removal has failed; an override only if its own has, or a run was    *)
(* killed; a daemon only if a run was killed and none has ended since, or  *)
(* commands overlapped, or reading of it, looking it up or stopping it has *)
(* failed.  No other failure, wherever a launch stops, leaves any of them: *)
(* each cleanup is due from another point on (run.go 176-214, 267-309).    *)
QuietIsClean ==
  Quiet =>
    /\ hosts # "clean" => stale
    /\ override => litter
    /\ ~dirty /\ ~overlap =>
         \A pid \in Runtime!Pids : Runtime!Live(pid) => pid \in lost
=============================================================================
