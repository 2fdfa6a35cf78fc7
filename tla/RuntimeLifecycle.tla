-------------------------- MODULE RuntimeLifecycle --------------------------
(***************************************************************************)
(* The process backend of the CLI: commands of one or more shells start,   *)
(* stop and look at daemons, and agree on which one is the runtime by a    *)
(* file, active-runtime.json, that no lock protects.                       *)
(*                                                                         *)
(* A step is one operation on the file, on a process or on the port.  A    *)
(* command can be cut between two of them, by the user or by a kill, and a *)
(* daemon can die at any time.  What asks the system about a file or a     *)
(* process, or has it changed, may fail.  Daemons use one port, that of    *)
(* the management service, which is taken to be enabled.  Process ids are  *)
(* not reused.                                                             *)
(***************************************************************************)
EXTENDS Naturals, Sequences

CONSTANTS
  Shells,    \* where commands are given, one at a time each
  MaxStart,  \* bound on the number of start and restart commands
  MaxCut     \* bound on the number of commands that are cut

ASSUME LifecycleAssumption == MaxStart \in Nat /\ MaxCut \in Nat

VARIABLES
  record,  \* active-runtime.json
  daemon,  \* per process id, what became of the process
  shell,   \* per shell, the command in progress
  starts,  \* number of start and restart commands given
  cuts,    \* number of commands that were cut
  \* history, read by no guard
  lost,    \* the live processes that commands have lost hold of: a start was
           \* cut before the record named them, or reading their record, looking
           \* them up or killing them has failed, once
  overlap  \* whether commands of two shells have ever overlapped

vars == <<record, daemon, shell, starts, cuts, lost, overlap>>

Pids == 1..MaxStart

Absent == [state |-> "absent"]
Torn == [state |-> "torn"]
Whole(pid) == [state |-> "whole", pid |-> pid]

Records == {Absent, Torn} \union {Whole(pid) : pid \in Pids}

(* A process that was killed is dying for a while: it still exists and may *)
(* still hold the port.                                                    *)
DaemonStates == {"none", "starting", "serving", "dying", "dead"}

(* A signal can still be sent to a dying process. *)
Exists(pid) == daemon[pid] \in {"starting", "serving", "dying"}

Live(pid) == daemon[pid] \in {"starting", "serving"}

(* A command is what it has yet to do.  "look" is activeRuntime by itself, *)
(* as status, wait, logs, config, services and endpoints begin with it.    *)
Plans == [status  |-> <<"look">>,
          stop    |-> <<"stop">>,
          start   |-> <<"start">>,
          attach  |-> <<"attach">>,
          restart |-> <<"look", "stop", "start">>]

Commands == DOMAIN Plans

Idle == [at |-> "idle", todo |-> <<>>, pid |-> 0]

At(s, place) == shell[s].at = place

Doing(s, task) == shell[s].todo # <<>> /\ Head(shell[s].todo) = task

Starting(s) == Doing(s, "start") \/ Doing(s, "attach")

Turn(s, place, todo, pid) ==
  shell' = [shell EXCEPT ![s] = [at |-> place, todo |-> todo, pid |-> pid]]

Goto(s, place) == Turn(s, place, shell[s].todo, shell[s].pid)

(* On to what is yet to do. *)
Check(s, todo) == Turn(s, "check", todo, shell[s].pid)

Finish(s) == shell' = [shell EXCEPT ![s] = Idle]

(* The rest of the command, or its end. *)
Proceed(s) ==
  IF Len(shell[s].todo) = 1 THEN Finish(s) ELSE Check(s, Tail(shell[s].todo))

(* stopProcess: the kill takes effect later. *)
Kill(pid) == daemon' = [daemon EXCEPT ![pid] = IF Exists(pid) THEN "dying" ELSE @]

Lose(pid) == lost' = IF Live(pid) THEN lost \union {pid} ELSE lost

(* A kill whose error is ignored. *)
TryKill(pid) ==
  \/ Kill(pid) /\ UNCHANGED lost
  \/ Lose(pid) /\ UNCHANGED daemon

Init ==
  /\ record = Absent
  /\ daemon = [pid \in Pids |-> "none"]
  /\ shell = [s \in Shells |-> Idle]
  /\ starts = 0
  /\ cuts = 0
  /\ lost = {}
  /\ overlap = FALSE

-----------------------------------------------------------------------------
(* The commands. *)

(* A command overlaps another one that has not ended, but to look at or to *)
(* stop an attached runtime takes a second shell.                          *)
Overlaps(s, command) ==
  \E t \in Shells \ {s} :
    ~At(t, "idle") /\ (At(t, "attached") => command \notin {"status", "stop"})

Begin(s, command) ==
  /\ At(s, "idle")
  /\ IF command \in {"start", "attach", "restart"}
     THEN starts < MaxStart /\ starts' = starts + 1
     ELSE UNCHANGED starts
  /\ Turn(s, "check", Plans[command], 0)
  /\ overlap' = (overlap \/ Overlaps(s, command))
  /\ UNCHANGED <<record, daemon, cuts, lost>>

(* What a command does without an active runtime: a start goes on, a       *)
(* restart leaves the stop out, the others have nothing to do.             *)
WithoutRuntime(s) ==
  CASE Starting(s) -> Goto(s, "spawn")
    [] shell[s].todo = Plans["restart"] -> Check(s, Plans["start"])
    [] OTHER -> Proceed(s)

(* activeRuntime reads the record.  A record that cannot be decoded is an  *)
(* error to all commands but a start, which overwrites it.                 *)
CheckNoRecord(s) ==
  /\ At(s, "check")
  /\ \/ record = Absent /\ WithoutRuntime(s)
     \/ record = Torn /\ IF Starting(s) THEN Goto(s, "spawn") ELSE Finish(s)
  /\ UNCHANGED <<record, daemon, starts, cuts, lost, overlap>>

(* Nor can one be used that cannot be read. *)
CheckUnreadable(s) ==
  /\ At(s, "check")
  /\ record.state = "whole"
  /\ \/ Doing(s, "look") /\ Finish(s) /\ UNCHANGED lost
     \/ Doing(s, "stop") /\ Finish(s) /\ Lose(record.pid)
     \/ Starting(s) /\ Goto(s, "spawn") /\ Lose(record.pid)
  /\ UNCHANGED <<record, daemon, starts, cuts, overlap>>

(* Faulty variant: a start goes on beside the runtime that is active. *)
CheckActiveStarting(s) ==
  /\ At(s, "check")
  /\ record.state = "whole" /\ Exists(record.pid)
  /\ \/ Starting(s) /\ Goto(s, "spawn")
     \/ Doing(s, "stop") /\ Turn(s, "kill", shell[s].todo, record.pid)
     \/ Doing(s, "look") /\ Proceed(s)
  /\ UNCHANGED <<record, daemon, starts, cuts, lost, overlap>>

(* A record of a process that exists: a start is refused, a stop kills it. *)
CheckActive(s) ==
  /\ At(s, "check")
  /\ record.state = "whole" /\ Exists(record.pid)
  /\ \/ Starting(s) /\ Finish(s)
     \/ Doing(s, "stop") /\ Turn(s, "kill", shell[s].todo, record.pid)
     \/ Doing(s, "look") /\ Proceed(s)
  /\ UNCHANGED <<record, daemon, starts, cuts, lost, overlap>>

(* isProcessRunning is false of a process that is gone, and of one that    *)
(* cannot be looked up, listed or signalled: the record is taken for stale.*)
CheckStale(s) ==
  /\ At(s, "check")
  /\ record.state = "whole"
  /\ Goto(s, "unlink stale")
  /\ Lose(record.pid)
  /\ UNCHANGED <<record, daemon, starts, cuts, overlap>>

(* A stale record is removed, whatever the file holds by now, and it does  *)
(* not matter whether that fails.                                          *)
UnlinkStale(s) ==
  /\ At(s, "unlink stale")
  /\ record' \in {Absent, record}
  /\ \/ Starting(s) /\ Goto(s, "spawn")
     \/ shell[s].todo = Plans["restart"] /\ Check(s, Plans["start"])
     \/ /\ ~Starting(s) /\ shell[s].todo # Plans["restart"]
        /\ Proceed(s)
  /\ UNCHANGED <<daemon, starts, cuts, lost, overlap>>

(* The daemon is built and started, or the command fails. *)
NextPid == CHOOSE pid \in Pids :
             daemon[pid] = "none" /\ \A p \in 1..(pid - 1) : daemon[p] # "none"

Spawn(s) ==
  /\ At(s, "spawn")
  /\ \/ /\ daemon' = [daemon EXCEPT ![NextPid] = "starting"]
        /\ Turn(s, "truncate", shell[s].todo, NextPid)
     \/ Finish(s) /\ UNCHANGED daemon
  /\ UNCHANGED <<record, starts, cuts, lost, overlap>>

(* saveRuntimeRecord opens the file, which empties it, and writes.  If     *)
(* either fails, the daemon is killed and the file left as it is.          *)
Truncate(s) ==
  /\ At(s, "truncate")
  /\ \/ record' = Torn /\ Goto(s, "write") /\ UNCHANGED <<daemon, lost>>
     \/ TryKill(shell[s].pid) /\ Finish(s) /\ UNCHANGED record
  /\ UNCHANGED <<starts, cuts, overlap>>

(* Two commands that write at the same time leave one of the two texts or  *)
(* a mixture; a file that was removed meanwhile stays removed.             *)
Written(pid) ==
  CASE record = Torn   -> {Whole(pid)}
    [] record = Absent -> {Absent}
    [] OTHER           -> {Whole(pid), Torn}

Write(s) ==
  /\ At(s, "write")
  /\ \/ /\ record' \in Written(shell[s].pid)
        /\ Goto(s, IF Doing(s, "attach") THEN "attached" ELSE "health")
        /\ UNCHANGED <<daemon, lost>>
     \/ TryKill(shell[s].pid) /\ Finish(s) /\ UNCHANGED record
  /\ UNCHANGED <<starts, cuts, overlap>>

(* A detached start ends well when some daemon answers on the port. *)
Healthy(s) ==
  /\ At(s, "health")
  /\ \E pid \in Pids : daemon[pid] = "serving"
  /\ Finish(s)
  /\ UNCHANGED <<record, daemon, starts, cuts, lost, overlap>>

(* Faulty variant: the daemon is left running. *)
GiveUpLeaving(s) ==
  /\ At(s, "health")
  /\ Goto(s, "forget")
  /\ UNCHANGED <<record, daemon, starts, cuts, lost, overlap>>

(* Faulty variant: no timeout while the daemon exists. *)
GiveUpNever(s) ==
  /\ At(s, "health") /\ Exists(shell[s].pid)
  /\ TryKill(shell[s].pid)
  /\ Goto(s, "forget")
  /\ UNCHANGED <<record, starts, cuts, overlap>>

(* After 30 seconds it gives up, kills its daemon and then removes the     *)
(* record.                                                                 *)
GiveUp(s) ==
  /\ At(s, "health")
  /\ TryKill(shell[s].pid)
  /\ Goto(s, "forget")
  /\ UNCHANGED <<record, starts, cuts, overlap>>

(* An attached start ends when its daemon has ended. *)
AttachedEnds(s) ==
  /\ At(s, "attached")
  /\ ~Exists(shell[s].pid)
  /\ Goto(s, "forget")
  /\ UNCHANGED <<record, daemon, starts, cuts, lost, overlap>>

(* A stop kills the process it has read of; it fails, and leaves the       *)
(* record, if that has ended or cannot be killed.                          *)
KillRead(s) ==
  /\ At(s, "kill")
  /\ \/ /\ Exists(shell[s].pid)
        /\ Kill(shell[s].pid) /\ Goto(s, "forget") /\ UNCHANGED lost
     \/ Lose(shell[s].pid) /\ Finish(s) /\ UNCHANGED daemon
  /\ UNCHANGED <<record, starts, cuts, overlap>>

(* removeRuntimeRecord, whatever the file holds.  If it fails, so does the *)
(* stop, hence a restart; the starts end here anyway.                      *)
Forget(s) ==
  /\ At(s, "forget")
  /\ \/ record' = Absent /\ Proceed(s)
     \/ Finish(s) /\ UNCHANGED record
  /\ UNCHANGED <<daemon, starts, cuts, lost, overlap>>

-----------------------------------------------------------------------------
(* The environment. *)

(* A command is killed.  Its daemon goes on, which is lost if the record   *)
(* does not name it yet.                                                   *)
Abandon(s) ==
  /\ Finish(s)
  /\ lost' = IF At(s, "truncate") \/ At(s, "write")
             THEN lost \union {shell[s].pid} ELSE lost
  /\ UNCHANGED daemon

(* It is interrupted from the keyboard, which stops its daemon too. *)
Interrupt(s) ==
  /\ \E place \in {"truncate", "write", "health", "attached"} : At(s, place)
  /\ Kill(shell[s].pid)
  /\ Finish(s)
  /\ UNCHANGED lost

Cut(s) ==
  /\ cuts < MaxCut
  /\ ~At(s, "idle")
  /\ cuts' = cuts + 1
  /\ Abandon(s) \/ Interrupt(s)
  /\ UNCHANGED <<record, starts, overlap>>

(* A daemon gets the port unless another one has it, and else exits. *)
PortTaken(pid, states) == \E p \in Pids \ {pid} : daemon[p] \in states

Serve(pid) ==
  /\ daemon[pid] = "starting"
  /\ ~PortTaken(pid, {"serving"})
  /\ daemon' = [daemon EXCEPT ![pid] = "serving"]
  /\ UNCHANGED <<record, shell, starts, cuts, lost, overlap>>

BindFails(pid) ==
  /\ daemon[pid] = "starting"
  /\ PortTaken(pid, {"serving", "dying"})
  /\ daemon' = [daemon EXCEPT ![pid] = "dead"]
  /\ UNCHANGED <<record, shell, starts, cuts, lost, overlap>>

(* A daemon ends, of itself or because it was killed. *)
Die(pid) ==
  /\ Exists(pid)
  /\ daemon' = [daemon EXCEPT ![pid] = "dead"]
  /\ UNCHANGED <<record, shell, starts, cuts, lost, overlap>>

(* What a command does by itself, and all that but for the answer that its *)
(* health check waits for.                                                 *)
Work(s) ==
  \/ CheckNoRecord(s) \/ CheckUnreadable(s) \/ CheckActive(s) \/ CheckStale(s)
  \/ UnlinkStale(s)
  \/ Spawn(s) \/ Truncate(s) \/ Write(s)
  \/ GiveUp(s) \/ AttachedEnds(s)
  \/ KillRead(s) \/ Forget(s)

Step(s) == Work(s) \/ Healthy(s)

Next ==
  \/ \E s \in Shells :
       \/ \E command \in Commands : Begin(s, command)
       \/ Step(s)
       \/ Cut(s)
  \/ \E pid \in Pids : Serve(pid) \/ BindFails(pid) \/ Die(pid)

Spec == Init /\ [][Next]_vars

(* Commands go on by themselves; nothing is assumed of daemons and users. *)
LiveSpec == Spec /\ \A s \in Shells : WF_vars(Step(s))

-----------------------------------------------------------------------------
TypeOK ==
  /\ record \in Records
  /\ daemon \in [Pids -> DaemonStates]
  /\ \A s \in Shells :
       /\ shell[s].at \in {"idle", "check", "unlink stale", "spawn", "truncate",
                           "write", "health", "attached", "kill", "forget"}
       /\ shell[s].todo \in Seq({"look", "stop", "start", "attach"})
       /\ shell[s].pid \in {0} \union Pids
       /\ At(s, "idle") <=> shell[s].todo = <<>>
  /\ starts \in 0..MaxStart /\ cuts \in 0..MaxCut
  /\ lost \subseteq Pids /\ overlap \in BOOLEAN

(* As long as no two commands have overlapped, no daemon runs that the     *)
(* record does not name, unless the start that runs it is about to write   *)
(* the record or a command has lost hold of it: was cut while it was to    *)
(* write, could not read the record, look the daemon up or kill it         *)
(* (run.go 269-293, 364-372, 400-413, 874-889).  It takes more than the    *)
(* order of the two: no later command that has looked it up and found it   *)
(* may take the record of a live daemon away.                              *)
NoDaemonLost ==
  ~overlap => \A pid \in Pids \ lost :
    Live(pid) =>
      \/ record = Whole(pid)
      \/ \E s \in Shells : shell[s].pid = pid
                             /\ (At(s, "truncate") \/ At(s, "write"))

(* A start or a restart that ends well has told the truth: the daemon that *)
(* it reports is serving and is the one on record, though the answer to    *)
(* its health check carries no identity (run.go 289-303).  Only a daemon   *)
(* that still lives and was lost, in a cut or by a failure, can answer in  *)
(* its place.                                                              *)
StartTruthful ==
  [][ \A s \in Shells :
        Healthy(s) /\ ~overlap /\ (\A pid \in lost : ~Live(pid))
        => /\ daemon[shell[s].pid] = "serving"
           /\ record = Whole(shell[s].pid) ]_vars

(* Every command ends, a start whose daemon never serves or has died too   *)
(* (waitForHealthy has a deadline), unless it is attached to a daemon.     *)
CommandsEnd ==
  \A s \in Shells : ~At(s, "idle") ~> (At(s, "idle") \/ At(s, "attached"))
=============================================================================
