-------------------------- MODULE ServiceSelection --------------------------
(***************************************************************************)
(* Which services TinyCloud runs, and which ones its CLI says it runs.     *)
(*                                                                         *)
(* A selection is the value of the variable TINYCLOUD_SERVICES.  It has    *)
(* four homes: tinycloud.env (`stored'), the environment of the shell, the *)
(* runtime record active-runtime.json (`runtime.value', with the --env     *)
(* options of a Docker runtime in `runtime.options') and the environment   *)
(* of the daemon (of which `runtime.served' is the meaning).  The commands *)
(* start, stop, restart and services enable/disable move it between them.  *)
(*                                                                         *)
(* One command runs at a time; RuntimeLifecycle cuts commands into steps.  *)
(* A value is a sequence of words, <<>> for a variable that is not set; a  *)
(* variable that is set to nothing is not among the inputs.                *)
(***************************************************************************)
EXTENDS Naturals, Sequences

CONSTANTS
  Backends,      \* the backends in use
  Updates,       \* arguments of services enable and disable
  StartServices, \* values of start --services
  StartEnv,      \* values of start --env TINYCLOUD_SERVICES=
  ShellValues,   \* values of the variable in a shell
  MaxCommand     \* bound on the number of commands, stops apart

ASSUME SelectionAssumption ==
  /\ Backends \subseteq {"process", "docker"}
  /\ <<>> \notin Updates
  /\ MaxCommand \in Nat

-----------------------------------------------------------------------------
(* The syntax of a selection. *)

Services ==
  {"management", "blob", "queue", "table", "keyVault", "serviceBus",
   "appConfig", "cosmos", "dns", "eventHubs"}

(* The words a service or a family goes by.  Words are compared in lower   *)
(* case and without dashes; of the other spellings only the names of the   *)
(* services themselves are given.                                          *)
Meaning ==
  [management |-> {"management"}, control |-> {"management"},
   controlplane |-> {"management"},
   blob |-> {"blob"}, queue |-> {"queue"}, table |-> {"table"},
   storage |-> {"blob", "queue", "table"}, secrets |-> {"keyVault"},
   keyvault |-> {"keyVault"}, appconfig |-> {"appConfig"},
   config |-> {"appConfig"}, secretsconfig |-> {"keyVault", "appConfig"},
   cosmos |-> {"cosmos"}, data |-> {"cosmos"},
   servicebus |-> {"serviceBus"}, eventhubs |-> {"eventHubs"},
   messaging |-> {"serviceBus", "eventHubs"},
   messagingevent |-> {"serviceBus", "eventHubs"}, networking |-> {"dns"},
   dns |-> {"dns"}]

LowerCase == [keyVault |-> "keyvault", serviceBus |-> "servicebus",
              appConfig |-> "appconfig", eventHubs |-> "eventhubs"]

Normalize(word) == IF word \in DOMAIN LowerCase THEN LowerCase[word] ELSE word

(* What a word adds to the words before it.  "none" adds nothing.          *)
Adds(word) ==
  LET name == Normalize(word)
  IN  CASE name = "all" -> Services
        [] name \in DOMAIN Meaning -> Meaning[name]
        [] OTHER -> {}

Drops(word) == Normalize(word) = "none"

Known(word) == Normalize(word) \in DOMAIN Meaning \union {"all", "none"}

(* A service is selected by a word that adds it, if no later word drops    *)
(* what is selected so far.  An unset variable selects everything.         *)
Enabled(value) ==
  IF value = <<>> THEN Services
  ELSE {service \in Services :
          \E i \in DOMAIN value :
            /\ service \in Adds(value[i])
            /\ \A j \in DOMAIN value : i < j => ~Drops(value[j])}

Valid(value) == \A i \in DOMAIN value : Known(value[i])

(* Faulty variant: a daemon without services starts too. *)
StartableEmpty(value) == Valid(value)

(* A daemon starts with valid words and at least one service. *)
Startable(value) == Valid(value) /\ Enabled(value) # {}

(* The services of a set, in the order in which they are written. *)
ServiceNames(set) ==
  LET Name(service) == IF service \in set THEN <<service>> ELSE <<>>
  IN  Name("management") \o Name("blob") \o Name("queue") \o Name("table") \o
      Name("keyVault") \o Name("serviceBus") \o Name("appConfig") \o
      Name("cosmos") \o Name("dns") \o Name("eventHubs")

(* Faulty variant: no word for the empty set. *)
JoinBlank(set) == ServiceNames(set)

(* A set of services written as a value.  The empty set has a word of its  *)
(* own, for nothing would mean everything.                                 *)
Join(set) == IF set = {} THEN <<"none">> ELSE ServiceNames(set)

(* A value over another one: an unset variable leaves what is below it. *)
Over(top, base) == IF top = <<>> THEN base ELSE top

-----------------------------------------------------------------------------
VARIABLES
  stored,    \* the variable in tinycloud.env
  runtime,   \* the running daemon with its record, or NoRuntime
  commands,  \* number of commands given, stops apart
  \* history, read by no guard
  last,      \* what the last command was
  wishes     \* per service, what services enable and disable last asked for
             \* since a selection was given in another way; an update given
             \* while a runtime is up starts from the runtime's services,
             \* and gives up what the runtime has not taken up of earlier ones

selectionVars == <<stored, runtime, commands, last, wishes>>

NoRuntime == [backend |-> "none"]

Active == runtime # NoRuntime

Modes == {"none", "--attached", "--detached"}

NoWish == [s \in Services |-> "none"]

(* effectiveEnv: the shell's environment over tinycloud.env. *)
Effective(shell) == Over(shell, stored)

SelectionInit ==
  /\ stored = <<>>
  /\ runtime = NoRuntime
  /\ commands = 0
  /\ last = [command |-> "none"]
  /\ wishes = NoWish

-----------------------------------------------------------------------------
(* Faulty variant: the shell's environment over the CLI's values. *)
DaemonValueInherited(backend, value, options, shell) ==
  IF backend = "docker" THEN Over(options, value) ELSE Over(shell, value)

(* The environment of the daemon.  A process inherits the shell's, with    *)
(* the CLI's values over it.  A container gets the CLI's values and then   *)
(* the --env options as they were given; for docker the last one counts.   *)
DaemonValue(backend, value, options, shell) ==
  IF backend = "docker" THEN Over(options, value) ELSE Over(value, shell)

(* waitForHealthy asks the management service, if it is to run, and else   *)
(* believes that the daemon is up.                                         *)
Healthy(value, served) ==
  "management" \in Enabled(value) => "management" \in served

(* What a start leaves running.  `value' is the environment of the CLI     *)
(* with --env and then --services over it.  A start that is refused or     *)
(* whose daemon does not get healthy leaves nothing.                       *)
Started(env, backend, services, options, attached, shell) ==
  LET value == Over(services, Over(options, env))
      daemon == DaemonValue(backend, value, options, shell)
  IN  IF /\ Startable(value)
         /\ Startable(daemon)
         /\ Healthy(value, Enabled(daemon))
      THEN [backend |-> backend, value |-> value, served |-> Enabled(daemon),
            options |-> IF backend = "docker" THEN options ELSE <<>>,
            attached |-> attached,
            detached |-> backend = "docker" \/ ~attached]
      ELSE NoRuntime

(* start: detached unless it is told --attached. *)
AttachedBy(arguments) == "--attached" \in arguments

Command == commands < MaxCommand /\ commands' = commands + 1

(* tinycloud start, refused while a runtime is active. *)
Start(backend, services, options, mode, shell) ==
  /\ Command
  /\ ~Active
  /\ runtime' = Started(Effective(shell), backend, services, options,
                        AttachedBy({mode}), shell)
  /\ last' = [command |-> "start", shell |-> shell,
              replayed |-> <<>>]
  /\ IF services = <<>> /\ options = <<>> /\ shell = <<>>
     THEN UNCHANGED wishes
     ELSE wishes' = NoWish
  /\ UNCHANGED stored

(* tinycloud stop, which may find nothing to stop. *)
Stop ==
  /\ runtime' = NoRuntime
  /\ last' = [command |-> "stop"]
  /\ UNCHANGED <<stored, commands, wishes>>

(* Faulty variant: the record is forgotten. *)
RestartEnvFresh(shell) == Effective(shell)

(* The environment of the next start: the CLI's over the record's. *)
RestartEnv(shell) == Over(Effective(shell), runtime.value)

(* The mode of a restart: the one that was asked for, else the record's.   *)
(* A detached start gets --detached, the other one gets no argument.       *)
RestartDetached(mode) ==
  mode = "--detached" \/ (mode = "none" /\ runtime.detached)

RestartArguments(mode) ==
  IF RestartDetached(mode) THEN {"--detached"} ELSE {}

(* tinycloud restart: a stop and a start with the record's backend, unless *)
(* another one is named, and the record's --env options.  The stop counts  *)
(* even if the start is refused.                                           *)
Restart(mode, backend, shell) ==
  /\ Command
  /\ Active
  /\ runtime' = Started(RestartEnv(shell), backend, <<>>, runtime.options,
                        AttachedBy(RestartArguments(mode)), shell)
  /\ last' = [command |-> "restart", shell |-> shell,
              replayed |-> runtime.options]
  /\ wishes' = IF shell = <<>> THEN wishes ELSE NoWish
  /\ UNCHANGED stored

(* tinycloud restart when nothing runs is a start, detached in any mode. *)
RestartStopped(mode, backend, shell) ==
  /\ Command
  /\ ~Active
  /\ runtime' = Started(Effective(shell), backend, <<>>, <<>>,
                        AttachedBy(IF mode = "--detached" THEN {mode} ELSE {}),
                        shell)
  /\ last' = [command |-> "restart", shell |-> shell,
              replayed |-> <<>>]
  /\ wishes' = IF shell = <<>> THEN wishes ELSE NoWish
  /\ UNCHANGED stored

(* tinycloud services enable and disable: they change the services of the  *)
(* active runtime, or of the environment when there is none, and store the *)
(* outcome.  Nothing changes in the runtime.                               *)
Granted(service, selection) ==
  CASE wishes[service] = "on"  -> service \in selection
    [] wishes[service] = "off" -> service \notin selection
    [] OTHER -> TRUE

Base(shell) == IF Active THEN runtime.value ELSE Effective(shell)

UpdateServices(enable, words, shell) ==
  LET named == Enabled(words)
      current == Enabled(Base(shell))
  IN  /\ Command
      /\ Valid(words)
      /\ stored' = Join(IF enable THEN current \union named
                                  ELSE current \ named)
      /\ last' = [command |-> "services"]
      /\ wishes' = [s \in Services |->
                      IF s \in named THEN IF enable THEN "on" ELSE "off"
                      ELSE IF \/ ~Active /\ shell = <<>>
                              \/ Granted(s, current)
                      THEN wishes[s] ELSE "none"]
      /\ UNCHANGED runtime

(* The daemon or its container ends by itself; the next command finds the  *)
(* record stale and removes it.                                            *)
RuntimeDies ==
  /\ Active
  /\ runtime' = NoRuntime
  /\ last' = [command |-> "none"]
  /\ UNCHANGED <<stored, commands, wishes>>

SelectionNext ==
  \/ \E backend \in Backends, shell \in ShellValues :
       \/ \E services \in StartServices, options \in StartEnv, mode \in Modes :
            Start(backend, services, options, mode, shell)
       \/ \E mode \in Modes : Restart(mode, backend, shell)
       \/ \E mode \in Modes : RestartStopped(mode, backend, shell)
  \/ Stop
  \/ \E enable \in BOOLEAN, words \in Updates, shell \in ShellValues :
       UpdateServices(enable, words, shell)
  \/ RuntimeDies

SelectionSpec == SelectionInit /\ [][SelectionNext]_selectionVars

-----------------------------------------------------------------------------
(* Every part of the state is what its home may hold; a runtime serves at  *)
(* least one service (RequireServices).                                    *)
SelectionTypeOK ==
  /\ stored \in Seq(Services \union {"none"})
  /\ \/ runtime = NoRuntime
     \/ /\ runtime.backend \in Backends
        /\ Startable(runtime.value)
        /\ runtime.served \in (SUBSET Services) \ {{}}
        /\ runtime.attached \in BOOLEAN /\ runtime.detached \in BOOLEAN
  /\ commands \in 0..MaxCommand
  /\ wishes \in [Services -> {"none", "on", "off"}]

(* The last command brought a runtime up from a shell without a selection  *)
(* of its own, and replayed no --env options of a container: these count   *)
(* over all other homes of the selection, also over what was stored after  *)
(* they were given (see README.md).                                        *)
BroughtUp ==
  /\ Active
  /\ last.command \in {"start", "restart"}
  /\ last.shell = <<>> /\ last.replayed = <<>>

(* What every enable and disable asked for is so when a start or a restart *)
(* has brought the runtime up: of all of them given while nothing runs,    *)
(* and of the last one and those before the runtime came up, given while   *)
(* one does (docs/cli.md:105).                                             *)
UpdatesHonoured ==
  BroughtUp => \A service \in Services : Granted(service, runtime.served)

(* status, endpoints, config show and services list describe the runtime   *)
(* by its record: they list what the daemon serves, and all of it, unless  *)
(* a container was given --services and --env at once (docs/cli.md:103).   *)
DescribedAsServed ==
  Active => \/ Enabled(runtime.value) = runtime.served
            \/ runtime.options # <<>> /\ runtime.options # runtime.value

(* As long as no selection was ever stored, a restart from a shell without *)
(* one serves what was served before, whatever options the start had and   *)
(* whatever backend they change to, or it brings nothing up (runRestart).  *)
RestartKeepsServices ==
  [][ /\ Active /\ stored = <<>>
      /\ \E mode \in Modes, backend \in Backends : Restart(mode, backend, <<>>)
      => runtime' = NoRuntime \/ runtime'.served = runtime.served ]_selectionVars
=============================================================================
