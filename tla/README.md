# TinyCloud: TLA+ specifications and proofs

TinyCloud is a local emulator of a part of Azure: one daemon (`tinycloudd`) that
serves Azure's resource manager and eight data planes from one SQLite database, a
CLI (`tinycloud`) that manages the daemon and the database, and wrappers around
`terraform` and `az`. This directory holds TLA+ models of its stateful parts, the
TLC configurations that check them, and proofs for the TLA+ proof system.

Paths below are relative to the root of the repository; `store.go` is
`azure/internal/state/store.go`, `arm/` is `azure/internal/api/arm/`.

## 1. The system

| component | state it keeps | operations that change it |
| --- | --- | --- |
| State store (`store.go`) | 37 SQLite tables, 30 of them in the snapshot document; a snapshot file | one method per operation of every other component, and Init, Reset, Snapshot, Restore |
| Storage queues | queues, messages with receipt, attempts and `visible_at` | create, enqueue, receive (lease), delete |
| Service Bus | namespaces, queues, topics, subscriptions, their messages | create, send, publish (fan-out), receive, delete |
| Event Hubs | hubs, events with sequence numbers | create, publish, list from a number |
| Blobs, tables, App Configuration, Cosmos DB, Key Vault secrets | rows under a container, table, store, database or vault | upsert, delete |
| Resource manager (`arm/handler.go`) | resource groups, storage accounts, vaults, networks, security groups, DNS zones, operations | PUT, DELETE, polling of operations |
| Deployments (`arm/deployment_template.go`) | deployments | PUT: create the resources of a template |
| Private DNS | none of its own: answers from zones and records | UDP query |
| Daemon (`internal/app/server.go`, `tls.go`) | a goroutine per listener, the channel of their results, the certificate and key files | start, serve, answer, shut down on a signal or on an error |
| Runtime lifecycle (`cli/tinycloudcmd`) | `active-runtime.json`, `tinycloud.env`, a process or a container | start, stop, restart, wait, enable and disable services |
| `tinyterraform` (`cli/tinyterraformcmd`) | a provider override in the working directory, a block in the hosts file, a runtime of its own | a run: override, daemon, certificate, hosts, terraform, cleanup |
| `tinyaz`, tokens, identity, metadata | none that outlives a call | |

How they interact. Every data plane and the resource manager call the store, which
serialises the calls of ONE process by a mutex. A call is not a transaction: every
SQL statement commits by itself, except those of `writeLocked` (reset, restore,
first use). The CLI's `init`, `reset`, `snapshot` and `seed` open the same database
from another process, past the mutex. A handler makes several store calls (check,
write, operation record), and requests interleave between them. Clients hold
receipts, lock tokens, sequence numbers and operation ids across calls.

What is hard, and why: leases whose ends are compared as text; receives, publishes
and cascading deletes cut between two statements; counts and numbers read in one
statement and written in another; ids read from a clock; two processes on one
database; a snapshot read table by table; a runtime record that several CLI
processes read and write without a lock; a certificate and a key that two processes
write one after the other; listeners that are closed before they have begun to serve;
a launcher whose every step is to be undone by a cleanup that has its own point of
no return. PROJECT.json lists each under "hazards" with its line.

What makes each component correct, in short:

- queues, Service Bus: a message is with one client at a time, attempts are counted,
  a completion needs the latest receipt, a lease ends; a publish reaches a known set;
- Event Hubs: numbers are dense, ordered and name one event; readers skip nothing;
- store: no row without its parent, nothing lost unasked, a restore is a state that was;
- resource manager: constraints between rows hold under concurrency, operations tell
  the truth and keep telling it;
- daemon: it serves TLS with the certificate that clients were told to trust; asked to
  stop it stops, and its exit code says whether requests were cut;
- runtime lifecycle: no daemon runs off the record but one over which a command was cut
  or failed, a start that reports one is right, every command ends; a selection of
  services is so after the next start;
- `tinyterraform`: terraform never reaches Azure, it talks to the daemon of its run, and
  nothing of a run is left behind but by a kill or by a failure on that very thing.

## 2. Modules

| module | models | state and actions against the code |
| --- | --- | --- |
| `LeaseRows` | what the three lease tables share | `TextLess` is the order of RFC3339Nano text; `Selections` and `Relock` are the SELECT and UPDATE of the three Receive methods |
| `ExclusiveLease` | the abstract promise of a queue | tickets are issued, superseded and completed; no time, tables or failures |
| `MessageQueue` | one storage queue | `rows` is `queue_messages`; `call` is the ReceiveMessages in progress, between its SELECT (`ReceiveMessages`), its UPDATEs (`UpdateVisibility`) and its response (`ReturnMessages`), cut by `AbortReceive` |
| `ServiceBus` | one namespace | the same per entity, and `PublishTopicMessage`, `InsertCopy`, `ReturnPublish` for the statements of a publish |
| `StateStore` | the database and the snapshot file | `call[p]` is the store call of process p; a step is a statement or a file operation; `Bootstrap`, `Reset`, `Restore` are the transactions of `writeLocked` |
| `EventHub` | one hub and one client of it | `events` is the table; the consumer's page and checkpoint are the client's |
| `ArmControlPlane` | one resource group | `request[c]` is client c's request between two store calls of its handler; `FailTorn` cuts a cascading delete |
| `ServiceSelection` | TINYCLOUD_SERVICES between file, shell, record and daemon | `stored` is the variable in `tinycloud.env`, `runtime` the daemon with its record; an action is a whole command; `Enabled` and `Valid` are what the loop of `ParseServiceSelection` comes to, `ServiceNames` and `Join` the list that `serviceSetNames` and `joinServices` write |
| `RuntimeLifecycle` | the process backend | `record` is `active-runtime.json`, `daemon` the processes, `shell[s]` the command in progress; a step is one file, process or port operation |
| `DataPlane` | blobs, tables, App Configuration, Cosmos DB, Key Vault secrets, private DNS | `rows` is all their tables, by primary key; one action per handler over one operator per store method; `deleteSecretReads` and `deleteSecret` are the two store calls of one DELETE; `DeleteCascading` may be cut between its two statements |
| `CertificatePair` | the two TLS files and the processes that make sure of them | `cert`, `key` are the files; `ensure[p]` is where process p is in `EnsureManagementTLSCertFiles`, a step being one stat, open or write |
| `ServerLifecycle` | the daemon from its start to its exit | `main` is the goroutine of `Run`, `listener[l]` that of listener l, `errCh` the channel; `next` is the loop over the listeners in `shutdown` |
| `TerraformLauncher` | runs of `tinyterraform` | `run[r]` is console r's run, a step one operation of the launcher; the tinycloud commands it starts are those of `RuntimeLifecycle` |
| `MessageQueueProofs`, `MessagingProofs`, `StateStoreProofs`, `ArmControlPlaneProofs`, `DataPlaneProofs`, `RuntimeLifecycleProofs`, `DaemonProofs`, `TerraformLauncherProofs` | proofs | see section 5 |
| `MC*` | instances for TLC | bounds the modules leave open |

Composition. `MessageQueue` and `ServiceBus` extend `LeaseRows` and refine
`ExclusiveLease`, the latter once per entity. `StateStore` keeps the tables abstract
(a row is a name), `ArmControlPlane` keeps the database abstract (a store call is a
step): the first justifies the second's step where one process is at work. Storage
accounts, vaults and DNS zones are in `ArmControlPlane` the subject of requests step by
step, and in `DataPlane` one store call, with what they mean for the rows below them.
`ServiceSelection` takes a command as one step and follows what it makes of the
selection; `RuntimeLifecycle` cuts the same commands into steps and leaves the
selection out. `ServerLifecycle` is composed with `CertificatePair`: the daemon and
`tinycloud env terraform` are its two processes, the daemon's serving waits for its own
call, and the composition refines it (`ServerImplementsPair`). `TerraformLauncher` is
composed with `RuntimeLifecycle`: a run issues its commands, kills them and the daemon,
and alone decides whether their health check, which goes to management.azure.com, can be
answered (`Mapped`).

Definitions whose name carries a comment "faulty variant" are plausible bugs of the
definition after them. They are used by nothing in the models: each shows that a
property tells the code from that bug.

### Abstractions worth knowing

- **Instants.** An instant is a second and a fraction in base `Frac`; fraction 0 is a
  whole second, whose text has no fraction and so sorts last in its second. A lease
  can therefore end up to a second late (it ends on a whole second) or early (it is
  compared with a whole second); `LeaseExclusive` states what remains true: no second
  lease before the second in which the first one ends. For the same reason first
  deliveries are ordered to the second only, and a timeout of 0 leases nothing.
- **One reading per statement.** Where the code reads the clock two or three times for
  one row (`created_at`, id, receipt), the model takes one reading. The clock does not
  go backwards. The lock tokens of a publish add the subscription's index in
  nanoseconds to their reading; the model gives each copy the reading, tokens being
  compared within one subscription only.
- **FineClock.** TRUE says that two UnixNano readings made by two statements differ,
  as on a clock of nanosecond resolution; FALSE lets them repeat.
- **Lost responses.** `seen` holds the receipts clients know of: a response may be lost
  after everything was committed.
- **Two pairs of tables** stand for the thirty tables of the document: one pair that
  `writeLocked` treats as all others, and the pair it does not clear.
- **One plane at a time.** The six planes of `DataPlane` share no table but the storage
  accounts', so a behaviour picks one of them in `Init`. Two-part keys (partition and row)
  are one name, except the name and label of a configuration value, which differ in kind.
- **Selections.** A value of TINYCLOUD_SERVICES is a sequence of words, the empty one a
  variable that is not set; blanks and empty words, which `ParseServiceSelection` skips,
  are not among the inputs. A service is enabled if some word adds it and no later word
  is `none`; that this is what the loop over the words computes is compared by TLC, with
  the loop as it is written, for every value of up to four words (`ParseIsTheLoop` in
  `MCServiceSelection`).
- **Processes.** A process that was killed exists, and may hold its port, until it dies;
  process ids are not reused; the management service, whose port only one daemon can
  hold, is enabled.
- **Files.** A file is absent, torn, or whole with what was written; a write that fails
  leaves a certificate or key empty, a runtime record as it was or torn. An override is
  there or not, whole or not. The hosts file is followed as far as TinyCloud's block goes
  (`HostsFiles`): without its first line (`clean`, though a beginning of that line may be
  there), with that line (`begun`), with the line that maps too (`cut`), or `whole`. A write
  that fails, or whose process is killed, leaves any of these; the lines of others, which
  it may take along, are not followed. Reading and writing the file are two steps of
  a launch but one step of `Unmap`; if its write fails, the block counts as gone.
- **Checks, kills and removals that fail.** `isProcessRunning` answers false of a daemon
  that it cannot look up, list or signal (runtime.go:336-352), and a record that cannot be
  read stops a command or, in a start, counts as none (run.go:206): `CheckStale` and
  `CheckUnreadable` may be taken whatever the daemon does. Every `stopProcess` may
  fail, so may the removal of the record, and all a launcher's cleanups
  (`tinyterraformcmd/run.go:235`, 301, 336, 902 discard their errors): `TryKill`, `KillRead`,
  `Forget`, `UnlinkStale`, `NoStop`, `Unmap`, `KillDaemon`, `UndoOverride`. What may not fail
  is the kill of a tinycloud command by the launcher that has started it (`KillStart`).
- **Lost daemons.** `lost` are the processes that were alive when a command was cut before
  it had written the record, or when reading their record, looking them up or killing them
  failed. A loss is for good, though a later command may find the daemon again. Besides
  overlaps it is the one exemption of `NoDaemonLost` and `ServedByOwn`, which speak of all
  daemons that are not lost; `StartTruthful` speaks of starts while no lost daemon lives.
  One shell is enough for what is exempted. After a failed check the record of
  a live daemon is removed (run.go:886), a start goes on beside it, its own daemon finds
  the port taken, and the old one answers the health check. What the properties then show
  is that nothing else does this: no order of commands, cuts and deaths makes a command
  drop a daemon that it has found.
- **The foreign daemon.** In `TerraformLauncher` a daemon of another runtime root serves on
  the port at first, lost from the outset, as it is on no record of this root; it may
  end at any time, before the first run too.
- **Listeners.** Each has at most one request in progress. Three stand for the eleven:
  the order of their shutdown and the one that speaks UDP are all that differs.
- **Templates.** The empty template of `ArmControlPlane` is a deployment without any, which
  succeeds. A template whose list of resources is empty, or parameters without a
  template, fail in the code (deployment_template.go:43-45, arm/handler.go:1412-1415) and
  are to be read as the template whose first resource is unsupported.
- **History variables** (`grants`, `acks`, `issued`, `publications`, `cut`, `created`,
  `kept`, `met`, `shared`, `told`, `raced`, `did`, `last`, `wishes`, `lost`, `overlap`,
  `spoiled`, `early`, `crossed`, `dirty`, `litter`, `stale`, the `asked` of an operation
  and `own` but for the interrupt of its daemon) are read by no guard of the code.

## 3. Runs

| run | instance | what it shows |
| --- | --- | --- |
| `queue` | 3 seconds of 2 fractions, timeouts 0 and 1, limits 1 and 2 | `LeaseExclusive`, `DequeueCountExact`, `FirstDeliveryInOrder`, and the refinement of `ExclusiveLease`, with every receive cut at every point |
| `queue_coarse_clock` | 3 readings that repeat, with time passing | `AttemptsNeverReset`: colliding ids lose a message, never attempts; `LeaseEnds` |
| `store` | daemon and CLI, 2 pairs of tables, failures | `NoOrphans` and `NothingLostUnasked` until the CLI comes in; `RestoreBracketed` in any case |
| `data_planes` | 2 groups, 2 names of parents, 1 of children, 2 values, 2 clients, 2 nested zones | `NoOrphans`, `AnswersAddUp`, `LossHasCause`, `DeleteTellsWhatItRemoved`, `OneAnswer` |
| `service_bus` | 1 queue, 1 topic, 2 subscriptions, 4 readings | `FanOut`, `EachEntityLeases` |
| `event_hub` | 3 events, 2 resets or restores, 1 crash, pages of 1 and 2 | `Dense`, `NoneSkipped`, `EveryEventRead` |
| `resource_manager` | 2 clients, 4 requests, 2 accounts, 1 network, 1 security group, 2 children, priorities 99, 100, 4096, 1 deployment, 4 templates | `PrioritiesUnique`, `DeletedOnce`, `OperationsTruthful`, `OperationsKept` |
| `services` | both backends, 5 commands, 3 shells, with and without `--services` and `--env` | `UpdatesHonoured`, `DescribedAsServed`, `RestartKeepsServices` |
| `runtime` | 2 shells, 2 starts, 2 cuts, failing checks and kills | `NoDaemonLost`, `StartTruthful`, `CommandsEnd` |
| `server` | 3 listeners (TLS, DNS, plain), 2 starts of the daemon or calls of `env terraform`, 1 kill or failing listener | `ExitTellsTruth`, `OnlyDnsLingers`, `CertificateServed`, `RunReturns` |
| `terraform` | 2 consoles, 2 runs, 1 kill, failing steps, writes and cleanups, with and without a foreign daemon on the port | `NeverToAzure`, `ServedByOwn`, `QuietIsClean` |
| `store_reset` | small | the finding of section 4 |

`TypeOK` is an invariant of the runs `store`, `service_bus`, `services` (where it is
`SelectionTypeOK`) and `terraform`. It is a theorem of every module, and left out of the
other runs.

Why the bounds are enough. Violating a lease property takes two messages, two
receives and a lease that ends across a second: three seconds of two fractions hold
them, and two fractions already separate text order from real order. With two
subscriptions there are publishes cut before, between and after the copies. Two
clients race on every check-then-act pair; three requests suffice to delete, recreate
and delete again under another client's pending request. Two resets put an old
snapshot over a new stream. Five commands are a start, two updates, a restart and one
more; the words include a family, a service, an invalid word and the empty selection.
Two starts let the daemon that a cut or a failing check has lost meet the start that
follows it, two cuts cut both. Two starts of
the daemon, or one of each process, meet the files that a cut first call has left;
a listener before that of DNS, it, and one after it are passed at every point of their
goroutines. Two runs of `tinyterraform` overlap, or the second meets what the kill of the
first, or one of its failing cleanups, has left. All counters (`MaxSec`, `MaxPublish`, `MaxEpoch`, `MaxCrash`,
`MaxRequest`, `MaxCommand`, `MaxStart`, `MaxCut`, `MaxFault`, `MaxRun`) bound inputs of
the environment, never retries of the code.
In `data_planes` two names show a deletion reaching into another parent, two groups a
vault or a zone twice, two values a secret that was changed between the two calls of its
DELETE. Symmetry is used in runs without liveness only: for the two clients of
`resource_manager`, for clients, groups, names and values in `data_planes`, and for the
consoles of `terraform`.

Deadlock. Every run checks for it but `server`, where the daemon may stay down after its
last start; clocks, request counters and epochs stop at their bound, and reads, tables
that can be emptied and aborts keep the systems moving.

Fairness. The program owes its clients no step: it acts when called. `LeaseEnds`
assumes that time passes (weak fairness of `Tick`) and nothing of receives, which may
hang for ever. `EveryEventRead` assumes a client that goes on polling: weak fairness
of its reads and of its own steps, none of publishes, snapshots or resets.
`CommandsEnd` assumes that a command goes on by itself (weak fairness of `Step`), its
health check's deadline included, and nothing of daemons, which may hang, or of users.
`RunReturns` assumes that the daemon's main goroutine goes on, its certificate call
included, and that time passes (weak fairness of `MainStep`, `PairStep("daemon")` and
`Deadline`), and nothing of listeners, of requests, which may take for ever, or of users:
Go schedules a goroutine that can run, and what it waits for in `shutdown` has a deadline.
Runs of `tinyterraform` have no such property, for terraform itself may take for ever.

Commands that overlap. `NoDaemonLost` and `StartTruthful` speak of states before any two
commands have overlapped (`Overlaps`; to look at or to stop an attached runtime from a
second shell does not count). Without that, TLC finds the ways in which commands lose a
daemon: two starts pass the check for a running runtime before either has written the
record; a command that found the record stale removes the one that a start has written
since; an attached start, when it ends, removes the record of the start that came after
it. The repository does not say that commands may overlap, so these are hazards and not
findings. `CommandsEnd` holds with overlaps too. In the same way `NeverToAzure` sets apart
two runs of `tinyterraform` that both found the hosts file clean before either wrote it
(`crossed`), `ServedByOwn` runs that were in progress together (`met`), `QuietIsClean`, as
to daemons, commands that overlapped or a kill that no run has followed (`dirty`), and
`CertificateServed` calls that were (`overlap`) or were cut in the middle of a file while
both were there (`spoiled`): nothing in the code locks or compares these files.

## 4. Findings

- `store_reset`: `writeLocked` clears every table of the document except
  `network_security_groups` and `network_security_rules` (store.go:6334-6453). A reset
  leaves security groups behind, against
  `azure/examples/terraform/resource-group/README.md:43`.

What the launcher leaves behind after failures of its own cleanups, and so is set apart by
`stale` and `litter`, is worth knowing too: the error of a cleanup is told to nobody, and a
part of the block that a failing write has left (run.go:331) refuses every later run
(run.go:326), while `RemoveTinyTerraformHostsMapping` takes out whole blocks only
(run.go:350-352), so that the user has to edit the file (`EditHosts`). A failing write of
the override (run.go:897) may leave an empty one, with no cleanup due. The repository
promises nothing of such failures.

Disagreements met while modelling, without a run of their own, because the models take
the code's side or leave the part out:

- for the same reason as in `store_reset`, a snapshot with a security group that still
  exists cannot be restored: the INSERT (store.go:7056) fails and the transaction rolls
  back (`Conflict` in `StateStore`). The test of `store_test.go:1488` restores into a
  fresh root only;
- while a runtime is up, `services enable` and `disable` start from the services of its
  record (run.go:826) and not from `tinycloud.env`: of two of them before a restart, the
  second one undoes the first, against `docs/cli.md:105`; `UpdatesHonoured` says what is
  left of them;
- `restart --attached` starts detached (run.go:484-487, 122), against its usage text
  (run.go:1069) and `docs/cli.md:43`;
- a restart of a container that was started with `--env TINYCLOUD_SERVICES=...` replays
  the option over the stored selection (run.go:491-494), so that no later update counts,
  against `docs/cli.md:105`; `BroughtUp` sets such restarts apart;
- with `--services` and `--env TINYCLOUD_SERVICES=...` a container's record has the
  former, the container the latter (docker.go:221-226), and `endpoints` lists what is
  not served, against `docs/cli.md:103`; `DescribedAsServed` sets such containers apart;
- `tinyterraform init` resets the data root of its own environment, `./data` if it has
  none (`RunLocalInit`, `tinyterraformcmd/run.go:682-732`), `apply` uses
  `data` under its runtime root (run.go:448): emulator and Terraform state are not
  aligned after a failed apply, against `azure/docs/terraform.md:149` and
  `azure/examples/terraform/resource-group/README.md:43`;
- the launcher's health check asks 127.0.0.1:4566 (`tinyterraformcmd/run.go:267`), which
  any daemon answers, not only that of the "isolated TinyCloud runtime" of
  `azure/docs/terraform.md:101`; hence the daemons `lost` of `ServedByOwn`. For the same
  reason runs side by side with `TINYTERRAFORM_RUNTIME_ROOT`
  (`terraform.md` on that variable) share their ports and the hosts file;
- the PowerShell wrapper, run without the launcher, starts a detached daemon that its
  cleanup never stops, so that the `destroy` of the flow of `terraform.md:90-97` is
  refused because the port is in use.

## 5. Proofs

`MessageQueueProofs` proves, for every clock (`Frac`, `MaxSec`), every set of timeouts
and of limits and any number of messages:

- `TypeCorrect`: `Spec => []TypeOK`;
- `LeaseInvariant`: `Spec => []LeaseInv`, assuming `FineClock`;
- `LeasesAreExclusive`: `Spec => []LeaseExclusive`, assuming `FineClock`;
- `QueueImplementsLease`: `Spec => ImplementsExclusiveLease`, assuming `FineClock`;
- `AttemptsOnlyGrow`: `Spec => AttemptsNeverReset`, on any clock.

Assumptions: `ClockAssumption` (`Frac` is positive, `MaxSec` a natural number),
`RequestAssumption` (timeouts are naturals, limits positive; the handlers refuse
others), and where stated `FineClock`, without which two messages can get one id and
the second one is refused (that is `queue_coarse_clock`).

The argument. `LeaseExclusive` speaks of the leases granted so far and is not
inductive: nothing in it stops the next UPDATE. `LeaseInv` adds

- `MintedInPast`: every id and receipt on record is at most `minted`, which is at most
  the clock, so that a new reading is new; needed for "the receipt was never issued"
  and to know which of two leases is later;
- `RowOutlastsLeases`: a row's `visible_at` is, to the second, at or after the end of
  every lease of its message; needed to turn the SELECT's filter on the row into a
  statement about leases;
- `SelectedRowsStillDue`: the rows that a receive has selected and not yet updated are
  in the table, unchanged and visible by the second of its reading; needed because
  filter and UPDATE are steps apart. It holds because the store's mutex keeps other
  calls out and because one SELECT returns no row twice.

The first part of the module holds the lemmas about `TextLess`, `Put`, `Delete`, `Selections` and
`Relock` that the steps cite, such as: text order never inverts seconds.

Two more rest on `LeaseInv`, under `FineClock` again: `DequeueCountsAreExact`
(`CountInv`: a row's attempts are the leases of its message, and those of a selected row
are what the SELECT read) and `FirstDeliveriesInOrder` (`OrderInv`: what has been enqueued
and not leased is in the table, unless acknowledged, and a receive selects the oldest).

`AttemptsOnlyGrow` does without `FineClock`. Its invariant `AttemptInv` says that one
SELECT returns no id twice and that a row it has read, and whose UPDATE is still to come,
has the count that was read, if a row of that id is there at all: ids may repeat then, but
the primary key keeps a row from being replaced, and the mutex one from being leased.

`MessagingProofs` is about the two messaging services. `ServiceBus`, for any queues,
subscriptions, timeouts and limits, assuming `EntityAssumption` and `ClockAssumption`:

- `MessagesFanOut`: `Spec => []FanOut`. `BusInv` adds that recorded readings lie in the
  past and publishes have ids of their own, that every row was inserted under a token,
  and that the publish in progress has served the first of the subscriptions it found
  (`ServedSoFar`), so that what it has reached is always a prefix of them;
- `EntitiesLeaseAlone`: `Spec => EachEntityLeases`, the refinement of `ExclusiveLease` by
  each entity: a step on one entity is one or no step of its own instance and none of the
  others'. A copy whose id another entity has, too, has a token of its own there;
- `BusTypeCorrect`.

`EventHub`, for any events, resets, crashes and page sizes, assuming `BoundAssumption`:

- `NumbersAreDense`: `Spec => []Dense`. `NumberedInv` adds that the snapshot's rows are
  dense, too, and that a number is at most the name given when it was given out, so that
  after a restore the next name is above all others;
- `NothingIsSkipped`: `Spec => []NoneSkipped`. Because numbers are dense, a page is a run
  of numbers without a gap (`PageIsRun`, which counts them by a bijection with an
  interval). `ReadInv` adds that everything below the page's first number, the last number
  handled and the checkpoint was handled, and that these lie within the stream, so that an
  event published later is behind them;
- `HubTypeCorrect`.

`StateStoreProofs`, for one or both pairs of tables, any names and any number of processes,
assuming `StoreAssumption`, from the invariant `StoreInv`:

- `ChildrenHaveParents`: `Spec => []NoOrphans`. `TidyInv` says that, while the daemon is
  alone, every document has a parent for each child, but for deletions in progress or cut
  short: the tables, the snapshot file, and what a snapshot has read so far or a restore is
  about to write. A snapshot reads parents and children in different statements, so that
  its tables match only because they are what the database still holds;
- `OnlyRequestsDelete`: `Spec => NothingLostUnasked`. `BootInv` says that a store without
  a version is empty and that the daemon's calls beyond their first step have found one, so
  that the empty document of `ensureDocumentLocked` overwrites nothing;
- `SnapshotsBracket`: `Spec => RestoreBracketed`, whatever the other processes do.
  `WatchInv`: what a snapshot in progress has read lies between what was there all along
  and what was ever there;
- `TypeCorrect`.

The first two are about one process, as the properties are: with two they fail (section 6).

`ArmControlPlaneProofs`, for any number of clients, resources, priorities, templates and
requests, assuming `ArmAssumption` (templates are sequences, and the names of resources,
their children and deployments are apart, as the path of a request tells them apart):

- `RulePrioritiesUnique`: `Spec => []PrioritiesUnique`. The strengthening `RulesInv`
  adds that a rule is a pair of a group and a name: a new rule collides with no other
  one because the check `Taken` looks at the rules of its group under other names;
- `OperationsAreKept`: `Spec => OperationsKept`. The strengthening `IdsInv` says that
  the ids on record are exactly those up to the last clock reading, so that a new
  record overwrites none;
- `OperationsTellTruth`: `Spec => []OperationsTruthful`, assuming that no template names a
  resource twice (`NamedOnce`). `TruthInv` adds what requests in progress carry: one about
  to be recorded is truthful, one that deploys has written the resources before the next;
- `DeletionsSucceedOnce`: `Spec => []DeletedOnce`. `ClaimsInv` counts, for each resource,
  the deletions recorded, those about to be and the row against the creations, and needs
  `IdsInv` to know that recording one adds one;
- `TypeCorrect`.

`DataPlaneProofs`, for any groups, names, zones, values and clients; `NamesAssumption`
(zones and names are sequences of labels) is used by `NamesHaveOneAnswer` alone:

- `RowsHaveParents`: `Spec => []NoOrphans`. The strengthening `OrphansInv` adds
  `WellKeyed`: the names in the keys of rows are names of the instance, without which the
  second statement of a deletion, which is a set over those names, could miss a child;
- `AnswersAlwaysAddUp`: `Spec => []AnswersAddUp`, inductive as it stands;
- `NothingElseIsLost`: `Spec => LossHasCause`, by cases of the step alone;
- `NamesHaveOneAnswer`: `Spec => []OneAnswer`, a fact about suffixes of sequences;
- `DeletesTellWhatTheyRemove`: `Spec => DeleteTellsWhatItRemoved`. `ReadInv` says of a
  DELETE between its two calls that what it has read is still there, or the secret is
  gone, or it was put since;
- `TypeCorrect`.

`RuntimeLifecycleProofs`, for any shells, starts and cuts, assuming `LifecycleAssumption`:

- `TypeCorrect`. That a start finds a process id is a counting argument (`SpawnsInv`):
  the daemons spawned, and the commands that may yet spawn one, are no more than the
  starts given;
- `NoDaemonIsLost` and `StartsAreTruthful`: `Spec => []NoDaemonLost`,
  `Spec => StartTruthful`. `OrderInv` adds, for as long as no commands have overlapped,
  that a command that writes is alone (`Apart`) and that a daemon is on record or in the
  hands of the command that is about to put it there, or lost (`Recorded`). A command
  that holds or reads of the one daemon that may live (`OnlyLive`) and loses or kills it
  leaves none of account (`LosingTheOnlyOne`, `TryingTheOnlyOne`);
- `CommandsGoOn`: `Spec => CommandsDescend`, overlaps and cuts included. The measure
  `Left` counts the tasks that a command has yet to do and, within one, the places ahead.

`DaemonProofs` is about the daemon and what it serves. `ServerLifecycle`, for any
listeners in any order, starts and faults, assuming `ServerAssumption` (each listener
once, the channel has room for all, TLS is not DNS):

- `ServerImplementsPair`: `Spec` implements that of `CertificatePair`;
- `CertificateIsServed`: `Spec => []CertificateServed`. `PairInv` says where the files are
  at each step of a call; a call that generates has seen that a file is missing, so that a
  pair that matches is left alone. `ServedInv` carries that to the listener;
- `ExitIsTruthful`, `OnlyTheResolverLingers`: `Spec => []ExitTellsTruth` and
  `[]OnlyDnsLingers`. `MainInv` says what the shutdown has made of the listeners before
  `next`, at whatever point of their goroutine they were;
- `MainGoesOn`: `Spec => MainDescends`. The measure `Remains` counts what `Run` has still
  to do: operations on the certificate files, then listeners to shut down. `DaemonInv`
  adds that the daemon's certificate call is in progress only while `Run` waits for it;
- `ServerTypeCorrect`.

`ServiceSelection`, for any backends, updates, options of `start` and values given by
shells, and any number of commands, assuming `SelectionAssumption`:

- `SelectionTypeCorrect`; `UpdatesAreHonoured`: `SelectionSpec => []UpdatesHonoured`;
  `RecordsDescribe`: `SelectionSpec => []DescribedAsServed`; `RestartsKeepServices`:
  `SelectionSpec => RestartKeepsServices`. All come from `SelectionInv`. It adds that the
  daemon serves what its container's options and the record's selection come to
  (`ServedByRecord`), which is what a restart reads and an update starts from, and that
  the stored selection grants every wish since it was first stored (`WishesStored`),
  which is what the next start reads.
  The lemma they share is `JoinIsReadBack`: the list that the CLI writes of a set of
  services, names in the written order and `none` for no service, is valid and enables
  that set and no other.

`TerraformLauncherProofs`, for any consoles, runs and kills, assuming `LauncherAssumption`:

- `TerraformStaysLocal`: `Spec => []NeverToAzure`. `HostsInv` adds that one run at a time
  has found the file clean or holds the block, and that a run that holds it finds it whole;
  nothing of the daemon is needed;
- `TerraformIsServedByOwn`, `NothingIsLeft`: `Spec => []ServedByOwn` and
  `[]QuietIsClean`, from `LaunchInv`. `FilesInv` says that a block, or a part of
  one, is there only while a run is due to take out a whole one, or after a kill or a
  failure on the block (`stale`), and an override only while a run is in progress, or
  after a kill or a failure on the override (`litter`); `CommandsInv` that a run's command is
  the one its place calls for, and that one run at most does anything until two have met;
  `DaemonsInv` that a daemon on record lives only while a run is due to stop it or, left
  by a killed run, until the next one has stopped it, before it starts its own, and that a
  stop which fails loses it;
- `RunsGoOn`: `Spec => RunsDescend`: no run goes back, and each step of the command that
  it waits for brings that nearer to its end;
- `TypeCorrect`.

These need what `RuntimeLifecycleProofs` knows of commands and daemons, `OrderInv`, under a
launcher that kills both where it likes. So the lemmas there are about `Moves`, which are
the steps of `RuntimeLifecycle` and the cuts of a command or daemon by something larger;
`NextMoves` shows that its own steps are among them, and `RuntimeMoves` that those of the
launcher are, too. The launcher's proofs take the lemmas from an instance with its runs
for the shells and one start more than runs, that of the foreign daemon, which `Init`
counts so that a process id is there for every run.

Every safety property and every action property that a run checks is a theorem. Left to
TLC is all liveness (`LeaseEnds`, `EveryEventRead`, `CommandsEnd`, `RunReturns`), which
the proof system does not do, as it does not do ENABLED. Of the last two the half that
needs neither is proved: `CommandsDescend`, `MainDescends` and, for the launcher,
`RunsDescend` say that every step of a command, of `Run` and of a run of `tinyterraform`
lowers a measure which nothing else raises, so that none of them can go round; no run
checks these three. What remains to TLC is that a step can always be taken, on
the instances of the runs. Left to TLC, too, is what a loop over a sequence computes for
every input, which needs induction: `ParseIsTheLoop`. No module has a RECURSIVE
operator; where the library's operators need induction over a sequence, as
`SetToSortSeq` does, the models say the same without (`Ordered` in `EventHub`,
`ReadOrder` in `StateStore`).

## 6. Not modelled

Bodies of requests and responses, headers, ETags, logging and layout; reads that return
rows as they are; the middleware of the listeners; `tinyaz`, tokens, identity and
metadata, which are stateless; the packets of the DNS server. Containers have a record
and a selection (`ServiceSelection`) but no lifecycle of their own; process ids that the
system gives out again are left out, because the code has nothing to tell two processes
apart by. Of `tinyterraform`: its `init`, which starts no daemon, the steps that the
PowerShell wrapper takes without the launcher, the answers of the az shim, and runs with
runtime roots of their own. Two properties of `StateStore` that hold with one process
fail with two (`NoOrphans`, `NothingLostUnasked`), and the loss of an update when two
shells change the services at once: the repository makes no promise for a CLI that runs
beside another process, so these are recorded as hazards and not as findings. A deleted
storage account leaves its queues, blobs and tables behind, which are served again under
a new account of that name: nothing in the repository says otherwise, and the models
follow the code.

## 7. Plan

Done: all modules of section 2, with proofs of every safety property that a run checks.

Left, in this order:

1. Containers in `RuntimeLifecycle`, whose identity is a name and not a process id.
2. `tinyterraform init` beside a run, once it uses the run's data root.
