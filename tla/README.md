# Verification of the PlusClouds pfSense agent

TLA+ models of the agent in `src/`, model-checked with TLC and, for the
properties that matter most, proved with TLAPS for every value of the
parameters. `PROJECT.json` maps each definition to the source lines it models
and lists runs, seeded faults (mutants), findings, hazards and theorems.

## 1. Inventory

| Component (source) | State it keeps | Operations | What makes it hard | What makes it correct |
|---|---|---|---|---|
| Boot provisioning (`cmd/agent/main.go` 252-384, `pfsense_freebsd.go` 135-313) | marker file; `config.xml`; live addresses; password | snapshot, apply, probe, revert, mark; set password | every call can fail; scripts are killed after 30 s; crash between any two steps; retried at each boot | one-shot after success; revert restores what was there, and an unusable snapshot never; "verified" is true; retries succeed in the end; password step independent |
| Network scripts and NIC match (`scripts/netconfig/`, `netmatch.go`) | interfaces, gateways, DNS of `config.xml`; kernel addresses and route | plan from cards; apply; restore | loop over in-memory config; write and reload are separate effects; boot-time routing; an agent that restarts in a kernel an earlier start has changed | no role is reassigned; the plan is what is applied; default route never guessed; restore exact at any kill point; a repeated apply changes nothing |
| Publisher (`internal/publisher`) | interval channel (capacity 1), ticker | SetTelemetryInterval, telemetryLoop, heartbeat, capabilities | two goroutines on one channel; Duration overflow; events fill the reconnect buffer | the newest interval wins and takes effect; ticker period positive; events never stand for a result |
| Dispatcher (`internal/dispatcher`) | allow-list | decode, allow, decode params, run, result | one goroutine runs all commands; operations block | status tells the truth; disallowed operations have no effect; every command is answered |
| NATS client and protocol (`internal/nats`, `internal/protocol`) | connection, subscription queue | subscribe, publish, drain | lost, repeated and dropped messages; reconnects; shutdown | a command runs at most as often as it was sent |
| Firewall and NAT operations (`pfsense_freebsd.go` 340-479, `scripts/firewall`, `scripts/nat`) | `filter/rule`, `nat/rule`; what pf enforces | list, create, delete | read-modify-write of the whole file; kill between write and reload; retries; the webConfigurator | completed means live; other rules and their order kept; a tracker names one rule for ever, edited or moved; list shows what was asked for |
| Config-drive metadata (`pkg/isoconfig`), configuration (`internal/config`) | mount; cached copy | locate, mount, read, cache, fall back, unmount; merge settings | crash while caching; detached, replaced or bad drives; foreign mounts | the cache is whole and never goes back; a readable drive wins; mounts left as found |
| Executor (`internal/executor`) | none | run a command with timeout | kills a script at any point | (environment of the above) |
| Service manager (`internal/modules/services`) | D-Bus connection | start, stop, restart, reload, enable, disable, list, get | waits for a systemd job without a timeout | a failed action is told as such |
| System metrics (`internal/modules/system`) | previous disk I/O counters and their time | info, metrics, cpu, memory, disk, network | two goroutines share the counters and read them outside the lock; reads fail; devices are replaced; unsigned subtraction | a rate is the growth between two readings; no I/O is counted twice |
| Disk resize (`internal/modules/diskresize`) | none of its own; partition, file system, installed tools | resize | one tool fails, is killed or missing after another succeeded; the volume grows meanwhile | sizes nested; completed means filled; a retry completes |
| `plusclouds-ctl`, installers, rc.d/systemd units | none | - | - | - |

Interaction. `run()` loads the metadata (ConfigDrive), provisions the box
(BootNetwork, whose scripts are NetScripts over NetPlan), connects, subscribes
and starts the publisher. Each command runs in the one callback goroutine of
the subscription (CommandPath); `telemetry.set_interval` hands a value to the
telemetry goroutine (TelemetryInterval, instantiated in CommandPath); the
`pfsense.firewall.*` and `pfsense.nat.*` operations run scripts (RuleTables),
`disk.resize` runs the platform's tools (DiskResize), and `system.disk` and
`system.metrics` share one baseline of I/O counters with the telemetry
goroutine (DiskRates).
The hazards, each at its line, are in `PROJECT.json`.

## 2. Modules

* **BootNetwork** - `pc` is the position in `applyBootNetworkConfig` /
  `applyBootPassword`; `marker`, `cfg`, `passwd` survive restarts, `live` (a
  set of configurations, more than one after a kill in the middle of the
  reload) survives restarts of the agent but not of the box. One action per
  call that can fail: `CheckMarker`, `MatchNICs`, `TakeSnapshot`,
  `ApplyWrite`/`ApplyLive` (before and after `write_config()`),
  `ProbeReached`/`ProbeUnreachable`, `RevertWrite`/`RevertLive`, `WriteMarker`,
  `ApplyPassword`. `Fault(kind)` names which failure an alternative stands
  for; the constant `Faults` says which are allowed, and the history variable
  `hard` whether one of `HardFaults` has happened (a script killed or garbled,
  a failed restore, a crash: the failures that leave a written configuration
  neither probed nor reverted; and a snapshot that comes out empty or garbled
  with exit 0, which nobody looks at until `Revert` and `restore.php` refuse
  it). `PlanLoaded`: a reload of the planned roles only, over a kernel that ran
  something else than the disk, may still leave a mixture. What a plan does to a configuration is the
  constant function `Apply`.
* **AtomicProvisioning** - what BootNetwork promises of `config.xml`: a start
  changes it by all of one plan or not at all, and never once it is marked.
  Refinement: until a start has ended, the abstract box is what it found.
* **NetPlan** - pure operators: the card-to-interface match, the plan, the
  loop of `apply.php` (`ApplyEntry` is one turn, `ApplySteps` a recursive
  function over the turns, `ApplyPlan` the script up to `write_config()`), the
  default route.
* **NetScripts** - NetPlan's operators run by snapshot/apply/restore over
  several starts of the agent: `cfg` on disk, `live` and `route` in the kernel,
  a kill or power loss between any two effects. Provisioning runs at every
  start: `Start` comes with a boot of the box, which loads the disk, or without
  one, in a kernel that keeps what it has (a restore leaves there a role that
  only the reverted plan had). `synced` is history: whether the kernel ran the
  disk when the script began.
* **TelemetryInterval** - the channel operations of `SetTelemetryInterval`
  and `telemetryLoop`, one action each; Durations are words of `Word` values.
  It implements **IntervalRegister**, one slot that is overwritten and emptied
  in one step each.
* **CommandPath** - subscription queue, callback, dispatch, module call,
  result buffer, connection and restarts, with TelemetryInterval instantiated
  over the same variables. Heartbeats, telemetry and capabilities are `Event`s
  that take the same buffer (`PublishEvent`, `Announce`).
* **RuleTables** - both rule tables on disk and in pf, a script as
  load / write / reload, kills, reboots, a failure that is reported although
  the rules are live (timeout behind `filter_configure()`, output that does not
  parse), an administrator's load / save / apply. A save adds a rule, removes
  one, edits one in place (it keeps its tracker) or swaps two. Address specs
  are trimmed before they are parsed; `Trim` is a constant function over the
  specs of an instance. `by`, `edited`, `created`, `base` and `raced` are
  history. That other rules
  keep their order (`Kept`) is said by pairs of positions, in both directions:
  every rule that was there still is, none appeared, and no two changed places.
* **ConfigDrive** - `isoconfig.Load` as locate / mount / read / write
  temporary / rename / fall back / unmount, then `config.Load`, at every
  start; drives are attached, replaced and detached between loads, and
  something else may mount or unmount the drive at any time, the agent's own
  mount included.
* **DiskRates** - `GetMetrics` and `GetDisk` of any number of goroutines, step
  by step: partitions and clock, counters, the exchange under `mu`, the
  entries. The clock is read before the counters, and may move in between.
  One counter stands for the five of a device; it is unwrapped in the
  model and subtracted modulo `Word` as the code does. `report`, `raced`,
  `clean`, `total` and the incarnation of a device are history.
* **DiskResize** - `Resize`, `grow`, `runOrInstall` and `installPackage` with
  the sizes of disk, partition and file system; a tool succeeds, fails, is
  missing, or is stopped with its work undone, done or (file system) partly
  done; the volume may grow at any time. It implements **VolumeGrowth**: the
  file system only grows, within its room and only during a call, and a call
  that is reported completed has reached the room there was when it came. The
  room (`Room`) is all of the volume, or the size of the partition or logical
  volume where disk.resize has no tool to enlarge it: with another partition
  behind it, and on LVM (where the administrator may, `Expand`). The FreeBSD
  stub's answer, `completed` with a message that it is unsupported, is
  `unsupported` in the model and promises nothing. `PowerShell` goes to
  SizeMax, and at SizeMax already it may fail.
* **MC\*** - constants for TLC. **\*_proofs** - theorems.

Definitions introduced as a "seeded fault" are wrong variants of the next
definition. They are used by no specification; substituted for it they make
TLC refute the property named with them in `PROJECT.json`.

## 3. Runs

| Run | Checks | Bounds |
|---|---|---|
| `boot_faults` | TypeOK, RevertUndoes, StaysReachable, VerifiedMeansApplied, AtomicBoot, OneShot, RetriesUntilMarked, PasswordReapplied with every kind of failure | 3 failures, so that two can hit the recovery from another; good, bad and partial plans, no plan, no cards; any number of starts |
| `boot_concluded` | finding 1 | one failure, a killed script or a crash |
| `net_scripts` | TypeOK, RolesKept, PlanApplied, DefaultRoute, LiveAfterApply, RestoreExact, RetryIdempotent | 3 NICs and a VLAN sharing a MAC, 4 boxes (no role, wan, lan, both with a gateway), 1 or 2 cards per start, any number of starts with and without a boot (2.3 million states) |
| `telemetry` | TypeOK, NewestWins, TickerPositive, OverwritesAtomically, TakesEffect | word of 32, requests that fit, go negative and wrap to small and large positive values; any number of calls |
| `commands` | TypeOK, StatusTruthful, OncePerSend, AnsweredUnlessWedged | 8 kinds of message, 2 sends, queue and buffer of 1 so that both overflow and a heartbeat is enough to crowd a result out; any number of restarts and disconnects |
| `commands_completed` | finding 2 | as `commands` |
| `commands_wedge` | finding 3 | two set_interval commands |
| `firewall_rules` | CompletedIsLive, OthersKept, HandleNamesOwnRule, ListFaithful | 3 commands (create, delete, and a retry or list), one kill, reboot or failure behind the reload, one save; one address spec of each kind, empty, blank and padded ones included (5.1 million states, about 2 minutes) |
| `firewall_delete_retry` | finding 4 | no administrator |
| `config_drive` | CacheWhole, NeverForgets, DriveWins, MountAsFound, PoisonHeals | 3 drives of every kind, 3 failures, crashes or foreign mounts; any number of starts |
| `disk_io` | RateIsGrowth, NeverCountedTwice | the telemetry goroutine and one command goroutine (there are no others), one device that is replaced once, 3 instants, a counter up to 2 in words of 16: a delta can be zero, positive and underflow, two calls can share an instant or overtake one another, and a third call meets what two left |
| `disk_resize` | TypeOK, PromiseKept, RetryFills | every kind of device (a partition that is the last one or not, on Linux and on Windows; whole disk, logical volume, FreeBSD), a file system that cannot be grown, an unmounted target; sizes up to 3 (the volume grows twice), 2 failures or crashes; any number of calls |

Two runs allow deadlock: in `telemetry` the loop ends on `ctx.Done()` (and the
drain of finding 3 blocks), in `firewall_rules` the bounds on calls end the
behaviour. Symmetry is not used: the values are not interchangeable.

### Findings

1. `boot_concluded`: a start can conclude, with the marker or with a revert,
   on a configuration that does not reach the platform.
   `ApplyBootNetworkConfig` returns nil when `apply.php` was killed; if that
   was after `write_config()`, the probe passes on the old addresses and the
   unverified configuration is marked done. And after a crash between apply and
   revert the next start snapshots, and reverts to, the broken configuration.
   TLC stops at the shortest trace, the killed script. With
   `Faults = {"crash"}` alone it shows a third way: after the crash a start
   whose metadata yields no plan probes the old live addresses and marks.
2. `commands_completed`: failed service actions (`services/linux.go:187`) and
   password changes come back `completed` with `success: false` in the output,
   where `docs/protocol.md:182` says "`completed` means success".
   StatusTruthful, which passes, reads status and output together.
3. `commands_wedge`: the drain in `SetTelemetryInterval` blocks for good when
   the loop took the pending value first; with it all command handling stops.
4. `firewall_delete_retry`: a delete killed before `filter_configure()` cannot
   be retried; pf keeps enforcing the rule.

Met while reading, or as an exception some property has to make:

* The minimum interval is 1 s (`publisher.go:17`) where the comment at
  `publisher.go:56` and `README.md` say 5 s.
* An operation that is allowed but unknown is `failed`, not `rejected`.
* `restore.php` reconfigures the roles on disk; one that only the reverted
  plan had (a new lan) stays in the kernel until the box boots. RestoreExact
  speaks of the roles the box came with; BootNetwork, where `live` is a whole
  configuration, does not tell the difference.
* The deferred `umount` (`locator_freebsd.go:55`) takes whatever is mounted at
  the path by then; MountAsFound excepts loads that met a foreign mount.
* A start that could not cache its metadata ran on newer metadata than a later
  start without the drive falls back to; NeverForgets is about what was cached.
* Settings that `config.Load` rejects are cached first, so with the drive
  detached the agent exits at every start.
* Disk rates: a goroutine that is overtaken between reading the counters
  (`system.go:166`) and the lock subtracts newer counters from older ones, and
  the `uint64` difference is close to 2^64; so it is in the first report after
  a device was replaced. RateIsGrowth excepts exactly these two cases. The time
  a delta is divided by is stamped before each reading (`system.go:165`), so it
  is only nearly the time between the readings. And the
  rates of a telemetry snapshot are not "between two consecutive telemetry
  snapshots" (`system/types.go:43`) when a `system.disk` command came between.
* `disk.resize` answers `completed` without having filled the volume on a
  logical volume, on a partition with another one behind it, and on FreeBSD
  (`freebsd.go:29`, an "unsupported" message with a nil error).
* With an empty allow-list the capabilities advertise the whole catalog
  (`publisher.go:293`) while `Dispatch` rejects every command; and the catalog
  has no entry for the `pfsense.firewall.*` and `pfsense.nat.*` operations, so
  they are never advertised.

### Fairness

* BootNetwork, ConfigDrive: weak fairness of the agent's own steps - the
  process runs, and every call it makes returns (scripts have a 30 s timeout,
  the probe 15 s). Starts, plans and drives are the environment's; the
  liveness properties assume them in their premises ("started again and
  again").
* TelemetryInterval, CommandPath: weak fairness of each goroutine - the Go
  scheduler runs what can run - and strong fairness of the loop's receive: a
  `select` with several ready cases picks at random, so a channel that is
  ready again and again is served. systemd is assumed to end its jobs. Nothing
  is assumed of the platform, the connection or the D-Bus connection.
  The connection's write loop (`Flush`) is weakly fair: it runs while the
  connection is up, and AnsweredUnlessWedged makes no promise when it is not.
* DiskResize: weak fairness of the agent's steps; the executor ends each tool
  after 30 s. That the platform asks again is a premise of RetryFills.
* NetScripts, RuleTables, DiskRates: safety only.

## 4. Proofs

`BootNetwork_proofs` (assumptions: the typing of the constants, stated in
BootNetwork and evaluated by TLC). `BootInv` is inductive. The properties alone
are not: that a reported revert is exact needs to know, long before it, that
the snapshot is what the start found (`BaseKept`); one-shot needs that no step
between check and mark runs with the marker set (`Unmarked`). From it:
`BootTypeCorrect`, `BootOneShot`, `BootRevertUndoes`,
`BootVerifiedMeansReached` (a verification follows a probe that could get
through; it follows the code closely and has no run of its own). `ReachInv`
adds that, until a hard failure has happened, disk and kernel agree outside the
two reload steps and every start began on a good configuration (`Settled`);
from it `BootStaysReachable` and `BootVerifiedMeansApplied`, for every choice
of `Faults`. `BootAtomic` is the refinement of AtomicProvisioning: `WholePlan`
(until the start ends the file is what it found or all of its plan) makes each
step a step of the abstract box or a stutter (`StepAtomic`).

`TelemetryInterval_proofs` (assumptions: word, second and requests positive).
`IntervalInv` adds to the properties where the last reported value is while
the next call is under way (`Reported`), and that a value behind the clamp is
positive (`Clamped`, lemma `ClampBound`). From it: `IntervalTypeCorrect`,
`IntervalNewestWins`, `IntervalTickerPositive`, and the refinement
`IntervalRegisterImplemented`: of the up to three channel operations of a
call one is visible, the send or the drain, because the slot is mapped to the
value about to be sent once the old one was drained.

`ConfigDrive_proofs` (assumption: the bounds are naturals, so the theorems
hold for any number of drives and failures). `DriveInv` adds that an attached
drive is the newest (`Versions`), that what is copied is what was parsed
(`Copying`), and what a load without a failure knows at each step
(`Preferred`, `Mounts`; a load that something else's mount or unmount met is
not one). From it: `DriveCacheWhole`, `DriveNeverForgets`,
`DriveDriveWins`, `DriveMountAsFound`.

`CommandPath_proofs` (any messages, allow-lists, limits and bounds; messages
carry an integer `interval_s`, `NoMsg` is not a message, and the typing of the
durations as in TelemetryInterval). `PathInv` says of every place a result can
be in (built, buffered, delivered) that it is sound for the effects so far, and
that the callback is past its checks before an effect; effects only grow, so a
sound result stays sound (`EffectsGrow`). From it `CommandStatusTruthful`.
`CommandOncePerSend` needs a count: effects, plus the
message in hand, plus its copies in the queue, are at most its sends
(`Accounted`). `Places` (message and status move with the callback) and
`HandOver` (the invariant of TelemetryInterval, now with calls from the
callback only and an exit at any point) give `CommandTypeCorrect` and
`CommandIntervalSound`: what is proved of the interval hand-over on its own
holds in the whole agent.

`RuleTables_proofs` (assumptions, evaluated by TLC: address specs are strings,
trimming one gives a string that trimming leaves alone, and the "<interface>ip" spec is neither any nor an address; the clock starts at
any `Start`; a box comes with the administrator's rules only, each with a
tracker of its own that is not from the future). No bound on calls, edits,
kills, reboots or the length of a table. `RuleInv` is inductive: the config on
disk, pf's, the script's in-memory copy, the administrator's page and the one
the command found are all `Copies` that may come back later, so uniqueness of
trackers (`UniqueInv`) and "one tracker, one rule" (`KnownInv`) are about all
of them together and about the rule a command is about to make, where an edit
in place changes a rule and not what it is (`SameRule`, lemmas `EditKeeps` and
`SwapKeeps`); `DecidedInv`
says what a script has decided between its load and its write; `OutcomeInv`
that, unless the administrator saved meanwhile, the disk is what the command
found or exactly that with its change; `ResultInv` what a completed result
knows. From it `CompletedChangesAreLive`, `CommandsKeepOthers`,
`HandlesNameOwnRules`, `ListsAreFaithful`. Two assumptions carry the argument:
time does not step back (trackers), and the agent runs one command at a time.

`NetScripts_proofs` (assumptions, evaluated by TLC: interface names are unique;
the metadata lists a MAC once; a box comes with a section in which a NIC has one
role and named gateways exist). Plans, cards, roles, gateways and starts, with
or without a boot, are unbounded. The loops over cards and entries are recursive functions on `0..n`;
what they compute is proved by induction on the number of turns, stated as
membership in a set (`InductUpTo`, from the least element of a set of naturals,
which the library's well-foundedness theorem gives), after showing that a
function with the recursive equation exists (`RunExists`, `PlanExists`).
`RunOK` is what each turn keeps for any plan: roles keep their NICs, only lan
is new, gateways named are defined. `Passed` is what the turns have achieved
and needs that a plan names a NIC once (`PlanOfIsPlan`): each entry passed is
`Settled`, roles without an entry are untouched, and the default gateway and
the DNS servers are functions of the interfaces (`Chosen`, `Resolvers`; only
one entry can claim the default, `OneClaim`). A settled entry changes nothing,
so the loop is idempotent (`ApplyTwice`). `NetInv` carries this through the
scripts: at the write the disk is the snapshot, after it exactly
`ApplyPlan(snap, plan)`; whatever the kernel ran, the roles of the plan that
are not still to configure run as on disk, and a kernel that ran the disk
before lags behind it in nothing else; the last plan that was not reverted is a fixed point of the
disk. From it `SectionStaysSound` (TypeOK), `RolesAreKept`, `PlanIsApplied`,
`RouteIsNotGuessed`, `KernelFollowsDisk`, `RestoreUndoes` and the action
property `RetryChangesNothing`. `ResultSection` also shows that `apply.php`
maps sections to sections, which BootNetwork assumes of its `Apply`.

`DiskRates_proofs` (any goroutines, devices and word size). `RateInv`: stored
counters are not ahead of those of a caller nobody overtook, nor those of the kernel (`Ordered`), and
what was reported is within every reading a next delta can start from
(`Counted`). From it the two properties of the run.

`DiskResize_proofs` (any volumes and bounds). `ResizeInv` adds to the nesting
of sizes which devices reach which tool (`Routed`) and that the goal of a call
is within reach of the tools it has still to run (`WithinReach`); with it each
step is one of VolumeGrowth or a stutter. Theorems `SizesNested`,
`ResizeKeepsPromise`.

`RuleInv` and `NetInv` were checked with TLC on the instances of the runs before
they were proved. Every invariant, action property and refinement that a
passing run checks is stated by a theorem (39 theorems are listed). Only model-checked: liveness
(RetriesUntilMarked, PasswordReapplied, TakesEffect, AnsweredUnlessWedged,
PoisonHeals, RetryFills), since the prover handles neither fairness nor
ENABLED.

## 5. Not modelled

* The hashing and user lookup of the password scripts, pfSense's own functions
  (`write_config`, `interface_configure`, `filter_configure`,
  `system_routing_configure`: external and taken as atomic; `filter_configure`
  as synchronous, which `docs/firewall-api.md:34` says it is), nats.go, viper,
  systemd.
* The branch of `ok`, `fail` and `reject` in which the result does not marshal
  (`dispatcher.go:364-386`, an empty envelope is published): outputs are plain
  structs, slices and maps of strings and finite numbers, which always do.
* fsync: a rename is taken to be durable and after the data it publishes.
* Clocks that step back (trackers), several agents on one box.
* DHCP lease list, system information, the operation catalog, `plusclouds-ctl`,
  the Windows locator: they read and format. Installers and service units: outside the agent.

## 6. Plan

Done, in this order: boot provisioning and its proofs; network scripts;
telemetry interval and its proofs; command path; rule tables; config drive and
its proofs; disk rates and disk resize with their proofs; the abstract
specifications AtomicProvisioning, IntervalRegister and VolumeGrowth and their
refinements; the publisher's events in the command path and its proofs; the
proofs of the rule tables and of the network scripts. Next:

1. An abstract rule store (create and delete atomic on disk) that RuleTables
   implements as long as no edit interferes; `OutcomeInv` is most of its proof.
2. The lemmas that the liveness arguments need and that are safety: which step
   is the only one to leave a place, and that it makes progress.
3. The shutdown order of `run()` with a graceful drain, should the code come
   to wait for it.
