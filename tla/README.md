# builder-playground: a TLA+ model

This directory models builder-playground, a command that builds an Ethereum test
environment (L1, OP stack or BuilderNet), runs its services in docker or on the
host, and tears them down again. The modules are translations of the Go code; the
line ranges behind every definition are in `PROJECT.json` under `map`.

## The system

| Part | Code | State | Operations |
|---|---|---|---|
| Command line | `main.go` (`runIt`) | the session's progress, `ctx`, watchdog and timer channels | build, validate, run, wait, serve, stop |
| Session runner | `playground/local_runner.go` | `tasks` under `tasksMtx`, `exitErr` (capacity 2), `handles`, `overrides`, `reservedPorts` | `Run`, `WaitForReady`, `updateTaskStatus`, `trackContainerStatusAndLogs`, `runOnHost`, `Stop`, `reservePort`, `applyTemplate` |
| Docker, compose | outside | containers, health, event stream | start in dependency order, report, remove |
| Manifest | `playground/manifest.go` | services, ports, references, dependencies | `WithPort`, `WithArgs`, `Validate`, `GetPort`, `GenerateDotGraph` |
| Compose file | `local_runner.go` `toDockerComposeService` | none | translate a service |
| Status display | `local_runner.go` `printStatus` | spinners, last drawn tasks | redraw on tick or update |
| Watchdog, watchers | `watchdog.go`, `watchers.go` | last slot, last block time | poll, compare, fail |
| Recipes, components | `recipe_*.go`, `components.go`, `catalog.go` | flags | add services |
| CL proxy | `cl-proxy/cl-proxy.go` | none; one handler per open request | forward to primary and secondary |
| Relay | `mev-boost-relay/mev-boost-relay.go` | in-memory database | save and look up |
| Releases | `releases.go` | cached binaries | download, extract |
| Artifacts | `artifacts.go`, `genesis_op.go`, `utils.go` | output directory | genesis files, keys, JSON overrides |
| Inspect | `inspect.go` | capture container | run tcpflow, stream, remove |

How they interact: a recipe builds a manifest (each argument is scanned for
templates, which declares ports and references); `runIt` validates it and hands it to
a `LocalRunner`. `Run` subscribes to docker events in a goroutine, reserves host ports,
writes the compose file, calls `docker compose up -d` and then launches host services
from another goroutine, each with a goroutine of its own blocked in `cmd.Run`. The
tracker turns events into entries of `tasks` and, for a death, into an error on
`exitErr`, on which host goroutines send, too. `runIt` polls `tasks` until everything
is ready, then waits for Ctrl+C, a failure, the watchdog or the timer, and calls
`Stop`.

What is hard in it, and what makes the parts correct:

- **Runner.** The tasks map lags behind docker; the event stream may lose its start,
  break, or be late; `exitErr` is bounded and is filled with a mutex held; a failure
  arrives in any phase; `Stop` works from one snapshot; `handles` is shared without a
  lock. Correct: readiness verdicts are true when given, no death is forgotten,
  a session that ends leaves nothing running, Ctrl+C works at any time.
- **Ports.** Probing and binding are apart in time; protocols share a table; labels
  are shared between protocols; an address depends on where both ends run. Correct:
  ports are distinct, every reference reaches the service it names.
- **Manifest, recipes.** Flag combinations; `Validate` runs before the last changes.
  Correct: a manifest that passes has a compose file that docker accepts.
- **Display.** Non-blocking notifications. Correct: the last update is shown.
- **Watchers, watchdog.** `break` in a `select`, lost and repeated events, a channel one
  reader reads once. Correct: a stalled chain is reported, a healthy one is not.
- **CL proxy, relay.** Concurrent handlers. Correct: the primary's answer is the
  answer, both see the same payloads; the database returns what was saved.
- **Releases.** Interrupted and simultaneous downloads. Correct: what is executed is a
  whole binary of the version asked for.
- **Artifacts.** Times and hashes that several files must agree on; a directory other
  sessions left. Correct: all clients of a session start the same two chains.
- **Inspect.** Labels the user can overwrite, Ctrl+C in any step. Correct: the right
  port is captured, and the capture container does not stay behind.

## Modules

| Module | Models |
|---|---|
| `Runner` | a session from `LocalRunner.Run` to the return of `runIt`: main, signal, tracker, launcher and host goroutines, docker as the environment |
| `Session` | what a session promises, without goroutines or channels |
| `RunnerRefinement` | the mapping from `Runner` to `Session` |
| `RunnerProofs` | the safety theorems about `Runner`, that it implements `Session`, and one about `Display` |
| `MCRunner` | the instances TLC checks |
| `Manifest` | from the recipe to running services: building, validating, prometheus, overrides and releases, the compose file |
| `ManifestProofs` | the theorems about `Manifest`, for any recipe and for the three there are |
| `Recipes` | the services of the catalogue and the recipes `l1`, `buildernet` and `opstack`, as functions of their flags |
| `Deployment` | `Manifest` with the services of `Recipes`: what their command lines ask for, and the properties about it |
| `MCRecipes` | the command lines TLC checks, and that they meet what the proofs assume of them |
| `Ports` | declaring, reserving, publishing and resolving ports |
| `PortsProofs` | the theorems about `Ports` |
| `ClProxy` | `cl-proxy`: concurrent handlers between the beacon node and two execution clients |
| `ClProxyProofs` | the theorems about `ClProxy` |
| `ChainWatch` | `watchChainHead`: polls, calls and the timer over a chain, in ticks of time |
| `Watchdog` | `RunWatchdog` over `ChainWatch` and `validateProposerPayloads`, with the beacon node's slots |
| `WatchdogProofs` | the theorems about `ChainWatch` and `Watchdog` |
| `Display` | `printStatus` over the whole of `Runner` |
| `MCDisplay` | the instance of it TLC checks |
| `Relay` | the relay's in-memory database under concurrent requests, and `watchProposerPayloads` |
| `RelayProofs` | the theorems about `Relay` |
| `Releases` | `DownloadRelease` and the execution of what it returned, by several sessions that may be killed |
| `ForkTimes` | genesis and fork times, as functions of the clock and the flags |
| `Genesis` | `ArtifactsBuilder.Build`: the directory, the two chains' documents, merging of JSON |
| `ArtifactsProofs` | the theorems about `ForkTimes`, `Genesis` and `Releases` |
| `Inspect` | the `inspect` command beside sessions that start and stop |
| `InspectProofs` | the theorems about `Inspect` |

What composes what: `Display` and `RunnerRefinement` extend `Runner`; `Watchdog` extends
`ChainWatch`; `Deployment` puts `Recipes` into `Manifest`; `Genesis` extends `ForkTimes`.
`Genesis`, `Manifest`, `Runner` follow each other in `runIt`; in `Runner` the
watchdog is a stop that may come at any time (`ExtraStops`).

### Runner and the code

`main` is where `runIt` stands: `compose` and `hosts` inside `Run`, `poll` in the
select of `WaitForReady`, `lock` between its timer and the lock in `AreReady`,
`complete` in `CompleteReady`, `serve` in the final select, `list`, `remove` and `kill`
inside `Stop`. `why` is the reason `Stop` was called for.

| State | Code |
|---|---|
| `container`, `health`, `events`, `stream` | docker's containers (`relapsed`: unhealthy after it was healthy); the channels of `client.Events` |
| `status`, `ready` | `tasks[s].status`, `tasks[s].ready` |
| `unsent` | the `exitErr <-` in `updateTaskStatus`, blocked with `tasksMtx` held |
| `exitErr` | the channel, as a bounded sequence |
| `launcher`, `next` | the goroutine of `Run` that calls `runOnHost` |
| `proc`, `reporting` | `cmd.Run` of each host service, and the errors it has still to send |
| `handles`, `targets`, `toKill`, `stopErr` | `handles`, and the locals of `Stop` |

Each action is the code between two points where another goroutine can run. A critical
section of `tasksMtx` is one step unless it blocks on the channel, which is the one
case where somebody else can find the mutex taken. When `main` is `exited` or
`panicked` all goroutines are gone and nothing moves any more.

Of docker the code relies on: `up -d` starts a container after what it depends on and
returns when all are started, events arrive in the order they happened and only while
subscribed, `ContainerList` without `All` lists running containers, forced removal
kills. Nothing is assumed about when containers die or become healthy.

### Manifest, Recipes and the code

`services` is `Manifest.Services`, `overrides` the map `NewLocalRunner` hands to the
runner (with whose choice an entry was), `compose` the `services` of the compose file
and `saved` what `manifest.json` holds. `Manifest` is a sequential program: `pc` tells
which step of `runIt` comes next or how it ended. What recipes build is the constant
operator `Apply`, of which `Manifest` knows only that it returns services. `FromRecipes`
of `Deployment` says that it is `ApplyRecipeOf` of `Recipes`, that command lines are those of
the three recipes, and that components and releases are the catalogue's. `Fits` and
`Spammable` say, apart from that code, which flags go together.

Of a service are kept the labels of its `{{Port}}` templates, its `{{Service}}`
references, `DependsOn`, whether there is a `ReadyCheck`, the host-execution label and
whether the image was replaced. The mounts that `Validate` looks at are left out: the
artifacts builder writes every file the components name. A duplicate name is kept as
the code keeps it: `GetService` finds the first (`GetService`), the compose file has
the last (`LastNamed`). Compose itself is `ComposeAccepts`: every dependency is in the
file, has a health check where health is waited for, and no containers wait for each
other in a circle (`NoCycles`).

Outcomes that depend on the machine (a download that fails, an image that does not
exist) are steps that may happen. `Manifest` ends where containers and host
services are started; `Runner` begins there, with a fixed set of them.

### Ports and the code

`ports` holds `Service.Ports` of all services in the order `generateDockerCompose`
visits them, `args` the `{{Port}}` and `{{PortUDP}}` templates in their arguments,
`candidate` the loop variable of `reservePort`. `taken` is what other programs have
bound: they bind and free ports at any time, also after compose is up, but not what the
session has bound (`InUse`). Containers' ports are bound by `Publish`, or it fails
(`Clash`). Host services are started when compose is up and bind theirs later, in any
order (`HostBinds`, kept in `bound`); one that finds its port taken may exit, which
ends the session (`HostExits`), or go on without it. `MustGetPort`, `OwnPort` and
`ServiceAddress` are what the templates resolve to. `Answering` says which services of the
session listen at an address, for the transport of the port the reference is resolved to:
a container on its own ports by name and on published ports at the host, a host service
on the numbers it was told, once it has bound them. `StrangerAnswers` says the same of
other programs.

### ClProxy and the code

`at[i]` is where `handleRequest` stands for the `i`-th request: `read` after the body,
`primary` in the call of the primary, `processed` when that has done its part,
`answered` after `w.Write`, `secondary` in the second call. `w.Write` does not finish a
response; net/http does, when the handler returns, so the reply is set by `Return`.
This is also what keeps the secondary in order: the beacon node does not send its next
request while it waits for the answer (`MaxOpen` = 1), and the answer comes after the
secondary has been called. A request is only its kind: the method as far as the code
looks at it, and for `forkchoiceUpdated` its parameters. `late` holds the requests for
which `WriteTimeout` has passed, for which net/http drops the connection.

### ChainWatch and the code

`at` tells whether the watcher is in its `select`, waiting for `BlockNumber`, or has the
answer on its way; `wait` is how long that has lasted, so `time.After` fires when it
reaches `Poll` in the select; `quiet` is the age of the timer's last reset, and the timer
has fired when it reaches `Limit`. A tick is only possible when nothing of the watcher is
due. With both channels ready either case may be taken. The node looks up its head at
any moment of a call, and the chain makes blocks at any time: `missed` remembers whether
one came later than `Period`. The block number never goes down.

### Watchdog and the code

`vars` of `ChainWatch` is `RethEL.Watchdog`; `heard`, `lastSlot` and `since` are
`validateProposerPayloads`, which is all that can fail in `MevBoostRelay.Watchdog`
(`watchProposerPayloads` never returns). `slot`, `into` and `made` are the beacon node;
it announces the next slot when a block is made, and may do so again late in a slot
for the head it has. `streams` says whether the URL the validator is given serves these
events: `components.go:625` gives it the relay's own port, which does not, so what
the code does is `Streams = {FALSE}`; TRUE is the beacon node's URL that
`validateProposerPayloads` asks for, and its logic is checked with both. `watchdogErr` is `RunWatchdog`'s channel, `session` what `runIt`
makes of it. Events may be lost with their block (`BlockUnannounced`).

### Display and the code

`display` is where `printStatus` stands, `drawn` what the terminal shows. An update is
told if the goroutine is in its select when `updateTaskStatus` gets to the end of its
critical section. One that comes while the display waits for the lock is drawn without
being told; one that falls between the unlock and the select is neither, which `lost`
remembers until the next draw.

### Relay and the code

`registry` is `validatorRegistryEntries`, `payloads` `deliveredPayloads`; a request of the
API, which is not in `src/`, is open until its goroutine has the lock. `reader`, `todo`
and `seen` are `GetLatestValidatorRegistrations`, which visits the map entry by entry with
the lock held. `watch`, `list`, `lastSlot` and `printed` are `watchProposerPayloads`.
`overlapped` names validators that did not wait for an answer.

### Releases and the code

`files` is what `~/.playground` holds: which parts of which release, and the mode.
`io.Copy` is a step per part, since a session may be killed between any two (the SIGINT
handler is installed after `NewLocalRunner`). `Opened` and `Executed` decide what the
file system refuses. `supported` is whether there are binaries for the machine; if not,
a name found in `PATH` is returned, which `NewLocalRunner` then does not find (`FromPath`).

### Genesis, ForkTimes and the code

`dir` is the output directory by path, with contents that tell what they were made from:
a hash is what it is the hash of, a document the set of its scalars, each with the keys that lead to it. So `mergeMap`, a recursion
in the code, is what it leaves: all of `src`, and of `dst` what no key path of `src` meets. `opGenesis` and `opRollupConfig` stand for the embedded documents, cut
to one member of each kind: overwritten, kept, nested. Times wrap where Go's do: a
`time.Duration` at int64, a genesis time at uint64, with `Second` and `Word` as
parameters. `RemoveAllFails` is `os.RemoveAll` stopping at what a container wrote as root.

### Inspect and the code

A container is a session and a service; `Label` is what `toDockerComposeService` writes
(the labels of ports over the user's, these over the program's own), `IsOfSession` the
filter of `Stop`, `Named` the filter of `inspect`. `shared` says that two sessions have
the same compose project and replace each other's containers. `pc` follows `Inspect`
from the list to the forced removal; `Interrupt` can come at any step and cancels `ctx`.

## Runs

| Run | Expect | Shows |
|---|---|---|
| `runner_safety` | pass | a checked container, another that waits for it to be healthy, a host service, watchdog and timer: all safety properties |
| `runner_live` | pass | a container, a host service and the display: Ctrl+C, failures and readiness are each acted upon; the screen follows the tasks map; `Runner` implements `Session`, liveness included; no deadlock |
| `runner_ctrlc` | violation | Ctrl+C can be ignored when three services fail at once (one of them depends on the start of another) |
| `recipes` | pass | all flags of the three recipes with overrides: which command lines are rejected, that the others start, that overrides and the builder take effect |
| `ports_bind` | pass | distinct host ports; references reach their service, and nobody else once it listens, whatever ports other programs take |
| `clproxy_order` | pass | three requests: both clients see them in order, the secondary never builds, the primary's answer is delivered |
| `watchdog` | pass | a healthy chain and its events are accepted, a standing one and missing slots are reported, the first failure of either watchdog ends the session |
| `watchdog_wiring` | violation | with the URL the code gives the payload validator, a session whose chain is well is stopped |
| `relay` | pass | a validator's latest registration is kept, delivered payloads are reported in order, once, and in the end |
| `releases` | pass | what runs is a whole binary; a cached one runs unless a download was interrupted |
| `genesis` | pass | all files of a session describe the same two chains; the fork is on from the block asked for; no data of an earlier chain is left |
| `inspect` | pass | the port asked for is captured, Ctrl+C leaves no capture container, `Stop` removes exactly its session's containers |

Type invariants are proved (`TypeCorrect`, or a part of the inductive invariant); only that of
`Ports`, which bounds the ports the search may try, is checked by a run, too.

Bounds. `MCRecipes` takes all combinations of the flags that change which services a
recipe has (16 of `l1`, 32 of `buildernet`, 16 of `opstack`), ten contenders and none
(targets: none, `op-geth`, `op-reth`, `builder-hub`, `mev-boost-relay`; with and without a URL),
and overrides of one service at a time: one others depend on (`beacon`), one that may
be native (`el`), one that is optional (`contender`), and one no recipe has. Overrides of
different services are independent but for `ComposeStarts`, where more of them can
only take more services away. Flags that change arguments, images or artifacts only are left out.

Three services are enough for a checked container, a dependant and a host
service to interact; `runner_live` has one container and one host service, which
is what its liveness properties tell apart. Two host services, with the launcher between
them, are left to the proofs. `ExitCap` is the code's 2. `MaxQueued` only limits
repeated health events; starts and deaths are never held back.

In `Ports`, two labels, two services and two adjacent
numbers give every collision between services, labels and protocols; a window of two
with one port taken by others lets a search run out; `MaxPorts` is three. One port
taken at a time is enough to meet any one probe, publication or host service. In `ClProxy`
three requests give every order of two neighbours around a third; the kinds left
out differ from those in the run by a branch that sends the request on as it is.

In `Watchdog` a tick is half a second: slots of 24, late attributes at 16, 40 of
silence. Calls take less than a tick. Two blocks after genesis give the first event,
the next and a gap; time stops when something has failed or the timer is due, so a chain
that stands still runs into one of the limits. `Relay` has two validators with two
registrations, enough for one to overtake the other, and three slots, so that the middle
one can be saved first or last. `Releases`: three sessions, one of which can
start twice, and two releases, so that two meet in one file and a later one finds what
they left; two writes leave a file that is neither empty nor whole. `Genesis`: `Word` is 1024 and `Second` 4, so that among the clocks, delays
and block numbers some fit and some wrap, in a duration and in a fork time; two
builds for what the first leaves. `Inspect`: two sessions, one with labels of its own,
two services of which one has the port; one user label at a time, and a service name
nobody has.

`CHECK_DEADLOCK FALSE` is set in `runner_safety` and `runner_ctrlc`, where three failures are
possible and the program then really can hang; in `recipes`, where every
behaviour ends because `Manifest` is a sequential program that returns; and in `inspect`,
where the command and the sessions end. It is checked in `runner_live` and the
other runs.

What the violations show:

- `runner_ctrlc`: three deaths, two of them filling `exitErr` and the third blocking
  the tracker inside `updateTaskStatus`, all between the timer of `WaitForReady` and
  the lock in `AreReady`. `runIt` waits for the mutex, the tracker for the channel. The
  window is narrow; that both can never be left is what the run shows.
- `watchdog_wiring`: `MevBoostRelay.Watchdog` (`components.go:625`) hands the relay's own
  port to `validateProposerPayloads`, which is for a beacon node. The relay enables its
  proposer, block builder and data APIs (`mev-boost-relay.go:169-171`), none of which has
  payload attributes, so the validator hears nothing, returns after twenty seconds, and
  `runIt` stops a session in which every slot had its block and its event. Nothing
  else stops such a session (`StoppedOnlyByWiring`).

What `recipes` shows beyond its properties holding: `--mock-proxy` can never be used,
against `recipe_buildernet.go:33`, since `builder-hub-proxy` waits for `builder-hub` to be
healthy, which has no ready check, and `Validate` rejects that (`Fits` in `FailuresExplained`,
and the theorem `MockProxyRejected`). `enable-websocket-proxy` and `flashblocks` need
an external builder; contender's target must have an `http` port even though any name
is taken. `OverridesApplied` has two exceptions, which are the code's behaviour: the
override of a native service is replaced by the download, and an image override of
contender in `buildernet`, which adds contender twice, does not reach the container.
Taking a service to the host that a container depends on makes compose refuse the
file (`ComposeStarts`).

### Seen, and not stated as properties

- `Runner`: `Run` returns at the first launch error while its launcher goes on with the
  next service, so it may append to `handles` while `Stop` ranges over them. A handle
  whose command has not been started has a nil `Process`, and `Stop` panics there
  (`KillPanics`). `runIt` returns nil after a failure, so the exit status does not tell.
- `Display`: an update between the unlock and the select waits for the next one.
- `ClProxy`: the secondary is called without a timeout before the handler returns, so one
  that hangs holds the answer back. A `forkchoiceUpdated` without parameters panics
  after the primary has answered; `AnswerDelivered` leaves it out.
- `Ports`: `resolvePort` ignores its protocol: on the host a label with two protocols has
  one number, probed for the protocol declared first only; and `GetPort` ignores it too, so
  a reference is for that protocol's port, whichever the caller means. Between the probe
  and the moment a host service listens another program may take its port and answer the
  references to it; `ReferencesReach` begins with that moment.
- `Watchdog`: `OpGeth.Watchdog` and `OpReth.Watchdog` pass two seconds whatever
  `--block-time` is; a genesis further ahead than the block time is reported as a stall.
- `Relay`: a payload saved after that of a later slot is never printed; an older
  registration may be saved last by a validator that does not wait.
- `Releases`: nothing repairs a file an interrupted download left; a binary found in
  `PATH` cannot be used. Two downloads of the same release, the second interrupted, leave an
  executable that is not whole: the exception in `RunsWhole`.
- `Genesis`: a `--genesis-delay` beyond what a `time.Duration` holds puts the genesis in
  the past, without an error. A second session over the same directory deletes the files of
  one that is running.
- `Inspect`: an error after `ContainerCreate` leaves the capture container there. A user
  label `playground.session` hides the containers from `Stop` and from the tracker.

## Fairness

Weak fairness on the steps the Go scheduler and returning system calls guarantee:
compose starting containers and returning, `runIt`'s selects, `Stop`, the tracker, the
launcher and each host goroutine (`Runner`), the display's loop (`Display`). None on the
environment (deaths, health, Ctrl+C, the watchdog, the timer, a broken stream). A select
with several ready cases is one fair action: which case it takes is open.
`FailureEndsSession` of `Runner` excuses a stream that breaks, since the code only logs that.

`Watchdog`: the goroutines of `RunWatchdog` and `runIt`; neither time, nor the chain,
nor a watchdog's failing is fair. `Relay`: the watcher's loop goes on, and while the
relay is up one of its calls is answered in the end; `PayloadReported` ends with the
relay. `Inspect`: its own steps, that is, calls to docker return; not `Interrupt`, which
`InterruptCleansUp` starts from, and nothing of the sessions.

## Proofs

TLAPS checks the eight proof modules for all values of the constants, from the
assumptions the modules make of them, which TLC evaluates in the runs:

| Assumption | Says |
|---|---|
| `RunnerAssumption` | host services are distinct services of the manifest, `ExitCap` is positive, types |
| `PortsAssumption` | container ports are positive, bounds are numbers |
| `ManifestAssumption` | recipes build sequences of services, overrides are of the kinds there are |
| `FromRecipes` | see above; a hypothesis of the theorems about the three recipes only |
| `ClProxyAssumption`, `RelayAssumption`, `ReleasesAssumption` | types, bounds are numbers, a release has a part |
| `ChainWatchAssumption`, `WatchdogAssumption` | times are numbers, those that divide or repeat are positive; `Streams` is a set of truth values |
| `TimesAssumption`, `GenesisAssumption` | `Second` is positive, a word has more than one value; clocks, delays, block times and fork blocks are numbers |
| `InspectAssumption` | the user's value is neither a session nor a service |

Every safety property a passing run checks is a theorem. What the theorems rest on:

### Runner, Session, Display

`RunnerProofs`: `Inv` is inductive. The properties themselves are not, so it adds
- `EventsTruthful`, `TasksTruthful`: queued events and the tasks map tell of what has
  happened; with this, `AreReady` implies that containers were up and healthy;
- `StartBeforeDie`, `NothingSeen`, `DeathPending`: the queue keeps a container's start
  before its death, so the tracker cannot overwrite `die` with `started`, and while
  the stream is open a dead container's `die` is still queued if it matters;
- `SnapshotCovers`: whatever runs while `Stop` removes is on its list, unless a removal
  failed;
- `LauncherInRange`, `LauncherDone`, `HandlesInOrder`, `AllRegistered`,
  `HandlesLaunched`, `KillCovers`, `KilledAll`: once `Run` has returned nil all host
  services are in `handles`, and the kill loop has every living one before it;
- `StoppedForAReason`, `NilResult`: a nil result means a stop after the final select
  without errors.

Each part has a lemma that its step is preserved; lemmas named `...Steps` list once the
actions that can touch a group of variables, so that the others need no case.

With `Inv`, `StepMaps` shows that every step of `Runner` is a step of `Session` under the
mapping of `RunnerRefinement`, or changes nothing there. Most change nothing (`Unseen`); for
starts, deaths, health and the stop the types are enough. Two steps need the safety
properties: `CompleteReady` maps to `Serve` because the readiness verdict was true
(`ServeMaps`), and the return maps to a nil outcome only if nothing runs (`EndMaps`). So
`Implements`: `Spec => S!Safety`; that the session also ends is left to `runner_live`.

`NoWakeupLost` is the safety half of `StatusIsShown`: a display that waits in its select
shows the tasks map, or `lost` is set. `DisplayInv` is inductive because an action that
touches the tasks map either ends its update, and tells, or leaves the mutex taken
(`UpdateSteps`).

### Ports

`Granted` (ports before `next` are reserved and distinct, the search has not gone below its
start), `Unique` (a label is declared once per protocol, and each template's port is
declared) and `Mentioned` (a declared port comes from a template, and a label has one number
whatever its protocols) are inductive with the types. `ReferencesReached` then goes through
the four placements of the two ends: by name on the container's own port, or by number on the
published one. That no other program answers there needs an invariant of its own
(`StrangersKeptOut`): what is bound was free when it was bound, and others only bind what
nobody has (`NoneTaken`). It says nothing of the time before a host service has bound, and
neither does the theorem. The label may be declared for both protocols; that `GetPort` may then return
either is why `Mentioned` is needed.

### Manifest and the recipes

That a manifest is `Valid` depends on every service, so the lemmas show what changes it:
adding a service at the end leaves the first of each name where it was, and replacing an
image changes neither ports nor dependencies. With `OverridesNamed` (overrides are checked
against the manifest, and downloads are of its services), `AllPlaced` (a name is in the compose
file or taken to the host) and `Fresh` (nothing is set before its step) this is inductive for
every recipe. `OverridesReachServices` adds `PlacementInv`: from `NewLocalRunner` on an override
is with the runner or in the service that took its image, and the compose file has the last
service of each name.

Under `FromRecipes`, three more things are shown of what `ApplyRecipeOf` builds. Each is true
of every component and kept by concatenation, so it holds for all combinations of flags at once:
- `Sound`: components are registered, native ones can be downloaded, and a service waits
  only for services of a smaller `Rank`, so compose meets no circle
  (`RecipesStart`, `OnlyOverridesFail`);
- `Regular`: the ports of a service depend on its name only, and on `flashblocks`. So `Valid`
  is a statement about sets of names, references and dependencies (`ValidByName`), which
  are then calculated per recipe: what is referred to is there (`Resolved`), what is waited for,
  too (`Awaited`), and contender finds its target (`Suits`). Compared with `Fits`, these give
  `RejectionsExplained`, in both directions, and from it `MockProxyRejected`;
- `Refers`: who refers to whom, followed along the chains from `op-node` and from the
  beacon node (`BlocksAreBuilt`).

### CL proxy

`Handled` (a handler has returned exactly when there is a reply), `PrimaryFirst`,
`NoneEarly` (which requests the two clients have processed, by where their handlers are) and
`ForSecondary` are inductive. `SecondaryInOrder` adds `OneAtATime`, which needs
`MaxOpen = 1`: the request that is open is the last one, so it is later than everything either
client has processed. `AnswersArrive` follows from the types and from where a handler can
return.

### Watchdog

For `ChainWatch`, `TimerCovers` (while the chain is healthy the timer has run for at most a
period when nothing new is found, plus how long ago that was), `SeenSoon` (how old a block can
be before and after it is seen) and `TimerInTime` (a timer that fired waits for one call at
most) are inductive together, by linear arithmetic. `HealthyAccepted` assumes
`Period + Poll + Latency < Limit`, that is, with the chain's own block time, that a poll and a
call take less than the second of room; `StallsReported` assumes nothing.

`Watchdog`'s steps are `ChainWatch`'s or leave it alone, so both carry over. `Contiguous` (the slots
heard of end at `lastSlot` and have no hole while the watcher has not failed) gives
`GapsAreReported`. `SlotsAccepted` needs to know what the validator knows of a chain that is
well (`InStep`): its silence is no longer than the chain's, and it expects this slot or the next;
its hypothesis is `Period < Silence`. At a URL without events it only knows that nothing
was heard (`Unserved`). `StoppedOnlyByWiring` puts this and `HealthyAccepted` together, with
both hypotheses: with what the code wires `HealthySessionGoesOn` is false, and the theorem
names the one case in which it is.

### Artifacts

Times (`ForkTimes`) have no state: block times are ordered as block numbers, so a fork time
that does not wrap separates the blocks before it from those after (`ForkAtBlockNumber`); a
delay that fits a duration moves the genesis by just that (`GenesisIsAhead`).

`Genesis`: `Fresh` (whatever is in the directory once it has been emptied is what the present
flags make) is inductive with `NoStaleVolume`. What readers find in the merged files follows from
`MergedValues`: at a path that meets one of the overrides theirs, elsewhere the old one. With
these, `SameChains`, `HeaderFits` and `ForkFromBlock`, the last through `ForkAtBlockNumber`.

`Releases`: as long as no download has found a file made by another, a file has one writer
(`SoleWriter`); as long as none has been cut short, what a file lacks is still to be written by
somebody who is at it (`StillComing`). These are not true without their hypotheses, which is
what the exceptions in `RunsWhole` and `CachedRuns` are about.

### Relay and inspect

`RelayProofs`: `OpenInv` (what is being saved is not newer than what was sent, and the
newest of a validator that waits), `SavedInv` and `ListInv` (the map stands still while it
is listed) are inductive. For the printed blocks `PrintInv` relates the list to
a place in the payloads before which no slot is above `lastSlot`; so what is printed was
the greatest slot when it was saved, and greater than all printed.

`InspectProofs`: `StopInv` (whatever of a stopping session runs is among its targets,
unless docker refused), `TargetsInv`, and `FoundInv` and `CaptureInv` about the labels of
the container found. That `Custom` differs from every session's id is what keeps `Stop`
from others' containers. `CleanReturn` is the safety half of `InterruptCleansUp`: inspect
returns nil only after Ctrl+C, and leaves no capture unless docker refused.

### Only model-checked

Liveness is out of the provers' reach: `CtrlCStops`, `FailureEndsSession`,
`ReadinessIsNoticed`, the liveness of `ImplementsSession`, `StatusIsShown`, `PayloadReported`
and `InterruptCleansUp`. So are the absence of deadlock, which is about what is enabled, and the
two violations.

## Not modelled

- `BlockNumber` calls that never return: the watcher has no deadline for them, and
  `StallReported` takes an answer within `Latency` for granted.
- Log following, terminal output, image names, volumes, prometheus' scrape
  targets, `graph.dot`, mounts: no property depends on them yet.
- Argument lists of third-party programs, key generation, allocations and the encodings
  of genesis states: data for other programs.
- `waitForChainAlive`, `ClProxy.Close`: nothing calls them.
- What the relay's `New` and `Start` wire together, and its beacon client: third-party
  code. Lookups in its database by key are reads of one entry.
- Sessions that run at once over the same output directory.

## Plan

Done: the modules above and the theorems listed in `PROJECT.json`. Next:

1. The safety halves of the other liveness properties: that a payload in the list of a
   watcher is not passed over (`PayloadReported`), and where a session with a pending failure
   can stand (`FailureEndsSession`).
2. That whatever is left to the tracker keeps it going: the states in which `unsent` can stay
   full, as an invariant of `Runner` that bounds the hang `runner_ctrlc` shows.
3. Sessions over the same directory: `Genesis` and `Inspect` composed.
