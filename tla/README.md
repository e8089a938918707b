# gh-ci-webhook: a TLA+ model

`gh-ci-webhook` runs the self-hosted GitHub Actions runners of an organisation.
One public **webhook** server turns GitHub's `workflow_job` events into messages
of two NATS JetStream streams. On every machine of the fleet a **host
controller** (`hostctl`) keeps a fixed number of ephemeral firecracker VMs. In
each VM **`wait-for-job`** takes one queued job from the stream, and a GitHub
runner registers for it. When the job is completed, the webhook's message tells
the host controller to stop that VM and to start a new one in its slot.

The repository has no tests outside `vendor/`; the reference is the code in
`src/pkg` and `src/hack`.

```
 GitHub --workflow_job--> webhook --queued-----> gha_queued    --> wait-for-job (in each VM)
                             |                                          | registers a runner
                             +------completed--> gha_completed --> hostctl: StopRunner, Next, StartRunner
                             +-- status board <--reports (NATS request)-- wait-for-job, hostctl
```

- [1. Inventory](#1-inventory)
- [2. The modules](#2-the-modules)
- [3. What the runs check](#3-what-the-runs-check)
- [4. Findings](#4-findings)
- [5. What is proved](#5-what-is-proved)
- [6. Not modelled](#6-not-modelled)
- [7. Plan](#7-plan)

## 1. Inventory

### Host controller: `pkg/backend/stream.go`, `pkg/providers/firecracker/{impl,firecracker,networking}.go`, `pkg/cmds/hostctl.go`

*State.* The table of slots (below); the files under `/tmp/fc/<uid>`; the tap
devices `fc<4i+1>`, `fc<4i+2>` of slot `i`; the firecracker processes; the
consumer of `gha_completed` filtered on this host.
*Operations.* `Start` (streams, **purge** of this host's completed messages,
consumer, one goroutine that spawns up to `NumWorkers` handlers, then `RunVMs`
on the main goroutine); `RunVMs` (`Next`, `StartRunner` until there is no free
slot); `ProcessCompletedJobs` (message → `StopRunner` → `DoubleAck` → `Next` →
`StartRunner`).
*Hard.* `RunVMs` and the handlers run concurrently. `StartRunner` uses the slot
it was given without the mutex. `StopRunner` deletes tap devices after the slot
is free again. A completed event names host and slot only, not the VM. Every
call may fail, errors are logged. The process dies and systemd restarts it.
*Correct when.* A completed job's slot is always freed and refilled; no VM is
stopped before its job is done; every live VM can be stopped, has its own root
drive and its tap devices; only the working directory of the stopped VM is removed.

### Slot table: `pkg/providers/firecracker/slots.go`

*State.* For each slot: `UID`, `InUse`, `cancel`; a mutex.
*Operations.* `NewInstances`, `Next` (first free slot, new UID), `Free` (remove
the directory, clear the slot, cancel the VM's context).
*Correct when.* It is a pool of exclusive leases: a slot is given out only when
free, each time under a UID that was never used.

### Job queue and `wait-for-job`: `pkg/cmds/wait_for_job.go`

*State.* The stream `gha_queued` (work queue, one subject per label) and the
consumers on it; in each VM, its pass over the subjects.
*Operations.* For each subject: create a consumer, fetch one message without
waiting, `DoubleAck`, delete the consumer; ten seconds of sleep after a pass
that found nothing.
*Hard.* A work-queue stream admits one consumer per subject, so VMs refuse each
other; all calls may fail, with or without an effect on the server; VMs die.
*Correct when.* No job goes to two VMs, none is lost, each is picked in the end,
and the order of preference (`testrig`, `f0`, `firecracker`) is kept.

### Webhook: `pkg/backend/processor.go`, `pkg/cmds/webhook.go`

*State.* None of its own. *Operations.* `SubmitPayload`: a `queued` event with
exactly one self-hosted label goes to `gha_queued.<label>`, a `completed` event to
`gha_completed.<host>`, where the host is cut out of the runner's name. *Hard.* The round
trip of the name; a job cancelled before a runner had it; an event of either kind
that finds the webhook down or cannot be published (400, and no second call).

### Status board: `pkg/backend/status.go`

*State.* The last report of each machine, in the memory of the webhook, under a
mutex. *Operations.* `ReportStatus` (a NATS request; errors are logged),
`setStatus` (cut the text at two commas, store it), `/runner-status` (the table
under the mutex, then streams and consumers from NATS). *Hard.* Reports that are
lost, late or time out; a webhook that restarts with an empty board; commas in
comments; hosts whose reports never leave them (section 4).
*Correct when.* A row only ever gets newer, a page shows one moment, a waiting
machine is shown again after any disturbance.

### Machine network and guest configuration: `networking.go`, `firecracker.go`, `kernelargs.go`, `cloud_init.go`

Functions from the slot number to tap names, MAC and IP addresses; a kernel
command line that carries the guest's network configuration; metadata the guest
fetches. *Correct when.* Slots get disjoint names and addresses; printed arguments
parse back; what the guest configures fits the devices of its host.

### Providers and start-up: `main.go`, `pkg/cmds/{root,hostctl,webhook}.go`, `pkg/backend/nats.go`, `pkg/providers/{api,registry,dummy,linode}`, `hack/systemd`

*State.* Of each process, how far its start has come; the streams and durable
consumers in NATS, shared by all; the events stored for each host.
*Operations.* `NewConnection` (three attempts in 350 ms), `MustProvider`, `Init`,
`EnsureStreams`, the purge, `RunVMs`, the status server; `StopRunner` of each
provider. *Hard.* Hosts and webhook start in any order and at once; every step may
fail, which ends the process until systemd starts it again; a panic in a worker
takes the process and its VMs with it while the event that caused it is still
stored; `hostctl` without `--provider` (one of the systemd units starts it so) dies
in each `RunVMs`; `dummy.Next` always finds a slot, so `RunVMs` does not end;
`linode.Next` never does. *Correct when.* An event ends a process once at most, the
purges of one host do not touch another, all find their streams, and every host
with a working provider serves in the end.

### GitHub registrations (`pkg/providers/github.go`), error mapping (`error.go`), mail, options, manual commands

Code that nothing calls; pure I/O; flags.

## 2. The modules

| module | models | role |
|---|---|---|
| `SlotPool` | what the slot table promises | abstract specification |
| `RunnerHost` | host controller, firecracker provider, VMs, the completed stream | detailed specification |
| `MCRunnerHost` | | instance for TLC |
| `RunnerHostProofs` | | theorems about `RunnerHost`, whatever goes wrong |
| `RunnerHostRunsProofs` | | theorems about its machines, in the environments that justify them |
| `JobQueue` | `wait-for-job` in many VMs, the queued stream | specification |
| `MCJobQueue` | | instance for TLC |
| `JobQueueProofs` | | theorems about `JobQueue` |
| `Pipeline` | GitHub's jobs, webhook, both streams, VMs and hosts of a fleet | composition, one step per VM and message |
| `MCPipeline` | | instance for TLC |
| `PipelineProofs` | | theorems about `Pipeline` |
| `Hostctl` | `hostctl` on every host and the webhook: start, providers, errors, panics, restarts; the completed stream they share | specification, and composition of hosts |
| `MCHostctl` | | instance for TLC |
| `HostctlProofs` | | theorems about `Hostctl` |
| `StatusBoard` | reports of hosts and machines, the board, its page | specification |
| `MCStatusBoard` | | instance for TLC |
| `StatusBoardProofs` | | theorems about `StatusBoard` |
| `VmNetwork` | tap devices, addresses, MAC addresses and forwarding rules of a host's VMs | specification |
| `GuestBoot` | kernel arguments, metadata and what the guest makes of them | extends `VmNetwork` |
| `MCVmNetwork` | | instance of both for TLC |
| `VmNetworkProofs` | | theorems about `VmNetwork` |
| `GuestBootProofs` | | theorems about `GuestBoot`, extends `VmNetworkProofs` |

### RunnerHost

One process per goroutine: `Main` (`Manager.Start`, then `RunVMs`) and the
`Workers` of `ProcessCompletedJobs`. `pc[p]` is what the goroutine does next,
`loc[p]` its local variables. A step is one access to shared memory, one
operation on a file or device, or one exchange with NATS:

| code | actions |
|---|---|
| `Start` | `Start` (purge, consumer, workers: nothing else runs before) |
| `Instances.Next` | `NextSlot`, `NoSlot` (atomic: under the mutex) |
| `StartRunner`, `createVM` | `MakeDir`, `CopyRootFS`, `ArmCancel`, `ClearTap`, `AddTap`, `Configure`, `Launch`; `StartFails` at any of them |
| `Instances.Free` | `FreeRemove`, `FreeReset` (the mutex is held in between: `Locked`) |
| rest of `StopRunner`, `DoubleAck` | `DeleteTap`, `Ack` |
| `iter.Next` | `Receive` |
| VMs, GitHub, webhook, NATS | `PickJob`, `Complete`, `LoseEvent`, `Duplicate`, `Expire`, `Reap`, `MachineExits` |
| death and restart of `hostctl` | `Crash` |

A *run* is one call of `StartRunner`. It is identified by the lease (`UID`) that
`Next` issued for it, a counter: the code's UIDs are random and never repeat.
What the code names by slot (runner, tap devices, completed event) is indexed by
slot in the model, what it names by UID (working directory) by lease; a message
`[run, copy]` remembers the run only to tell events apart, and `StoppedSlot`
reads nothing of it but the slot.

Abstractions. The two tap devices of a slot are always handled alike, one right
after the other, and are one device here. The copy of the root file system and
the rename of a prepared copy are one step. `slots[i].UID` is read where the
code reads it, twice, without the mutex (`MakeDir`, `Configure`). Iptables,
sockets, cloud-init and the kernel arguments are in `StartFails` only.
`Faults` and `MaxFaults` say which faults may happen and how many; `MaxRuns`
bounds the leases, `MaxJobs` the jobs. `BootQuiet` is an assumption on the
environment: no job is taken before `RunVMs` has returned.

`Rest` is a stutter in the states where nothing is left to do (all goroutines
wait and no message is stored) or the bound `MaxRuns` has been reached by a
caller of `Next`; so deadlock is checked in all runs, and any other state without
a step is reported.

### SlotPool

`holder[i]` is the lease of slot `i` or 0; `Acquire` (only a free slot, only a
new lease), `Release`, `Reset` (restart). `RunnerHost` implements it with
`holder[i] = slots[i].uid`.

### JobQueue

One process per VM. `Begin`, `Create`, `Fetch`, `Ack`, `DeleteConsumer`, `Pick`,
`Wake` follow `wait_until_job` and `consumeMsg`, the deferred deletion of the
consumer included. A fault `"call"` is a request that has no effect, `"reply"` one
whose effect happens and whose answer is lost, `"slow"` a consumer removed by the
server while it is used, `"crash"` a VM that dies. `ExpireConsumer` without a
fault removes a consumer whose VM does not use it any more. After a job the VM is
replaced (`Replace`): this is `RunnerHost` seen from here. `waiting` and `refused` are
history variables: the jobs stored when the pass began, and the subjects the VM
could not look at in this pass.

NATS itself is external: it is modelled from how the code uses it (a work-queue
stream, one consumer per subject, removal by acknowledgement).

### Pipeline

The fleet from end to end. `Deliver` is `SubmitPayload` when the webhook runs and
reaches the stream: a queued event with one self-hosted label is stored under that label, a completed one under
the host cut out of the runner's name at its last dash; a name that leaves no
host has no stream, and the webhook answers 400. An
event of either kind that finds no webhook, or is not stored for an error, is gone:
`Lose`. `Pick` is a pass of `wait-for-job`
with the registration of the runner, `Replace` a handled completed message; how
these two work inside is `JobQueue` and `RunnerHost`. Of their faults
the fleet sees two: `Forget` is a pass whose message is acknowledged and whose confirmation is
lost; `Exit` is a VM that ends by itself while it waits, or after it took a message
and before GitHub gave it a job (also when `start-runner.sh` fails then). `Queue`,
`Assign`, `Finish`, `Cancel` and `Redeliver` are GitHub. Host names are sequences of
their parts between dashes, so that cutting and joining names is modelled by
what it does.

The point of the composition: nothing pairs a job with the VM that took its
message. A VM registers a runner for the repository and label it read, and GitHub
gives the runner any job that matches. `Supplied` and `CapacityKept` count, for each
repository and label, jobs that wait against what brings a runner; the history
variable `lost` counts how often such a thing was lost: a queued event, a message, a
VM that had taken one. For each such loss one job may wait for ever.

Assumptions: no job asks for two of the fleet's labels, or for `self-hosted` only
(such a job is not published, but GitHub would give it a runner started for another);
hosts run without `--testrig` (the order with it is in `JobQueue`); host names
have no dot (hostctl could not create its consumer on such a host). A *disruption*
is a job cancelled before it has a runner, a queued event sent twice, an event of
either kind lost, a confirmation lost, or a VM that exits before it has a job;
`MaxDisruptions` bounds them. Completed events that are sent or handled twice and
restarts of hosts are not in `Pipeline`: they need the time between freeing a slot
and acknowledging, which `RunnerHost` (`OneStopPerFault`) and `Hostctl` have.

### VmNetwork

All slots of one host. A device `fc<n>` is its number, an address `172.26.0.<o>`
its octet. `StartVM` is the network part of `createVM`, `StartFails` what it leaves at
each of its errors, `StopVM` deletes devices and ignores failures as the code does,
`Crash` leaves everything. `Subnet` and `IsHost` say what a `/30` means. An instance
number of 64 or more has no address: its start fails at `ip addr add`.

### GuestBoot

`VmNetwork` and the other side of it. `BootVM` is `StartVM` with what `createVM` hands
to the machine: two interfaces, the kernel arguments, the metadata. A word of the
command line is a sequence of pieces between `=` signs: so `SplitN(kv, "=", 2)`, the
`=` in the `ds` argument and the padding of Base64 are modelled by what they do. A
map is printed in any order (`Strings`). Encoding keeps the document as one piece.
`ConfigureNetwork` and `FetchMetadata` are cloud-init, modelled from what
`BuildNetCfg` and `BuildData` are made for: an interface is found by its MAC address,
metadata is fetched over an interface that may reach it.

### Hostctl

One level above `RunnerHost`: many hosts and the webhook, each a process with `pc`.

| code | actions |
|---|---|
| systemd, `main`, `NewConnection` | `Restart`, `Dies` (used by all that ends a process), `StartFails`, `Crash` |
| `New`, `MustProvider`, `Init` | `InitProvider`, `UnknownProvider` |
| `EnsureStreams` | `EnsureStream` (asks for the stream), `CreateStream` (if it was not found), for one stream after the other |
| `ProcessCompletedJobs` | `Purge`, `CreateConsumer`; `Receive`, `GoDeaf`, `Ack`, `Refill` |
| `RunVMs` | `FillSlot`, `Serve`, `LoopForEver` (dummy), `NilProvider` (none) |
| `StopRunner` | `StopMachine` (firecracker), `StopNothing`, `Panic` |
| GitHub, operators | `FinishJob`, `FinishUnheard`, `StrayEvent`, `Resize`, `DeleteConsumer` |

A start or stop of a VM is one step that succeeds, and a host has one worker, the
prescribed number: what happens within is `RunnerHost`. `StrayEvent` is a completed event of any
slot number, also one that is no number (`BadName`): of a VM of an earlier
incarnation, sent twice by GitHub, or of a foreign runner. `kills[e]` counts the processes event
`e` has ended. Between `EnsureStream` and `CreateStream` another process may create the stream;
creating it again with the same configuration is no error in NATS. A job ends whatever the webhook does:
`FinishUnheard` is one whose event is not published, as the webhook is down or its
publish fails; its machine is "unheard", and keeps its slot until the host restarts. `Resize` is a restart with another
`--firecracker.num-instances`, the one way a legal event gets a number outside
the table.

### StatusBoard

Each machine has its reports on the way (`inbox`), in order: a connection keeps
it, and the subscription has one callback at a time. `FindNothing`, `ReportPicked` and
`RequestEnds` are the loop of `wait-for-job`: a request that is lost or late ends
after ten seconds, and the loop goes on. `run` tells the starts of a machine
apart, whose name is the same; it is in the rows for the properties only. A text
is a sequence of pieces between commas. `Ask`, `CopyRow`, `Unlock`, `Answer` render the
page; the mutex is `Locked`. `HostConnection` is the connection the firecracker
provider has for its reports: `nil`.

## 3. What the runs check

| run | instance | shows |
|---|---|---|
| `host_faults` | 2 slots, 2 workers, 3 leases, 2 jobs, 1 fault of any kind | `TypeOK`, `CompletionNotForgotten`, `FreeSlotsAreAttended`, `RemovesOneWorkdir`, `PoolRefinement` |
| `host_genuine` | 2 workers, 5 leases, 3 jobs; starts fail, machines exit, events get lost | `NoUndeservedKill`, `NoOrphan`, `OwnDisk` |
| `host_quiet` | 1 worker, 5 leases, 3 faults of any kind but a restart, `BootQuiet` | `TapsIntact`, `OneStopPerFault` |
| `host_live` | 1 worker, fair, 1 fault of delivery or a restart | `SlotReturned`, `SlotRefilled` |
| `host_boot_taps` | 1 worker, no fault | **violation** of `TapsIntact` |
| `queue_faults` | 2 VMs (one `--testrig`), a testrig and a regular job, 3 faults of any kind | `TypeOK`, `HandedOutOnce`, `PassedOverOnlyIfRefused` |
| `queue_live` | 2 VMs, an urgent and a regular job, fair, 1 fault `"call"` or `"slow"` | `NothingLost`, `EveryJobPicked` |
| `pipeline` | hosts `fc` (2 VMs) and `fc-1` (1 VM), 3 jobs of 2 repositories and 2 labels, 2 disruptions, fair | `TypeOK`, `ReplacesOnlyFinished`, `Supplied`, `CapacityKept`, `JobsGetRunners` |
| `network` | instance numbers 0, 1, 63 and 64; both orders of the arguments, all paddings | `TypeOK`, `ReachesItsGuest`, `HasEgress`, `MacsDistinct`, `OthersUntouched`, `KernelArgsSurvive`, `GuestFitsHost` |
| `hostctl` | the webhook, a firecracker host of 2 slots (an operator may make it 1), a host with any other provider, an unknown one or none; 2 events, 1 fault, fair | `TypeOK`, `PoisonOnce`, `NoSlotForgotten`, `StreamsExist`, `HostsRecover`, `EventsDrained` |
| `status` | 2 machines with 2 starts each, 2 jobs, one with a comma in its name; 1 fault, fair | `TypeOK`, `PickedNamesJob`, `PageIsSnapshot`, `NeverGoesBack`, `WaitingIsShown` |
| `queue_lost` | one lost reply | **violation** of `NothingLost` |

*Environment.* Four groups of properties need different worlds, and the runs
name them. Whatever goes wrong: `CompletionNotForgotten`, `FreeSlotsAreAttended`,
`RemovesOneWorkdir`, `PoolRefinement`. When every stored event is handled exactly
once (no duplicate, no failed or late acknowledgement, no restart):
`NoUndeservedKill`, `NoOrphan`, `OwnDisk`. That precondition is real: an event
names a slot, so a second delivery after the slot was refilled stops the VM that
is there now. Whatever goes wrong but a restart of `hostctl`: `OneStopPerFault`, which
says how far that can go. The machine that is stopped wrongly may have had a job,
whose own event stops the next one in the slot, so the harm moves on; but at any
time no more machines were stopped before their job was done than there were
faults. With one worker, no restart, and no job before `RunVMs` has returned:
`TapsIntact`; the first finding shows why.

*Bounds.* Two slots and two workers with `Main` give three goroutines that
compete for two slots, and five leases use each slot again at least twice. So a
stale message can meet a second and a third VM of its slot, a handler that is
overtaken is overtaken by a whole start, and `RunVMs` meets handlers. A bound of one
fault with two workers is complemented by the runs with one worker (the value
`opts.go:62` prescribes) and up to three faults: enough for an event to come back twice
and for a wrong stop to move on; that `OneStopPerFault` holds as well with several workers and
with jobs during `RunVMs` is left to its proof. In `JobQueue`, two VMs are enough to
refuse each other and to take over after a death.
In `Pipeline`, the two host names are chosen so that a VM of one (`fc-1`) has the name of
the other; three VMs are more than two disruptions, which `JobsGetRunners` needs:
each disruption may leave one slot with a runner that waits for ever. Two jobs of
one kind can take each other's runners. `VmNetwork` has neighbours at both ends
of the range and the first number that is too large; the proofs cover all numbers.
In `Hostctl`, a second firecracker host would behave as the first; with the other
providers and none, a host that serves shares the streams with one that crashes for ever, never
serves or ignores its events. Two events let one meet a VM that another event's
restart has replaced; one fault lets `Resize` or a crash come between an event
and its handling. `HostctlProofs` covers all numbers of hosts, slots, events and
faults. In `StatusBoard`, two starts of a machine let a late report of the first
meet the second, two machines let one's reports stay while the other's are taken and pages be half
copied.
Workers are symmetric, and symmetry is used in runs without temporal
properties over fairness only.

*Fairness.* `RunnerHost!Fairness`: the Go scheduler runs each goroutine that can
run (weak fairness of each goroutine's steps; the mutex is held for two steps
only); systemd restarts a dead `hostctl` (`Start`); killing the context ends the
process (`Reap`, the SDK kills it); GitHub ends every job (it has a time limit); NATS
delivers again what nobody is handling. No fairness is assumed of faults, of
jobs being queued, or of VMs exiting. `JobQueue!Fairness`: a VM that is up
goes on, a VM whose job is done is replaced (`SlotRefilled`), unused consumers
are removed. A VM that died comes back only if its host restarts: not fair.
`Pipeline!Fairness`: GitHub makes its calls, assigns waiting jobs to idle runners and
ends them; VMs look at the queue every ten seconds; hosts handle their messages
(`SlotReturned`, `SlotRefilled`). Disruptions and new jobs are not fair.
`Hostctl!Fairness`: systemd starts a process that has failed (`Restart=on-failure`),
its main goroutine goes on, and so does its worker. Events, faults and operators
are not fair. A host without provider is restarted for ever, so `HostsRecover` speaks
of the hosts with firecracker or linode: all slots have a machine in the end that can take a
job, but for those whose event was never published; of a host whose consumer was
deleted it says only that it serves, as the worker never hears of an event again.
`EventsDrained` is about every host with a provider that exists or with none: that
`RunVMs` never returns (`dummy`) or ends the process each time (no provider) does not
keep its events from being handled or purged.
`StatusBoard!Fairness`: the webhook is restarted and finishes its page; strong
fairness of `SetStatus`, as `sync.Mutex` hands itself to a waiter after one
millisecond, however many pages are asked for; a machine goes on polling, but may
never find a job or end it.

*Mutants.* Each property of a passing run is paired with a mutated action, a
bug this code could plausibly have (PROJECT.json, "mutants"), which the run
finds. The mutated operators stand before their originals in the modules.

## 4. Findings

1. **One worker is not enough** (`host_boot_taps`). `opts.go:62` says
   `NumWorkers: 1, // MUST be 1`, so that VMs of a host are stopped and started
   by one goroutine at a time. But `RunVMs` runs on another goroutine. If the first VM's job is
   completed while `RunVMs` is still filling the host, `StopRunner` frees the slot;
   `RunVMs` takes it and creates its tap devices; `StopRunner` then deletes them. The
   new VM has no network and never takes a job.
2. **Double acknowledgement does not make "exactly once"** (`queue_lost`;
   `wait_for_job.go:165-168`). When only the confirmation is lost, `consumeMsg`
   returns an error instead of the job, which has left the stream. "At most once"
   holds (`HandedOutOnce`, `queue_faults`).

Observations that contradict no line of the repository, but that its maintainers may
want to know:

- **The board never shows what hosts report.** `impl.go:55` does not keep the
  connection that `Init` is given. `ReportStatus` at `impl.go:114`, `156`, `189` and
  `firecracker.go:244` is a request on a nil connection: it returns `ErrInvalidConnection`, which is logged. A
  stopped machine stays on the board as it last reported itself, `waiting` or `picked`
  (`HostConnection` in `StatusBoard`). If `Init` kept the connection, `started`, which
  is sent after a mail, could replace the `waiting` of its own machine, so that
  `NeverGoesBack` would not hold any more.
- **A failed start is not cleaned up.** `impl.go:125` leaves the directory to
  `StopRunner`, but no event will ever name a runner that has not registered. The slot
  stays taken until a restart, the directory with its root file system longer.
- **A webhook call that fails is not made again.** GitHub does not repeat a call that was answered
  400 or not at all. A lost `queued` event leaves a job without a runner (`Supplied` counts it), a
  lost `completed` one leaves a slot taken (`CapacityKept`, `HostsRecover`) until the host restarts.
- **`--testrig` is a preference of one VM only.** A VM refused at the testrig subject by
  another VM's consumer goes on to the next subject. What holds is
  `PassedOverOnlyIfRefused`.
- **A completed event with a number outside the table ends `hostctl`**, with all VMs
  of the host, once (`PoisonOnce`): the purge of the next start removes it.
- **A deleted consumer makes a host deaf**: `iter.Next` fails at once for ever,
  the loop spins and nothing ends the process (`GoDeaf`).
- **`hack/systemd/gh-ci-hostctl-linode.service` starts `hostctl` without
  `--provider`**: `RunVMs` calls `Next` of nil, and systemd restarts it for ever.
- **`NewConnection`** gives up after 350 ms; its comment speaks of a retry
  "eventually with backoff".

## 5. What is proved

Every safety property and every action property of every passing run is the
statement of a theorem; only liveness is left to TLC. No theorem bounds the size
of the system: numbers of slots, workers, hosts, VMs, jobs, faults and
disruptions are constants (in `Pipeline` a host has at most 100 slots).

| module | what its theorems assume of the environment |
|---|---|
| `RunnerHostProofs`, `HostctlProofs`, `VmNetworkProofs`, `StatusBoardProofs`, `GuestBootProofs` | nothing: all faults of the model |
| `JobQueueProofs` | nothing; `JobsNotLost`: `NoSilentEffect` |
| `RunnerHostRunsProofs` | `Genuine`; `TapsSafe`: `Quiet`; `StopsBounded`: `NoRestart` |
| `PipelineProofs` | nothing; `SupplySafe` and `CapacitySafe`: `NoOtherTakers` |

These five hypotheses are definitions in the proof modules, each about the
constants only, each true of the runs that check the same properties, and each
needed: without `Genuine` a second delivery stops the VM that is in the slot by
then, without `Quiet` and `NoSilentEffect` there are the findings of section 4,
without `NoRestart` machines end with their host while the events of their jobs are still to come,
and these stop machines of the next incarnation, without `NoOtherTakers` GitHub gives a job that was never published a runner that
another job waits for (`processor.go:156`).

### RunnerHost

`RunnerHostProofs`, for every number of slots, workers, leases, jobs and faults
allowed by `HostAssumption` (at least one slot; finitely many workers, `Main` is
not one of them; `Faults` is a set of the listed kinds):

| theorem | statement |
|---|---|
| `TypeCorrect` | `Spec => []TypeOK` |
| `CompletionSafe` | `Spec => []CompletionNotForgotten` |
| `PoolCorrect` | `Spec => PoolRefinement` |
| `LeasesSafe` | `Spec => []Pool!LeasesExclusive` |
| `WorkdirSafe` | `Spec => RemovesOneWorkdir` |
| `NoSlotUnattended` | `Spec => []FreeSlotsAreAttended` |

*Argument.* `CompletionNotForgotten` alone is not inductive. An acknowledgement
removes a message, so one has to know that its slot has been freed by then
(`FreedBeforeAck`). That stays true because a lease, once given back, is not
issued again (`LeaseMatchesRun`: a held lease is at most `issued`, and belongs to
the slot its run is recorded under; `JobsOfBegunRuns`: messages are about leases
already issued). `Free` finds the right lease because a slot is in use exactly
while it has a UID (`PoolConsistent`). The purge of `Start` is harmless because
nothing is leased then (`StartIsAlone`): this is the fact that would fail if `Start`
purged after `RunVMs`. `RolesOK` keeps the goroutines' locals meaningful. The
conjunction `IInv` is inductive.

*Layout.* One lemma per action (`NextSlotInvariant`, `FreeResetInvariant`, `AckInvariant`, ...); the
seven steps of `StartRunner` keep everything `IInv` speaks of, which is said once
(`StartFrame`, `StartFrameInvariant`). `NextInvariant` combines them, `Invariant` is
`Spec => []IInv`. The refinement (`PoolStep`) has one step per action that changes the
table and treats all others as stutters. `FreeSlotsAreAttended` counts: a slot
that becomes free brings a worker that will ask for one (`FreeReset`), a worker that
stops asking has taken one or found none free (`AttendedStep`).

`RunnerHostRunsProofs` has the properties that are about VMs and not about
leases. `NoRestart` says that `hostctl` is not restarted. `Genuine` says that `Faults` has only failed starts, machines that exit and events
that are lost; `Quiet` that there is one worker, no restart, and no job before
`RunVMs` has returned (`BootQuiet`).

| theorem | statement |
|---|---|
| `KillsSafe` | `ASSUME Genuine PROVE Spec => []NoUndeservedKill` |
| `NoneOrphaned` | `ASSUME Genuine PROVE Spec => []NoOrphan` |
| `DisksSafe` | `ASSUME Genuine PROVE Spec => []OwnDisk` |
| `TapsSafe` | `ASSUME Quiet PROVE Spec => []TapsIntact` |
| `StopsBounded` | `ASSUME NoRestart PROVE Spec => []OneStopPerFault` |

*Argument.* The first four rest on `RunsOK`: a goroutine in `StartRunner` holds the slot of
its own run, alone, and has put its cancel function there from `ArmCancel` on; a
machine that is up holds its slot with its cancel function, or has been cancelled.
`RunsOK` is inductive as long as no slot is freed while a start is under way in it
(`RunsStep`), and the environments differ in why that is so. In a genuine one
a slot is freed only for a stored event, which is about a job that is done
(`EventsOnce`), of the run that still holds the slot (`EventOfHolder`), and is
handled by one worker (`HandledOnce`): so a run keeps its slot until its job is done
(`FreedWhenDone`), and a machine that is starting has no job. In a quiet one the only
worker is busy with the stop, and `RunVMs` is past its starts (`BootIdle`,
`OneAtWork`). There `UntapFree` also says that the devices which `StopRunner` deletes
are of a slot nobody holds, the fact that fails in the first finding. `OwnDisk`
adds which directory is made for whom (`DisksMade`): names come from UIDs, which
do not repeat.

`StopsBounded` counts. A run that is issued holds its slot or has lost it to a `Free`,
so it is enough to pay for each `Free`. `FreesPaid` does: runs issued, messages still to be delivered and workers
about to free a slot are together no more than runs that hold their slot,
runs whose job is done, and faults. A job that ends adds a done run and a message; a
duplicate, a failed acknowledgement or an expired one adds a message and a fault; a `Free` takes
away a worker and at most one holder (`FreesStep`). A run stopped too soon neither holds its slot nor is done
(`CancelsOwn`: a context that is cancelled is that of a run without a slot), so it
is counted only in what was issued; and each run that is done but holds its
slot still has a message or a worker of its own (`DoneHoldersCounted`, from `CompletionNotForgotten`). What
remains on the other side is the faults (`StopsCounted`).

### Hostctl

`HostctlProofs`, for every number of hosts, slots, events and faults, and every
choice of providers (`HostctlAssumption`: the webhook is not a host, at least one slot):

| theorem | statement |
|---|---|
| `TypeCorrect` | `Spec => []TypeOK` |
| `PoisonEndsOnce` | `Spec => []PoisonOnce` |
| `PublishedEventsStay` | `Spec => []NoSlotForgotten` |
| `BothStreamsExist` | `Spec => []StreamsExist` |

*Argument.* `PoisonOnce` needs to know that an event that has ended a process is
stored only while that process has not come past its purge (`Poison`), that no other
host has a copy of it, and that a new event has a new number (`OneCopy`).
`NoSlotForgotten` needs more than its own statement: a worker about to acknowledge
an event removes it, so a done machine whose event was published must have one that is not the one being
acknowledged (`Machines`); `StopMachine` makes it so, since it frees the slot of the event
first. A purge does not hurt because its host has no machine then (`Lifecycle`).
`StreamsExist` rests on the order in which the streams are asked for and made
(`Ensuring`). Their
conjunction with `TypeOK` is inductive: one lemma for each conjunct, one
step for each action.

### VmNetwork and GuestBoot

`VmNetworkProofs`, for every set of instance numbers (`IdsAssumption`: naturals):

| theorem | statement |
|---|---|
| `NetTypeCorrect` | `Spec => []TypeOK` |
| `GuestsReached` | `Spec => []ReachesItsGuest` |
| `Egress` | `Spec => []HasEgress` |
| `MacsSafe` | `Spec => []MacsDistinct` |
| `OthersSafe` | `Spec => OthersUntouched` |

*Argument.* `NetInv` is inductive: every device has the name of some slot and, if any, the
address of that slot (`LinksOK`), and a running VM has exactly its two devices and
its rule (`RunningOK`). That other slots cannot disturb them is arithmetic
(`TapsApart`: `4i+1`, `4i+2` never meet `4j+1`, `4j+2`), and so is the route
(`SubnetOfSlot`: the `/30` of both addresses of slot `i` is number `i`).

`GuestBootProofs`, in addition for every host name (`HostNameAssumption`: a sequence of
strings), every order in which a map is printed, and every padding:

| theorem | statement |
|---|---|
| `NetworkOfMachines` | `BootSpec => Spec` |
| `ArgumentsSurvive` | `BootSpec => []KernelArgsSurvive` |
| `GuestsFit` | `BootSpec => []GuestFitsHost` |

*Argument.* `NetworkOfMachines` is the refinement: a step of the machines is a step
of their network or leaves it alone, so each theorem of `VmNetworkProofs` is one about
`BootSpec`; the proofs below use it. A line is the seven fixed words and the two that
`createVM` adds, these in any order, and has each key once (`FixedKeys`, `LineWords`); so the map that the parser fills from left to
right keeps every value (`Parsed`), and a value comes out of its word as it went in,
with the `=` signs of its own (`WordParts`). A guest finds its interfaces since
the two MAC addresses of a slot differ, and what it configures are the addresses
whose `/30` is that of its devices; `BootInv` remembers for every slot what its
machine was given and what its guest has done.

### StatusBoard

`StatusBoardProofs`, for all names of machines, keys of jobs (`StatusAssumption`:
sequences of strings), numbers of starts and faults:

| theorem | statement |
|---|---|
| `StatusTypeCorrect` | `Spec => []TypeOK` |
| `PickedIsTheJob` | `Spec => []PickedNamesJob` |
| `PageIsOneMoment` | `Spec => []PageIsSnapshot` |
| `BoardNeverGoesBack` | `Spec => NeverGoesBack` |

*Argument.* What is shown was a report first, so the invariant speaks of the reports
under way as well. They wait in the order in which their machine made them, all after
the row that is shown (`Ordered`: kept by an append, a tail, a loss at the end and a
crash); and of each it is known what it proves of its machine (`Genuine`): one that says
"picked" in the present run is from a machine that has reported its job and does not
look for another before it is stopped. That makes a new report later than
all before it (`NewReport`). `RowOfText` is about the text: a comment comes out of
`SplitN` as it went in, however many commas it has. That a page is of one moment
needs to know that rows are copied only under the mutex (`Copying`).

### JobQueue

`JobQueueProofs`, for all VMs, jobs and faults allowed by `QueueAssumption`:

| theorem | statement |
|---|---|
| `Typed` | `Spec => []TypeOK` |
| `OneRunnerPerJob` | `Spec => []HandedOutOnce` |
| `UrgentFirst` | `Spec => []PassedOverOnlyIfRefused` |
| `JobsNotLost` | `ASSUME NoSilentEffect PROVE Spec => []NothingLost` |

`NoSilentEffect` says that calls may fail and consumers expire (`"call"`, `"slow"`), but
no effect goes without its answer and no VM dies.

*Argument.* The invariant has one conjunct per question. `FetchedIsHead`: as long as a
VM's consumer is there, what it is about to acknowledge is the head of its subject,
since the consumer is exclusive and only its own acknowledgement removes the
head; so the acknowledgement removes what was fetched. `Exclusive`: a job is stored, taken by
one VM, or picked, and not two of these. `Looked`: a VM has seen each subject before
the one it is at, and a job there that was published before the pass began has left the stream by
then, or the VM was refused. `NothingLost` needs in addition that whatever takes a job out of the
stream puts it in the hands of a VM (`NothingLostStep`): exactly what a lost
confirmation breaks (second finding).

### Pipeline

`PipelineProofs`, for every finite set of hosts and of jobs, of host names, labels and
disruptions. `PipelineAssumption` limits a host to 100 slots (its network has room for
64); `DecimalAssumption` says that two numbers below 100 are not printed alike, which
TLC evaluates, as the prover knows nothing of `ToString`.

| theorem | statement |
|---|---|
| `Typed` | `Spec => []TypeOK` |
| `ReplacementSafe` | `Spec => []ReplacesOnlyFinished` |
| `SupplySafe` | `ASSUME NoOtherTakers PROVE Spec => []Supplied` |
| `CapacitySafe` | `ASSUME NoOtherTakers PROVE Spec => []CapacityKept` |

`NoOtherTakers`: a job that is not published is not one GitHub could give to a VM,
that is, no workflow asks for `self-hosted` alone or for that and one more label.

*Argument.* Names first: host and number come out of a runner's name as they went in
(`NameParts`), however many dashes the host name has, and differ for different slots.
`FleetOK` then follows a report: only a runner that is done is reported, once, and the
report is an event or a message but not both; a running job has its VM alone.
`ReplacesOnlyFinished` is part of it. The other two are about numbers. `Surplus(k)` is what brings
runners of a kind less the jobs of that kind that wait. Each step
is one of three (`StepCost`): it leaves every surplus as it is and makes no slot
stuck; it is a disruption that makes at most one slot stuck, and may take one from the
surplus of one kind, which `lost` counts; or it is a disruption that adds one to the surplus of
one kind. This is one lemma per action (`DeliverCost` to
`RedeliverCost`), from lemmas on cardinalities of what is counted. So surplus and
`lost` together are never negative (`Balance`): this is `Supplied`. `LostPaid` bounds what was lost by
the disruptions. `CapacityKept` adds up
the steps; it counts a set of pairs, so that a sum over kinds needs no
induction.

### Model-checked only

Liveness under fairness is out of the prover's reach: `SlotReturned`, `SlotRefilled`,
`EveryJobPicked`, `JobsGetRunners`, `HostsRecover`, `EventsDrained`,
`WaitingIsShown`. So are the two violations, which are behaviours.

## 6. Not modelled

- **Never called**: `ListRunners`, `DeleteRunner` and the rest of `github.go`;
  `error.go`; `ProcessCompletedJobs__` and `onerun`; the billing cache.
  `createInstance` and `waitForStatus` of linode: its `Next` never finds a slot, so
  that `StartRunner` is never called.
- **Without state**: `UseRegularRunner`, `UseHighPriorityRunner` (constants of one
  flag), the other routes of the webhook, flags and the wiring of commands, the manual
  `firecracker` commands.
- **Pure I/O**: mails, netlink and iptables calls, text of tables and cloud-init
  documents, TLS certificates.
- **Inside RunnerHost one level up**: `Hostctl` takes starts and stops of a VM as one
  step, so that a failed start (its slot stays taken) is in `RunnerHost` only. `Pipeline`
  has no restarts and no completed event that is handled twice; these are in `Hostctl` and
  `RunnerHost`.

## 7. Plan

Done, in this order: `SlotPool`, `RunnerHost`, its proofs, `JobQueue`, `Pipeline`,
`VmNetwork`, its proofs, `Hostctl`, its proofs, `StatusBoard`, its proofs,
`GuestBoot`, then the proofs of `JobQueue`, of the runs of `RunnerHost`, of
`Pipeline` and of `GuestBoot`. What is left of the code has no state or is not called
(section 6).

Next: that `RunnerHost` in a genuine environment implements the `Replace` of `Pipeline`,
and `JobQueue` its `Pick`, for one host and one VM (the composition takes both as one
step); properties that a later version of the code should have, if its findings are
mended.
