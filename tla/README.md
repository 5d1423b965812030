# WendyOS agent: TLA+ models and proofs

WendyOS is an operating system for edge devices. Its core is the *agent*
(`src/go/cmd/wendy-agent`, `src/go/internal/agent`): a Go daemon that runs apps
as containers, updates the operating system, and joins the device to a mesh.
This directory models the parts of the agent whose correctness depends on the
order of steps: what a crash leaves behind, which of two requests wins, what a
failed write undoes, what a lost or late message does to a route, a download or
a datagram.

## 1. The system

| part | state it keeps | operations | hard because |
|---|---|---|---|
| OS update gate (`oshealth`, `services/os_update_gate.go`) | `pending-update.json`, the update result record; the engine's slots (external) | `UpdateOS` v1/v2, `Gate.Run` at every agent start | agent crash, power loss or file error between any two steps; a timeout or an error that is not a verdict |
| Mesh VIP table (`mesh/vip.go`) | two maps, a retired set, a cursor, a file | `OpenVIPTable`, `Allocate`, `Lookup`, `RetireTenant` | a VIP must never change owner, over failed writes, unsynced renames and power loss |
| Mesh names (`mesh/dns.go`, `services/provisioning_service.go`, `main.go`) | the certificate's tenant, the DNS server's tenant, the restart-pending flag | start-up, DNS queries, enrolment, reset | three locks, a callback after a durable step, a process that lives on after a reset |
| Restart monitor (`container/monitor.go`) | one `containerState` per container, suppression counts, a gpu cache | `Register`, stop marks, `Suppress`, the ticker's pass, restart goroutines | the pass drops its mutex around every call to containerd; goroutines act on old plans |
| Container service and containerd client (`services/container_service.go`, `containerd/client.go`) | the stopped-by-user label, `appStopping`, a lock per container, the task | start, stop, delete, boot reconciliation | three parties start and stop one container; two lock orders; two names, and so two locks, for one container |
| Babel engine (`go/babel`) in the mesh node (`localmesh/routing.go`, `node.go`) | candidates, feasibility distances, sequence numbers, a pending request; a checkpoint on disk; the origin's signed manifest | `Step` for links, packets, originations and ticks; apply, commit, persist, publish, send | routers decide from each other's old news; a restart must not forget what others rely on; a 16-bit number that wraps |
| Gossip pool (`netgossip`) with its adapter (`localmesh/gossip.go`, `sync.go`) | known announcements, pending fetches, upload slots; hints per session | have, want, data, gone, unavailable; `Poll`, `Offer`, `Lookup`, `Resolve`, `Discard`, `Close` | many sessions share one download; peers stall, withdraw and leave; answers to an earlier claim arrive late |
| UDP messages (`udpmessage`) | budgets per flow, peer and node, queues, a window and assemblies per flow | `Open`, `Send`, `ReceiveFrame`, `Release`, the scheduler, two `Close` methods | four parties release one reservation; three of them close one flow; the window reuses its slots |
| Mesh sessions, time synchronisation, uploads | leases, intervals, chunks | message handlers and timers | not modelled yet |
| Relays, cameras, audio, Bluetooth, Wi-Fi Aware, registry, data recording | sockets, files and devices | I/O | mostly the behaviour of something external |
| CLI, Swift package, web client, plugins | none that the agent depends on | clients of the API | not part of the agent |

How the modelled parts meet: the container service calls the containerd client
and the monitor; the client takes suppression handles on the monitor while it
tears a container down; the monitor lists and starts containers through the
client; at boot the monitor registers what the client's `ListBootContainers`
returns. Provisioning calls back into `main`, which retires tenants in the VIP
table and turns the DNS server; DNS allocates from the table. The update
handlers and the gate share only the data partition and the update engine. The
mesh node feeds links, packets and ticks to the Babel engine and carries out
what it decides; the manifests that gossip spreads authorize the sequence
numbers the engine may accept and announce.

`PROJECT.json` lists every component, with the reason for the ones left out,
and the hazards of the code by line.

## 2. Modules

| module | models | composed with |
|---|---|---|
| `OSUpdate` | handlers, gate, engine and bootloader of the A/B update | - |
| `VIPTable` | the VIP table and its file; also the abstract specification `MeshNames` implements | - |
| `MeshNames` | start-up, DNS and provisioning around the table | `VIPTable` |
| `ContainerMonitor` | the monitor as a component, no specification of its own | - |
| `CrashLoop` | the monitor with a free operator and runtime | `ContainerMonitor` |
| `ContainerLifecycle` | one container between monitor, service, client and boot | `ContainerMonitor` |
| `BabelEngine` | the decision procedures of one routing engine, as operators on its memory | - |
| `BabelMesh` | routers running the engine in the mesh node, over lossy carriers, with crashes | `BabelEngine`, `LoopFree` |
| `LoopFree` | the abstract specification: forwarding goes downhill | - |
| `GossipPool` | the pool, its sessions, the adapter and the peers | - |
| `UDPMessages` | the manager, its flows and its scheduler | - |
| `MCBabel`, `MCGossip`, `MCUDP` | instances for TLC | the three above |
| `OSUpdateProofs`, `MeshNamesProofs` (with the table's), `CrashLoopProofs`, `ContainerLifecycleProofs`, `BabelMeshProofs`, `GossipPoolProofs`, `UDPMessagesProofs` | theorems | the module of that name |
| `MonitorProofs` | lemmas about the monitor that hold in any environment | `ContainerMonitor` |

The specifications take their bounds as CONSTANTS. A definition whose name is
that of the definition after it with a suffix (`Replaced_Unnoticed`,
`feasible_always`) is a plausible mistake in it; no specification uses it, and it
shows that a property can fail.

### OSUpdate

`pc` is where the agent process is: in the gate, serving, in a handler, or down.
One action is one step that touches the disk, the engine or the power; the pure
decisions of `Gate.Run` are one step (`GateRun`). `marker` and `result` are the
two files; `running`, `good`, `pending`, `tried` the engine's and bootloader's
state, modelled from how the code uses them. An agent `Crash` keeps the boot,
`PowerLoss` starts a new one and lets the bootloader choose, `Age` lets the
marker outlive `MaxPendingMarkerAge`. A *fault* is a file operation or reboot
that fails, which the code only logs, or an engine commit that ends in an error
without a verdict. A marker naming the legacy backend resolves to no updater
(`closuresForUpdater`), which is the agent-run health check. Versions are
numbered; a bounded number of installs, boots, crashes, faults and ageings is
allowed.

The engine's commit has the six endings that `runUpdaterCommit` and the gate
tell apart or fail to (`EngineCommit`): done, nothing pending, rejected (the
health.d or a failed deployment), the agent's own timeout, no binary, and any
other error: it cannot be executed, is killed by a signal, exits with a code of
no meaning, or fails with nothing pending. The gate treats the last like a
rejection (`AfterCommit`). After a timeout or such an error the commit may have
taken effect. `rejected` and `errored` are what this pass of the gate saw of the
two; they, `confirmed` and `staged` are history. The gate's reboots get their own
head-room (`MaxBoots + MaxInstalls`) so that a bound never looks like a reboot
that did not happen. The boot ID is always readable.

### VIPTable

`entries`, `owner`, `retired`, `cursor` are the fields of the struct; `vis` is
what a reader of the path sees and `disk` what a power loss is sure to leave:
they differ after a rename whose directory sync failed. `persist` has three
outcomes: it works, it fails before the rename, or after it (which poisons the
table). `UndoCursor`, `UndoOwner` and `UndoRetired` are the lines that undo a
failed `Allocate`. `grants` is history: every principal given an address. The
prefix is a capacity and an address is its index.

### MeshNames

`enrolled` is the tenant of the stored certificate (a certificate without one
counts as none); `identity` the tenant the DNS server answers for; `queries`
what an unfinished query has read. `stage` orders start-up and the enrolment
callback. `StartProvisioning` refuses an enrolled agent and one whose restart
after a reset is pending; `Unprovision` may win the gap between persisting an
enrolment and its callback. After a reset DNS keeps answering for the old
tenant until the process exits, as in the code.

### ContainerMonitor, CrashLoop, ContainerLifecycle

Everything under one `m.mu` is one action. A pass is `ListContainers`,
`CaptureUnresolved`, per name `LookupGPU` and `CommitGPU`, and `planRestarts`.
`Register` replaces the state pointer, which the pass notices by
`pass.replaced`. Instants are kept as saturating ages.

`CrashLoop` asks about time: an operator starts (with any policy), stops,
deletes and redeploys, tasks die, starts fail. A service call and the record it
makes are one step. Two timing assumptions: a pass takes less than a unit of
time, so the clock moves between passes, and the goroutines of one pass have
run when the next begins (the ticker's period is seconds).

`ContainerLifecycle` asks about order and makes neither assumption. A start is
wait, lock, first check, second check with the task, then the three steps of
`recordContainerStart`; a stop is mark, label, lock and claim in either order,
suppress, kill, clear, resume and, on failure, unmark and unlabel. `lockApp`
locks the name of the request, so one stop by container ID and one by app ID
(`Names`) may be under way together. They meet in the client: the one that finds
`appStopping` set is refused (`StopRefused`), and, like one that fails
(`StopUnresolved`, or an error of the teardown), takes back its marks and label,
which are the other's too. `wantDown`, `late`, `overlap`, `undone` and `raced` are
history; `late` and `undone` name the races that took the marks of an acknowledged
stop, or of one under way. Abstractions: one app container, so a group has one
member; a start addressed by app ID is redirected to the container and its outer
lock left out; one pass at a time; tasks survive an agent crash or not, by choice.

### BabelEngine, BabelMesh, LoopFree

An engine's memory is a record, and each function of `engine.go` an operator
from memory to memory that adds what it queues to `out`. One prefix with one
origin is modelled: the engine's maps are keyed by prefix or by prefix and
router ID, and feasibility is a condition per source. A link is absent, up with
an infinite cost (Hellos and IHUs not exchanged yet) or usable. A timer is not a
clock: what has expired or is due is a choice of the step, which is more than
the real clocks allow, with two exceptions. `ExpireSource` waits until nothing
learnt from the router is left: `New` requires the collection time to be at
least three minutes and at least as long as an advertisement lives. And an
expired request costs no fault, since it expires without any.

An event is `Engine.Step`, then `Routing.Step`'s transaction. Other routers see
nothing of a step but the datagrams at its end, so a step that completes is one
action (`Complete`). A crash inside it, a failing `Apply` and a failing
`Persist` have one effect (`Cut`): the process's tunnels are gone, nothing was
sent, and the next start restores the last checkpoint, which may or may not be
the new one. The one visible point in between is the published manifest:
`Complete` publishes a new number at once or leaves it to the gate
(`PublishLater`), and only from what was saved. Incarnations of a link are
merged, so an end may come up again before the other noticed (`"flap"`).
Messages in flight may be lost, delayed and taken in any order between links;
on one link a later update or request replaces an earlier one of its kind, which
is what packets that arrive back to back amount to. Crashes count against
`MaxChanges`.

`LoopFree` has a next hop and a height per router. A step gives one router a hop
that is strictly lower; its height may rise only when nobody forwards to it. The
refinement maps the height to the *saved* feasibility distance, a newer sequence
number being lower.

### GossipPool

A method runs under the pool's mutex and prunes first, so it is an action on the
pruned state. `asked` is what the peers are working on, and so also the late
answers to claims that have been taken away; a peer answers a request chunk by
chunk, says unavailable, or never answers. Instants are three-valued: a hint is
none, fresh or old; a transfer idle or not. Request numbers count up for ever in
the code and are matched only for equality, so the model reuses one that no
request in hand has. Which body is evicted is left open (`Evicted` stands for
the pool's other announcements). `Lookup` lets go of the mutex while it reads
the directory; it is one action, since the session is busy and the receipt it
found does not change but by expiring. `Poll` sends (`Sending`) and then visits
the hints in order (`Claiming`); both are recursive functions of the number of
turns taken.

### UDPMessages

A section under the manager's mutex is an action. The scheduler is a program
counter: picked, locked (sendMu), checked, settle, closing. A flow closes in
four steps (flag, join senders, join deliveries, release), and whoever closes it
second waits. A message counts one towards the budgets: byte budgets are taken
and given back by the same reservation. `log` and `reassembled` are history.
Which flow's turn it is, what has expired and which path is too small are
choices; guards may refuse at any time. The scheduler keeps a deadline and a
backoff per message; in the model the waiting messages of a flow become due
together (`RetryDue`), so a flow never tries a later message while an earlier one
still waits for its retry. Elements leave a sequence by their
positions (`At`, `Without`), and a total is the number of pairs of a flow and one
of its messages: forms of which the provers can be told the length and the sum.

## 3. Runs

| run | bounds | distinct states | shows |
|---|---|---|---|
| `osupdate_faults` | 2 installs, 4 boots, 2 crashes, 2 faults, 1 ageing, both backends | 605,845 | `StagedNotCommitted`, `RevertOnlyOnError` |
| `osupdate_power` | 1 install, 4 boots, power loss anywhere, 1 ageing | 1,042 | `CommittedIsTruthful`, `RolledBackIsTruthful`, `RollbackTakesEffect` |
| `meshnames` | 2 devices, 2 tenants, 4 addresses, 3 enrolments | 50,742 | `NamesTypeOK`, six invariants of the table, `NoForeignPin`, and the refinement `TableSpec` |
| `crashloop` | 1 container, base 1, cap 3, window 2, 4 restarts counted | 234,228 | `CrashLoopSlows`, `GPUCacheFresh`, `SelfHeals` |
| `lifecycle` | 2 requests out of starts and stops under two names, 1 crash or refused label | 4,763,554 | `StopHolds`, `TeardownExclusive`, `NothingLeaked` |
| `babel` | 3 routers in a line, 2 faults of any kind, 1 of them a crash | 144,519 | `NoLoop`, `ForwardsDownhill` |
| `babel_live` | 3 routers all linked, 1 fault (link, loss, timeout), 1 new number | 88,777 | `SeqDurable`, `Recovers` |
| `gossip` | 2 sessions, 1 announcement of 2 chunks, 1 download and 1 upload at a time; one peer has up to 2 requests in hand, the other 1 | 154,116 | `SlotsBalance`, `ClaimBacked`, `ClaimKept`, `Fetched` |
| `udp` | 2 flows, 6 mixtures of messages, budgets of 2, a window of 2 | 258,436 | six invariants, `FlowCloseReturns`, `CloseReturned` |

Why the bounds are enough. *OSUpdate*: two installs give a marker of an earlier
update and an engine refusing a second one; three boots are one to install in,
one to try the image and one to come back, and the fourth repeats one of them;
two faults are a commit's error and a failed write around it. *MeshNames* and its
table: four addresses are more than two principals need at once and few enough to
exhaust (the theorems of section 5 remove the bound); three enrolments are two
tenants and a return to the first. An agent never allocates for a device that
another tenant still has pinned, since it retires those pins before it serves
names; that the table would handle it, the undo of a failed write included, is
proved of `VIPTable` and not reached by the run. *CrashLoop*: delays 1, 2, then a cap of 3 that is not a
power of two, and a count that goes past the level where the cap is reached;
containers share no state in `planRestarts`, so one suffices. *Lifecycle*: two
requests (a start and a stop, two stops under two names or one after the other,
two starts) and one mishap (a crash or a refused label update, `MaxMishaps`) make
every pair of parties overlap; each of the races below needs no more. *BabelMesh*: the shortest loop needs two routers
that both have been told of the route, one stale candidate and one loss of the
route; in the line that is a flap and a withdrawal, or a restart that forgot and
a withdrawal. The triangle gives a router an alternative that is infeasible,
which is what a sequence-number request is for; numbers start at 65535, so the
first bump wraps. *GossipPool*: with one download at a time two sessions compete
for it; two chunks make a download that is half done. The two
sessions are alike, so one whose peer may still be at an earlier request when it
is claimed again is enough for late answers (`MaxAsked` is a bound per session). *UDPMessages*: budgets of
two are reached by two messages; four ids go twice round a window of two; a
message of length three has two chunks, or three when the path shrinks; the six
mixtures pair flows of one peer, of two peers, and both directions of one flow,
since the directions share only a flow's closing and its expiry. A mixture also
fixes which kinds of transport a flow may be attached to: both kinds occur, alone
and against each other.

`OSUpdate`, `MeshNames`, `BabelMesh`, `GossipPool` and `UDPMessages` may stop
when their budgets are spent or everything is closed, so their runs do not check
deadlock; the others do.

Fairness. `OSUpdate.FairSpec`: the gate's steps (straight-line start-up code
whose external commands have timeouts) and systemd's restart of a dead agent
are weakly fair, which is stated by places where the agent does not stay for
ever (`Waits`); faults, crashes and power losses are not fair. The liveness run
allows no agent crash and no fault: a crash between clearing the marker and the
rollback is finding 1, and a reboot that fails leaves the slot up, as the code
logs. `CrashLoop.FairSpec`: the ticker's pass and a scheduled goroutine are
weakly fair; the clock is strongly fair, since it is enabled only between
passes; and `RestartStarted` is strongly fair: a start attempted again and
again succeeds some day. Without that last one nothing can be said, and the
code does no more than try again.

`BabelMesh.FairSpec` and `GossipPool.FairSpec` state fairness by the conditions
it brings about, each commented with its action: periodic updates are sent,
packets that are not lost (loss is bounded) are taken, both ends of a link come
to agree on it, Hellos are exchanged, manifests spread, a pending number is
published when its gate opens and requests expire. Polls of a session recur, so
some of them come when a fetch is free; the adapter finishes verifying; idle
timers run out. Of the peers nothing is assumed. `UDPMessages.FairSpec`: the
scheduler goes on, a delivery ends, and a closer does its next step, all weakly
fair. That a transmission and a delivery end is what the package asks of its
callbacks (`udpmessage/README.md`) and what the transports of the agent do; a
comment of `manager.go:282` reckons with a write that blocks, and so does one
transport of the tests: with such a transport a Close waits for it. `ContainerLifecycle.FairSpec`: a stop and a start
that need not wait go on (weakly fair; the two names of a stop apart), and whoever
waits for the network-operation lock gets it if it is free again and again (strongly fair: Go's
`sync.Mutex` hands itself to a waiter that has starved).

In all of these but `CrashLoop` fairness says which conditions do not last
(`[]<>~C`), not `WF` or `SF` of an action. `C` is the guard of a step that its
process takes next whatever the others do and that, taken a bounded number of
times, makes `C` false, so the two say the same; the form without `ENABLED` is one
the prover can reason from.

### Findings

Three runs expect a violation; each states what the repository says of itself.

1. `osupdate_rolledback`: an agent crash between clearing the marker and running
   the rollback confirms the slot that was just rejected and finalizes the
   record on it.
2. `lifecycle_restart` (`StopBeatsRestart`): a whole stop fits between the restart
   goroutine's re-check and its start.
3. `lifecycle_names` (`StopsSerialised`): a stop by container ID and one by app ID
   hold different locks. Both mark and label the container, one tears it down, the
   other is refused with `errAppStopping` and takes mark and label back; the first
   is acknowledged, and the monitor restarts what it stopped. It takes a container
   that the monitor knows (here the boot reconciliation registers it meanwhile).

`StopHolds` says that the races of findings 2 and 3, the rollback of a stop that
failed, and a boot listing applied late are the only ways in which an acknowledged
stop is undone.

Other limits the models reach and no run states, because the code does not
exclude them:

- a second install that clears a stuck deployment and then fails leaves the
  first marker, which the next boot reads as committed (`gate.go:194`);
- a pass of the monitor whose listing is older than a start kills the task that
  start created (`monitor.go:424`);
- a start's record is made outside the lock that makes a stop's marks atomic,
  and can leave label and registration in disagreement
  (`container_service.go:769`);
- a boot listing taken before a stop and applied after it registers the stopped
  container;
- a stop that fails, by whichever name, clears the mark and the label of a stop
  that was acknowledged before or is under way (`container_service.go:1089`);
- the gate rolls back over any error of the commit but its own timeout
  (`gate.go:225`), with or without a verdict of the engine: a binary that cannot be
  executed, a signal, an unexpected exit code. The comment of `commitDelegated`
  wants no rollback where "no verdict was rendered", "so a transient early-boot
  hiccup never reverts a possibly-healthy slot" (`gate.go:180`), and names a missing
  binary and the timeout as the cases of it; `RevertOnlyOnError` states what the
  code keeps. If such a commit did take effect, the rollback finds nothing to roll
  back and the record says "rolled_back" of the image that stays: for that reason
  `RolledBackIsTruthful` is stated without faults;
- an agent that dies between install and marker plain-commits an image that
  never booted; a stale marker leads to a plain commit whose rejection is only
  logged;
- a gpu container whose lookup failed, or that registered during the pass, is
  planned without the gpu floor;
- a peer that withdraws an announcement while its body is being verified loses
  its place as supplier; once no supplier is left the next prune drops the fetch
  with its claim, and another peer's hint starts a second download, although
  the withdrawal itself keeps the claim (`gossip.go:207`, `gossip.go:434`).
  `ClaimKept` says that nothing else does: it is about a claimant whose own hint is
  still fresh, while no more sessions are open than a fetch takes suppliers (64,
  `gossip.go:26`).

## 4. Properties

- `StagedNotCommitted`, `RevertOnlyOnError`: what a step of the update may
  never do. `CommittedIsTruthful`, `RolledBackIsTruthful`: the record against
  what the engine really did. `RollbackTakesEffect`: a rollback that began is not
  forgotten (liveness).
- `NeverShared`, `GrantsDurable`, `MemoryIsDurable`, `OwnerIsInverse`,
  `NothingFreeBehindCursor`, `FileLoads`: the contract of the table.
- `NoForeignPin`: an enrolled agent resolves only its tenant's pins.
  `TableSpec`: the agent's use of the table refines the table's specification.
- `CrashLoopSlows`: the sum of the ladder's delays bounds how fast a crash loop
  runs, whatever the passes happen to see. `GPUCacheFresh`: a cached answer
  belongs to the registration in force. `SelfHeals`: liveness.
- `StopHolds`, `TeardownExclusive`, `NothingLeaked`: a stop against the two
  parties that start and against another stop; `StopBeatsRestart` and
  `StopsSerialised` are the two promises that the code does not keep. `RequestsReturn`: no stop and no start waits for ever. It is
  proved and no run checks it, since the instance of `lifecycle` is too large for
  TLC's check of liveness.
- `NoLoop`: no set of routers forwards in a circle, at any instant, not only
  when routing has settled. `ForwardsDownhill`: the refinement of `LoopFree`,
  which is why. `SeqDurable`: the origin's saved number covers every number in
  a manifest, a message, a candidate or a distance. `Recovers`: liveness.
- `SlotsBalance`, `ClaimBacked`: nothing of the pool leaks and no late chunk
  enters another claim's download. `ClaimKept`: what a step may do to a body
  under verification. `Fetched`: no willing peer is starved.
- `Balanced`: the three levels of the budgets are the reservations that exist.
  `AtMostOnce`, `ChunksInOrder`: the two directions of a flow. `RetiredQuiet`,
  `ClosedClean`: what Close promises. `FlowCloseReturns`, `CloseReturned`: that a
  flow's Close and the manager's return.

## 5. Proofs

Every theorem holds for all values of the constants that satisfy the named
assumptions. Each safety property follows from an inductive invariant `IInv`,
which TLC checked on the run's instance before it was proved; there is one lemma,
or one step, per action.

`OSUpdateProofs` proves the type invariant and the two action properties of the
update for every bound, so for any number of faults, crashes and installs
(assumptions: the bounds are numbers, `None` is not a marker and not a record). Neither property
follows from the types. `StagedInv` adds that while this boot's marker stands
the process is outside the gate, so none of the gate's steps that commit or
clear can be taken; `VerdictInv` that a rollback which will reach the engine is
under way only for an image whose commit this pass saw rejected or fail, and that
the agent-run check, whose verdict is not the engine's, never has an engine behind
it.

It also proves that the record of an update is truthful (`CommitsAreTruthful`,
`RollbacksAreTruthful`), for any number of boots, power losses and ageings, under
hypotheses that the code needs: one update, and no fault, that is no failing file
operation or reboot and no commit that fails without a verdict (`SingleUpdate`);
for rollbacks also no agent crash, which is finding 1.
Commits need no such restriction on crashes. The hypotheses are not a
convenience: TLC violates `CommittedIsTruthful` with a second install or with a
fault, and `RolledBackIsTruthful` with any of the three. `SingleInv` relates the
three stages of the one image in the engine (on trial, committed, rolled back)
to marker, record and program counter.

`RollbacksTakeEffect` is liveness, under the hypotheses of `RollbacksAreTruthful`:
a rollback that began ends with the rejected slot down or a record that says it
failed. There is one lemma per place of the gate on the way (`LeavesRbWrite` and
those after it): fairness makes the agent leave it, and `RollBackMoves` says that
it leaves for the next place or with the rollback in effect (`Effect`): an image on
trial does not come up again when the power fails meanwhile. The gate's last step
is a reboot, which the model bounds; `BootInv` says that the gate reboots at most
once for one update, so the bound always leaves room for it.

`MeshNamesProofs` proves the table's invariants for every set of devices and
tenants and every capacity. Assumptions: `CapacityAssumption` (at least one
address) and `NoneAssumption` (`None` is not a device or a pin). None of the
invariants is inductive alone. That an address is never shared depends on the
file remembering every grant (`Remembers`), because a restart rebuilds memory
from a file; that the next free address was never granted depends on memory
being what the file says; and both files must be kept valid, because either may
be the one that is loaded. `IInv` is the conjunction of the types,
`NeverShared`, the same three facts (`Valid`, `Remembers`, `NoGap`) of `vis` and
of `disk`, and, while the table is usable, that the maps are inverse and memory
equals both files. One lemma per operation shows that it preserves `IInv`;
lemmas about `FileOf` and about loading carry the facts between file and memory.

It also proves that the agent implements the table
(`NamesImplementTable`: every step of `MeshNames` is a step of `VIPTable` or a
stutter), so `VIPsNeverShared` carries over (`NamesNeverShare`), and that
`NoForeignPin` holds for any number of tenants, enrolments and crashes
(`NoPinOutlivesItsTenant`). Its inductive invariant adds that a running process
serves one tenant for its whole life: the identity and every query in flight
are of the enrolled tenant, or a reset is pending, in which case nothing is
enrolled until the process exits. Additional assumption: `EnrollAssumption`.

`BabelMeshProofs` is about the routing engine in the mesh node, for any
set of routers and links, any costs and any number of crashes and faults:
`MeshForwardsDownhill` is the refinement of `LoopFree`, `LoopFreedom` the absence
of loops at every instant, `NumbersDurable` is `SeqDurable`. `MeshAssumption`
bounds the sequence numbers an origin goes through by 32,766 (`MaxBumps < 32767`):
the circular comparison of 16-bit numbers orders only numbers less than half the
space apart, and within that distance it is a comparison of how often the number
was bumped (`Rank`). Nothing else is bounded. `IInv` says what a router's news
rest on: each candidate a router keeps and each update in flight is `Founded` on
its sender's *saved* feasibility distance (the sender is at or below what it
advertised), a route is `Chosen` from a candidate strictly below the router's own
saved distance, memory agrees with the checkpoint between steps, and no number
anywhere is newer than the origin's saved one. A height can rise only when a
source is collected, and then nobody holds or will receive an advertisement of it
(`Alone`). One lemma per function of the engine (`Good...`) carries the condition
through `Engine.Step`; the lemmas about the mesh put it together with `Complete`
and `Cut`. `DownhillIsLoopFree` is about the abstract specification alone: `NoLoop`
is not inductive, that every router is above its next hop is (a router that moves
chooses a lower one, and goes up only when nobody is above it), and a lowest
router of a set (natural numbers are well-founded) forwards out of it.
`LoopFreedom` follows from that theorem and the refinement.

`ContainerLifecycleProofs` proves the three properties of a stop for any number
of requests, crashes and refused label updates, with stops under two names side by
side, and with the lemmas of `MonitorProofs`. Assumptions: those of the monitor
(`DelayAssumption`, `RetriesAssumption`: there is a largest retry limit,
`ScheduleAssumption`) and that 0 is a possible retry limit, the bounds are numbers
and the four holders of the lock are not `None`. `StopHolds` depends on everything
a start reads: `GuardInv` says what keeps a container down while it is `Guarded`,
which is while a stop is under way that no start overlaps and no race has undone
(`Guards`), or one is acknowledged and nothing but a late restart has come in its
way (`Acked`): the mark in the registration in force, the label, and no call or
boot listing but one of the known races. A rollback takes the marks of every stop
there is, and the invariant has to follow each of them through it
(`StopRollbackInv`). `LockInv` and `FlagInv` give the holders of the lock and of
`appStopping` from the program counters: at most one stop is past its claim, under
whichever name. `TeardownExclusive` needs that, and with `HandleInv`, which counts
the suppression handles exactly, it follows that nothing is left when no stop is
in flight (`NothingIsLeaked`).

`AllRequestsReturn` is liveness: `RequestsReturn`. `LockInv` says who holds the
network-operation lock, and whoever does waits for nothing else: a start that
finds `appStopping` set gives up, and a stop sets it without waiting. So the lock
comes free again and again (`LockComesFree`), and each waiter gets it. A stop
waits for it once (`LockMoves`: what is past the lock, `Past`, only goes on, or is
refused), and so does a start (`CallMoves`). The two lock orders of
a stop are why this is not obvious.

That `states` stays typed while levels and
ages saturate rests on `MonitorProofs`: the delay is the cap at every level from
the greatest one on, so the saturated level loses nothing.

`CrashLoopProofs` proves `CrashLoopSlows` and `GPUCacheFresh` for any set of
containers, any base, cap, window and floor and any number of counted restarts.
Assumptions: the monitor's, that 0 is a possible retry limit, the bounds are
positive and `None`, the zero time, is not an age; and the two timing assumptions
that are part of the model (section 3). `CrashLoopSlows` speaks of the
loop as it really is, the monitor knows it only from listings that are out of date
when they are used, so `IInv` ties the two together: no sighting is older than the
task (`Sighted`), what a listing missed has only just been started (`Missed`), a
restart goroutine runs only between passes and for a container whose pass saw it
down (`Idling`). It follows that whoever the monitor has seen for a whole window
has been up for one (`Forgiven`), so the level is never reset inside a loop and
keeps up with it (`Climbed`: one level up doubles the delay up to the cap,
`LevelKeepsUp`); a restart then adds at least the delay that the sum counts. Sums
and delays are recursive functions; that they satisfy their equations is proved
(`Recursion`, `DoubledDef`, `SpanDef`). `GPUCacheFresh` needs that an answer in
flight is right for as long as its name has not been registered anew
(`FoundInv`).

`UDPMessagesProofs` proves the six invariants of the manager for any finite set
of flows, any traffic, limits, chunk and window sizes (`UDPAssumption`: these are
positive, and flows are finitely many, as the sums require). None is inductive.
`Balanced` and `ClosedClean` need that a flow which is not live holds nothing
(`Vacant`), that an assembly belongs to a live flow, that a complete message with
a reservation has a holder (`Reserved`), and that the manager's Close has every
live flow on its list (`Closing`); the sums change with one flow's value
(`TotalChange`), and opening a flow at a shared or a free peer state adds nothing
to any of them. `AtMostOnce` needs the window: an assembly's id is in its flow's
window, has no double and is marked in its slot (`Windowed`, `Alone`), and a
completed id is marked complete for as long as the window could still take a
frame of it (`Remembers`); less than a window apart two ids have different slots
(`SlotsDiffer`), so advancing clears only slots whose ids have left.
`ChunksInOrder` needs that a queued message's position and size agree with what
the transport has taken of it, counting the chunk that is taken and not settled
yet (`QueueOK`, `LogOK`), and that what the scheduler read before the transport
is still the message's next chunk when it is handed over, although the queue is
reordered, expired and released meanwhile (`SchedOK`). `RetiredQuiet` needs that
a joined direction stays free (`Joined`).

Two theorems are about Close coming to its end. `FlowsCloseReturn`: every Close of
a flow returns. A flow's status only goes forward (`StatusMoves`), and what its
closer found free, `sendMu` or `deliveryMu`, nobody takes again (`SendStaysFree`,
`DeliveryStaysFree`), so the closer's next step stays possible until it is taken.
`ManagerCloseAdvances`: the manager's Close stays at no point of its list for ever.
The flow it has come to was opened and may be under another party's Close
(`Opened`, `CloseLeavesFlow`); at the end of the list it waits for the scheduler,
which may itself be closing a flow, and whose close ends (`CloseLeavesScheduler`).
`CloseReturned` adds only that a list which keeps getting shorter is empty some
day, which is induction over the list.

`GossipPoolProofs` proves the three invariants of the pool and `ClaimKept` for any
finite set of sessions, any announcements, chunks, budgets and limits
(`PoolAssumption`). `ClaimBacked` is inductive only together with what makes late
answers harmless: a peer has no two requests in hand for one announcement with one
number (`Unique`; a new number is none of those, `NewRequestFresh`), a fetch
without an owner has no bytes and an incomplete one is short of its body (`Sound`).
A method that claims works on a memory of the pool and stores it back, so the
condition is carried through every turn of `Poll` (`MemGood`, `ClaimGood`,
`ClaimingStays`) before it is one of the next state (`WriteGood`); that the
recursive functions of `Poll` satisfy their equations is proved (`WalkExists`). The
slots are the pairs of a session and a position of its line, so one line's change
is the count's change (`SlotsChange`). `ClaimKept` adds that the owner of a fetch
with a fresh hint is among its suppliers (`Supplied`), and holds while no more
sessions are open than a fetch takes suppliers (`Roomy`, 64 in the code). The
hypothesis is needed: `claim` (`gossip.go:370`) lets a session that found no room
among the suppliers own the fetch all the same, and when the suppliers leave, the
fetch goes with its claim and the body is downloaded again (TLC shows it with two
sessions and `MaxSuppliers = 1`).

Only model-checked are four liveness properties. `SelfHeals` rests on fairness of
actions, so on `ENABLED`, which the prover does not handle. `Recovers` and
`Fetched` are about routes and requests that pass through any number of routers,
turns and chunks, and `CloseReturned` about a list of flows: each needs induction
over data, for which the installed provers cannot use the library's theorems. TLC
checks the four on the instances of section 3.

## 6. Not modelled, and the plan

In the order of importance:

1. `ContainerMonitor`: app groups (`restartGroup`, `groupRestarting`),
   `restartStaleNAN`, and the second pass at boot; `ContainerLifecycle`:
   `DeleteContainer` and replacement of a container, a group of two members.
2. Two prefixes and two origins in `BabelMesh`; certificate exchange and
   renewal in `localmesh/sync.go`.
3. Chunked upload and head acknowledgement; the session lease pool; interval
   intersection of `timesync` as a pure operator against a reference.
4. `MeshNames`: the window between serving requests and installing the
   provisioning callback.

Left out for good: code whose behaviour is that of something external (sockets,
D-Bus, cameras, audio, kernel networking), cryptography, packet and file
formats, and the clients of the API.

## 7. Running

In this directory: `tlc -config <cfg> <module>` for the runs of `PROJECT.json`,
`tlapm <module>` for the modules of proofs (named `...Proofs`).
