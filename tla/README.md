# A TLA+ model of the Tenstorrent DRA framework

This directory specifies the core of the repository: the node agent that hands
Tenstorrent devices to Kubernetes claims, the fencing that takes a node's devices
out of service and back, the inventory and topology a node reports, the placement
search, and the controller that places multi-rank workloads on the fabric.  The
modules are translated from the Go code (paths below are relative to the
repository root) and checked with TLC on small instances.  Every safety property
TLC checks is also proved with TLAPS for every value of the constants, some of them
under hypotheses section 4 names; liveness is model-checked only.

`PROJECT.json` maps every definition to the lines it stands for, lists the runs,
one mutated definition per checked property, the hazards and the theorems.

## 1. Inventory

| Component | State it keeps | Operations | Talks to |
|---|---|---|---|
| Lifecycle manager (`src/internal/lifecycle/manager.go`, `state.go`, `cdi.go`, `reset.go`) | `claims.json` (claims, quarantine, known devices), a copy in memory per agent, CDI files | prepare, unprepare, reset, persist | kubelet (calls it), API server (allocations), device files |
| Startup recovery and locking (`recovery.go`) | `agent.lock` | lock and reload, recover a corrupt file, reconcile with allocations, remove orphan CDI files | the other agent during an upgrade, through the lock and the file |
| Hardware janitor (`janitor.go`, `health.go`) | quarantine records | observe a snapshot, fence, sanitize and recover idle devices, react to a failed inventory | node loop in `cmd/tt-dra-driver/main.go` |
| Node fencing and watchdog (`node.go`, `watchdog.go`) | taint, condition and heartbeat of the Node | set safety, fence stale nodes | API server |
| Publication (`src/internal/dra`) | ResourceSlices, DeviceClass | publish, wait until published | API server |
| Device discovery (`src/internal/device`) | none | read sysfs, normalise names | file system |
| Workload controller (`src/internal/controller`) | queue, informer caches, `c.pending`, `c.fabric` | reconcile fabric, reconcile workload, ensure and delete children, update status | API server, scheduler and kubelet through it |
| Placement (`src/internal/placement`) | none | search a complete connected assignment | controller |
| Topology (`src/internal/topology`) | NodeTopology, FabricTopology | publish a node, build the fabric | controller |
| Observability (`src/internal/observability`) | metrics, probes | read only | none of the above |
| Wiring (`src/cmd/tt-dra-driver/main.go`) | none | node loop, leader election, guarded cleanup | all |

### What is hard here

* **Crash between durable steps.**  A prepare writes an intent, resets devices,
  writes a CDI file, writes `Prepared`; a release does the reverse.  An agent may
  die between any two, and the next one has only the file and the API server.
* **A write that fails after it took effect.**  `atomicJSON` renames first and
  syncs the directory after it: its caller may roll memory back while the file is
  already replaced.
* **Two agents.**  A seamless upgrade overlaps two node agents.  Each has its own
  memory; `flock` serialises transactions and `load` merges the file into memory.
* **Stale snapshots.**  The janitor acts on an inventory taken before it got the
  lock; a prepare validates against an owner index built once per batch.
* **Forced deletion.**  A claim can be deallocated, and its device allocated to
  the next claim, while the first release has not run.
* **Lagging caches.**  The controller decides on informer caches; `c.pending`
  bridges the gap between an assignment it wrote and the cache that shows it, and
  is lost on a restart.
* **Reconciliation is many API calls.**  Every call may fail, lose its reply, or
  be overtaken by users, the scheduler, kubelet, or a new leader.
* **Devices change identity and path.**  A device is its hardware UUID in the
  ResourceSlices and a path in CDI files and resets; cards are replaced and
  renumbered while the node is off, and who sees that first varies.
* **Three writers of one Node.**  The agent, the heartbeat watchdog and the
  uninstall hook each write the taint and the condition in two calls, while a
  publisher inside the agent stores ResourceSlices asynchronously.
* **Reports in any order.**  The informer store lists nodes in any order, and
  `BuildFabric` keeps what comes first up to its limits.
* **Liveness by timer.**  Nothing enqueues a waiting workload when a device is
  freed; only the periodic fabric key does.

### What makes each component correct

* Manager: what kubelet was given is recorded (`GrantOwned`), exposed
  (`GrantExposed`), clean (`GrantClean`), exclusive (`PreparedExclusive`) and
  undisturbed while it runs (`RunningUndisturbed`); intents come before effects
  (`IntentRecorded`, `InFlightMarked`); a begun release completes
  (`ReleaseCompletes`).
* Recovery: no used device is freed without a reset (`DirtyFenced`), no CDI file
  outlives its record (`ExposedOwned`), no record comes back (`NoResurrection`).
* Janitor: it never resets a device in use (`RunningUndisturbed`) and brings safe
  idle devices back (`IdleRecovers`).
* Device identity: a grant is for the card the scheduler allocated
  (`GrantedDeviceIsAllocated`), the reset after use reaches the card that was used
  (`UsedStaysFenced`), a replacement is scrubbed before it is offered
  (`ReplacementScrubbed`), and what is allocated is eventually prepared
  (`AllocatedPrepares`).
* All of it together, seen from outside: `ImplementsCustody`.
* Node fencing and publication: taint and condition agree unless the last update was
  broken off halfway (`TaintMatchesCondition`), a node reported safe offers what its
  agent saw (`ReportedSafeIsStored`), a dead agent is fenced (`DeadAgentFenced`), a
  healthy one is served again (`HealthyServed`), an uninstall leaves neither slices nor
  NodeTopology nor condition behind (`CleanupLeavesNothing`).
* Discovery and topology: a reported name stands for one card (`ReportedIsSole`), a
  valid fabric does not depend on the order of reports (`ValidFabricUnordered`), and
  a workload's generation moves exactly with its fabric and ring
  (`RingChangeSeen`, `OtherChangeIgnored`).
* Placement: the search is sound and takes the first solution (`FoundIsFirst`),
  complete (`NoneIsNone`), and free of Go's map order (`StartIrrelevant`).
* Controller: first placements are disjoint (`FirstPlacementsDisjoint`), terminal
  phases are final (`TerminalFinal`), no more workloads than the limit have an
  assignment (`ScaleKept`), an idle controller has made children and
  status agree (`SettledConsistent`), finished workloads are cleaned up
  (`TerminalCleans`), waiting ones placed (`WaitersPlaced`), and running ranks are
  not replanned (`StartedFrozen`, which the code does not keep).

## 2. Modules

| Module | Models |
|---|---|
| `NodeState` | `persistedState` and the pure part of each step on it: `load`, `observeLocked`, `quarantineLocked`, `sanitizeLocked`, `claimFromAllocation`, `reconcileStartup`.  Data and operators, no variables. |
| `Lifecycle` | EXTENDS `NodeState`: the agents of one node, the lock, the file, CDI files, devices, kubelet and claim allocation. |
| `Custody` | abstract specification of what the manager promises of devices: leases, the claim whose state a device carries, devices on record, running claims. |
| `LifecycleCustody` | EXTENDS `Lifecycle`, INSTANCE `Custody`: the refinement mapping and `ImplementsCustody`. |
| `DeviceIdentity` | the manager once more, with paths that move: `observeLocked`, `claimFromAllocation`, `sameClaim`, the release's reset and `reconcileStartup`, against cards that are replaced or renumbered while the node is off. |
| `NodeFence` | the node loop (`runNode`), the kubelet helper's publisher, the watchdog and the uninstall hook on one Node, its ResourceSlices and its NodeTopology. |
| `Inventory` | operators: `StableID`, `Health`, `ChipSeries`, `eligibility`, `markDuplicateIdentities`, `PublishNode`. |
| `Fabric` | operators: `BuildFabric`, `WorkloadGeneration`, `connected`. |
| `Placement` | EXTENDS `Inventory` and `Fabric`: nodes report, the fabric is built, `SolveContext` searches step by step and its result is recorded. |
| `Controller` | the workload controller, its queue and caches, the API objects it acts on, and the users, scheduler and kubelet that act on them. |
| `MCLifecycle`, `MCController`, `MCPlacement` | instances for TLC: symmetry sets, the disturbances of each run, devices, links, requests. |
| `LifecycleProofs` | types, in-flight marks, ownership and exposure of `Lifecycle`, and what every step may change. |
| `SerialProofs` | EXTENDS `LifecycleProofs`: with one agent at a time, exclusiveness, cleanness, fencing, write-ahead intents, CDI files, final releases. |
| `CustodyRefinementProofs` | EXTENDS `SerialProofs` and `LifecycleCustody`: running claims are undisturbed, `Lifecycle` implements `Custody`. |
| `CustodyProofs` | what `Custody` implies for the users of devices. |
| `DeviceIdentityProofs` | every safety property of `DeviceIdentity`. |
| `NodeFenceProofs` | every safety property of `NodeFence`. |
| `PlacementProofs` | every property of `Inventory`, `Fabric` and `Placement`. |
| `ControllerProofs` | types, final phases, the limit on workloads, disjoint first placements and settled children of `Controller`. |

Definitions whose name ends the way a bug would be described
(`SameOwner`, `backtrackForgets`, `CleanupWaitSkipped`, ...) are mutated forms of the
definition below them.  No specification uses them; each is substituted for its
original to show that the property it is paired with in `PROJECT.json` fails.

### `Lifecycle` and the code

A transaction is everything between `lockAndReload` and `unlockState`.  `holder`
is the agent that has the lock, `pc` its place and `job` its local variables.
Each step has at most one durable effect, so that `Crash` can separate any two.

| Actions | Code |
|---|---|
| `PrepareResourceClaims`, `RefreshFailed`, `PrepareReply` | `Manager.PrepareResourceClaims` |
| `PrepareRejected`, `PrepareRepeated`, `PrepareResumed`, `PrepareIntent`, `PrepareSanitize`, `PrepareVerify`, `PrepareExpose`, `PrepareCommit` | `Manager.prepareOne`, top to bottom |
| `UnprepareResourceClaims`, `UnprepareUnknown` .. `UnprepareForget`, `UnprepareReply` | `Manager.UnprepareResourceClaims`, top to bottom |
| `Scan`, `Monitor`, `MonitorUnreadable`, `MonitorRecover`, `MonitorPersist` | node loop, `Manager.Monitor`, `observeLocked` |
| `InventoryFailed`, `SnapshotStats` | the methods of that name |
| `NewManager`, `RecoverRename`, `RecoverFence`, `Reconcile`, `removeOrphanCDI`, `StartupPersist` | `NewManager`, `recoverCorruptState`, `reconcileStartup`, `removeOrphanCDI` |
| `Exit`, `Crash` | `Manager.Close`, death of the process |
| `Allocate` .. `Corrupt` | scheduler, kubelet, hardware, file system (external) |

A durable write has three outcomes (`Writes`): it succeeds, fails before the
rename (`early`), or fails after it (`late`).  The second and third cost one unit
of `MaxFaults`.  A batch of claims is worked off in any order, and repeats of a
call that succeeded are allowed, as kubelet does both.

Abstractions.

* A device is its DRA name and keeps its path.  `gone` is "not in the inventory, or
  without a usable character device", `sick` is any other non-empty
  `deviceUnsafeReason`; a device first seen without a character device counts as
  not seen.
* Quarantine reasons are reduced to the `AwaitingHealth` bit; a claim's devices
  to their names and whether every path was known (`placed`).
* Versions 1 to 3 of the state file are not migrated.
* `user[d]` is a history variable: the last claim whose containers used `d`
  since its last reset.  It is what "clean" means and no code reads it.

### `Custody` and `Lifecycle`

`Custody` has neither agents nor files.  A claim's `lease` is what prepare returned
to kubelet (`grant`), a device's `tenant` is `user`, and `withheld` is what the state
file owns or quarantines.  It allows six kinds of step: the record changes (a
device leaves it only clean and in nobody's hands), claims acquire recorded
devices that carry nobody else's state, claims surrender, a device is reset while
in nobody's hands, containers start, containers stop.  `ImplementsCustody` is
checked without forced deletion, see section 5.

### `DeviceIdentity` and the code

`at` is where every plugged-in card is; `Rewire` changes it only while the node is
off (`Stop(TRUE)` is a reboot, `Stop(FALSE)` a crash of the agent).  `Monitor` is a tick
of the node loop with the publication that follows it; `PrepareAnswered`,
`PrepareIntent`, `PrepareReset`, `PrepareVerify` are `prepareOne`; `UnprepareIntent` and
`UnprepareScrub` the release; `NewManager` is `reconcileStartup` with the owner and
path it merges.  `PriorPath` is the order in which `observeLocked` walks the devices
and overwrites `Known` as it goes.

Abstractions: one agent, one device per claim, present devices are healthy, writes
succeed; failing writes, health and overlap are in `Lifecycle`.  A reset may fail.
`unscrubbed` is a history variable: cards on a path known for another card that
were not reset since.  An intent that finds its mark set already (`Preparing`,
`Releasing`) writes nothing, so what that call observed is in memory only until its
next write.

### `NodeFence` and the code

| Actions | Code |
|---|---|
| `AgentStart`, `Observe`, `PublishResources`, `waitForResourcePublication`, `PublishNode`, `SafetyGet`, `SafetyTaint`, `SafetyStatus` | one cycle of `runNode`: observe, publish, confirm, topology, `UpdateNodeSafety` |
| `StoreSlices` | the publisher goroutine of the kubelet helper (external) |
| `AgentStop`, `AgentCrash`, `AgentHang`, `LivenessKill` | shutdown fence, death, a stuck loop and its probe |
| `WatchdogNodes` .. `WatchdogTopology` | `FenceStaleAgents` |
| `CleanupCheck` .. `CleanupStatus` | `runCleanup` |
| `LeaderLost`, `LeaderElected` | leader election (external) |
| `Expire`, `ForeignWrite`, `Flip`, `Allocate`, `Deallocate` | time, other writers of the Node, hardware, scheduler (external) |

A writer of the Node holds a copy and a bit that says whether the copy is current;
an `Update` with an old copy conflicts, and a successful one makes the other
copies old.  That is what resource versions do.

Abstractions: one node; an offer is `full`, `empty` or absent; a heartbeat is fresh or
expired.  Failed calls, foreign writes, expired confirmations, stops, heartbeats a
running agent lets expire and hardware changes are charged to `MaxDisturbances`.
`torn` is a history variable: an update was broken off between taint and condition (its
call failed, its process stopped, or a foreign write made its copy old) and no complete
one followed.  The FabricTopology, which the uninstall hook deletes with the
NodeTopologies (`main.go:204`), belongs to no node and is left out.
`CleanupLeavesNothing` does not speak of the taint: section 5 says when it stays.

### `Inventory`, `Fabric`, `Placement` and the code

A raw observation has the fields that decide eligibility and identity; UUIDs, node
names and endpoints are numbers, so that the code's sorting is their order.  The
hash of a list of endpoints is the set of those endpoints.  A link is one that is
up and names its remote end.  `sort.Slice` is not stable, so a snapshot is sorted
into any order that respects the identities.  The loops of `BuildFabric` are stated
over positions: which of the reported devices is kept depends on those before it.
Its errors are reduced to the fabric being valid or not.

`NodeReports` is a node's next NodeTopology, fresh, stale or withdrawn;
`reconcileFabric` merges the reports in any order of the store; `SolveContext` starts a
search that `chooseRank`, `visit`, `exhausted`, `backtrack` and `notFound` carry out
one recursion step at a time, with `Cancel` for the context; `record` and
`leavePending` end it.  The search sees one fabric from start to end, as the code
passes it by value.  `connected` is reachability along links from a start that Go's
map order chooses; `Divided` is the reference it is compared with.

### `Controller` and the code

`Take` and the branch conditions are `processNext`, `reconcileWorkloadKey` and
`reconcileWorkload`: one action per branch, in the order of the code's early
returns (`NotFound`, `ScaleExceeded`, `InvalidSpec`, `TerminalCleanup`,
`ReservedDegraded`, `ReservedReplan`, `UnschedulableReplan`, `Finished`,
`ChangedDegraded`, `ChangedReplan`, `Keep`, `FabricInvalid`, `PlacementError`,
`Unsatisfied`, `Place`).  A branch reads the caches once and leaves the list of
API calls it makes in `job.todo`; `DeletePod`, `DeleteClaim`, `ensureClaim`,
`ensurePod`, `updateWorkloadStatus` and `SetPending` perform them one at a time.
`updateWorkloadStatus` re-reads the workload from the API server, as the code
does, writes nothing over another terminal phase, and fails when it is gone.

Abstractions.

* Every rank asks for one device, every device is on a node of its own and all
  endpoints are connected.  `SolveContext` is the first solution in the order the
  search tries them; a placement error costs a fault.
* Each kind of object has one informer cache; a watch delivers all that is
  outstanding of its kind.  A restart begins with fresh caches, an empty
  `pending`, the zero fabric and every key queued.
* A workload is not re-created under the same name.  A spec is a token with a
  validity; conditions and `observedGeneration` are left out.
* The fabric is a generation with two contents and a validity flag.  Decode errors
  of objects the CRD schema validates are not modelled.
* Scheduling and starting a Pod is one step; a claim is deallocated in the step
  that ends its Pod.
* `FabricTimer` may fire whenever the fabric key is not queued.
* `Budgets` is a set of functions from `Disturbances` (faults, restarts, edits, fabric
  changes, ordinary claims, unschedulable Pods, starts) to numbers.  What an execution
  has spent must at every step fit into one of them.  One run so covers several pairs
  of disturbances without their product.

## 3. Runs

| Run | Instance | Properties |
|---|---|---|
| `lifecycle_forced` | 1 agent, 2 claims, 1 device, forced deletion, 1 fault, 1 crash, 1 loss or corruption of the state file, fairness | `TypeOK`, `IntentRecorded`, `GrantOwned`, `ExposedOwned`, `GrantClean`, `PreparedExclusive`, `GrantExposed`, `DirtyFenced`, `NoResurrection`, `ReleaseCompletes`, `IdleRecovers` |
| `lifecycle_serial` | 1 agent, 2 claims, 2 devices, 1 crash, 1 hardware change | `RunningUndisturbed`, `InFlightMarked`, `ImplementsCustody` |
| `device_identity` | 2 claims, 2 cards, 2 paths, 1 rewiring, 1 restart, 1 failed reset, fairness | `TypeOK`, `GrantedDeviceIsAllocated`, `UsedStaysFenced`, `ReplacementScrubbed`, `AllocatedPrepares` |
| `node_fence` | 1 node, any 2 disturbances, fairness | `TypeOK`, `TaintMatchesCondition`, `ReportedSafeIsStored`, `CleanupLeavesNothing`, `DeadAgentFenced`, `HealthyServed` |
| `placement` | 3 nodes, 4 endpoints, each end of 3 links up or down, 2 fabrics and rings, 10 requests, 1 change | `TypeOK`, `ReportedIsSole`, `FoundIsFirst`, `NoneIsNone`, `StartIrrelevant`, `ValidFabricUnordered`, `RingChangeSeen`, `OtherChangeIgnored` |
| `controller_reserve` | 2 workloads, 2 devices, 1 fault and 1 edit or deletion, or 1 start | `TypeOK`, `FirstPlacementsDisjoint`, `TerminalFinal` |
| `controller_settle` | 1 workload of 2 ranks, 3 devices, four pairs out of fabric change, ordinary claim, restart, start, or 1 fault or lost reply | `SettledConsistent` |
| `controller_scale` | 2 workloads and a limit of 1, 2 devices, 1 edit or deletion besides 1 fault or lost reply, 1 restart, or 1 unschedulable Pod | `ScaleKept` |
| `controller_live` | 1 workload, 1 device, two out of 1 ordinary claim, 1 start, 1 fault or lost reply, fairness | `TerminalCleans`, `WaitersPlaced` |
| `started_replanned` | 1 workload of 2 ranks, 1 unschedulable Pod, 1 start | `StartedFrozen` fails |
| `hot_replacement` | 1 claim, 2 cards, 1 path, 1 rewiring, 1 restart, fairness | `ReplacementPrepares` fails |
| `overlap_disturbs` | 2 agents, 2 claims, 2 devices, nothing fails | `RunningUndisturbed` fails |

**Why the bounds are enough to be interesting.**  Two claims and one device is the
smallest instance in which a device passes from one user to the next; two devices
add batches and claims of which one device fails.  One fault and one crash allow
every pair "something failed, then the agent died", which is where memory and
file part.  Two cards and two paths are what a swap, a replacement and a renumbering
need.  Two disturbances of a node are, for example, a dead agent and a failed call of
the watchdog that fences it, or a heartbeat that expires and a conflicting write.
Four endpoints on two nodes have all shapes the search distinguishes (one node, two
nodes, linked or not, one direction only), and the limits 2, 4 and 2 put them within
reach of every error of `BuildFabric`.  For the controller two workloads are needed for
a race over a device and for the scale limit, two ranks for partial children; the edit
in `controller_reserve` is for `TerminalFinal`, as `FirstPlacementsDisjoint` speaks of
executions without edits.  What
the bounds leave out the theorems of section 4 cover for the safety properties, each
under the hypotheses stated there; what two overlapping agents may do to the others is
said in section 5.

The bounds on disturbances limit how often the environment misbehaves, never how
often the code runs.  Where a property is checked without some disturbance, it fails
with it, and section 5 says how: `FirstPlacementsDisjoint` with lost replies,
`PreparedExclusive`, `ExposedOwned`, `IntentRecorded`, `RunningUndisturbed` and
`NoResurrection` with two agents,
`DirtyFenced`, `GrantClean` and `NoResurrection` after a corruption, `ImplementsCustody`
with forced deletion, `SettledConsistent` above the scale limit or with invalid specs.

**Deadlock** is checked in every run but `node_fence`: a system that was uninstalled
has stopped.

### Fairness

`Lifecycle!FairSpec`: a transaction that has the lock goes on (it blocks on
nothing in the model); a stopped agent is restarted by its DaemonSet; the node
loop scans on every tick (weak fairness); `Monitor` and kubelet's retries of an
unprepare get the lock infinitely often if it is free infinitely often (strong
fairness: both the mutex and `flock` serve their waiters).  Nothing is assumed of
pods, of the scheduler or of prepares.

`DeviceIdentity!FairSpec`: a stopped agent is restarted and a transaction runs on
(weak fairness); the loop's `Monitor` and kubelet's retries of a prepare get their
turn between other transactions (strong fairness, as above).  Nothing is assumed
of the scheduler, of pods or of releases.

`NodeFence!FairSpec`: running processes take their steps, the publisher retries, the
liveness probe kills a stuck agent, a replica takes over a lost lease, and time
passes for a heartbeat nobody renews (weak fairness).  An agent that is down need
not come back: its node may be lost.  Strong fairness of a `SafetyStatus` with a
current copy says that the agent is not for ever overtaken between its read and
its write; watchdog sweeps are ticks apart.

`Controller!FairSpec`: the worker takes the next step of the reconciliation it
is in; a key that is queued again and again is reconciled (strong fairness: the
work queue is first in, first out); watches deliver; the `AddAfter` timer fires.
Nothing is assumed of users, the scheduler or kubelet.  The faults of these runs
are bounded, which stands for "eventually calls succeed".

## 4. Proofs

The theorems hold for every value of the constants: sets of agents, claims, devices,
cards, paths and workloads of any size, any numbers of faults, crashes and other
disturbances.  What they assume of the constants is stated as `ASSUME` in the modules
(a "none" value is no member of its set, bounds are natural numbers, names are
numbers where the code sorts them) or as a hypothesis of the theorem.

### The node agent

| Theorem | Shows | Hypothesis |
|---|---|---|
| `TypeCorrect` | `TypeOK` | |
| `InFlightAlwaysMarked` | `InFlightMarked` | |
| `GrantAlwaysOwned`, `GrantAlwaysExposed` | `GrantOwned`, `GrantExposed` | |
| `PreparedAlwaysExclusive`, `GrantAlwaysClean`, `DirtyAlwaysFenced`, `ExposedAlwaysOwned`, `IntentAlwaysRecorded`, `ReleasedStaysReleased` | `PreparedExclusive`, `GrantClean`, `DirtyFenced`, `ExposedOwned`, `IntentRecorded`, `NoResurrection` | `OneAgent` |
| `RunningAlwaysUndisturbed` | `RunningUndisturbed` while nothing corrupted the file | `OneAgent`, no forced deletion |
| `LifecycleImplementsCustody` | `ImplementsCustody` | `OneAgent`, no forced deletion, no corruption |
| `CustodySeparates` | `Custody!Separation` | |

`OneAgent` says that `Agents` has at most one member, which may be restarted and crash
any number of times.  Two agents overlap only during an upgrade, and then the code
does not keep `RunningUndisturbed` (`overlap_disturbs`), `PreparedExclusive`,
`ExposedOwned`, `IntentRecorded` and `NoResurrection` (section 5).  For `GrantClean` and
`DirtyFenced` no instance with two agents refutes them, and no proof covers it.

* **Types** (`LifecycleProofs`).  `TypeOK` alone is not inductive: a step of a
  transaction reads `mem[holder]` and `job.cur`.  `TypeInv` adds `LockHeld` (someone
  holds the lock while `pc` is not idle) and `CurrentClaim` (the claim in hand is a
  claim).
* **In flight** (`LifecycleProofs`), with any faults, crashes, corruptions and overlaps.
  `MarkInv` adds `StoreEmpty` (no file, no records), `CurrentTodo` (the claim in hand is
  still to be done) and `Agreement`: for every claim the transaction still has to work
  on, `Prepared` on disk implies `Prepared` in memory.  `Agreement` is the heart: it
  holds after a reload because the file wins, and with it a prepare that goes past
  `PrepareRepeated`, or a release that finds `Releasing` in memory and does not write it
  again, knows that the file does not say `Prepared` either.
* **Ownership** (`LifecycleProofs`).  `OwnInv`, kept while no corruption happened: the file
  is readable (`Clean`); every grant is recorded in the file (`GrantStored`) and in
  the memory of the agent that holds the lock (`GrantHeld`), so that whatever it writes
  keeps the grant; a release works only on claims kubelet holds no grant for
  (`ReleaseRevoked`); and what a prepare will return is recorded before it returns
  (`DoneRecorded`, `CurrentRecorded`).
* **Exposure** (`LifecycleProofs`).  `JobInv`: which claims of a batch are done, and that the
  CDI file of a claim done or granted exists.  The second half of the module states, as
  one lemma per family of actions, what each kind of step may change (`PrepareEffect`,
  `UnprepareEffect`, `OtherEffect`, `CallEffect`): the later proofs go over a dozen
  effects and not over forty actions.
* **One agent** (`SerialProofs`).  `Views` are the file and the memories.  `ExclusiveInv`:
  of all views together, two claims that are live share no device, and the owner index
  of a batch is right about the devices it lists.  Both views are needed, as a write
  may fail before or after it took effect and memory then differs from the file in
  either direction.  `CleanInv` on top of it: a device prepared in any view carries no
  other claim's state, one that awaits health was reset, one that carries state is owned
  or quarantined in the file and in the running transaction, and the janitor recovers
  only devices no claim holds.  `RecordedInv`: what memory knows is on file or still held
  by kubelet, CDI files have a record, startup lists every file it will keep.
* **Custody** (`CustodyRefinementProofs`).  Without forced deletion a record names what is
  allocated (`Allocated`), and owned records share no device (`Apart`), so the devices
  a release resets are nobody else's.  `CustodyInv` is `SerialInv` with this and the
  running claims.  The refinement is then proved effect by effect: `CustodyEffect` says
  what an effect does to leases, tenants and the record, and every case is one of the
  six steps of `Custody` or a stutter.
* **`CustodySeparates`** (`CustodyProofs`): two claims never have a device at once, a
  claim's devices carry nobody else's state, and what is in use or carries state is on
  record.  The three parts of `Separation` need each other (an acquisition is exclusive
  because what it takes is on record, and stays on record because a device leaves it
  only clean).  With `LifecycleImplementsCustody` this is what the manager owes the users
  of its devices.

### Identity, fencing

* **`IdentityTypeCorrect`, `GrantedAlwaysAllocated`, `UsedAlwaysFenced`,
  `ReplacementAlwaysScrubbed`** (`DeviceIdentityProofs`), without hypothesis.
  `IdentityInv`: records name devices; between calls memory is what is on file, and during
  a call its claims are, while memory may quarantine more than the file (a resumed intent
  observed and did not write) or one device less (the preflight reset lifted it)
  (`Stored`); a prepare works on
  a record for the path the device still has, of a device no other claim holds
  (`PreparingInv`); a grant is recorded for that path and its CDI file names it
  (`GrantInv`).  `ReplacementScrubbed` is an action property: `Displacing` catches a card on
  a known path in the observation that would publish it.
* **`FenceTypeCorrect`, `ReportedSafeAlwaysStored`, `CleanupAlwaysLeavesNothing`,
  `TaintAlwaysMatches`** (`NodeFenceProofs`), for any number of disturbances.  The publisher
  stores what is desired at any time, also after the watchdog deleted the slices, so
  `ReportInv` says that from the confirmation on what is desired is what this cycle
  observed.  `UninstallInv` follows the hook: nothing deployed, then nobody running, then
  the objects gone one after the other.  `MatchInv`: a
  current copy has the taint the Node has (`CopiesRight`); a writer halfway through its
  update finds the taint it wants (`WritersRight`); and whenever taint and condition differ,
  an update was broken off or some writer with a current copy is halfway (`Matching`), so
  it will write the condition that goes with the taint.

### Topology and placement

`PlacementProofs` proves all eight properties of `Placement`, for every set of nodes,
lists of observations, limits, requests and reservations.  `PlacementInv` has three
parts: what reports look like, what a fabric looks like, and where the search is.

* **`ReportedAlwaysSole`**: equal identities are neighbours in every sorted order, so the
  comparison of neighbours finds all of them.
* **`ValidFabricAlwaysUnordered`**: if one order of the reports refuses nothing, no order
  does, so the endpoints are the same; the checks on the graph do not mention order.
* **`SearchStartIrrelevant`**: a valid fabric's links go both ways, so what the search does
  not reach is closed under links as well, and an endpoint outside would confine its own
  search to the outside.  No induction over paths is needed, because what is seen is
  defined as the least closed set.
* **`NoneAlwaysNone`, `FoundAlwaysFirst`**: `SearchInv` says that what is selected is exactly
  what the choices made take (`Prefix`), that of every open rank only choices later in the
  order are left, and that every solution is still to come (`NothingLost`): at some rank
  it goes on with a choice not yet visited.  When no rank is open there is none; when the
  search ends with an assignment, every other solution comes later.
* **`RingChangeAlwaysSeen`, `OtherChangeAlwaysIgnored`**: a recorded assignment lies in one
  fabric and ring (`PlacedInv`), and what its generation hashes contains that ring, and
  nothing else if the workload asked for neither or both.

### Controller

* **`ControllerTypeCorrect`**: the strengthening is that children are only made for an
  assigned workload.
* **`TerminalAlwaysFinal`**: an action property, step by step.  Only
  `updateWorkloadStatus` writes a status, and it looks at the one the API server has.
* **`FirstPlacementsAlwaysDisjoint`**, without lost replies.  What is reserved for a workload
  (`Solid`) is what `c.pending` has or what a finishing workload gave back there and will
  record with its terminal phase.  `PlanInv`: what the API server and the cache have
  recorded is what is reserved, or the placement about to be; and what is reserved is
  the lexicographically first placement that avoids the others' (`FirstInv`).  The last
  part is what makes the invariant inductive: a workload whose cache does not show its
  assignment yet is placed again, and gets the same devices only because its first
  placement is still the first one.  Orders and their minima come from the library's
  theorem on well-founded lexicographic orders.
* **`ScaleAlwaysKept`**, for a finite set of workloads.  The limit is tested on the cache,
  and what it is to bound is recorded at the API server.  `ScaleInv` relates the two: every
  existing workload that has an assignment recorded, cached or about to be recorded
  (`AllCharged`) is in the cache, there are at most `MaxWorkloads` of them, and the cache
  shows no workload that was not created.  A placement that passes the test adds one
  workload of the cache the test counted; every other status repeats the assignment the
  cache shows, or drops it.
* **`SettledAlwaysConsistent`**, with lost replies, for at most `MaxWorkloads` workloads and
  valid specs: above the limit, and for an invalid spec, the code returns before it
  looks at the children (section 5).  `SettleInv`: a cache lags only behind objects with
  outstanding events, and a workload that neither the queue nor an event names (`Covered`)
  is as its status says once the reconciliation under way is through (`Rest`): every child
  not there yet is still to be ensured for the recorded assignment, every child of a
  finished workload still to be deleted, or the reconciliation will write a status that
  differs, which is news.  Every other change covers its workload again.

### Only model-checked

`ReleaseCompletes`, `IdleRecovers`, `AllocatedPrepares`, `DeadAgentFenced`, `HealthyServed`,
`TerminalCleans` and `WaitersPlaced` are liveness under fairness, which rests on ENABLED
and is outside what the proof system does.  The sum over the ranks in `withinLimits` is
a fold, whose value for every input would need induction over data; no theorem depends
on it.

## 5. Where code and documents disagree

Shown by runs, with quotations in `PROJECT.json`:

1. `started_replanned`: `observedPhase` stops at the first unschedulable rank and
   does not see a later one that runs.
2. `hot_replacement`: a card that replaced another one on its path is quarantined
   again by every observation, as `Known` never forgets the card that is gone
   (`janitor.go:120`): the loop recovers it and offers it, but a prepare observes once
   more after its reset, and a claim allocated to the card is never prepared.
3. `overlap_disturbs`: `json.Unmarshal` into live maps (`state.go:40`) keeps entries
   another agent deleted, and the next write brings them back; a later release of such
   a claim resets a device another claim runs on.

Found by checking a property with a constant the runs do not use; the property is
in the module and fails there:

* `NoResurrection` and `PreparedExclusive` with two agents, with a fault besides also
  `ExposedOwned` and `IntentRecorded` (the last with a crash, too), for the reason of
  `overlap_disturbs`: an agent resumes a claim it remembers and the other one released;
  `docs/prod/PRODUCTION.md:74-76` rules out "stale in-memory ownership writes".
  `GrantOwned`, `GrantExposed` and `InFlightMarked` survive any overlap (section 4).
* `DirtyFenced`, and with it `GrantClean`, with one corruption.  `recoverCorruptState`
  renames the corrupt file (`recovery.go:76`) before it writes the quarantine; a crash in
  between starts a fresh, unfenced node (`docs/prod/PRODUCTION.md:67-68`).
* `CleanupGuarded` in `NodeFence`.  `runCleanup` looks for allocations once
  (`main.go:128`) and the scheduler goes on allocating; the comment at
  `main.go:101-103` and `docs/prod/OPERATIONS.md:275-276` promise the guard.
* `PathChangeScrubbed` in `DeviceIdentity`.  A known card is renumbered, a new card
  takes its old path, and a call of kubelet sees them before the node loop: the new
  card is published without a reset (`docs/prod/PRODUCTION.md:32-35`).
* `ImplementsCustody` with forced deletion.  Recovery gives a device to a second
  claim while the record of the first still names it, and the release of one resets
  the device in the hands of the other.
* `FirstPlacementsDisjoint` with lost replies, see `controller.go:431-434` below, and with
  two faults and a started Pod: a placement error on a stale cache overwrites a recorded
  assignment, the cache then shows the older one, `Finished` drops its reservation and
  fails to delete a child, and the retry keeps the assignment and records it again
  while another workload is placed on its device.
* `SettledConsistent` above the scale limit and with an invalid spec: a finished workload
  is then only ever marked `Degraded` or `Failed`, see `controller.go:285` and `:333-337`
  below, and its children stay.

Seen while modelling, described here only:

* `recovery.go:110-115` records a live allocation as `Recovered` without asking
  whether another record still holds the device, so after a forced deletion one
  device can have two owners in `claims.json`; `test/vm/assert_safety.py:41-44` and
  `docs/prod/CERTIFICATION.md:40-41` call that a failure.  `PreparedExclusive` says what
  does hold: at most one of them is `Preparing` or `Prepared`.
* `controller.go:376` compares with the zero fabric when a workload key is handled
  before the fabric key after a restart, and replans an unstarted assignment
  though nothing changed (`docs/prod/PRODUCTION.md:160-162`).
* `controller.go:285` counts finished workloads against the limit
  `docs/prod/PRODUCTION.md:165-166` puts on active ones.
* `controller.go:333-337` marks a workload `Failed` for an invalid spec before the
  branch that deletes children and drops the reservation
  (`docs/prod/PRODUCTION.md:162-163`).
* `controller.go:296-301, 430`: a replanned workload whose cache still shows the
  old assignment can write it back while another workload already has the device.
* `controller.go:431-434`: when the reply of the assignment's status update is lost,
  `c.pending` is not set, and until the watch delivers another workload may be
  given the same device.
* `janitor.go:150-156` lifts a quarantine on the snapshot taken before the reset.
* An agent that stops between the two writes of its first safety update leaves a
  taint without a condition, and the uninstall hook clears only Nodes that have the
  condition (`main.go:212-224`): the taint stays.
* An agent that dies before its first condition has no heartbeat to expire and is
  never fenced (`watchdog.go:18-20`), though its slices may be published.
* At shutdown the empty publication is handed to the asynchronous publisher and not
  awaited (`main.go:507`).
* A request that names only a ring, or only a fabric, is hashed over the endpoints
  of that name in all fabrics or rings, so a change elsewhere replans it
  (`topology.go:169`, `docs/prod/PRODUCTION.md:168-170`); `OtherChangeIgnored` leaves
  these requests out.
* What an invalid fabric contains, and so its generation, depends on the order of
  the informer store; `topology.go:74` calls `BuildFabric` deterministic.
  `ValidFabricUnordered` says what does hold.
* A `Recovered` claim that kubelet never prepares nor unprepares keeps its device.

## 6. Plan

Done: all modules of section 2, every component modelled as far as section 7 says, and
every safety property of the runs proved.

Next, in this order:

1. `GrantClean` and `DirtyFenced` for any number of agents: no instance with two of
   them refutes either, so `OneAgent` may be more than they need.
2. An abstract specification of the reservations (`c.pending`, caches and the API server
   as one map), implemented by `Controller` while no reply is lost.
3. `TerminalCleans` as a safety property: which steps can make a finished workload's
   children come back, and that each of them leaves it covered (`Covered`).
4. The handshake of the node's slices between `NodeFence` and `Lifecycle`: that what is
   published is what the janitor left unfenced.

## 7. Not modelled

* Reading and parsing of sysfs (`src/internal/device/filesystem.go`, the parsers of
  `normalize.go`): sequential text handling; its results are the raw observations of
  `Inventory`.
* Metrics and HTTP probes (`src/internal/observability`): they only read, and what
  the liveness probe does is `LivenessKill`.
* Flags, clients and Events of `main.go`, the names of child objects, and decode
  errors of objects the CRD schema validates.
* How devices are split over ResourceSlices and which attributes they carry
  (`src/internal/dra/resourceslice.go`): an offer is whole in the model.
* Migration of state files of versions 1 to 3.
* Leader election and the kubelet plugin helper, libraries outside the repository,
  beyond what the code relies on (`LeaderLost`, `Restart`, `StoreSlices`).
* Helm charts and test scripts.
