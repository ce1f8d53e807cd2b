------------------------------ MODULE NodeFence ------------------------------
(***************************************************************************)
(* Who takes a node's accelerators out of and back into service: the node  *)
(* loop (runNode), the asynchronous ResourceSlice publisher of the kubelet *)
(* helper, the controller's heartbeat watchdog (FenceStaleAgents) and the  *)
(* uninstall hook (runCleanup).  They share, through the API server, the   *)
(* Node object, the node's ResourceSlices and its NodeTopology.            *)
(*                                                                         *)
(* One node.  What the agent offers is "full" (healthy devices) or "empty";*)
(* an API object that does not exist is "none".  Instead of resource       *)
(* versions every writer has a copy of the Node and a bit that says whether*)
(* the copy is still current.                                              *)
(***************************************************************************)
EXTENDS Naturals

CONSTANT MaxDisturbances  \* bound: failed API calls, foreign writes of the Node,
                          \* expired confirmations, agent and leader stops,
                          \* heartbeats a running agent lets expire, hardware changes

ASSUME BoundIsNatural == MaxDisturbances \in Nat

VARIABLES taint,     \* NodeTaintKey is on the Node
          cond,      \* NodeConditionType: "none", "healthy" or "unhealthy"
          beat,      \* LastHeartbeatTime is within the TTL
          slices,    \* the node's ResourceSlices
          topo,      \* its NodeTopology
          copy,      \* the Node every writer read last
          agent,     \* where the node loop is
          seen,      \* what this cycle observed
          failed,    \* its publication failed
          stopping,  \* the loop runs its shutdown fence
          desired,   \* what the helper's publisher has to store
          dog,       \* where the watchdog sweep is
          listed,    \* the slices it listed still exist under their names
          clean,     \* where the uninstall hook is
          deployed,  \* the DaemonSet ("node") and the Deployment ("controller")
          leader,    \* a controller runs the watchdog
          allocated, \* some ResourceClaim has a Tenstorrent allocation
          hw,        \* the devices are healthy
          torn,      \* history: an update of the Node broke off after its taint, and
                     \* no complete one followed
          spent      \* disturbances so far

nodeVars == <<taint, cond, beat>>
offerVars == <<slices, topo>>
agentVars == <<agent, seen, failed, stopping, desired>>
dogVars == <<dog, listed>>
cleanVars == <<clean, deployed>>
envVars == <<leader, allocated, hw>>
vars == <<nodeVars, offerVars, copy, agentVars, dogVars, cleanVars, envVars, torn, spent>>

Offers == {"none", "empty", "full"}
Writers == {"agent", "watchdog", "cleanup"}
Copy == [current : BOOLEAN, taint : BOOLEAN]
NoCopy == [current |-> FALSE, taint |-> FALSE]

Cycle == {"publish", "confirm", "topology", "get", "taint", "status"}
Sweep == {"idle", "slices", "get", "taint", "status", "delete", "untopology"}
Hook == {"idle", "undeployNode", "undeployController", "wait", "slices", "topology", "get",
         "taint", "status", "done", "failed"}

TypeOK ==
  /\ taint \in BOOLEAN /\ cond \in {"none", "healthy", "unhealthy"} /\ beat \in BOOLEAN
  /\ slices \in Offers /\ topo \in Offers
  /\ copy \in [Writers -> Copy]
  /\ agent \in Cycle \cup {"down", "hung", "observe"}
  /\ seen \in Offers /\ failed \in BOOLEAN /\ stopping \in BOOLEAN /\ desired \in Offers
  /\ dog \in Sweep /\ listed \in BOOLEAN
  /\ clean \in Hook /\ deployed \in SUBSET {"node", "controller"}
  /\ leader \in BOOLEAN /\ allocated \in BOOLEAN /\ hw \in BOOLEAN
  /\ torn \in BOOLEAN /\ spent \in 0..MaxDisturbances

Init ==
  /\ taint = FALSE /\ cond = "none" /\ beat = TRUE
  /\ slices = "none" /\ topo = "none"
  /\ copy = [w \in Writers |-> NoCopy]
  /\ agent = "down" /\ seen = "none" /\ failed = FALSE /\ stopping = FALSE /\ desired = "none"
  /\ dog = "idle" /\ listed = FALSE
  /\ clean = "idle" /\ deployed = {"node", "controller"}
  /\ leader = TRUE /\ allocated = FALSE /\ hw \in BOOLEAN
  /\ torn = FALSE /\ spent = 0

-----------------------------------------------------------------------------
(* The Node object: Get, Update and UpdateStatus with optimistic locking *)

Disturbance ==
  /\ spent < MaxDisturbances
  /\ spent' = spent + 1

Fault == Disturbance /\ UNCHANGED torn

Undisturbed == UNCHANGED <<torn, spent>>

Get(w) ==
  /\ copy' = [copy EXCEPT ![w] = [current |-> TRUE, taint |-> taint]]
  /\ UNCHANGED nodeVars

Forget(w) == copy' = [copy EXCEPT ![w] = NoCopy]

\* w has written or found the taint it wants, and may still write the condition.
Halfway(w) ==
  /\ copy[w].current
  /\ \/ w = "agent" /\ agent = "status"
     \/ w = "watchdog" /\ dog = "status"
     \/ w = "cleanup" /\ clean = "status"

\* The updates of the writers W go no further.
BreakOff(W) == torn' = (torn \/ \E w \in W : Halfway(w))

\* A successful write of w leaves every other copy behind.
Written(w, c) ==
  copy' = [x \in Writers |-> IF x = w THEN c ELSE [copy[x] EXCEPT !.current = FALSE]]

\* Faulty UpdateTaint: the taint is only ever added.
UpdateTaintSticky(w, unsafe) ==
  /\ copy[w].current
  /\ taint' = (taint \/ unsafe)
  /\ Written(w, [current |-> TRUE, taint |-> taint \/ unsafe])
  /\ UNCHANGED <<cond, beat>>

\* Update of the taint; conflicts unless the copy is current.
UpdateTaint(w, unsafe) ==
  /\ copy[w].current
  /\ taint' = unsafe
  /\ Written(w, [current |-> TRUE, taint |-> unsafe])
  /\ UNCHANGED <<cond, beat>>

\* Faulty UpdateStatus: the resource version is not sent.
UpdateStatusUnversioned(w, c) ==
  /\ cond' = c
  /\ beat' = TRUE
  /\ Written(w, NoCopy)
  /\ torn' = FALSE
  /\ UNCHANGED taint

\* Faulty UpdateStatus: an unsafe node is reported with status Unknown.
UpdateStatusUnknown(w, c) ==
  /\ copy[w].current
  /\ cond' = IF c = "unhealthy" THEN "unknown" ELSE c
  /\ beat' = TRUE
  /\ Written(w, NoCopy)
  /\ torn' = FALSE
  /\ UNCHANGED taint

\* UpdateStatus of the condition with its heartbeat.
UpdateStatus(w, c) ==
  /\ copy[w].current
  /\ cond' = c
  /\ beat' = TRUE
  /\ Written(w, NoCopy)
  /\ torn' = FALSE
  /\ UNCHANGED taint

\* The call fails: the copy is out of date, or the API server does not answer.
CallFails(w) ==
  /\ IF copy[w].current THEN Disturbance ELSE UNCHANGED spent
  /\ BreakOff({w})
  /\ Forget(w)
  /\ UNCHANGED nodeVars

-----------------------------------------------------------------------------
(* The node loop *)

\* NewManager, kubelet registration and the first tick.
AgentStart ==
  /\ agent = "down" /\ "node" \in deployed
  /\ agent' = "observe"
  /\ seen' = "none" /\ failed' = FALSE /\ stopping' = FALSE /\ desired' = "none"
  /\ UNCHANGED <<nodeVars, offerVars, copy, dogVars, cleanVars, envVars, torn, spent>>

\* DriverResourcesAt: the eligible healthy devices of the snapshot, or an empty pool.
DriverResources == IF hw THEN "full" ELSE "empty"

\* BuildSnapshot and Monitor, or InventoryFailed, which repeats the last
\* observation while it is fresh and offers nothing afterwards.
Observe ==
  /\ agent = "observe"
  /\ \/ seen' = DriverResources /\ Undisturbed
     \/ seen' \in {"empty", desired} \ {"none"} /\ Fault
  /\ failed' = FALSE
  /\ agent' = "publish"
  /\ UNCHANGED <<nodeVars, offerVars, copy, stopping, desired, dogVars, cleanVars, envVars>>

\* PublishResources hands the pool to the publisher; a failed call skips the wait.
PublishResources ==
  /\ agent = "publish"
  /\ \/ desired' = seen /\ agent' = "confirm" /\ UNCHANGED <<failed, torn, spent>>
     \/ Fault /\ failed' = TRUE /\ agent' = "topology" /\ UNCHANGED desired
  /\ UNCHANGED <<nodeVars, offerVars, copy, seen, stopping, dogVars, cleanVars, envVars>>

\* The helper's goroutine stores what is desired, and stores it again when it is
\* deleted; slices that are created anew have new names.
StoreSlices ==
  /\ agent # "down" /\ desired # "none" /\ slices # desired
  /\ slices' = desired
  /\ listed' = (listed /\ slices # "none")
  /\ UNCHANGED <<nodeVars, topo, copy, agentVars, dog, cleanVars, envVars, torn, spent>>

\* Faulty waitForResourcePublication: an accepted publication counts as stored.
waitForResourcePublicationSkipped ==
  /\ agent = "confirm"
  /\ agent' = "topology"
  /\ UNCHANGED <<nodeVars, offerVars, copy, seen, failed, stopping, desired, dogVars, cleanVars, envVars, torn, spent>>

\* The API server has exactly the slices that were to be published, all of one
\* generation.
ConfirmResourcePublication == slices = desired

\* waitForResourcePublication reads the slices back until they are confirmed, or
\* gives up.
waitForResourcePublication ==
  /\ agent = "confirm"
  /\ \/ ConfirmResourcePublication /\ UNCHANGED <<failed, torn, spent>>
     \/ ~ConfirmResourcePublication /\ Fault /\ failed' = TRUE
  /\ agent' = "topology"
  /\ UNCHANGED <<nodeVars, offerVars, copy, seen, stopping, desired, dogVars, cleanVars, envVars>>

\* topology.PublishNode, and the check of the kubelet registration.
PublishNode ==
  /\ agent = "topology"
  /\ \/ topo' = seen /\ UNCHANGED <<failed, torn, spent>>
     \/ Fault /\ failed' = TRUE /\ topo' \in {topo, seen}
  /\ agent' = "get"
  /\ UNCHANGED <<nodeVars, slices, copy, seen, stopping, desired, dogVars, cleanVars, envVars>>

\* safetyFor counts the devices that are healthy and not quarantined.
NoHealthyDevices == seen = "empty"

\* The safety the loop reports: unsafe without healthy devices, after a failed
\* publication and on shutdown.
AgentUnsafe == stopping \/ failed \/ NoHealthyDevices

NextTick ==
  /\ agent' = IF stopping THEN "down" ELSE "observe"
  /\ desired' = IF stopping THEN "none" ELSE desired
  /\ seen' = "none" /\ failed' = FALSE /\ stopping' = FALSE

\* UpdateNodeSafety in three calls.
SafetyGet ==
  /\ agent = "get"
  /\ \/ Get("agent") /\ agent' = "taint" /\ UNCHANGED <<seen, failed, stopping, desired, torn, spent>>
     \/ Fault /\ NextTick /\ UNCHANGED <<nodeVars, copy>>
  /\ UNCHANGED <<offerVars, dogVars, cleanVars, envVars>>

SafetyTaint ==
  /\ agent = "taint"
  /\ \/ /\ \/ copy["agent"].taint = AgentUnsafe /\ UNCHANGED <<nodeVars, copy>>
           \/ copy["agent"].taint # AgentUnsafe /\ UpdateTaint("agent", AgentUnsafe)
        /\ agent' = "status"
        /\ UNCHANGED <<seen, failed, stopping, desired, torn, spent>>
     \/ copy["agent"].taint # AgentUnsafe /\ CallFails("agent") /\ NextTick
  /\ UNCHANGED <<offerVars, dogVars, cleanVars, envVars>>

SafetyStatus ==
  /\ agent = "status"
  /\ \/ UpdateStatus("agent", IF AgentUnsafe THEN "unhealthy" ELSE "healthy") /\ UNCHANGED spent
     \/ CallFails("agent")
  /\ NextTick
  /\ UNCHANGED <<offerVars, dogVars, cleanVars, envVars>>

Exited ==
  /\ agent' = "down" /\ seen' = "none" /\ failed' = FALSE /\ stopping' = FALSE /\ desired' = "none"
  /\ Forget("agent")

\* The process dies, or the liveness probe kills it when its loop has not made
\* progress within the deadline.
AgentCrash ==
  /\ agent \notin {"down", "hung"}
  /\ Disturbance /\ BreakOff({"agent"})
  /\ Exited
  /\ UNCHANGED <<nodeVars, offerVars, dogVars, cleanVars, envVars>>

\* The loop blocks for good while the helper's publisher runs on.
AgentHang ==
  /\ agent \notin {"down", "hung"}
  /\ Disturbance /\ BreakOff({"agent"})
  /\ agent' = "hung" /\ Forget("agent")
  /\ seen' = "none" /\ failed' = FALSE /\ stopping' = FALSE
  /\ UNCHANGED <<nodeVars, offerVars, desired, dogVars, cleanVars, envVars>>

LivenessKill ==
  /\ agent = "hung"
  /\ Exited
  /\ UNCHANGED <<nodeVars, offerVars, dogVars, cleanVars, envVars, torn, spent>>

\* SIGTERM cancels the calls of the running cycle.  A rolling update (POD_UID)
\* leaves everything to the successor; without it the loop publishes nothing
\* more than an empty pool, which nobody waits for, an empty topology, which may
\* fail, and the taint.
AgentStop(rolling) ==
  /\ agent \notin {"down", "hung"} /\ ~stopping
  /\ IF "node" \in deployed THEN Disturbance ELSE UNCHANGED spent
  /\ BreakOff({"agent"})
  /\ IF rolling THEN Exited /\ UNCHANGED topo
     ELSE /\ agent' = "get" /\ stopping' = TRUE /\ desired' = "empty"
          /\ topo' \in {topo, "empty"}
          /\ Forget("agent")
          /\ seen' = "none" /\ failed' = FALSE
  /\ UNCHANGED <<nodeVars, slices, dogVars, cleanVars, envVars>>

-----------------------------------------------------------------------------
(* FenceStaleAgents *)

\* Faulty Stale: a node the driver has already marked is left alone.
StaleHealthy == cond = "healthy" /\ ~beat

\* The condition exists and its heartbeat is older than the TTL.
Stale == cond # "none" /\ ~beat

WatchdogNodes ==
  /\ leader /\ dog = "idle" /\ Stale
  /\ dog' = "slices"
  /\ UNCHANGED <<nodeVars, offerVars, copy, agentVars, listed, cleanVars, envVars, torn, spent>>

WatchdogSlices ==
  /\ dog = "slices"
  /\ \/ dog' = "get" /\ listed' = (slices # "none") /\ Undisturbed
     \/ Fault /\ dog' = "idle" /\ UNCHANGED listed
  /\ UNCHANGED <<nodeVars, offerVars, copy, agentVars, cleanVars, envVars>>

\* UpdateNodeSafety(Unsafe); its errors are collected and the sweep goes on.
WatchdogGet ==
  /\ dog = "get"
  /\ \/ Get("watchdog") /\ dog' = "taint" /\ Undisturbed
     \/ Fault /\ dog' = "delete" /\ UNCHANGED <<nodeVars, copy>>
  /\ UNCHANGED <<offerVars, agentVars, listed, cleanVars, envVars>>

WatchdogTaint ==
  /\ dog = "taint"
  /\ \/ /\ \/ copy["watchdog"].taint /\ UNCHANGED <<nodeVars, copy>>
           \/ ~copy["watchdog"].taint /\ UpdateTaint("watchdog", TRUE)
        /\ dog' = "status" /\ Undisturbed
     \/ ~copy["watchdog"].taint /\ CallFails("watchdog") /\ dog' = "delete"
  /\ UNCHANGED <<offerVars, agentVars, listed, cleanVars, envVars>>

WatchdogStatus ==
  /\ dog = "status"
  /\ \/ UpdateStatus("watchdog", "unhealthy") /\ UNCHANGED spent
     \/ CallFails("watchdog")
  /\ dog' = "delete"
  /\ UNCHANGED <<offerVars, agentVars, listed, cleanVars, envVars>>

\* The listed slices are deleted by name; what was created since stays.
WatchdogDelete ==
  /\ dog = "delete"
  /\ \/ slices' = (IF listed THEN "none" ELSE slices) /\ Undisturbed
     \/ listed /\ Fault /\ UNCHANGED slices
  /\ listed' = FALSE
  /\ dog' = "untopology"
  /\ UNCHANGED <<nodeVars, topo, copy, agentVars, cleanVars, envVars>>

WatchdogTopology ==
  /\ dog = "untopology"
  /\ \/ topo' = "none" /\ Undisturbed
     \/ topo # "none" /\ Fault /\ UNCHANGED topo
  /\ dog' = "idle"
  /\ UNCHANGED <<nodeVars, slices, copy, agentVars, listed, cleanVars, envVars>>

\* The controller stops or loses its lease in the middle of a sweep; another
\* replica takes over as long as the Deployment exists.
LeaderLost ==
  /\ leader
  /\ IF "controller" \in deployed THEN Disturbance ELSE UNCHANGED spent
  /\ BreakOff({"watchdog"})
  /\ leader' = FALSE /\ dog' = "idle" /\ listed' = FALSE
  /\ Forget("watchdog")
  /\ UNCHANGED <<nodeVars, offerVars, agentVars, cleanVars, allocated, hw>>

LeaderElected ==
  /\ ~leader /\ "controller" \in deployed
  /\ leader' = TRUE
  /\ UNCHANGED <<nodeVars, offerVars, copy, agentVars, dogVars, cleanVars, allocated, hw, torn, spent>>

-----------------------------------------------------------------------------
(* runCleanup *)

CleanupUnchanged == UNCHANGED <<agentVars, dog, envVars>>

\* The guard: no allocated claim (an active workload stands for one).
CleanupCheck ==
  /\ clean = "idle"
  /\ clean' = IF allocated THEN "failed" ELSE "undeployNode"
  /\ UNCHANGED <<nodeVars, offerVars, copy, deployed, listed, torn, spent>> /\ CleanupUnchanged

\* Deletion of the DaemonSet, then of the Deployment.
CleanupUndeploy(kind, here, next) ==
  /\ clean = here
  /\ \/ deployed' = deployed \ {kind} /\ clean' = next /\ Undisturbed
     \/ Fault /\ clean' = "failed" /\ UNCHANGED deployed
  /\ UNCHANGED <<nodeVars, offerVars, copy, listed>> /\ CleanupUnchanged

\* Faulty CleanupWait: nothing waits for the Pods.
CleanupWaitSkipped ==
  /\ clean = "wait"
  /\ clean' = "slices" /\ Undisturbed
  /\ UNCHANGED <<nodeVars, offerVars, copy, deployed, listed>> /\ CleanupUnchanged

\* Every driver Pod is gone, or the wait times out.
CleanupWait ==
  /\ clean = "wait"
  /\ \/ agent = "down" /\ ~leader /\ clean' = "slices" /\ Undisturbed
     \/ Fault /\ clean' = "failed"
  /\ UNCHANGED <<nodeVars, offerVars, copy, deployed, listed>> /\ CleanupUnchanged

CleanupSlices ==
  /\ clean = "slices"
  /\ \/ slices' = "none" /\ listed' = FALSE /\ clean' = "topology" /\ Undisturbed
     \/ Fault /\ clean' = "failed" /\ UNCHANGED <<slices, listed>>
  /\ UNCHANGED <<nodeVars, topo, copy, deployed>> /\ CleanupUnchanged

CleanupTopology ==
  /\ clean = "topology"
  /\ \/ topo' = "none" /\ clean' = "get" /\ Undisturbed
     \/ Fault /\ clean' = "failed" /\ UNCHANGED topo
  /\ UNCHANGED <<nodeVars, slices, copy, deployed, listed>> /\ CleanupUnchanged

\* Nodes with the condition are cleared with ClearNodeSafety.
CleanupGet ==
  /\ clean = "get"
  /\ \/ cond = "none" /\ clean' = "done" /\ UNCHANGED <<nodeVars, copy, torn, spent>>
     \/ cond # "none" /\ Get("cleanup") /\ clean' = "taint" /\ Undisturbed
     \/ Fault /\ clean' = "failed" /\ UNCHANGED <<nodeVars, copy>>
  /\ UNCHANGED <<offerVars, deployed, listed>> /\ CleanupUnchanged

CleanupTaint ==
  /\ clean = "taint"
  /\ \/ /\ \/ ~copy["cleanup"].taint /\ UNCHANGED <<nodeVars, copy>>
           \/ copy["cleanup"].taint /\ UpdateTaint("cleanup", FALSE)
        /\ clean' = "status" /\ Undisturbed
     \/ copy["cleanup"].taint /\ CallFails("cleanup") /\ clean' = "failed"
  /\ UNCHANGED <<offerVars, deployed, listed>> /\ CleanupUnchanged

CleanupStatus ==
  /\ clean = "status"
  /\ \/ /\ copy["cleanup"].current
        /\ cond' = "none" /\ beat' = TRUE
        /\ Written("cleanup", NoCopy)
        /\ torn' = FALSE
        /\ clean' = "done" /\ UNCHANGED <<taint, spent>>
     \/ CallFails("cleanup") /\ clean' = "failed"
  /\ UNCHANGED <<offerVars, deployed, listed>> /\ CleanupUnchanged

-----------------------------------------------------------------------------
(* Time, hardware, scheduler, other writers of the Node *)

\* The TTL passes without a heartbeat; a running agent rarely lets that happen.
Expire ==
  /\ beat /\ cond # "none"
  /\ beat' = FALSE
  /\ IF agent \in {"down", "hung"} THEN Undisturbed ELSE Fault
  /\ UNCHANGED <<taint, cond, offerVars, copy, agentVars, dogVars, cleanVars, envVars>>

ForeignWrite ==
  /\ \E w \in Writers : copy[w].current
  /\ Disturbance /\ BreakOff(Writers)
  /\ copy' = [w \in Writers |-> [copy[w] EXCEPT !.current = FALSE]]
  /\ UNCHANGED <<nodeVars, offerVars, agentVars, dogVars, cleanVars, envVars>>

Flip ==
  /\ Fault
  /\ hw' = ~hw
  /\ UNCHANGED <<nodeVars, offerVars, copy, agentVars, dogVars, cleanVars, leader, allocated>>

\* The scheduler allocates offered devices on a node it may schedule to.
Allocate ==
  /\ ~allocated /\ ~taint /\ slices = "full"
  /\ allocated' = TRUE
  /\ UNCHANGED <<nodeVars, offerVars, copy, agentVars, dogVars, cleanVars, leader, hw, torn, spent>>

Deallocate ==
  /\ allocated
  /\ allocated' = FALSE
  /\ UNCHANGED <<nodeVars, offerVars, copy, agentVars, dogVars, cleanVars, leader, hw, torn, spent>>

-----------------------------------------------------------------------------
AgentStep ==
  \/ Observe \/ PublishResources \/ waitForResourcePublication \/ PublishNode
  \/ SafetyGet \/ SafetyTaint \/ SafetyStatus

WatchdogStep ==
  \/ WatchdogSlices \/ WatchdogGet \/ WatchdogTaint \/ WatchdogStatus
  \/ WatchdogDelete \/ WatchdogTopology

CleanupStep ==
  \/ CleanupUndeploy("node", "undeployNode", "undeployController")
  \/ CleanupUndeploy("controller", "undeployController", "wait")
  \/ CleanupWait \/ CleanupSlices \/ CleanupTopology \/ CleanupGet \/ CleanupTaint \/ CleanupStatus

Next ==
  \/ AgentStart \/ AgentStep \/ StoreSlices \/ AgentCrash \/ AgentHang \/ LivenessKill
  \/ \E rolling \in BOOLEAN : AgentStop(rolling)
  \/ WatchdogNodes \/ WatchdogStep \/ LeaderLost \/ LeaderElected
  \/ CleanupCheck \/ CleanupStep
  \/ Expire \/ ForeignWrite \/ Flip \/ Allocate \/ Deallocate

Spec == Init /\ [][Next]_vars

(***************************************************************************)
(* Running processes take their steps, the publisher retries, a replica    *)
(* takes over a lost lease, the liveness probe kills a hung agent and time *)
(* passes for a heartbeat nobody renews.  An agent that is down need not   *)
(* come back: its node may be lost.  Watchdog sweeps are ticks apart, so   *)
(* that they do not collide with every status update of a running agent.   *)
(***************************************************************************)
Fairness ==
  /\ WF_vars(AgentStep) /\ WF_vars(StoreSlices) /\ WF_vars(LivenessKill)
  /\ WF_vars(WatchdogNodes) /\ WF_vars(WatchdogStep) /\ WF_vars(LeaderElected)
  /\ WF_vars(Expire)
  /\ SF_vars(SafetyStatus /\ copy["agent"].current)

FairSpec == Spec /\ Fairness

-----------------------------------------------------------------------------
(* What fencing promises *)

\* The taint and the condition of the Node, written in two calls each by agent,
\* watchdog and uninstall hook, agree whenever no update is between the two, unless
\* the last update that got anywhere was broken off there, by a failed call, a stop or
\* a foreign write.  Updates that overtake each other never part them, and the next
\* complete update, by whomever, makes good for one that was broken off.
TaintMatchesCondition ==
  ~torn /\ agent # "status" /\ dog # "status" /\ clean # "status" =>
    taint = (cond = "unhealthy")

\* When the loop is about to report the node safe, what the API server offers is
\* what this cycle observed, or nothing at all: neither a slow publisher nor a
\* failed call leaves older capacity behind.
ReportedSafeIsStored ==
  agent \in {"get", "taint", "status"} /\ ~AgentUnsafe =>
    slices \in {seen, "none"} /\ topo \in {seen, "none"}

\* After a successful uninstall the slices, the NodeTopology and the condition are
\* gone and stay gone: no agent, publisher or watchdog is left to write them.  The
\* taint is gone too unless an update was broken off (TaintMatchesCondition; README,
\* section 5).
CleanupLeavesNothing ==
  clean = "done" => slices = "none" /\ topo = "none" /\ cond = "none"

\* The uninstall hook removes the driver only while no claim is allocated.  What the
\* documents promise and runCleanup does not keep: it looks once, at its start, and
\* the scheduler allocates on (README, section 5); no run checks it.
CleanupGuarded == clean \in {"slices", "topology", "get", "taint", "status", "done"} => ~allocated

\* The capacity of an agent that reported once and does not come back is
\* withdrawn: tainted, no slices, no topology, whatever calls fail on the way.
DeadAgentFenced ==
  agent = "down" /\ cond # "none" ~>
    \/ agent # "down" \/ clean # "idle"
    \/ taint /\ slices = "none" /\ topo = "none"

\* A running agent with healthy devices gets its node back into service, also
\* when the watchdog fenced it by mistake or deleted its slices late.
HealthyServed ==
  <>[](agent \notin {"down", "hung"} /\ ~stopping /\ hw) =>
    <>[](~taint /\ cond = "healthy" /\ slices = "full" /\ topo = "full")
=============================================================================
