----------------------------- MODULE Controller -----------------------------
(***************************************************************************)
(* The workload controller (src/src/internal/controller): one leader that  *)
(* works off a queue of workload keys and the fabric key, reads informer   *)
(* caches that lag behind the API server, keeps a map of the assignments   *)
(* it made itself, and talks to the API server one call at a time.         *)
(*                                                                         *)
(* A reconciliation reads the caches once, in the action that takes its    *)
(* key off the queue, and then performs the API calls of the branch it     *)
(* took, one step each.  Between two calls every watch may deliver, the    *)
(* scheduler and kubelet may move Pods, users may edit, the call may fail  *)
(* or lose its reply, and leadership may move.                             *)
(*                                                                         *)
(* Every rank asks for one device and every device is on a node of its     *)
(* own, so the device of a child stands for its node selector as well.     *)
(* Workloads are created once and not re-created under the same name.      *)
(***************************************************************************)
EXTENDS Integers, Sequences, FiniteSets

CONSTANTS Workloads,     \* workload keys
          Devices,       \* endpoints of the fabric, in the order placement tries them
          NumRanks,      \* ranks of every workload
          Specs,         \* what a workload spec may be
          ValidSpecs,    \* the specs validateWorkload accepts
          FabricKey,     \* fabricQueueKey
          MaxWorkloads,  \* controller.MaxWorkloads
          LostReplies,   \* may a call be applied and still return an error?
          Budgets        \* bound: the disturbances that may happen together, see Disturbances

ASSUME KeysDiffer == FabricKey \notin Workloads
ASSUME DevicesOrdered == Devices \subseteq Nat
ASSUME RanksPositive == NumRanks \in Nat \ {0}
ASSUME SpecsValid == ValidSpecs \subseteq Specs
ASSUME LostRepliesIsBoolean == LostReplies \in BOOLEAN
ASSUME MaxWorkloadsIsNatural == MaxWorkloads \in Nat

\* Failed calls, lost replies and placement errors; crashes and changes of
\* leadership; changes of the fabric; ordinary claims allocated; Unschedulable
\* conditions; Pods scheduled and started; spec edits and deletions by the user.
Disturbances == {"faults", "restarts", "fabric", "rivals", "unscheduled", "starts", "edits"}

ASSUME BudgetsBound == Budgets \subseteq [Disturbances -> Nat]

VARIABLES wl,        \* TenstorrentWorkload objects
          pods,      \* rank Pods
          claims,    \* rank ResourceClaims
          other,     \* devices allocated to ordinary claims
          topo,      \* what BuildFabric makes of the node topologies
          cw,        \* workload informer cache
          cp,        \* Pod informer cache
          cc,        \* claim informer cache: rank claims
          co,        \* claim informer cache: ordinary claims
          news,      \* changed objects whose events are not delivered yet
          queue,     \* keys to reconcile
          pending,   \* c.pending
          fabric,    \* c.fabric
          job,       \* the reconciliation under way
          spent      \* how much of the bounds is used

apiVars == <<wl, pods, claims, other, topo>>
caches == <<cw, cp, cc, co>>
cacheVars == <<caches, news>>
memVars == <<queue, pending, fabric, job>>
vars == <<apiVars, cacheVars, memVars, spent>>

Ranks == 1..NumRanks
NoAssign == <<>>
NoHash == "none"
Assignment == [Ranks -> Devices] \cup {NoAssign}
Phases == {"", "Pending", "Assigned", "Running", "Degraded", "Failed", "Succeeded"}

\* Hashes of the relevant endpoints: none recorded or no endpoints, and two contents.
Gens == 0..2

Status == [phase : Phases, assign : Assignment, gen : Gens, hash : Specs \cup {NoHash}]
Workload == [life : {"new", "live", "gone"}, spec : Specs, status : Status]

NoPod == [phase |-> "none", dying |-> FALSE]
Pod == [phase : {"pending", "unschedulable", "running", "succeeded", "failed"},
        spec : Specs, dev : Devices, dying : BOOLEAN]

NoClaim == [state |-> "none", dying |-> FALSE]
Claim == [state : {"free", "allocated"}, spec : Specs, dev : Devices, dying : BOOLEAN]

Topology == [gen : Gens, valid : BOOLEAN]
ZeroFabric == [gen |-> 0, valid |-> FALSE]

\* The steps of a reconciliation: API calls, and "drop" and "reserve" on c.pending.
Calls == {"deletePod", "deleteClaim", "ensureClaim", "ensurePod", "status"}
Op == ((Calls \ {"status"}) \X Ranks) \cup ({"status", "drop", "reserve"} \X {0})

NoJob == [todo |-> <<>>]
Job == [w : Workloads, spec : Specs, st : Status, todo : Seq(Op)]

TypeOK ==
  /\ wl \in [Workloads -> Workload] /\ cw \in [Workloads -> Workload]
  /\ pods \in [Workloads -> [Ranks -> Pod \cup {NoPod}]]
  /\ cp \in [Workloads -> [Ranks -> Pod \cup {NoPod}]]
  /\ claims \in [Workloads -> [Ranks -> Claim \cup {NoClaim}]]
  /\ cc \in [Workloads -> [Ranks -> Claim \cup {NoClaim}]]
  /\ other \subseteq Devices /\ co \subseteq Devices
  /\ topo \in Topology /\ fabric \in Topology
  /\ news \in [wl : SUBSET Workloads, pods : SUBSET Workloads, claims : SUBSET Workloads]
  /\ queue \subseteq Workloads \cup {FabricKey}
  /\ pending \in [Workloads -> Assignment]
  /\ job = NoJob \/ (job \in Job /\ job.todo # <<>>)
  /\ spent \in [Disturbances -> Nat]

Init ==
  /\ wl \in [Workloads -> {[life |-> "new", spec |-> s,
                            status |-> [phase |-> "", assign |-> NoAssign, gen |-> 0, hash |-> NoHash]]
                             : s \in Specs}]
  /\ pods = [w \in Workloads |-> [r \in Ranks |-> NoPod]]
  /\ claims = [w \in Workloads |-> [r \in Ranks |-> NoClaim]]
  /\ other = {}
  /\ topo = [gen |-> 1, valid |-> TRUE]
  /\ cw = wl /\ cp = pods /\ cc = claims /\ co = other
  /\ news = [wl |-> {}, pods |-> {}, claims |-> {}]
  /\ queue = {FabricKey}
  /\ pending = [w \in Workloads |-> NoAssign]
  /\ fabric = ZeroFabric
  /\ job = NoJob
  /\ spent = [kind \in Disturbances |-> 0]

\* The API server queues an event for every object a step changes.
Notify ==
  news' = [wl |-> news.wl \cup {w \in Workloads : wl'[w] # wl[w]},
           pods |-> news.pods \cup {w \in Workloads : pods'[w] # pods[w]},
           claims |-> news.claims \cup {w \in Workloads : claims'[w] # claims[w]}]

\* One more disturbance, if some budget still allows for it.
Spend(kind) ==
  /\ \E budget \in Budgets :
       spent[kind] < budget[kind] /\ \A k \in Disturbances : spent[k] <= budget[k]
  /\ spent' = [spent EXCEPT ![kind] = @ + 1]

-----------------------------------------------------------------------------
(* What a reconciliation reads *)

terminalPhase(phase) == phase \in {"Failed", "Succeeded"}

Used(assign) == {assign[r] : r \in DOMAIN assign}

\* The devices of the allocated claims among the rank claims of a workload.
Held(ranks) == {ranks[r].dev : r \in {x \in Ranks : ranks[x].state = "allocated"}}

Cached == {w \in Workloads : cw[w].life = "live"}

\* Faulty reservations: only what the caches show.
reservationsCached(w) ==
  (UNION {Used(cw[v].status.assign) : v \in {x \in Cached \ {w} : ~terminalPhase(cw[x].status.phase)}})
    \cup (UNION {Held(cc[v]) : v \in Workloads \ {w}})
    \cup co

reservations(w) ==
  (UNION {Used(pending[v]) : v \in Workloads \ {w}})
    \cup (UNION {Used(cw[v].status.assign) : v \in {x \in Cached \ {w} : ~terminalPhase(cw[x].status.phase)}})
    \cup (UNION {Held(cc[v]) : v \in Workloads \ {w}})
    \cup co

assignmentsReserved(w) == Used(cw[w].status.assign) \cap reservations(w) # {}

\* observedPhase: the first failed or unschedulable rank ends the scan.
Stopping(w) == {r \in Ranks : cp[w][r].phase \in {"failed", "unschedulable"}}

Started(w) == \E r \in Ranks : /\ cp[w][r].phase \in {"running", "succeeded"}
                               /\ \A s \in Stopping(w) : r < s

Unschedulable(w) == \E r \in Stopping(w) : /\ cp[w][r].phase = "unschedulable"
                                           /\ \A s \in Stopping(w) : r <= s

observedPhase(w) ==
  CASE Unschedulable(w) -> "Assigned"
    [] Stopping(w) # {} /\ ~Unschedulable(w) -> "Failed"
    [] Stopping(w) = {} /\ \A r \in Ranks : cp[w][r].phase = "succeeded" -> "Succeeded"
    [] OTHER -> IF Started(w) THEN "Running" ELSE "Assigned"

\* SolveContext searches rank by rank in the order of the endpoints, for distinct
\* unreserved ones (all of them connected here), and returns the first solution.
Solutions(w) ==
  {a \in [Ranks -> Devices \ reservations(w)] : \A r, s \in Ranks : a[r] = a[s] => r = s}

Precedes(a, b) == \E r \in Ranks : a[r] < b[r] /\ \A s \in 1..r - 1 : a[s] = b[s]

SolveContext(w) == CHOOSE a \in Solutions(w) : \A b \in Solutions(w) \ {a} : Precedes(a, b)

specChanged(w) == cw[w].status.hash \notin {NoHash, cw[w].spec}
fabricChanged(w) == cw[w].status.gen # fabric.gen

\* Faulty EachRank: ranks counted from zero.
EachRankFromZero(first, second) ==
  [i \in 1..2 * NumRanks |-> <<IF i % 2 = 1 THEN first ELSE second, i \div 2>>]

EachRank(first, second) ==
  [i \in 1..2 * NumRanks |-> <<IF i % 2 = 1 THEN first ELSE second, (i + 1) \div 2>>]

deleteChildren == EachRank("deletePod", "deleteClaim")
ensureChildren == EachRank("ensureClaim", "ensurePod")
updateStatus == <<<<"status", 0>>>>
dropPending == <<<<"drop", 0>>>>
reserve == <<<<"reserve", 0>>>>

-----------------------------------------------------------------------------
(* processNext: one action per branch of reconcileWorkloadKey and           *)
(* reconcileWorkload, each taking its key off the queue                     *)

Take(w) == job = NoJob /\ w \in queue /\ queue' = queue \ {w}

Run(w, todo, st) ==
  /\ job' = [w |-> w, spec |-> cw[w].spec, st |-> st, todo |-> todo]
  /\ UNCHANGED <<apiVars, cacheVars, pending, fabric, spent>>

WithPhase(w, phase) == [cw[w].status EXCEPT !.phase = phase]
Hashed(w, st) == [st EXCEPT !.hash = cw[w].spec]
Replanned(w) == [phase |-> "Pending", assign |-> NoAssign, gen |-> 0, hash |-> cw[w].spec]

NotFound(w) ==
  /\ Take(w) /\ w \notin Cached
  /\ pending' = [pending EXCEPT ![w] = NoAssign]
  /\ UNCHANGED <<apiVars, cacheVars, fabric, job, spent>>

\* Faulty InScale: only the workloads that the cache shows as assigned count.
InScaleAssigned(w) ==
  w \in Cached /\ Cardinality({v \in Cached \ {w} : cw[v].status.assign # NoAssign}) < MaxWorkloads

InScale(w) == w \in Cached /\ Cardinality(Cached) <= MaxWorkloads

ScaleExceeded(w) ==
  /\ Take(w) /\ w \in Cached /\ ~InScale(w)
  /\ Run(w, updateStatus, WithPhase(w, IF cw[w].status.assign = NoAssign THEN "Pending" ELSE "Degraded"))

validateWorkload(w) == cw[w].spec \in ValidSpecs

InvalidSpec(w) ==
  /\ Take(w) /\ InScale(w) /\ ~validateWorkload(w)
  /\ Run(w, updateStatus, Hashed(w, WithPhase(w, "Failed")))

Assigned(w) == InScale(w) /\ validateWorkload(w) /\ cw[w].status.assign # NoAssign

\* Faulty TerminalCleanup: the children are taken to be gone already.
TerminalCleanupOnce(w) ==
  /\ Take(w) /\ Assigned(w) /\ terminalPhase(cw[w].status.phase)
  /\ Run(w, dropPending, cw[w].status)

TerminalCleanup(w) ==
  /\ Take(w) /\ Assigned(w) /\ terminalPhase(cw[w].status.phase)
  /\ Run(w, dropPending \o deleteChildren, cw[w].status)

Live(w) == Assigned(w) /\ ~terminalPhase(cw[w].status.phase)

ReservedDegraded(w) ==
  /\ Take(w) /\ Live(w) /\ assignmentsReserved(w) /\ Started(w)
  /\ Run(w, updateStatus, WithPhase(w, "Degraded"))

ReservedReplan(w) ==
  /\ Take(w) /\ Live(w) /\ assignmentsReserved(w) /\ ~Started(w)
  /\ Run(w, dropPending \o deleteChildren \o updateStatus, Replanned(w))

UnschedulableReplan(w) ==
  /\ Take(w) /\ Live(w) /\ ~assignmentsReserved(w)
  /\ Unschedulable(w) /\ ~Started(w)
  /\ Run(w, dropPending \o deleteChildren \o updateStatus, Replanned(w))

Undisturbed(w) == Live(w) /\ ~assignmentsReserved(w) /\ ~(Unschedulable(w) /\ ~Started(w))

Finished(w) ==
  /\ Take(w) /\ Undisturbed(w) /\ terminalPhase(observedPhase(w))
  /\ Run(w, dropPending \o deleteChildren \o updateStatus, WithPhase(w, observedPhase(w)))

Ongoing(w) == Undisturbed(w) /\ ~terminalPhase(observedPhase(w))

ChangedDegraded(w) ==
  /\ Take(w) /\ Ongoing(w) /\ (specChanged(w) \/ fabricChanged(w)) /\ Started(w)
  /\ Run(w, updateStatus, WithPhase(w, "Degraded"))

ChangedReplan(w) ==
  /\ Take(w) /\ Ongoing(w) /\ (specChanged(w) \/ fabricChanged(w)) /\ ~Started(w)
  /\ Run(w, deleteChildren \o dropPending \o updateStatus, Replanned(w))

Keep(w) ==
  /\ Take(w) /\ Ongoing(w) /\ ~specChanged(w) /\ ~fabricChanged(w)
  /\ Run(w, ensureChildren \o updateStatus, Hashed(w, WithPhase(w, observedPhase(w))))

Unassigned(w) == InScale(w) /\ validateWorkload(w) /\ cw[w].status.assign = NoAssign

FabricInvalid(w) ==
  /\ Take(w) /\ Unassigned(w) /\ ~fabric.valid
  /\ Run(w, updateStatus, Hashed(w, WithPhase(w, "Pending")))

\* The placement timeout or a limit: charged as a fault.
PlacementError(w) ==
  /\ Take(w) /\ Unassigned(w) /\ fabric.valid
  /\ Spend("faults")
  /\ job' = [w |-> w, spec |-> cw[w].spec, st |-> WithPhase(w, "Pending"), todo |-> updateStatus]
  /\ UNCHANGED <<apiVars, cacheVars, pending, fabric>>

Unsatisfied(w) ==
  /\ Take(w) /\ Unassigned(w) /\ fabric.valid /\ Solutions(w) = {}
  /\ Run(w, updateStatus, [Hashed(w, WithPhase(w, "Pending")) EXCEPT !.gen = fabric.gen])

Place(w) ==
  /\ Take(w) /\ Unassigned(w) /\ fabric.valid /\ Solutions(w) # {}
  /\ Run(w, updateStatus \o reserve \o ensureChildren,
         [phase |-> "Assigned", assign |-> SolveContext(w), gen |-> fabric.gen, hash |-> cw[w].spec])

\* Faulty ReconcileFabric: the workloads are enqueued only when the fabric changed.
ReconcileFabricChanged ==
  /\ job = NoJob /\ FabricKey \in queue
  /\ fabric' = topo
  /\ \/ queue' = (queue \ {FabricKey}) \cup (IF fabric = topo THEN {} ELSE Cached) /\ UNCHANGED spent
     \/ Spend("faults") /\ UNCHANGED queue
  /\ UNCHANGED <<apiVars, cacheVars, pending, job>>

\* reconcileFabric and the fabric branch of processNext: status is assigned even
\* when publishing it fails, the workloads are enqueued only when it succeeds.
ReconcileFabric ==
  /\ job = NoJob /\ FabricKey \in queue
  /\ fabric' = topo
  /\ \/ queue' = (queue \ {FabricKey}) \cup Cached /\ UNCHANGED spent
     \/ Spend("faults") /\ UNCHANGED queue
  /\ UNCHANGED <<apiVars, cacheVars, pending, job>>

\* queue.AddAfter(fabricQueueKey, TopologyTTL/2) fires.  Every success of the fabric
\* reconciliation arms it and every failure queues the key again.
FabricTimer ==
  /\ FabricKey \notin queue
  /\ queue' = queue \cup {FabricKey}
  /\ UNCHANGED <<apiVars, cacheVars, pending, fabric, job, spent>>

-----------------------------------------------------------------------------
(* The API calls of a reconciliation *)

Doing(k) == job.todo # <<>> /\ Head(job.todo)[1] = k

Rank == Head(job.todo)[2]

Advance == job' = IF Len(job.todo) = 1 THEN NoJob ELSE [job EXCEPT !.todo = Tail(@)]

\* An error of a call ends the reconciliation; processNext adds the key again.
Abort == job' = NoJob /\ queue' = queue \cup {job.w}

\* An applied call is answered, or its reply is lost.
Answer ==
  \/ Advance /\ UNCHANGED <<queue, spent>>
  \/ LostReplies /\ Abort /\ Spend("faults")

CallFailed ==
  /\ \E k \in Calls : Doing(k)
  /\ Abort /\ Spend("faults")
  /\ UNCHANGED <<apiVars, cacheVars, pending, fabric>>

\* A Pod no kubelet knows is removed at once, any other is terminated first.
Deleted(pod) == IF pod.phase \in {"none", "pending", "unschedulable"} THEN NoPod
                ELSE [pod EXCEPT !.dying = TRUE]

\* An allocated claim is kept by its finalizer until it is deallocated.
Released(claim) == IF claim.state = "allocated" THEN [claim EXCEPT !.dying = TRUE] ELSE NoClaim

DeletePod ==
  /\ Doing("deletePod") /\ Answer
  /\ pods' = [pods EXCEPT ![job.w][Rank] = Deleted(@)]
  /\ UNCHANGED <<wl, claims, other, topo, caches, pending, fabric>>
  /\ Notify

DeleteClaim ==
  /\ Doing("deleteClaim") /\ Answer
  /\ claims' = [claims EXCEPT ![job.w][Rank] = Released(@)]
  /\ UNCHANGED <<wl, pods, other, topo, caches, pending, fabric>>
  /\ Notify

\* Faulty Same: whoever owns the child, it will do.
SameOwner(child) == TRUE

\* buildClaim, buildPod: a child is determined by the spec and the assigned device.
Same(child) == child.spec = job.spec /\ child.dev = job.st.assign[Rank]

ensureClaim ==
  /\ Doing("ensureClaim")
  /\ \/ /\ claims[job.w][Rank] = NoClaim
        /\ claims' = [claims EXCEPT ![job.w][Rank] =
                        [state |-> "free", spec |-> job.spec, dev |-> job.st.assign[Rank], dying |-> FALSE]]
        /\ Answer
     \/ /\ claims[job.w][Rank] # NoClaim /\ Same(claims[job.w][Rank])
        /\ Advance /\ UNCHANGED <<claims, queue, spent>>
     \/ /\ claims[job.w][Rank] # NoClaim /\ ~Same(claims[job.w][Rank])
        /\ Abort /\ UNCHANGED <<claims, spent>>
  /\ UNCHANGED <<wl, pods, other, topo, caches, pending, fabric>>
  /\ Notify

ensurePod ==
  /\ Doing("ensurePod")
  /\ \/ /\ pods[job.w][Rank] = NoPod
        /\ pods' = [pods EXCEPT ![job.w][Rank] =
                      [phase |-> "pending", spec |-> job.spec, dev |-> job.st.assign[Rank], dying |-> FALSE]]
        /\ Answer
     \/ /\ pods[job.w][Rank] # NoPod /\ Same(pods[job.w][Rank])
        /\ Advance /\ UNCHANGED <<pods, queue, spent>>
     \/ /\ pods[job.w][Rank] # NoPod /\ ~Same(pods[job.w][Rank])
        /\ Abort /\ UNCHANGED <<pods, spent>>
  /\ UNCHANGED <<wl, claims, other, topo, caches, pending, fabric>>
  /\ Notify

\* Faulty updateWorkloadStatus: the latest phase is not looked at.
updateWorkloadStatusAlways ==
  /\ Doing("status")
  /\ \/ wl[job.w].life = "live" /\ wl' = [wl EXCEPT ![job.w].status = job.st] /\ Answer
     \/ wl[job.w].life # "live" /\ Abort /\ UNCHANGED <<wl, spent>>
  /\ UNCHANGED <<pods, claims, other, topo, caches, pending, fabric>>
  /\ Notify

\* A workload that is gone is an error; one that reached another terminal phase
\* is left alone and the update counts as done.
updateWorkloadStatus ==
  /\ Doing("status")
  /\ LET latest == wl[job.w].status
         keep == terminalPhase(latest.phase) /\ latest.phase # job.st.phase
     IN \/ /\ wl[job.w].life = "live" /\ ~keep /\ latest # job.st
           /\ wl' = [wl EXCEPT ![job.w].status = job.st]
           /\ Answer
        \/ /\ wl[job.w].life = "live" /\ (keep \/ latest = job.st)
           /\ Advance /\ UNCHANGED <<wl, queue, spent>>
        \/ /\ wl[job.w].life # "live"
           /\ Abort /\ UNCHANGED <<wl, spent>>
  /\ UNCHANGED <<pods, claims, other, topo, caches, pending, fabric>>
  /\ Notify

SetPending ==
  /\ \/ Doing("drop") /\ pending' = [pending EXCEPT ![job.w] = NoAssign]
     \/ Doing("reserve") /\ pending' = [pending EXCEPT ![job.w] = job.st.assign]
  /\ Advance
  /\ UNCHANGED <<apiVars, cacheVars, queue, fabric, spent>>

Step == DeletePod \/ DeleteClaim \/ ensureClaim \/ ensurePod \/ updateWorkloadStatus \/ SetPending

-----------------------------------------------------------------------------
(* Informers and leadership *)

\* A watch delivers: the handlers enqueue the keys of the objects that changed.
WorkloadEvents ==
  /\ news.wl # {}
  /\ cw' = wl /\ news' = [news EXCEPT !.wl = {}]
  /\ queue' = queue \cup news.wl
  /\ UNCHANGED <<apiVars, cp, cc, co, pending, fabric, job, spent>>

PodEvents ==
  /\ news.pods # {}
  /\ cp' = pods /\ news' = [news EXCEPT !.pods = {}]
  /\ queue' = queue \cup news.pods
  /\ UNCHANGED <<apiVars, cw, cc, co, pending, fabric, job, spent>>

\* Ordinary claims carry no workload label: enqueueChild ignores them.
ClaimEvents ==
  /\ news.claims # {} \/ co # other
  /\ cc' = claims /\ co' = other /\ news' = [news EXCEPT !.claims = {}]
  /\ queue' = queue \cup news.claims
  /\ UNCHANGED <<apiVars, cw, cp, pending, fabric, job, spent>>

\* A new leader, or the same process after a crash: Run starts from fresh caches,
\* an empty map and the zero fabric, and every key is queued.
Restart ==
  /\ Spend("restarts")
  /\ cw' = wl /\ cp' = pods /\ cc' = claims /\ co' = other
  /\ news' = [wl |-> {}, pods |-> {}, claims |-> {}]
  /\ queue' = {FabricKey} \cup {w \in Workloads : wl[w].life = "live"}
  /\ pending' = [w \in Workloads |-> NoAssign]
  /\ fabric' = ZeroFabric
  /\ job' = NoJob
  /\ UNCHANGED apiVars

-----------------------------------------------------------------------------
(* Users, the scheduler, kubelet and the claim and garbage collectors *)

CreateWorkload(w) ==
  /\ wl[w].life = "new"
  /\ wl' = [wl EXCEPT ![w].life = "live"]
  /\ UNCHANGED <<pods, claims, other, topo, caches, memVars, spent>>
  /\ Notify

\* The CRD accepts an edit of the spec only while no assignment is recorded.
EditSpec(w) ==
  /\ wl[w].life = "live" /\ wl[w].status.assign = NoAssign
  /\ Spend("edits")
  /\ \E s \in Specs \ {wl[w].spec} : wl' = [wl EXCEPT ![w].spec = s]
  /\ UNCHANGED <<pods, claims, other, topo, caches, memVars>>
  /\ Notify

DeleteWorkload(w) ==
  /\ wl[w].life = "live"
  /\ Spend("edits")
  /\ wl' = [wl EXCEPT ![w].life = "gone"]
  /\ UNCHANGED <<pods, claims, other, topo, caches, memVars>>
  /\ Notify

\* Owner references: the garbage collector deletes the children of a deleted workload.
Collect(w, r) ==
  /\ wl[w].life = "gone"
  /\ pods[w][r] # Deleted(pods[w][r]) \/ claims[w][r] # Released(claims[w][r])
  /\ pods' = [pods EXCEPT ![w][r] = Deleted(@)]
  /\ claims' = [claims EXCEPT ![w][r] = Released(@)]
  /\ UNCHANGED <<wl, other, topo, caches, memVars, spent>>
  /\ Notify

Allocated == other \cup UNION {Held(claims[w]) : w \in Workloads}

\* Scheduling allocates the claim; kubelet starts the Pod.
Schedule(w, r) ==
  /\ pods[w][r].phase \in {"pending", "unschedulable"}
  /\ claims[w][r] # NoClaim /\ ~claims[w][r].dying
  /\ claims[w][r].dev = pods[w][r].dev
  /\ claims[w][r].dev \notin Allocated
  /\ Spend("starts")
  /\ claims' = [claims EXCEPT ![w][r].state = "allocated"]
  /\ pods' = [pods EXCEPT ![w][r].phase = "running"]
  /\ UNCHANGED <<wl, other, topo, caches, memVars>>
  /\ Notify

ScheduleFails(w, r) ==
  /\ pods[w][r].phase = "pending"
  /\ Spend("unscheduled")
  /\ pods' = [pods EXCEPT ![w][r].phase = "unschedulable"]
  /\ UNCHANGED <<wl, claims, other, topo, caches, memVars>>
  /\ Notify

\* The claim controller deallocates the claim of a Pod that ended.
Deallocated(claim) == IF claim.state # "allocated" THEN claim
                      ELSE IF claim.dying THEN NoClaim ELSE [claim EXCEPT !.state = "free"]

PodFinish(w, r) ==
  /\ pods[w][r].phase = "running"
  /\ \E p \in {"succeeded", "failed"} : pods' = [pods EXCEPT ![w][r].phase = p]
  /\ claims' = [claims EXCEPT ![w][r] = Deallocated(@)]
  /\ UNCHANGED <<wl, other, topo, caches, memVars, spent>>
  /\ Notify

PodGone(w, r) ==
  /\ pods[w][r].dying
  /\ pods' = [pods EXCEPT ![w][r] = NoPod]
  /\ claims' = [claims EXCEPT ![w][r] = Deallocated(@)]
  /\ UNCHANGED <<wl, other, topo, caches, memVars, spent>>
  /\ Notify

OrdinaryClaim(d) ==
  /\ \/ d \notin Allocated /\ Spend("rivals") /\ other' = other \cup {d}
     \/ d \in other /\ other' = other \ {d} /\ UNCHANGED spent
  /\ UNCHANGED <<wl, pods, claims, topo, cacheVars, memVars>>

\* A node topology changed or aged: the relevant endpoints changed (generations are
\* content hashes, so they may change back), or validity flipped.
FabricChange ==
  /\ Spend("fabric")
  /\ \/ topo' = [topo EXCEPT !.gen = 3 - @]
     \/ topo' = [topo EXCEPT !.valid = ~@]
  /\ queue' = queue \cup {FabricKey}
  /\ UNCHANGED <<wl, pods, claims, other, cacheVars, pending, fabric, job>>

-----------------------------------------------------------------------------

Reconcile(w) ==
  \/ NotFound(w) \/ ScaleExceeded(w) \/ InvalidSpec(w) \/ TerminalCleanup(w)
  \/ ReservedDegraded(w) \/ ReservedReplan(w) \/ UnschedulableReplan(w) \/ Finished(w)
  \/ ChangedDegraded(w) \/ ChangedReplan(w) \/ Keep(w)
  \/ FabricInvalid(w) \/ PlacementError(w) \/ Unsatisfied(w) \/ Place(w)

Events == WorkloadEvents \/ PodEvents \/ ClaimEvents

Next ==
  \/ \E w \in Workloads : Reconcile(w)
  \/ ReconcileFabric \/ FabricTimer
  \/ Step \/ CallFailed
  \/ Events \/ Restart
  \/ \E w \in Workloads : CreateWorkload(w) \/ EditSpec(w) \/ DeleteWorkload(w)
  \/ \E w \in Workloads, r \in Ranks :
       \/ Collect(w, r) \/ Schedule(w, r) \/ ScheduleFails(w, r)
       \/ PodFinish(w, r) \/ PodGone(w, r)
  \/ \E d \in Devices : OrdinaryClaim(d)
  \/ FabricChange

Spec == Init /\ [][Next]_vars

\* The worker goroutine never stops, its queue is first-in first-out, watches
\* deliver and the AddAfter timer fires.  Nothing is asked of users, the scheduler
\* or kubelet.
Fairness ==
  /\ WF_vars(Step)
  /\ \A w \in Workloads : SF_vars(Reconcile(w))
  /\ SF_vars(ReconcileFabric)
  /\ WF_vars(FabricTimer)
  /\ WF_vars(WorkloadEvents) /\ WF_vars(PodEvents) /\ WF_vars(ClaimEvents)

FairSpec == Spec /\ Fairness

-----------------------------------------------------------------------------
(* Properties *)

Active(w) == wl[w].life = "live" /\ ~terminalPhase(wl[w].status.phase)

\* The assignments two active workloads have recorded in the API server share no
\* device: "complete connected assignment reserved" (controller.go:430).
DisjointAssignments ==
  \A v, w \in Workloads : v # w /\ Active(v) /\ Active(w) =>
    Used(wl[v].status.assign) \cap Used(wl[w].status.assign) = {}

\* As long as nothing was replanned and no finished workload gave its devices back,
\* recorded assignments are disjoint, however far the workload cache lags: c.pending
\* bridges the gap until the cache shows an assignment, and a second placement of the
\* same workload repeats the first (reservations, controller.go:297).  No call fails
\* once a Pod has started: a cleanup that fails half-way has already dropped the
\* reservation of an assignment that a stale cache can bring back.
FirstPlacementsDisjoint ==
  /\ spent.rivals + spent.unscheduled + spent.fabric + spent.restarts + spent.edits = 0
  /\ spent.starts = 0 \/ spent.faults = 0
  /\ \A w \in Workloads : ~terminalPhase(wl[w].status.phase)
  => DisjointAssignments

\* No more than MaxWorkloads existing workloads have an assignment recorded, finished
\* ones included: the limit is tested on a cache that lags and the status it allows is
\* written calls later, when workloads may have come and gone; a workload refused at
\* the limit has its older cached assignment written back (controller.go:285-291).
ScaleKept ==
  Cardinality({w \in Workloads : wl[w].life = "live" /\ wl[w].status.assign # NoAssign}) <= MaxWorkloads

\* A recorded terminal phase is irreversible: no update computed from an older
\* cached workload overwrites it (updateWorkloadStatus, controller.go:485).
TerminalFinal ==
  [][\A w \in Workloads : terminalPhase(wl[w].status.phase) =>
        wl'[w].status.phase = wl[w].status.phase]_vars

\* Nothing reserved and no child left that is not being deleted.
Quiet(w) ==
  /\ pending[w] = NoAssign
  /\ \A r \in Ranks : /\ pods[w][r] # NoPod => pods[w][r].dying
                     /\ claims[w][r] # NoClaim => claims[w][r].dying

Settled == job = NoJob /\ queue = {} /\ news = [wl |-> {}, pods |-> {}, claims |-> {}]

\* When the controller has nothing left to do, an assigned workload that is not
\* degraded has every rank's Pod and claim, for the device its status records, a
\* finished one has none that is not being deleted and reserves nothing
\* (reconcileWorkload and ensureChildren).
SettledConsistent ==
  Settled => \A w \in Workloads :
    wl[w].life = "live" /\ wl[w].status.assign # NoAssign =>
      /\ wl[w].status.phase \in {"Assigned", "Running"} =>
           \A r \in Ranks : /\ pods[w][r] # NoPod /\ pods[w][r].dev = wl[w].status.assign[r]
                            /\ claims[w][r] # NoClaim /\ claims[w][r].dev = wl[w].status.assign[r]
      /\ terminalPhase(wl[w].status.phase) => Quiet(w)

Ended(w) == wl[w].life = "live" /\ terminalPhase(wl[w].status.phase)

\* From some moment on a failed or succeeded workload has no children left that are
\* not being deleted and reserves nothing, whatever a reconciliation that read an
\* older workload created in between (reconcileWorkload, controller.go:340-343).
TerminalCleans ==
  \A w \in Workloads : <>Ended(w) => <>[](Quiet(w) \/ wl[w].life = "gone")

Waiting(w) ==
  /\ Active(w) /\ wl[w].spec \in ValidSpecs /\ wl[w].status.assign = NoAssign
  /\ topo.valid
  /\ LET taken == other \cup (UNION {IF Active(v) THEN Used(wl[v].status.assign) ELSE {} : v \in Workloads \ {w}})
                         \cup (UNION {Held(claims[v]) : v \in Workloads \ {w}})
     IN Cardinality(Devices \ taken) >= NumRanks

\* A valid workload is not left unassigned while enough devices are free: no event
\* of the workload that freed them names it, so it lives off the periodic fabric
\* reconciliation (processNext, controller.go:180-185).
WaitersPlaced ==
  \A w \in Workloads : Waiting(w) ~> ~Waiting(w)

\* An assignment is never replanned while the Pod cache shows one of its ranks
\* running (deleteChildren "removes unstarted Pods", children.go:201).
StartedFrozen ==
  [][\A w \in Workloads : ReservedReplan(w) \/ UnschedulableReplan(w) \/ ChangedReplan(w) =>
        \A r \in Ranks : cp[w][r].phase # "running"]_vars
=============================================================================
