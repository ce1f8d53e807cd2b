----------------------------- MODULE Lifecycle -----------------------------
(***************************************************************************)
(* The lifecycle manager of the node agents of one node                    *)
(* (src/src/internal/lifecycle): kubelet prepare and unprepare, the        *)
(* hardware janitor, startup recovery, the state file, the CDI directory   *)
(* and the devices.  Several agents may overlap during an upgrade; each    *)
(* keeps its own copy of the state and agent.lock lets one of them at a    *)
(* time run a transaction.                                                 *)
(*                                                                         *)
(* A transaction is a sequence of steps with at most one durable effect    *)
(* (state file, CDI file, device reset) each.  Between two steps the agent *)
(* may crash, hardware may change, pods may start and stop and claims may  *)
(* be allocated and deallocated.                                           *)
(***************************************************************************)
EXTENDS NodeState

CONSTANTS Agents,          \* node-agent processes that may overlap on the node
          NoAgent,         \* nobody holds agent.lock
          ForcedDeletion,  \* may a claim be deallocated while a pod still uses it?
          MaxFaults,       \* bound: failed writes, audits, resets, API reads
          MaxCrashes,      \* bound: agent crashes and shutdowns
          MaxPlugs,        \* bound: hardware state changes
          MaxCorruptions   \* bound: corruptions of claims.json

ASSUME NoAgentIsNoAgent == NoAgent \notin Agents
ASSUME ForcedDeletionIsBoolean == ForcedDeletion \in BOOLEAN
ASSUME BoundsAreNaturals == /\ MaxFaults \in Nat
                            /\ MaxCrashes \in Nat
                            /\ MaxPlugs \in Nat
                            /\ MaxCorruptions \in Nat

VARIABLES file,     \* claims.json: "absent", "ok" or "corrupt"
          disk,     \* its contents
          cdi,      \* claims with a CDI file
          up,       \* agents that finished NewManager
          mem,      \* m.state of every agent
          scan,     \* snapshot an agent's loop took and has not yet monitored
          holder,   \* the agent inside the flock transaction
          pc,       \* where that transaction is
          job,      \* its local variables
          hw,       \* the hardware
          user,     \* the claim that used a device since its last reset
          alloc,    \* ResourceClaim.Status.Allocation
          held,     \* claims in kubelet's claim cache: prepare called, not yet unprepared
          grant,    \* devices a successful prepare returned to kubelet
          running,  \* claims whose containers run
          spent     \* how much of the bounds is used

storeVars == <<file, disk>>
agentVars == <<up, scan>>
txnVars == <<holder, pc, job>>
podVars == <<alloc, held, grant, running>>
vars == <<storeVars, cdi, agentVars, mem, txnVars, hw, user, podVars, spent>>

NoScan == <<>>

\* What one step of a transaction writes: success, failure before the rename,
\* failure after it (the file is replaced and an error is returned).
Writes == {"ok", "early", "late"}

Steps == {"idle", "prepare", "sanitize", "verify", "expose", "commit",
          "unprepare", "scrub", "release", "remove", "forget", "monitor",
          "corrupt", "fence", "reconcile", "orphans", "serve"}

\* The steps between the intent of a claim and its decision.
PreparingSteps == {"sanitize", "verify", "expose", "commit"}
ReleasingSteps == {"scrub", "release", "remove", "forget"}

Job == [batch : SUBSET Claims, todo : SUBSET Claims, cur : Claims \cup {NoOwner}, left : SUBSET Devices,
        bad : BOOLEAN, snap : Snapshot, owners : [Devices -> Claims \cup {NoOwner}],
        done : SUBSET Claims, al : [Claims -> SUBSET Devices]]

NoJob == [batch |-> {}, todo |-> {}, cur |-> NoOwner, left |-> {}, bad |-> FALSE,
          snap |-> [d \in Devices |-> "gone"], owners |-> [d \in Devices |-> NoOwner],
          done |-> {}, al |-> [c \in Claims |-> {}]]

Budget == [faults : Nat, crashes : Nat, plugs : Nat, corruptions : Nat]

TypeOK ==
  /\ file \in {"absent", "ok", "corrupt"}
  /\ disk \in PersistedState
  /\ cdi \in SUBSET Claims
  /\ up \in [Agents -> BOOLEAN]
  /\ mem \in [Agents -> PersistedState]
  /\ scan \in [Agents -> Snapshot \cup {NoScan}]
  /\ holder \in Agents \cup {NoAgent}
  /\ pc \in Steps
  /\ job \in Job
  /\ hw \in Snapshot
  /\ user \in [Devices -> Claims \cup {NoOwner}]
  /\ alloc \in [Claims -> SUBSET Devices]
  /\ held \in SUBSET Claims
  /\ grant \in [Claims -> SUBSET Devices]
  /\ running \in SUBSET Claims
  /\ spent \in Budget

Init ==
  /\ file = "absent"
  /\ disk = EmptyState
  /\ cdi = {}
  /\ up = [a \in Agents |-> FALSE]
  /\ mem = [a \in Agents |-> EmptyState]
  /\ scan = [a \in Agents |-> NoScan]
  /\ holder = NoAgent
  /\ pc = "idle"
  /\ job = NoJob
  /\ hw \in [Devices -> {"ok", "sick"}]
  /\ user = [d \in Devices |-> NoOwner]
  /\ alloc = [c \in Claims |-> {}]
  /\ held = {}
  /\ grant = [c \in Claims |-> {}]
  /\ running = {}
  /\ spent = [faults |-> 0, crashes |-> 0, plugs |-> 0, corruptions |-> 0]

-----------------------------------------------------------------------------
(* Building blocks *)

Charge(faulty) ==
  /\ faulty => spent.faults < MaxFaults
  /\ spent' = [spent EXCEPT !.faults = IF faulty THEN @ + 1 ELSE @]

\* persist / atomicJSON on claims.json.
persist(m, w) ==
  /\ disk' = IF w = "early" THEN disk ELSE m
  /\ file' = IF w = "early" THEN file ELSE "ok"

\* writeCDI for the claims of C.
writeCDI(C, w) == cdi' = IF w = "early" THEN cdi ELSE cdi \cup C

State == mem[holder]

Remember(m) == mem' = [mem EXCEPT ![holder] = m]

\* lockState, load: the state a transaction of agent a starts from.
Reloaded(a) == IF file = "ok" THEN load(disk, mem[a]) ELSE mem[a]

\* lockAndReload fails on an unreadable file and the call returns its error.
CanLock(a) == holder = NoAgent /\ up[a] /\ file # "corrupt"

Enter(a, m, step, j) ==
  /\ holder' = a
  /\ pc' = step
  /\ job' = j
  /\ mem' = [mem EXCEPT ![a] = m]

unlockState ==
  /\ holder' = NoAgent
  /\ pc' = "idle"
  /\ job' = NoJob

\* The rest of a batch once claim c is decided.
Decide(c, good, step) ==
  /\ pc' = step
  /\ job' = [job EXCEPT !.todo = @ \ {c}, !.cur = NoOwner, !.left = {}, !.bad = FALSE,
                        !.done = IF good THEN @ \cup {c} ELSE @]
  /\ UNCHANGED holder

Goto(step) == pc' = step /\ UNCHANGED <<holder, job>>

(***************************************************************************)
(* Resetter.Reset and its audit record.  A reset can fail before or after  *)
(* the ASIC was reset, the audit append can fail after a good reset; only  *)
(* "ok" counts as sanitized.  A device without its character device cannot *)
(* be opened.                                                              *)
(***************************************************************************)
ResetOutcomes(d) ==
  IF hw[d] = "gone" THEN {"unopened"} ELSE {"ok", "unopened", "interrupted", "unaudited"}

Reset(d, o) ==
  /\ o \in ResetOutcomes(d)
  /\ Charge(o # "ok" /\ hw[d] # "gone")
  /\ user' = IF o = "unopened" THEN user ELSE [user EXCEPT ![d] = NoOwner]

-----------------------------------------------------------------------------
(* PrepareResourceClaims *)

\* lockAndReload, Inventory, observeLocked and deviceOwners of a prepare call.
\* Kubelet sends claims that are allocated.
PrepareResourceClaims(a, batch) ==
  /\ CanLock(a)
  /\ batch # {} /\ \A c \in batch : alloc[c] # {}
  /\ held' = held \cup batch
  /\ LET m == observeLocked(Reloaded(a), hw, FALSE) IN
     \E owners \in deviceOwners(m) :
       Enter(a, m, "prepare",
             [NoJob EXCEPT !.batch = batch, !.todo = batch, !.snap = hw, !.owners = owners,
                           !.al = [c \in Claims |-> IF c \in batch THEN alloc[c] ELSE {}]])
  /\ UNCHANGED <<storeVars, cdi, agentVars, hw, user, alloc, grant, running, spent>>

\* A prepare or unprepare call that ends in "refresh inventory" (nothing
\* observed) or in "monitor inventory" (observed, an audit record failed).
RefreshFailed(a) ==
  /\ CanLock(a)
  /\ Charge(TRUE)
  /\ \/ mem' = [mem EXCEPT ![a] = Reloaded(a)]
     \/ /\ Unsafe(Reloaded(a), hw, FALSE) # {}
        /\ mem' = [mem EXCEPT ![a] = observeLocked(Reloaded(a), hw, FALSE)]
  /\ UNCHANGED <<storeVars, cdi, agentVars, txnVars, hw, user, podVars>>

\* SnapshotStats and DeviceHealthSnapshot: a transaction that only reloads.
SnapshotStats(a) ==
  /\ CanLock(a)
  /\ mem' = [mem EXCEPT ![a] = Reloaded(a)]
  /\ UNCHANGED <<storeVars, cdi, agentVars, txnVars, hw, user, podVars, spent>>

Valid(c) == claimFromAllocation(c, job.al[c], job.snap, job.owners)

Repeatable(c) ==
  /\ State.claims[c].phase = "Prepared"
  /\ \A d \in State.claims[c].devs : ~Quarantined(State, d)

\* prepareOne returns an error before it changes anything.
PrepareRejected ==
  /\ pc = "prepare"
  /\ \E c \in job.todo :
       /\ \/ ~Valid(c)
          \/ /\ Owned(State, c)
             /\ \/ ~sameClaim(State.claims[c], job.al[c])
                \/ State.claims[c].phase # "Preparing" /\ ~Repeatable(c)
       /\ Decide(c, FALSE, "prepare")
  /\ UNCHANGED <<storeVars, cdi, agentVars, mem, hw, user, podVars, spent>>

\* A repeated prepare of a Prepared claim repairs its CDI file and answers.
PrepareRepeated ==
  /\ pc = "prepare"
  /\ \E c \in job.todo, w \in Writes :
       /\ Valid(c) /\ sameClaim(State.claims[c], job.al[c]) /\ Repeatable(c)
       /\ Charge(w # "ok")
       /\ writeCDI({c}, w)
       /\ Decide(c, w = "ok", "prepare")
  /\ UNCHANGED <<storeVars, agentVars, mem, hw, user, podVars>>

StartSanitize(c) ==
  /\ pc' = "sanitize"
  /\ job' = [job EXCEPT !.cur = c, !.left = job.al[c]]
  /\ UNCHANGED holder

\* A claim still Preparing is taken up again.
PrepareResumed ==
  /\ pc = "prepare"
  /\ \E c \in job.todo :
       /\ Valid(c) /\ sameClaim(State.claims[c], job.al[c])
       /\ State.claims[c].phase = "Preparing"
       /\ StartSanitize(c)
  /\ UNCHANGED <<storeVars, cdi, agentVars, mem, hw, user, podVars, spent>>

\* Faulty PrepareIntent: the intent stays in memory.
PrepareIntentUnwritten ==
  /\ pc = "prepare"
  /\ \E c \in job.todo :
       /\ Valid(c) /\ ~Owned(State, c)
       /\ Remember(SetClaim(State, c, [phase |-> "Preparing", devs |-> job.al[c], placed |-> TRUE]))
       /\ StartSanitize(c)
  /\ UNCHANGED <<storeVars, cdi, agentVars, hw, user, podVars, spent>>

\* A new claim: the Preparing intent is persisted, then audited.  A failed
\* persist forgets the claim in memory, a failed audit leaves it Preparing.
PrepareIntent ==
  /\ pc = "prepare"
  /\ \E c \in job.todo, w \in Writes \cup {"unaudited"} :
       LET rec == [phase |-> "Preparing", devs |-> job.al[c], placed |-> TRUE]
           m == SetClaim(State, c, rec)
       IN  /\ Valid(c) /\ ~Owned(State, c)
           /\ Charge(w # "ok")
           /\ persist(m, w)
           /\ IF w \in {"early", "late"} THEN UNCHANGED mem ELSE Remember(m)
           /\ IF w = "ok" THEN StartSanitize(c) ELSE Decide(c, FALSE, "prepare")
  /\ UNCHANGED <<cdi, agentVars, hw, user, podVars>>

\* Preflight sanitization stops at the first device that fails.
PrepareSanitize ==
  /\ pc = "sanitize"
  /\ \E d \in job.left : \E o \in ResetOutcomes(d) :
       /\ Reset(d, o)
       /\ Remember(sanitizeLocked(State, d, o = "ok"))
       /\ IF o # "ok" THEN Decide(job.cur, FALSE, "prepare")
          ELSE /\ pc' = IF job.left = {d} THEN "verify" ELSE "sanitize"
               /\ job' = [job EXCEPT !.left = @ \ {d}]
               /\ UNCHANGED holder
  /\ UNCHANGED <<storeVars, cdi, agentVars, hw, podVars>>

\* The second inventory must show every device safe and not quarantined.
PrepareVerify ==
  /\ pc = "verify"
  /\ LET m == observeLocked(State, hw, FALSE)
         wrong == {d \in State.claims[job.cur].devs : hw[d] # "ok" \/ Quarantined(m, d)}
     IN  \/ /\ wrong = {}
            /\ Remember(m)
            /\ Goto("expose")
            /\ Charge(FALSE)
         \/ /\ \E d \in wrong : Remember(quarantineLocked(m, {d}))
            /\ Decide(job.cur, FALSE, "prepare")
            /\ Charge(FALSE)
         \/ /\ UNCHANGED mem
            /\ Decide(job.cur, FALSE, "prepare")
            /\ Charge(TRUE)
         \/ /\ Unsafe(State, hw, FALSE) # {}
            /\ Remember(m)
            /\ Decide(job.cur, FALSE, "prepare")
            /\ Charge(TRUE)
  /\ UNCHANGED <<storeVars, cdi, agentVars, hw, user, podVars>>

PrepareExpose ==
  /\ pc = "expose"
  /\ \E w \in Writes :
       /\ Charge(w # "ok")
       /\ writeCDI({job.cur}, w)
       /\ IF w = "ok" THEN Goto("commit") ELSE Decide(job.cur, FALSE, "prepare")
  /\ UNCHANGED <<storeVars, agentVars, mem, hw, user, podVars>>

\* The approval is audited and Prepared persisted.  Either failure removes the
\* CDI file, whose removal may itself fail unnoticed.
PrepareCommit ==
  /\ pc = "commit"
  /\ \E w \in Writes \cup {"unaudited"}, left \in SUBSET {job.cur} :
       LET c == job.cur
           m == SetPhase(State, c, "Prepared")
       IN  /\ w = "ok" => left = {c}
           /\ Charge(w # "ok")
           /\ IF w = "unaudited" THEN UNCHANGED storeVars ELSE persist(m, w)
           /\ Remember(CASE w = "ok" -> m
                         [] w = "unaudited" -> quarantineLocked(State, State.claims[c].devs)
                         [] OTHER -> SetPhase(State, c, "Preparing"))
           /\ cdi' = (cdi \ {c}) \cup left
           /\ pc' = "prepare"
           /\ job' = [job EXCEPT !.todo = @ \ {c}, !.cur = NoOwner, !.left = {}, !.bad = FALSE,
                                 !.done = IF w = "ok" THEN @ \cup {c} ELSE @,
                                 !.owners = IF w = "ok" THEN [d \in Devices |-> IF d \in State.claims[c].devs THEN c ELSE @[d]] ELSE @]
           /\ UNCHANGED holder
  /\ UNCHANGED <<agentVars, hw, user, podVars>>

\* The final persist; its failure turns the whole batch into an error, and
\* otherwise kubelet receives the devices of every claim that succeeded.
PrepareReply ==
  /\ pc = "prepare" /\ job.todo = {}
  /\ \E w \in Writes :
       /\ Charge(w # "ok")
       /\ persist(State, w)
       /\ grant' = IF w = "ok"
                   THEN [c \in Claims |-> IF c \in job.done THEN job.al[c] ELSE grant[c]]
                   ELSE grant
  /\ unlockState
  /\ UNCHANGED <<cdi, agentVars, mem, hw, user, alloc, held, running>>

-----------------------------------------------------------------------------
(* UnprepareResourceClaims *)

\* Kubelet unprepares claims it called prepare for and no container uses.
UnprepareResourceClaims(a, batch) ==
  /\ CanLock(a)
  /\ batch # {} /\ batch \subseteq held \ running
  /\ grant' = [c \in Claims |-> IF c \in batch THEN {} ELSE grant[c]]
  /\ Enter(a, observeLocked(Reloaded(a), hw, FALSE), "unprepare",
           [NoJob EXCEPT !.batch = batch, !.todo = batch, !.snap = hw])
  /\ UNCHANGED <<storeVars, cdi, agentVars, hw, user, alloc, held, running, spent>>

\* Faulty UnprepareUnknown: a claim that is Releasing counts as released.
UnprepareUnknownReleasing ==
  /\ pc = "unprepare"
  /\ \E c \in job.todo : State.claims[c].phase \in {"Absent", "Releasing"} /\ Decide(c, TRUE, "unprepare")
  /\ UNCHANGED <<storeVars, cdi, agentVars, mem, hw, user, podVars, spent>>

\* A claim without a record is already released.
UnprepareUnknown ==
  /\ pc = "unprepare"
  /\ \E c \in job.todo : ~Owned(State, c) /\ Decide(c, TRUE, "unprepare")
  /\ UNCHANGED <<storeVars, cdi, agentVars, mem, hw, user, podVars, spent>>

\* Faulty UnprepareIntent: the intent stays in memory.
UnprepareIntentUnwritten ==
  /\ pc = "unprepare"
  /\ \E c \in job.todo :
       /\ Owned(State, c)
       /\ Remember(SetPhase(State, c, "Releasing"))
       /\ pc' = "scrub"
       /\ job' = [job EXCEPT !.cur = c, !.left = State.claims[c].devs]
  /\ UNCHANGED <<storeVars, cdi, agentVars, holder, hw, user, podVars, spent>>

\* The Releasing intent; memory keeps it even when it could not be persisted.
UnprepareIntent ==
  /\ pc = "unprepare"
  /\ \E c \in job.todo, w \in Writes \cup {"unaudited"} :
       LET m == SetPhase(State, c, "Releasing")
       IN  /\ Owned(State, c)
           /\ IF State.claims[c].phase = "Releasing"
              THEN w = "ok" /\ UNCHANGED storeVars
              ELSE persist(m, w)
           /\ Charge(w # "ok")
           /\ Remember(m)
           /\ IF w # "ok" THEN Decide(c, FALSE, "unprepare")
              ELSE /\ pc' = "scrub"
                   /\ job' = [job EXCEPT !.cur = c, !.left = State.claims[c].devs]
                   /\ UNCHANGED holder
  /\ UNCHANGED <<cdi, agentVars, hw, user, podVars>>

\* Post-use sanitization tries every device and remembers whether one failed.
UnprepareScrub ==
  /\ pc = "scrub"
  /\ \/ /\ job.left = {}
        /\ Goto("release")
        /\ Charge(FALSE)
        /\ UNCHANGED <<mem, user>>
     \/ \E d \in job.left : \E o \in ResetOutcomes(d) \cup {"missing"} :
          /\ (o = "missing") <=> (job.snap[d] = "gone")
          /\ IF o = "missing"
             THEN Charge(FALSE) /\ Remember(quarantineLocked(State, {d})) /\ UNCHANGED user
             ELSE Reset(d, o) /\ Remember(sanitizeLocked(State, d, o = "ok"))
          /\ pc' = "scrub"
          /\ job' = [job EXCEPT !.left = @ \ {d}, !.bad = @ \/ o # "ok"]
          /\ UNCHANGED holder
  /\ UNCHANGED <<storeVars, cdi, agentVars, hw, podVars>>

\* A failed scrub keeps the claim; a good one is audited.
UnprepareApprove ==
  /\ pc = "release"
  /\ \/ /\ job.bad
        /\ \E w \in Writes : Charge(w # "ok") /\ persist(State, w)
        /\ UNCHANGED mem
        /\ Decide(job.cur, FALSE, "unprepare")
     \/ /\ ~job.bad
        /\ UNCHANGED storeVars
        /\ \/ Charge(FALSE) /\ UNCHANGED mem /\ Goto("remove")
           \/ /\ Charge(TRUE)
              /\ Remember(quarantineLocked(State, State.claims[job.cur].devs))
              /\ Decide(job.cur, FALSE, "unprepare")
  /\ UNCHANGED <<cdi, agentVars, hw, user, podVars>>

\* Faulty UnprepareRemoveCDI: a failed removal is taken for a removal.
UnprepareRemoveCDIUnchecked ==
  /\ pc = "remove"
  /\ Goto("forget")
  /\ \/ Charge(FALSE) /\ cdi' = cdi \ {job.cur}
     \/ Charge(TRUE) /\ UNCHANGED cdi
  /\ UNCHANGED <<storeVars, agentVars, mem, hw, user, podVars>>

UnprepareRemoveCDI ==
  /\ pc = "remove"
  /\ \/ Charge(FALSE) /\ cdi' = cdi \ {job.cur} /\ Goto("forget")
     \/ /\ job.cur \in cdi
        /\ Charge(TRUE)
        /\ UNCHANGED cdi
        /\ Decide(job.cur, FALSE, "unprepare")
  /\ UNCHANGED <<storeVars, agentVars, mem, hw, user, podVars>>

\* Faulty UnprepareForget: the record is not deleted from memory.
UnprepareForgetKept ==
  /\ pc = "forget"
  /\ persist(SetClaim(State, job.cur, NoClaim), "ok")
  /\ Decide(job.cur, TRUE, "unprepare")
  /\ UNCHANGED <<cdi, agentVars, mem, hw, user, podVars, spent>>

\* The record is deleted; a failed persist puts it back in memory.
UnprepareForget ==
  /\ pc = "forget"
  /\ \E w \in Writes :
       LET m == SetClaim(State, job.cur, NoClaim)
       IN  /\ Charge(w # "ok")
           /\ persist(m, w)
           /\ IF w = "ok" THEN Remember(m) ELSE UNCHANGED mem
           /\ Decide(job.cur, w = "ok", "unprepare")
  /\ UNCHANGED <<cdi, agentVars, hw, user, podVars>>

\* The final persist; kubelet drops the claims that were released.
UnprepareReply ==
  /\ pc = "unprepare" /\ job.todo = {}
  /\ \E w \in Writes :
       /\ Charge(w # "ok")
       /\ persist(State, w)
       /\ held' = IF w = "ok" THEN held \ job.done ELSE held
  /\ unlockState
  /\ UNCHANGED <<cdi, agentVars, mem, hw, user, alloc, grant, running>>

-----------------------------------------------------------------------------
(* The janitor *)

\* BuildSnapshot in the node loop, before Monitor asks for the lock; the calls
\* kubelet makes meanwhile run in other goroutines.
Scan(a) ==
  /\ up[a] /\ scan[a] = NoScan /\ ~(holder = a /\ pc = "monitor")
  /\ scan' = [scan EXCEPT ![a] = hw]
  /\ UNCHANGED <<storeVars, cdi, up, mem, txnVars, hw, user, podVars, spent>>

Monitor(a) ==
  /\ CanLock(a)
  /\ scan[a] # NoScan
  /\ LET m == observeLocked(Reloaded(a), scan[a], TRUE)
     IN  Enter(a, m, "monitor", [NoJob EXCEPT !.snap = scan[a], !.left = Recoverable(m, scan[a])])
  /\ scan' = [scan EXCEPT ![a] = NoScan]
  /\ UNCHANGED <<storeVars, cdi, up, hw, user, podVars, spent>>

\* An unreadable state file fails Monitor; the node loop scans again.
MonitorUnreadable(a) ==
  /\ holder = NoAgent /\ up[a] /\ file = "corrupt" /\ scan[a] # NoScan
  /\ scan' = [scan EXCEPT ![a] = NoScan]
  /\ UNCHANGED <<storeVars, cdi, up, mem, txnVars, hw, user, podVars, spent>>

\* One turn of the recovery loop: a device that awaits health and was seen
\* safe is released once that is audited, any other is reset.
MonitorRecover ==
  /\ pc = "monitor"
  /\ \E d \in job.left :
       /\ IF State.quar[d] = "awaiting" /\ job.snap[d] = "ok"
          THEN /\ UNCHANGED user
               /\ \/ Charge(FALSE) /\ Remember([State EXCEPT !.quar[d] = "none"])
                  \/ Charge(TRUE) /\ UNCHANGED mem
          ELSE \E o \in ResetOutcomes(d) :
                 /\ Reset(d, o)
                 /\ Remember(IF o = "ok" THEN Recover(State, d, job.snap)
                             ELSE sanitizeLocked(State, d, FALSE))
       /\ job' = [job EXCEPT !.left = @ \ {d}]
  /\ UNCHANGED <<holder, pc, storeVars, cdi, agentVars, hw, podVars>>

MonitorPersist ==
  /\ pc = "monitor" /\ job.left = {}
  /\ \E w \in Writes : Charge(w # "ok") /\ persist(State, w)
  /\ unlockState
  /\ UNCHANGED <<cdi, agentVars, mem, hw, user, podVars>>

\* Discovery failed or its snapshot is too old: the last fresh observation is
\* reused and nothing changes, or every known device is quarantined.
InventoryFailed(a) ==
  /\ CanLock(a)
  /\ \/ /\ mem' = [mem EXCEPT ![a] = Reloaded(a)]
        /\ UNCHANGED storeVars
        /\ Charge(TRUE)
     \/ \E w \in Writes :
          LET m == quarantineLocked(Reloaded(a), Reloaded(a).known)
          IN  /\ mem' = [mem EXCEPT ![a] = m]
              /\ persist(m, w)
              /\ Charge(TRUE)
  /\ scan' = [scan EXCEPT ![a] = NoScan]
  /\ UNCHANGED <<cdi, up, txnVars, hw, user, podVars>>

-----------------------------------------------------------------------------
(* NewManager, crashes *)

Exit(a) ==
  /\ unlockState
  /\ up' = [up EXCEPT ![a] = FALSE]
  /\ mem' = [mem EXCEPT ![a] = EmptyState]
  /\ scan' = [scan EXCEPT ![a] = NoScan]

NewManager(a) ==
  /\ holder = NoAgent /\ ~up[a]
  /\ Enter(a, IF file = "ok" THEN load(disk, EmptyState) ELSE EmptyState,
           IF file = "corrupt" THEN "corrupt" ELSE "reconcile", NoJob)
  /\ UNCHANGED <<storeVars, cdi, agentVars, hw, user, podVars, spent>>

\* recoverCorruptState first renames the file away.
RecoverRename ==
  /\ pc = "corrupt"
  /\ \/ /\ Charge(FALSE)
        /\ file' = "absent" /\ disk' = EmptyState
        /\ Goto("fence")
        /\ UNCHANGED <<agentVars, mem>>
     \/ /\ Charge(TRUE)
        /\ UNCHANGED storeVars
        /\ Exit(holder)
  /\ UNCHANGED <<cdi, hw, user, podVars>>

\* Then it quarantines what the inventory shows, audits and persists.
RecoverFence ==
  /\ pc = "fence"
  /\ \/ \E w \in Writes \cup {"unaudited"} :
          LET m == [quarantineLocked(EmptyState, Seen(hw)) EXCEPT !.known = Seen(hw)]
          IN  /\ Charge(w # "ok")
              /\ persist(m, w)
              /\ IF w = "ok" THEN Goto("reconcile") /\ Remember(m) /\ UNCHANGED agentVars
                 ELSE Exit(holder)
     \/ /\ Charge(TRUE)
        /\ UNCHANGED storeVars
        /\ Exit(holder)
  /\ UNCHANGED <<cdi, hw, user, podVars>>

\* reconcileStartup up to its CDI repairs: the files of bad could not be
\* written, or were written and not synced.
Reconcile ==
  /\ pc = "reconcile"
  /\ \/ LET m == reconcileStartup(State, alloc, hw)
        IN  \E bad \in SUBSET Complete(m), unaudited \in BOOLEAN : \E late \in SUBSET bad :
              /\ unaudited => Interrupted(m, hw) # {}
              /\ Charge(bad # {} \/ unaudited)
              /\ cdi' = cdi \cup (Complete(m) \ bad) \cup late
              /\ Remember(quarantineLocked(m, UNION {m.claims[c].devs : c \in bad}))
              /\ pc' = "orphans"
              /\ job' = [job EXCEPT !.bad = unaudited]
              /\ UNCHANGED <<holder, agentVars>>
     \/ /\ Charge(TRUE)
        /\ Exit(holder)
        /\ UNCHANGED cdi
  /\ UNCHANGED <<storeVars, hw, user, podVars>>

\* Faulty removeOrphanCDI: it looks at live allocations instead of records.
removeUnallocatedCDI ==
  /\ pc = "orphans"
  /\ cdi' = {c \in cdi : alloc[c] # {}}
  /\ Goto("serve")
  /\ UNCHANGED <<storeVars, agentVars, mem, hw, user, podVars, spent>>

removeOrphanCDI ==
  /\ pc = "orphans"
  /\ \E stuck \in SUBSET {c \in cdi : ~Owned(State, c)} :
       /\ Charge(stuck # {})
       /\ cdi' = {c \in cdi : Owned(State, c)} \cup stuck
       /\ IF stuck = {} THEN Goto("serve") /\ UNCHANGED <<agentVars, mem>>
          ELSE Exit(holder)
  /\ UNCHANGED <<storeVars, hw, user, podVars>>

StartupPersist ==
  /\ pc = "serve"
  /\ \E w \in Writes :
       /\ Charge(w # "ok")
       /\ persist(State, w)
       /\ IF w = "ok" /\ ~job.bad
          THEN unlockState /\ up' = [up EXCEPT ![holder] = TRUE] /\ UNCHANGED <<mem, scan>>
          ELSE Exit(holder)
  /\ UNCHANGED <<cdi, hw, user, podVars>>

\* The process dies (or is stopped) anywhere; flock and memory go with it.
Crash(a) ==
  /\ up[a] \/ holder = a
  /\ spent.crashes < MaxCrashes
  /\ spent' = [spent EXCEPT !.crashes = @ + 1]
  /\ up' = [up EXCEPT ![a] = FALSE]
  /\ mem' = [mem EXCEPT ![a] = EmptyState]
  /\ scan' = [scan EXCEPT ![a] = NoScan]
  /\ IF holder = a THEN unlockState ELSE UNCHANGED txnVars
  /\ UNCHANGED <<storeVars, cdi, hw, user, podVars>>

-----------------------------------------------------------------------------
(* The environment: scheduler, containers, hardware, file system *)

\* The scheduler never gives one device to two allocated claims.
Allocate(c) ==
  /\ alloc[c] = {}
  /\ \E S \in SUBSET (Devices \ UNION {alloc[x] : x \in Claims}) :
       S # {} /\ alloc' = [alloc EXCEPT ![c] = S]
  /\ UNCHANGED <<storeVars, cdi, agentVars, mem, txnVars, hw, user, held, grant, running, spent>>

\* A claim is deallocated once no pod reserves it, which is after kubelet
\* unprepared it; a force-deleted pod gives up its reservation while kubelet may
\* still prepare its claim or run its containers.
Deallocate(c) ==
  /\ alloc[c] # {}
  /\ ForcedDeletion \/ c \notin held
  /\ alloc' = [alloc EXCEPT ![c] = {}]
  /\ UNCHANGED <<storeVars, cdi, agentVars, mem, txnVars, hw, user, held, grant, running, spent>>

ContainerStart(c) ==
  /\ grant[c] # {} /\ c \notin running /\ c \in cdi
  /\ running' = running \cup {c}
  /\ user' = [d \in Devices |-> IF d \in grant[c] THEN c ELSE user[d]]
  /\ UNCHANGED <<storeVars, cdi, agentVars, mem, txnVars, hw, alloc, held, grant, spent>>

ContainerStop(c) ==
  /\ c \in running
  /\ running' = running \ {c}
  /\ UNCHANGED <<storeVars, cdi, agentVars, mem, txnVars, hw, user, alloc, held, grant, spent>>

HardwareChange(d) ==
  /\ spent.plugs < MaxPlugs
  /\ spent' = [spent EXCEPT !.plugs = @ + 1]
  /\ \E h \in Hardware \ {hw[d]} : hw' = [hw EXCEPT ![d] = h]
  /\ UNCHANGED <<storeVars, cdi, agentVars, mem, txnVars, user, podVars>>

Corrupt ==
  /\ file = "ok"
  /\ spent.corruptions < MaxCorruptions
  /\ spent' = [spent EXCEPT !.corruptions = @ + 1]
  /\ file' = "corrupt" /\ disk' = EmptyState
  /\ UNCHANGED <<cdi, agentVars, mem, txnVars, hw, user, podVars>>

-----------------------------------------------------------------------------
PrepareStep ==
  \/ PrepareRejected \/ PrepareRepeated \/ PrepareResumed \/ PrepareIntent
  \/ PrepareSanitize \/ PrepareVerify \/ PrepareExpose \/ PrepareCommit \/ PrepareReply

UnprepareStep ==
  \/ UnprepareUnknown \/ UnprepareIntent \/ UnprepareScrub \/ UnprepareApprove
  \/ UnprepareRemoveCDI \/ UnprepareForget \/ UnprepareReply

StartupStep ==
  RecoverRename \/ RecoverFence \/ Reconcile \/ removeOrphanCDI \/ StartupPersist

Call(a) ==
  \/ \E batch \in SUBSET Claims : PrepareResourceClaims(a, batch)
  \/ \E batch \in SUBSET Claims : UnprepareResourceClaims(a, batch)
  \/ RefreshFailed(a)
  \/ SnapshotStats(a) \/ Scan(a) \/ Monitor(a) \/ MonitorUnreadable(a) \/ InventoryFailed(a)
  \/ NewManager(a) \/ Crash(a)

Environment ==
  \/ \E c \in Claims : Allocate(c) \/ Deallocate(c) \/ ContainerStart(c) \/ ContainerStop(c)
  \/ \E d \in Devices : HardwareChange(d)
  \/ Corrupt

Transaction ==
  PrepareStep \/ UnprepareStep \/ MonitorRecover \/ MonitorPersist \/ StartupStep

Next ==
  \/ Transaction
  \/ \E a \in Agents : Call(a)
  \/ Environment

Spec == Init /\ [][Next]_vars

(***************************************************************************)
(* A transaction that has the lock runs on; a stopped agent is restarted   *)
(* by its DaemonSet; the node loop scans and monitors on every tick;       *)
(* kubelet retries an unprepare until it succeeds.  The waiters of the     *)
(* mutex and of flock get their turn, hence strong fairness for the calls. *)
(***************************************************************************)
Fairness ==
  /\ WF_vars(Transaction)
  /\ \A a \in Agents :
       /\ WF_vars(NewManager(a))
       /\ WF_vars(Scan(a))
       /\ SF_vars(Monitor(a))
       /\ \A c \in Claims : SF_vars(UnprepareResourceClaims(a, {c}))

FairSpec == Spec /\ Fairness

-----------------------------------------------------------------------------
(* What the manager promises *)

\* As long as claims.json was never corrupted, a claim whose devices a prepare
\* returned to kubelet is recorded on disk with exactly those devices, whatever
\* crashes, failed writes and restarts of overlapping agents happen: devices
\* are never unowned while CDI access to them is returned.
GrantOwned ==
  spent.corruptions = 0 =>
    \A c \in Claims : grant[c] # {} => Owned(disk, c) /\ disk.claims[c].devs = grant[c]

\* Write-ahead: while one agent runs and prepare works on a claim, resetting its
\* devices and writing its CDI file, the state file says Preparing.
IntentRecorded ==
  spent.corruptions = 0 /\ pc \in PreparingSteps =>
    disk.claims[job.cur].phase = "Preparing"

\* While prepare or unprepare works on a claim, the state file never says that
\* it is Prepared, whichever agents overlap and whatever failed before: startup
\* after a crash in the middle does not take it for a finished prepare.
InFlightMarked ==
  pc \in PreparingSteps \cup ReleasingSteps => disk.claims[job.cur].phase # "Prepared"

\* A claim kubelet may start containers for has its CDI file: no failure path
\* or orphan cleanup removes the file of a granted claim.
GrantExposed ==
  spent.corruptions = 0 => \A c \in Claims : grant[c] # {} => c \in cdi

\* Whenever every agent serves and none is inside a transaction, a CDI file has
\* an ownership record: no sequence of failures and restarts leaves an orphan.
ExposedOwned ==
  spent.corruptions = 0 /\ holder = NoAgent /\ (\A a \in Agents : up[a]) =>
    \A c \in cdi : Owned(disk, c)

\* No device of a running claim is reset or used by another claim: neither the
\* janitor nor a prepare or unprepare of another claim touches it.
RunningUndisturbed ==
  \A c \in running : \A d \in grant[c] : user[d] = c

\* Devices returned by a prepare carry no state of another claim: each was
\* reset after the last other claim that used it.
GrantClean ==
  spent.corruptions = 0 => \A c \in Claims : \A d \in grant[c] : user[d] \in {NoOwner, c}

\* A device that was used and not reset since is owned or quarantined in the
\* state file: release, recovery and startup never free it unsanitized.
DirtyFenced ==
  spent.corruptions = 0 /\ file = "ok" =>
    \A d \in Devices : user[d] # NoOwner => Holders(disk, d) # {} \/ Quarantined(disk, d)

\* Two claims that were prepared or are being prepared never share a device.
PreparedExclusive ==
  spent.corruptions = 0 =>
    \A d \in Devices :
      Cardinality({c \in Holders(disk, d) : disk.claims[c].phase \in {"Preparing", "Prepared"}}) <= 1

\* A release kubelet was told of is final: a claim it drops has no record in the
\* state file, and from then on only startup, which takes up live allocations, may
\* record it; what an agent still remembers never brings it back.
NoResurrection ==
  [][spent'.corruptions = 0 => \A c \in Claims :
       /\ c \in held \ held' => ~Owned(disk', c)
       /\ ~Owned(disk, c) /\ Owned(disk', c) => c \in held \/ pc = "serve"]_vars

\* A claim whose release began, by a call of kubelet or by a startup that finds it
\* deallocated, is eventually released unless its containers run on, whatever
\* failed before, when faults stop and no device is gone.
ReleaseCompletes ==
  \A c \in Claims :
    c \in held /\ disk.claims[c].phase = "Releasing" ~> ~Owned(disk, c) \/ c \in running

\* A quarantined idle device that is safe is eventually sanitized and returned
\* to capacity, or taken by a claim.
IdleRecovers ==
  \A d \in Devices :
    hw[d] = "ok" /\ Quarantined(disk, d) ~> ~Quarantined(disk, d) \/ Holders(disk, d) # {}
=============================================================================
