-------------------------- MODULE LifecycleProofs --------------------------
(* Theorems about Lifecycle, for any agents, claims, devices and bounds. *)
EXTENDS Lifecycle, TLAPS

(***************************************************************************)
(* The operators of NodeState stay within PersistedState.                  *)
(***************************************************************************)

\* A claim record with a new phase is a claim record.
LEMMA PhaseType ==
  ASSUME NEW s \in PersistedState, NEW c \in Claims, NEW p \in Phases
  PROVE  SetPhase(s, c, p) \in PersistedState
BY DEF SetPhase, PersistedState, PreparedClaim

\* Storing a claim record keeps the state well formed.
LEMMA ClaimType ==
  ASSUME NEW s \in PersistedState, NEW c \in Claims, NEW rec \in PreparedClaim
  PROVE  SetClaim(s, c, rec) \in PersistedState
BY DEF SetClaim, PersistedState

\* The absent record is a claim record.
LEMMA NoClaimType == NoClaim \in PreparedClaim
BY DEF NoClaim, PreparedClaim, Phases

\* The state of a fresh manager is well formed (NewManager, manager.go).
LEMMA EmptyType == EmptyState \in PersistedState
BY NoClaimType DEF EmptyState, PersistedState, QuarantineRecord

\* A reload combines two states into one.
LEMMA LoadType ==
  ASSUME NEW s \in PersistedState, NEW m \in PersistedState
  PROVE  load(s, m) \in PersistedState
BY DEF load, PersistedState

\* quarantineLocked keeps the state well formed (janitor.go).
LEMMA QuarantineType ==
  ASSUME NEW s \in PersistedState, NEW Q
  PROVE  quarantineLocked(s, Q) \in PersistedState
BY DEF quarantineLocked, PersistedState, QuarantineRecord

\* sanitizeLocked keeps the state well formed, whether or not its reset succeeds.
LEMMA SanitizeType ==
  ASSUME NEW s \in PersistedState, NEW d \in Devices, NEW ok \in BOOLEAN
  PROVE  sanitizeLocked(s, d, ok) \in PersistedState
BY DEF sanitizeLocked, PersistedState, QuarantineRecord

\* Applying an inventory (observeLocked, janitor.go) keeps the state well formed.
LEMMA ObserveType ==
  ASSUME NEW s \in PersistedState, NEW snap, NEW r \in BOOLEAN
  PROVE  observeLocked(s, snap, r) \in PersistedState
BY QuarantineType DEF observeLocked, PersistedState, Seen

\* Recovering an idle device keeps the state well formed (observeLocked, janitor.go).
LEMMA RecoverType ==
  ASSUME NEW s \in PersistedState, NEW d \in Devices, NEW snap
  PROVE  Recover(s, d, snap) \in PersistedState
BY SanitizeType DEF Recover, PersistedState, QuarantineRecord

\* Startup reconciliation keeps the state well formed (recovery.go).
LEMMA ReconcileType ==
  ASSUME NEW s \in PersistedState, NEW al \in [Claims -> SUBSET Devices], NEW snap
  PROVE  reconcileStartup(s, al, snap) \in PersistedState
<1>1. ASSUME NEW c \in Claims
      PROVE  ReconciledClaim(s.claims[c], al[c], snap) \in PreparedClaim
  BY DEF ReconciledClaim, PersistedState, PreparedClaim, Phases
<1>2. ReconciledClaims(s, al, snap) \in PersistedState
  BY <1>1 DEF ReconciledClaims, PersistedState
<1>. QED  BY <1>2, QuarantineType DEF reconcileStartup

\* The job of an agent that is not in a call is a job.
LEMMA NoJobType == NoJob \in Job
BY DEF NoJob, Job, Snapshot, Hardware

-----------------------------------------------------------------------------
(***************************************************************************)
(* Type correctness.  The strengthening says who is inside the lock.       *)
(***************************************************************************)
LockHeld == pc # "idle" => holder \in Agents

CurrentClaim == pc \in PreparingSteps \cup ReleasingSteps => job.cur \in Claims

TypeInv == TypeOK /\ LockHeld /\ CurrentClaim

\* An agent inside a transaction works on a well formed state.
LEMMA StateType == TypeInv /\ pc # "idle" => State \in PersistedState
BY DEF TypeInv, TypeOK, LockHeld, State

\* lockAndReload (recovery.go) yields a well formed state.
LEMMA ReloadedType ==
  ASSUME TypeInv, NEW a \in Agents
  PROVE  Reloaded(a) \in PersistedState
BY LoadType DEF TypeInv, TypeOK, Reloaded

\* The fault budget stays a record of counters.
LEMMA ChargeType ==
  ASSUME TypeInv, NEW b \in BOOLEAN, Charge(b)
  PROVE  spent' \in Budget
BY DEF TypeInv, TypeOK, Charge, Budget

\* A hardware reset, whatever its outcome, keeps the types (reset.go).
LEMMA ResetType ==
  ASSUME TypeInv, NEW d \in Devices, NEW o, Reset(d, o)
  PROVE  /\ spent' \in Budget
         /\ user' \in [Devices -> Claims \cup {NoOwner}]
<1>1. (o # "ok" /\ hw[d] # "gone") \in BOOLEAN
  OBVIOUS
<1>. QED  BY <1>1, ChargeType DEF Reset, TypeInv, TypeOK

\* A write of the state file, whatever its outcome, leaves a well formed file.
LEMMA PersistType ==
  ASSUME TypeInv, NEW m \in PersistedState, NEW w, persist(m, w)
  PROVE  disk' \in PersistedState /\ file' \in {"absent", "ok", "corrupt"}
BY DEF persist, TypeInv, TypeOK

\* Deciding one claim of a batch leaves a job.
LEMMA DecideType ==
  ASSUME TypeInv, pc # "idle", NEW c, NEW g, NEW step \in Steps \ {"idle"}, Decide(c, g, step),
         g => c \in Claims
  PROVE  /\ holder' = holder /\ pc' = step /\ job' \in Job
<1>1. job \in Job
  BY DEF TypeInv, TypeOK
<1>. QED  BY <1>1 DEF Decide, Job

\* Remembering a well formed state keeps the memories well formed.
LEMMA RememberType ==
  ASSUME TypeInv, NEW m \in PersistedState, Remember(m)
  PROVE  mem' \in [Agents -> PersistedState]
BY DEF Remember, TypeInv, TypeOK

\* A manager that closes leaves every variable it resets with its type.
LEMMA ExitType ==
  ASSUME TypeInv, NEW a, Exit(a)
  PROVE  /\ holder' = NoAgent /\ pc' = "idle" /\ job' \in Job
         /\ up' \in [Agents -> BOOLEAN] /\ mem' \in [Agents -> PersistedState]
         /\ scan' \in [Agents -> Snapshot \cup {NoScan}]
BY EmptyType, NoJobType DEF Exit, unlockState, TypeInv, TypeOK

\* A call that takes the lock with a well formed state leaves well formed variables.
LEMMA EnterType ==
  ASSUME TypeInv, NEW a \in Agents, NEW m \in PersistedState, NEW step \in Steps, NEW j \in Job,
         Enter(a, m, step, j)
  PROVE  /\ holder' = a /\ pc' \in Steps /\ job' \in Job
         /\ mem' \in [Agents -> PersistedState]
BY DEF Enter, TypeInv, TypeOK

\* Every initial state satisfies the type invariant.
LEMMA InitType == Init => TypeInv
<1>1. Init => hw \in Snapshot
  BY DEF Init, Snapshot, Hardware
<1>. QED  BY <1>1, EmptyType, NoJobType DEF Init, TypeInv, TypeOK, Budget, LockHeld, CurrentClaim, PreparingSteps, ReleasingSteps, Steps

\* Sanitization starts on a claim of the batch.
LEMMA StartSanitizeType ==
  ASSUME TypeInv, NEW c \in job.todo, StartSanitize(c)
  PROVE  holder' = holder /\ pc' = "sanitize" /\ job' \in Job /\ job'.cur \in Claims
<1>1. job \in Job /\ c \in Claims
  BY DEF TypeInv, TypeOK, Job
<1>. QED  BY <1>1 DEF StartSanitize, Job

\* Every step of a prepare preserves the type invariant.
LEMMA PrepareStepType == TypeInv /\ PrepareStep => TypeInv'
<1>. SUFFICES ASSUME TypeInv, PrepareStep PROVE TypeInv'
  OBVIOUS
<1>. USE StateType, DecideType, PersistType, ChargeType, RememberType
<1>j. job \in Job /\ Steps \ {"idle"} \subseteq Steps /\ NoJob \in Job
  BY NoJobType DEF TypeInv, TypeOK
<1>1. CASE PrepareRejected
  <2>1. PICK c \in job.todo : Decide(c, FALSE, "prepare")
    BY <1>1 DEF PrepareRejected
  <2>2. pc # "idle" /\ "prepare" \in Steps \ {"idle"}
    BY <1>1 DEF PrepareRejected, Steps
  <2>3. holder' = holder /\ pc' = "prepare" /\ job' \in Job
    BY <2>1, <2>2
  <2>. QED  BY <1>1, <2>2, <2>3 DEF PrepareRejected, TypeInv, TypeOK, LockHeld, CurrentClaim, PreparingSteps, ReleasingSteps, Steps, storeVars, agentVars, podVars
<1>2. CASE PrepareRepeated
  <2>1. PICK c \in job.todo, w \in Writes :
          Charge(w # "ok") /\ writeCDI({c}, w) /\ Decide(c, w = "ok", "prepare")
    BY <1>2 DEF PrepareRepeated
  <2>2. pc # "idle" /\ "prepare" \in Steps \ {"idle"} /\ c \in Claims
    BY <1>2, <1>j DEF PrepareRepeated, Steps, Job
  <2>3. holder' = holder /\ pc' = "prepare" /\ job' \in Job
    BY <2>1, <2>2
  <2>4. cdi' \in SUBSET Claims
    BY <2>1, <2>2 DEF writeCDI, TypeInv, TypeOK
  <2>5. spent' \in Budget
    BY <2>1
  <2>. QED  BY <1>2, <2>2, <2>3, <2>4, <2>5 DEF PrepareRepeated, TypeInv, TypeOK, LockHeld, CurrentClaim, PreparingSteps, ReleasingSteps, Steps, storeVars, agentVars, podVars
<1>3. CASE PrepareResumed
  <2>1. PICK c \in job.todo : StartSanitize(c)
    BY <1>3 DEF PrepareResumed
  <2>2. holder' = holder /\ pc' = "sanitize" /\ job' \in Job /\ job'.cur \in Claims
    BY <2>1, StartSanitizeType
  <2>. QED  BY <1>3, <2>2 DEF PrepareResumed, TypeInv, TypeOK, LockHeld, CurrentClaim, PreparingSteps, ReleasingSteps, Steps, storeVars, agentVars, podVars
<1>4. CASE PrepareIntent
  <2>. DEFINE m(c) == SetClaim(State, c, [phase |-> "Preparing", devs |-> job.al[c], placed |-> TRUE])
  <2>1. PICK c \in job.todo, w \in Writes \cup {"unaudited"} :
          /\ Charge(w # "ok") /\ persist(m(c), w)
          /\ IF w \in {"early", "late"} THEN UNCHANGED mem ELSE Remember(m(c))
          /\ IF w = "ok" THEN StartSanitize(c) ELSE Decide(c, FALSE, "prepare")
    BY <1>4 DEF PrepareIntent
  <2>2. pc # "idle" /\ {"prepare", "sanitize"} \subseteq Steps \ {"idle"} /\ c \in Claims
    BY <1>4, <1>j DEF PrepareIntent, Steps, Job
  <2>3. m(c) \in PersistedState
    <3>1. [phase |-> "Preparing", devs |-> job.al[c], placed |-> TRUE] \in PreparedClaim
      BY <2>2, <1>j DEF PreparedClaim, Phases, Job
    <3>. QED  BY <3>1, <2>2, ClaimType
  <2>4. /\ holder' = holder /\ job' \in Job
        /\ pc' = "prepare" \/ (pc' = "sanitize" /\ job'.cur \in Claims)
    <3>1. CASE w = "ok"
      <4>1. StartSanitize(c)
        BY <3>1, <2>1
      <4>. QED  BY <4>1, StartSanitizeType
    <3>2. CASE w # "ok"
      BY <3>2, <2>1, <2>2
    <3>. QED  BY <3>1, <3>2
  <2>5. mem' \in [Agents -> PersistedState]
    BY <2>1, <2>3 DEF TypeInv, TypeOK
  <2>6. disk' \in PersistedState /\ file' \in {"absent", "ok", "corrupt"}
    BY <2>1, <2>3
  <2>7. spent' \in Budget
    BY <2>1
  <2>. HIDE DEF m
  <2>. QED  BY <1>4, <2>2, <2>4, <2>5, <2>6, <2>7 DEF PrepareIntent, TypeInv, TypeOK, LockHeld, CurrentClaim, PreparingSteps, ReleasingSteps, Steps, storeVars, agentVars, podVars
<1>5. CASE PrepareSanitize
  <2>0. PICK d \in job.left : \E o \in ResetOutcomes(d) :
          /\ Reset(d, o)
          /\ Remember(sanitizeLocked(State, d, o = "ok"))
          /\ IF o # "ok" THEN Decide(job.cur, FALSE, "prepare")
             ELSE /\ pc' = IF job.left = {d} THEN "verify" ELSE "sanitize"
                  /\ job' = [job EXCEPT !.left = @ \ {d}]
                  /\ UNCHANGED holder
    BY <1>5 DEF PrepareSanitize
  <2>1. PICK o \in ResetOutcomes(d) :
          /\ Reset(d, o)
          /\ Remember(sanitizeLocked(State, d, o = "ok"))
          /\ IF o # "ok" THEN Decide(job.cur, FALSE, "prepare")
             ELSE /\ pc' = IF job.left = {d} THEN "verify" ELSE "sanitize"
                  /\ job' = [job EXCEPT !.left = @ \ {d}]
                  /\ UNCHANGED holder
    BY <2>0
  <2>2. pc = "sanitize" /\ "prepare" \in Steps \ {"idle"} /\ d \in Devices
    BY <1>5, <1>j DEF PrepareSanitize, Steps, Job
  <2>3. mem' \in [Agents -> PersistedState]
    <3>1. (o = "ok") \in BOOLEAN
      OBVIOUS
    <3>2. sanitizeLocked(State, d, o = "ok") \in PersistedState
      BY <3>1, <2>2, SanitizeType
    <3>. QED  BY <3>2, <2>1
  <2>4. /\ holder' = holder /\ job' \in Job
        /\ pc' = "prepare" \/ (pc' \in {"sanitize", "verify"} /\ job'.cur = job.cur)
    <3>1. CASE o = "ok"
      BY <3>1, <2>1, <1>j DEF Job
    <3>2. CASE o # "ok"
      BY <3>2, <2>1, <2>2
    <3>. QED  BY <3>1, <3>2
  <2>5. spent' \in Budget
        /\ user' \in [Devices -> Claims \cup {NoOwner}]
    BY <2>1, <2>2, ResetType
  <2>. QED  BY <1>5, <2>2, <2>3, <2>4, <2>5 DEF PrepareSanitize, TypeInv, TypeOK, LockHeld, CurrentClaim, PreparingSteps, ReleasingSteps, Steps, storeVars, agentVars, podVars
<1>6. CASE PrepareVerify
  <2>. DEFINE m == observeLocked(State, hw, FALSE)
  <2>1. /\ pc = "verify" /\ "prepare" \in Steps \ {"idle"}
        /\ UNCHANGED mem \/ Remember(m) \/ \E d : Remember(quarantineLocked(m, {d}))
        /\ Goto("expose") \/ Decide(job.cur, FALSE, "prepare")
        /\ Charge(FALSE) \/ Charge(TRUE)
    BY <1>6 DEF PrepareVerify, Steps
  <2>2. m \in PersistedState /\ \A d : quarantineLocked(m, {d}) \in PersistedState
    <3>1. m \in PersistedState
      BY <2>1, ObserveType
    <3>. HIDE DEF m
    <3>. QED  BY <3>1, QuarantineType
  <2>. HIDE DEF m
  <2>3. mem' \in [Agents -> PersistedState]
    BY <2>1, <2>2 DEF TypeInv, TypeOK
  <2>4. /\ holder' = holder /\ job' \in Job
        /\ pc' = "prepare" \/ (pc' = "expose" /\ job'.cur = job.cur)
    BY <2>1, <1>j DEF Goto
  <2>5. spent' \in Budget
    BY <2>1
  <2>. QED  BY <1>6, <2>1, <2>3, <2>4, <2>5 DEF PrepareVerify, TypeInv, TypeOK, LockHeld, CurrentClaim, PreparingSteps, ReleasingSteps, Steps, storeVars, agentVars, podVars
<1>7. CASE PrepareExpose
  <2>1. PICK w \in Writes :
          /\ Charge(w # "ok") /\ writeCDI({job.cur}, w)
          /\ IF w = "ok" THEN Goto("commit") ELSE Decide(job.cur, FALSE, "prepare")
    BY <1>7 DEF PrepareExpose
  <2>2. pc = "expose" /\ "prepare" \in Steps \ {"idle"} /\ job.cur \in Claims
    BY <1>7 DEF PrepareExpose, Steps, TypeInv, CurrentClaim, PreparingSteps
  <2>3. cdi' \in SUBSET Claims
    BY <2>1, <2>2 DEF writeCDI, TypeInv, TypeOK
  <2>4. /\ holder' = holder /\ job' \in Job
        /\ pc' = "prepare" \/ (pc' = "commit" /\ job'.cur = job.cur)
    BY <2>1, <2>2, <1>j DEF Goto
  <2>5. spent' \in Budget
    BY <2>1
  <2>. QED  BY <1>7, <2>2, <2>3, <2>4, <2>5 DEF PrepareExpose, TypeInv, TypeOK, LockHeld, CurrentClaim, PreparingSteps, ReleasingSteps, Steps, storeVars, agentVars, podVars
<1>8. CASE PrepareCommit
  <2>. DEFINE c == job.cur
              m == SetPhase(State, c, "Prepared")
  <2>1. PICK w \in Writes \cup {"unaudited"}, left \in SUBSET {job.cur} :
          /\ Charge(w # "ok")
          /\ IF w = "unaudited" THEN UNCHANGED storeVars ELSE persist(m, w)
          /\ Remember(CASE w = "ok" -> m
                        [] w = "unaudited" -> quarantineLocked(State, State.claims[c].devs)
                        [] OTHER -> SetPhase(State, c, "Preparing"))
          /\ cdi' = (cdi \ {c}) \cup left
          /\ job' = [job EXCEPT !.todo = @ \ {c}, !.cur = NoOwner, !.left = {}, !.bad = FALSE,
                                !.done = IF w = "ok" THEN @ \cup {c} ELSE @,
                                !.owners = IF w = "ok" THEN [d \in Devices |-> IF d \in State.claims[c].devs THEN c ELSE @[d]] ELSE @]
    BY <1>8 DEF PrepareCommit
  <2>2. pc = "commit" /\ c \in Claims /\ holder' = holder /\ pc' = "prepare"
    BY <1>8 DEF PrepareCommit, TypeInv, CurrentClaim, PreparingSteps
  <2>3. State \in PersistedState /\ m \in PersistedState /\ SetPhase(State, c, "Preparing") \in PersistedState
        /\ quarantineLocked(State, State.claims[c].devs) \in PersistedState
    BY <2>2, PhaseType, QuarantineType DEF Phases
  <2>4. job' \in Job
    <3>. DEFINE ow == [d \in Devices |-> IF d \in State.claims[c].devs THEN c ELSE job.owners[d]]
    <3>1. ow \in [Devices -> Claims \cup {NoOwner}]
      BY <2>2, <1>j DEF Job
    <3>2. job'.owners \in {job.owners, ow}
      BY <2>1, <1>j DEF Job
    <3>. HIDE DEF ow
    <3>. QED  BY <2>1, <2>2, <3>1, <3>2, <1>j DEF Job
  <2>5. cdi' \in SUBSET Claims
    BY <2>1, <2>2 DEF TypeInv, TypeOK
  <2>. HIDE DEF m
  <2>6. mem' \in [Agents -> PersistedState]
    BY <2>1, <2>3
  <2>7. disk' \in PersistedState /\ file' \in {"absent", "ok", "corrupt"}
    BY <2>1, <2>3 DEF TypeInv, TypeOK, storeVars
  <2>8. spent' \in Budget
    BY <2>1
  <2>. QED  BY <1>8, <2>2, <2>4, <2>5, <2>6, <2>7, <2>8 DEF PrepareCommit, TypeInv, TypeOK, LockHeld, CurrentClaim, PreparingSteps, ReleasingSteps, Steps, storeVars, agentVars, podVars
<1>9. CASE PrepareReply
  <2>1. PICK w \in Writes :
          /\ Charge(w # "ok") /\ persist(State, w)
          /\ grant' = IF w = "ok"
                      THEN [c \in Claims |-> IF c \in job.done THEN job.al[c] ELSE grant[c]]
                      ELSE grant
    BY <1>9 DEF PrepareReply
  <2>2. pc = "prepare" /\ holder' = NoAgent /\ pc' = "idle" /\ job' \in Job
    BY <1>9, <1>j DEF PrepareReply, unlockState
  <2>3. grant' \in [Claims -> SUBSET Devices]
    BY <2>1, <1>j DEF Job, TypeInv, TypeOK
  <2>4. disk' \in PersistedState /\ file' \in {"absent", "ok", "corrupt"}
    BY <2>1, <2>2
  <2>5. spent' \in Budget
    BY <2>1
  <2>. QED  BY <1>9, <2>2, <2>3, <2>4, <2>5 DEF PrepareReply, TypeInv, TypeOK, LockHeld, CurrentClaim, PreparingSteps, ReleasingSteps, Steps, storeVars, agentVars, podVars
<1>. QED  BY <1>1, <1>2, <1>3, <1>4, <1>5, <1>6, <1>7, <1>8, <1>9 DEF PrepareStep

\* Every step of an unprepare preserves the type invariant.
LEMMA UnprepareStepType == TypeInv /\ UnprepareStep => TypeInv'
<1>. SUFFICES ASSUME TypeInv, UnprepareStep PROVE TypeInv'
  OBVIOUS
<1>. USE StateType, DecideType, PersistType, ChargeType, RememberType
<1>j. job \in Job /\ NoJob \in Job /\ "unprepare" \in Steps \ {"idle"}
  BY NoJobType DEF TypeInv, TypeOK, Steps
<1>1. CASE UnprepareUnknown
  <2>1. PICK c \in job.todo : Decide(c, TRUE, "unprepare")
    BY <1>1 DEF UnprepareUnknown
  <2>2. pc = "unprepare" /\ c \in Claims
    BY <1>1, <1>j DEF UnprepareUnknown, Job
  <2>3. holder' = holder /\ pc' = "unprepare" /\ job' \in Job
    BY <2>1, <2>2, <1>j
  <2>. QED  BY <1>1, <2>2, <2>3 DEF UnprepareUnknown, TypeInv, TypeOK, LockHeld, CurrentClaim, PreparingSteps, ReleasingSteps, Steps, storeVars, agentVars, podVars
<1>2. CASE UnprepareIntent
  <2>. DEFINE m(c) == SetPhase(State, c, "Releasing")
  <2>1. PICK c \in job.todo, w \in Writes \cup {"unaudited"} :
          /\ UNCHANGED storeVars \/ persist(m(c), w)
          /\ Charge(w # "ok") /\ Remember(m(c))
          /\ \/ Decide(c, FALSE, "unprepare")
             \/ /\ pc' = "scrub" /\ UNCHANGED holder
                /\ job' = [job EXCEPT !.cur = c, !.left = State.claims[c].devs]
    BY <1>2 DEF UnprepareIntent
  <2>2. pc = "unprepare" /\ c \in Claims
    BY <1>2, <1>j DEF UnprepareIntent, Job
  <2>3. m(c) \in PersistedState /\ State.claims[c].devs \in SUBSET Devices
    BY <2>2, PhaseType DEF PersistedState, PreparedClaim, Phases
  <2>. HIDE DEF m
  <2>4. /\ holder' = holder /\ job' \in Job
        /\ pc' = "unprepare" \/ (pc' = "scrub" /\ job'.cur \in Claims)
    <3>1. CASE Decide(c, FALSE, "unprepare")
      BY <3>1, <2>2, <1>j
    <3>2. CASE /\ pc' = "scrub" /\ UNCHANGED holder
               /\ job' = [job EXCEPT !.cur = c, !.left = State.claims[c].devs]
      BY <3>2, <2>2, <2>3, <1>j DEF Job
    <3>. QED  BY <2>1, <3>1, <3>2
  <2>5. disk' \in PersistedState /\ file' \in {"absent", "ok", "corrupt"}
    BY <2>1, <2>3 DEF TypeInv, TypeOK, storeVars
  <2>6. mem' \in [Agents -> PersistedState] /\ spent' \in Budget
    BY <2>1, <2>3
  <2>. QED  BY <1>2, <2>2, <2>4, <2>5, <2>6 DEF UnprepareIntent, TypeInv, TypeOK, LockHeld, CurrentClaim, PreparingSteps, ReleasingSteps, Steps, storeVars, agentVars, podVars
<1>3. CASE UnprepareScrub
  <2>0. pc = "scrub"
    BY <1>3 DEF UnprepareScrub
  <2>1. CASE job.left = {} /\ Goto("release") /\ Charge(FALSE) /\ UNCHANGED <<mem, user>>
    <3>1. spent' \in Budget
      BY <2>1
    <3>. QED  BY <1>3, <2>0, <2>1, <3>1 DEF UnprepareScrub, Goto, TypeInv, TypeOK, LockHeld, CurrentClaim, PreparingSteps, ReleasingSteps, Steps, storeVars, agentVars, podVars
  <2>2. CASE \E d \in job.left : \E o :
               /\ \/ Charge(FALSE) /\ Remember(quarantineLocked(State, {d})) /\ UNCHANGED user
                  \/ Reset(d, o) /\ Remember(sanitizeLocked(State, d, o = "ok"))
               /\ pc' = "scrub" /\ UNCHANGED holder
               /\ job' = [job EXCEPT !.left = @ \ {d}, !.bad = @ \/ o # "ok"]
    <3>0. PICK d \in job.left : \E o :
               /\ \/ Charge(FALSE) /\ Remember(quarantineLocked(State, {d})) /\ UNCHANGED user
                  \/ Reset(d, o) /\ Remember(sanitizeLocked(State, d, o = "ok"))
               /\ pc' = "scrub" /\ UNCHANGED holder
               /\ job' = [job EXCEPT !.left = @ \ {d}, !.bad = @ \/ o # "ok"]
      BY <2>2
    <3>1. PICK o :
               /\ \/ Charge(FALSE) /\ Remember(quarantineLocked(State, {d})) /\ UNCHANGED user
                  \/ Reset(d, o) /\ Remember(sanitizeLocked(State, d, o = "ok"))
               /\ pc' = "scrub" /\ UNCHANGED holder
               /\ job' = [job EXCEPT !.left = @ \ {d}, !.bad = @ \/ o # "ok"]
      BY <3>0
    <3>2. d \in Devices /\ (o = "ok") \in BOOLEAN
      BY <1>j DEF Job
    <3>3. mem' \in [Agents -> PersistedState]
      BY <3>1, <3>2, <2>0, QuarantineType, SanitizeType
    <3>4. spent' \in Budget /\ user' \in [Devices -> Claims \cup {NoOwner}]
      BY <3>1, <3>2, ResetType DEF TypeInv, TypeOK
    <3>5. job' \in Job /\ job'.cur = job.cur
      <4>1. (job.bad \/ o # "ok") \in BOOLEAN
        OBVIOUS
      <4>. QED  BY <3>1, <4>1, <1>j DEF Job
    <3>. QED  BY <1>3, <2>0, <3>1, <3>3, <3>4, <3>5 DEF UnprepareScrub, TypeInv, TypeOK, LockHeld, CurrentClaim, PreparingSteps, ReleasingSteps, Steps, storeVars, agentVars, podVars
  <2>. QED  BY <1>3, <2>1, <2>2 DEF UnprepareScrub
<1>4. CASE UnprepareApprove
  <2>1. /\ pc = "release"
        /\ UNCHANGED storeVars \/ \E w : persist(State, w)
        /\ UNCHANGED mem \/ Remember(quarantineLocked(State, State.claims[job.cur].devs))
        /\ Goto("remove") \/ Decide(job.cur, FALSE, "unprepare")
    BY <1>4 DEF UnprepareApprove
  <2>2. spent' \in Budget
    BY <1>4 DEF UnprepareApprove
  <2>3. mem' \in [Agents -> PersistedState]
    BY <2>1, QuarantineType DEF TypeInv, TypeOK
  <2>4. /\ holder' = holder /\ job' \in Job
        /\ pc' = "unprepare" \/ (pc' = "remove" /\ job'.cur = job.cur)
    BY <2>1, <1>j DEF Goto
  <2>5. disk' \in PersistedState /\ file' \in {"absent", "ok", "corrupt"}
    BY <2>1 DEF TypeInv, TypeOK, storeVars
  <2>. QED  BY <1>4, <2>1, <2>2, <2>3, <2>4, <2>5 DEF UnprepareApprove, TypeInv, TypeOK, LockHeld, CurrentClaim, PreparingSteps, ReleasingSteps, Steps, storeVars, agentVars, podVars
<1>5. CASE UnprepareRemoveCDI
  <2>1. /\ pc = "remove"
        /\ cdi' = cdi \/ cdi' = cdi \ {job.cur}
        /\ Goto("forget") \/ Decide(job.cur, FALSE, "unprepare")
        /\ Charge(FALSE) \/ Charge(TRUE)
    BY <1>5 DEF UnprepareRemoveCDI
  <2>2. spent' \in Budget
    BY <2>1
  <2>3. /\ holder' = holder /\ job' \in Job
        /\ pc' = "unprepare" \/ (pc' = "forget" /\ job'.cur = job.cur)
    BY <2>1, <1>j DEF Goto
  <2>. QED  BY <1>5, <2>1, <2>2, <2>3 DEF UnprepareRemoveCDI, TypeInv, TypeOK, LockHeld, CurrentClaim, PreparingSteps, ReleasingSteps, Steps, storeVars, agentVars, podVars
<1>6. CASE UnprepareForget
  <2>. DEFINE m == SetClaim(State, job.cur, NoClaim)
  <2>1. PICK w \in Writes :
          /\ Charge(w # "ok") /\ persist(m, w)
          /\ UNCHANGED mem \/ Remember(m)
          /\ Decide(job.cur, w = "ok", "unprepare")
    BY <1>6 DEF UnprepareForget
  <2>2. pc = "forget" /\ job.cur \in Claims
    BY <1>6 DEF UnprepareForget, TypeInv, CurrentClaim, ReleasingSteps
  <2>3. m \in PersistedState
    BY <2>2, ClaimType, NoClaimType
  <2>. HIDE DEF m
  <2>4. holder' = holder /\ pc' = "unprepare" /\ job' \in Job
    BY <2>1, <2>2, <1>j
  <2>5. mem' \in [Agents -> PersistedState] /\ spent' \in Budget
    BY <2>1, <2>3 DEF TypeInv, TypeOK
  <2>6. disk' \in PersistedState /\ file' \in {"absent", "ok", "corrupt"}
    BY <2>1, <2>3
  <2>. QED  BY <1>6, <2>2, <2>4, <2>5, <2>6 DEF UnprepareForget, TypeInv, TypeOK, LockHeld, CurrentClaim, PreparingSteps, ReleasingSteps, Steps, storeVars, agentVars, podVars
<1>7. CASE UnprepareReply
  <2>1. PICK w \in Writes :
          /\ Charge(w # "ok") /\ persist(State, w)
          /\ held' = IF w = "ok" THEN held \ job.done ELSE held
    BY <1>7 DEF UnprepareReply
  <2>2. pc = "unprepare" /\ holder' = NoAgent /\ pc' = "idle" /\ job' \in Job
    BY <1>7, <1>j DEF UnprepareReply, unlockState
  <2>3. disk' \in PersistedState /\ file' \in {"absent", "ok", "corrupt"}
    BY <2>1, <2>2
  <2>4. spent' \in Budget /\ held' \in SUBSET Claims
    BY <2>1 DEF TypeInv, TypeOK
  <2>. QED  BY <1>7, <2>2, <2>3, <2>4 DEF UnprepareReply, TypeInv, TypeOK, LockHeld, CurrentClaim, PreparingSteps, ReleasingSteps, Steps, storeVars, agentVars, podVars
<1>. QED  BY <1>1, <1>2, <1>3, <1>4, <1>5, <1>6, <1>7 DEF UnprepareStep

\* Recovery of idle devices preserves the type invariant.
LEMMA MonitorType == TypeInv /\ (MonitorRecover \/ MonitorPersist) => TypeInv'
<1>. SUFFICES ASSUME TypeInv, MonitorRecover \/ MonitorPersist PROVE TypeInv'
  OBVIOUS
<1>. USE StateType, PersistType, ChargeType, RememberType
<1>j. job \in Job /\ NoJob \in Job
  BY NoJobType DEF TypeInv, TypeOK
<1>1. CASE MonitorRecover
  <2>1. PICK d \in job.left :
          /\ \/ /\ UNCHANGED user
                /\ \/ Charge(FALSE) /\ Remember([State EXCEPT !.quar[d] = "none"])
                   \/ Charge(TRUE) /\ UNCHANGED mem
             \/ \E o : /\ Reset(d, o)
                       /\ \/ Remember(Recover(State, d, job.snap))
                          \/ Remember(sanitizeLocked(State, d, FALSE))
          /\ job' = [job EXCEPT !.left = @ \ {d}]
    BY <1>1 DEF MonitorRecover
  <2>2. pc = "monitor" /\ holder' = holder /\ pc' = pc /\ d \in Devices /\ job' \in Job
    BY <1>1, <2>1, <1>j DEF MonitorRecover, Job
  <2>3. [State EXCEPT !.quar[d] = "none"] \in PersistedState
    BY <2>2 DEF PersistedState, QuarantineRecord
  <2>4. mem' \in [Agents -> PersistedState]
    BY <2>1, <2>2, <2>3, RecoverType, SanitizeType DEF TypeInv, TypeOK
  <2>5. spent' \in Budget /\ user' \in [Devices -> Claims \cup {NoOwner}]
    BY <2>1, <2>2, ResetType DEF TypeInv, TypeOK
  <2>. QED  BY <1>1, <2>2, <2>4, <2>5 DEF MonitorRecover, TypeInv, TypeOK, LockHeld, CurrentClaim, PreparingSteps, ReleasingSteps, Steps, storeVars, agentVars, podVars
<1>2. CASE MonitorPersist
  <2>1. PICK w \in Writes : Charge(w # "ok") /\ persist(State, w)
    BY <1>2 DEF MonitorPersist
  <2>2. pc = "monitor" /\ holder' = NoAgent /\ pc' = "idle" /\ job' \in Job
    BY <1>2, <1>j DEF MonitorPersist, unlockState
  <2>3. disk' \in PersistedState /\ file' \in {"absent", "ok", "corrupt"}
    BY <2>1, <2>2
  <2>4. spent' \in Budget
    BY <2>1
  <2>. QED  BY <1>2, <2>2, <2>3, <2>4 DEF MonitorPersist, TypeInv, TypeOK, LockHeld, CurrentClaim, PreparingSteps, ReleasingSteps, Steps, storeVars, agentVars, podVars
<1>. QED  BY <1>1, <1>2

\* Startup recovery preserves the type invariant.
LEMMA StartupType == TypeInv /\ StartupStep => TypeInv'
<1>. SUFFICES ASSUME TypeInv, StartupStep PROVE TypeInv'
  OBVIOUS
<1>. USE StateType, PersistType, ChargeType, RememberType
<1>j. job \in Job /\ NoJob \in Job
  BY NoJobType DEF TypeInv, TypeOK
<1>e. ASSUME Exit(holder)
      PROVE  /\ holder' = NoAgent /\ pc' = "idle" /\ job' \in Job
             /\ up' \in [Agents -> BOOLEAN] /\ mem' \in [Agents -> PersistedState]
             /\ scan' \in [Agents -> Snapshot \cup {NoScan}]
  BY <1>e, ExitType
<1>1. CASE RecoverRename
  <2>1. spent' \in Budget
    BY <1>1 DEF RecoverRename
  <2>2. CASE file' = "absent" /\ disk' = EmptyState /\ Goto("fence") /\ UNCHANGED <<agentVars, mem>>
    BY <1>1, <2>1, <2>2, EmptyType DEF RecoverRename, Goto, TypeInv, TypeOK, LockHeld, CurrentClaim, PreparingSteps, ReleasingSteps, Steps, storeVars, agentVars, podVars
  <2>3. CASE UNCHANGED storeVars /\ Exit(holder)
    BY <1>1, <1>e, <2>1, <2>3 DEF RecoverRename, TypeInv, TypeOK, LockHeld, CurrentClaim, PreparingSteps, ReleasingSteps, Steps, storeVars, agentVars, podVars
  <2>. QED  BY <1>1, <2>2, <2>3 DEF RecoverRename
<1>2. CASE RecoverFence
  <2>. DEFINE m == [quarantineLocked(EmptyState, Seen(hw)) EXCEPT !.known = Seen(hw)]
  <2>1. spent' \in Budget
    BY <1>2 DEF RecoverFence
  <2>2. m \in PersistedState
    BY EmptyType, QuarantineType DEF PersistedState, Seen
  <2>3. /\ pc = "fence"
        /\ UNCHANGED storeVars \/ \E w : persist(m, w)
        /\ \/ Goto("reconcile") /\ Remember(m) /\ UNCHANGED agentVars
           \/ Exit(holder)
    BY <1>2 DEF RecoverFence
  <2>. HIDE DEF m
  <2>4. disk' \in PersistedState /\ file' \in {"absent", "ok", "corrupt"}
    BY <2>2, <2>3 DEF TypeInv, TypeOK, storeVars
  <2>5. CASE Goto("reconcile") /\ Remember(m) /\ UNCHANGED agentVars
    <3>1. mem' \in [Agents -> PersistedState]
      BY <2>2, <2>5
    <3>. QED  BY <1>2, <2>1, <2>3, <2>4, <2>5, <3>1 DEF RecoverFence, Goto, TypeInv, TypeOK, LockHeld, CurrentClaim, PreparingSteps, ReleasingSteps, Steps, storeVars, agentVars, podVars
  <2>6. CASE Exit(holder)
    BY <1>2, <1>e, <2>1, <2>4, <2>6 DEF RecoverFence, TypeInv, TypeOK, LockHeld, CurrentClaim, PreparingSteps, ReleasingSteps, Steps, storeVars, agentVars, podVars
  <2>. QED  BY <2>3, <2>5, <2>6
<1>3. CASE Reconcile
  <2>. DEFINE m == reconcileStartup(State, alloc, hw)
  <2>0. pc = "reconcile" /\ m \in PersistedState
    BY <1>3, ReconcileType DEF Reconcile, TypeInv, TypeOK
  <2>1. CASE /\ Charge(TRUE) /\ Exit(holder) /\ UNCHANGED cdi
    <3>1. spent' \in Budget
      BY <2>1
    <3>. QED  BY <1>3, <1>e, <2>1, <3>1 DEF Reconcile, TypeInv, TypeOK, LockHeld, CurrentClaim, PreparingSteps, ReleasingSteps, Steps, storeVars, agentVars, podVars
  <2>2. CASE \E bad \in SUBSET Complete(m), unaudited \in BOOLEAN : \E late \in SUBSET bad :
               /\ Charge(bad # {} \/ unaudited)
               /\ cdi' = cdi \cup (Complete(m) \ bad) \cup late
               /\ Remember(quarantineLocked(m, UNION {m.claims[c].devs : c \in bad}))
               /\ pc' = "orphans"
               /\ job' = [job EXCEPT !.bad = unaudited]
               /\ UNCHANGED <<holder, agentVars>>
    <3>1. PICK bad \in SUBSET Complete(m), unaudited \in BOOLEAN : \E late \in SUBSET bad :
               /\ Charge(bad # {} \/ unaudited)
               /\ cdi' = cdi \cup (Complete(m) \ bad) \cup late
               /\ Remember(quarantineLocked(m, UNION {m.claims[c].devs : c \in bad}))
               /\ pc' = "orphans"
               /\ job' = [job EXCEPT !.bad = unaudited]
               /\ UNCHANGED <<holder, agentVars>>
      BY <2>2
    <3>2. cdi' \in SUBSET Claims
      BY <3>1 DEF Complete, TypeInv, TypeOK
    <3>. HIDE DEF m
    <3>3. mem' \in [Agents -> PersistedState]
      BY <2>0, <3>1, QuarantineType
    <3>4. spent' \in Budget
      BY <3>1
    <3>5. job' \in Job
      BY <3>1, <1>j DEF Job
    <3>. QED  BY <1>3, <2>0, <3>1, <3>2, <3>3, <3>4, <3>5 DEF Reconcile, TypeInv, TypeOK, LockHeld, CurrentClaim, PreparingSteps, ReleasingSteps, Steps, storeVars, agentVars, podVars
  <2>. QED  BY <1>3, <2>1, <2>2 DEF Reconcile
<1>4. CASE removeOrphanCDI
  <2>1. PICK stuck \in SUBSET {c \in cdi : ~Owned(State, c)} :
          /\ Charge(stuck # {})
          /\ cdi' = {c \in cdi : Owned(State, c)} \cup stuck
          /\ \/ Goto("serve") /\ UNCHANGED <<agentVars, mem>>
             \/ Exit(holder)
    BY <1>4 DEF removeOrphanCDI
  <2>2. pc = "orphans" /\ spent' \in Budget /\ cdi' \in SUBSET Claims
    BY <1>4, <2>1 DEF removeOrphanCDI, TypeInv, TypeOK
  <2>3. CASE Goto("serve") /\ UNCHANGED <<agentVars, mem>>
    BY <1>4, <2>2, <2>3 DEF removeOrphanCDI, Goto, TypeInv, TypeOK, LockHeld, CurrentClaim, PreparingSteps, ReleasingSteps, Steps, storeVars, agentVars, podVars
  <2>4. CASE Exit(holder)
    BY <1>4, <1>e, <2>2, <2>4 DEF removeOrphanCDI, TypeInv, TypeOK, LockHeld, CurrentClaim, PreparingSteps, ReleasingSteps, Steps, storeVars, agentVars, podVars
  <2>. QED  BY <2>1, <2>3, <2>4
<1>5. CASE StartupPersist
  <2>1. PICK w \in Writes :
          /\ Charge(w # "ok") /\ persist(State, w)
          /\ \/ unlockState /\ up' = [up EXCEPT ![holder] = TRUE] /\ UNCHANGED <<mem, scan>>
             \/ Exit(holder)
    BY <1>5 DEF StartupPersist
  <2>2. pc = "serve" /\ spent' \in Budget
    BY <1>5, <2>1 DEF StartupPersist
  <2>3. disk' \in PersistedState /\ file' \in {"absent", "ok", "corrupt"}
    BY <2>1, <2>2
  <2>4. CASE unlockState /\ up' = [up EXCEPT ![holder] = TRUE] /\ UNCHANGED <<mem, scan>>
    BY <1>5, <1>j, <2>2, <2>3, <2>4 DEF StartupPersist, unlockState, TypeInv, TypeOK, LockHeld, CurrentClaim, PreparingSteps, ReleasingSteps, Steps, storeVars, agentVars, podVars
  <2>5. CASE Exit(holder)
    BY <1>5, <1>e, <2>2, <2>3, <2>5 DEF StartupPersist, TypeInv, TypeOK, LockHeld, CurrentClaim, PreparingSteps, ReleasingSteps, Steps, storeVars, agentVars, podVars
  <2>. QED  BY <2>1, <2>4, <2>5
<1>. QED  BY <1>1, <1>2, <1>3, <1>4, <1>5 DEF StartupStep

\* A call that takes the lock, and one that ends before it does more than
\* reload, preserve the type invariant.
LEMMA CallType == ASSUME TypeInv, NEW a \in Agents, Call(a) PROVE TypeInv'
<1>. USE ChargeType
<1>r. /\ Reloaded(a) \in PersistedState
      /\ \A snap : \A r \in BOOLEAN : observeLocked(Reloaded(a), snap, r) \in PersistedState
  BY ReloadedType, ObserveType
<1>j. NoJob \in Job
  BY NoJobType
<1>1. ASSUME NEW batch \in SUBSET Claims, PrepareResourceClaims(a, batch) PROVE TypeInv'
  <2>. DEFINE m == observeLocked(Reloaded(a), hw, FALSE)
              j(o) == [NoJob EXCEPT !.batch = batch, !.todo = batch, !.snap = hw, !.owners = o,
                                    !.al = [c \in Claims |-> IF c \in batch THEN alloc[c] ELSE {}]]
  <2>1. PICK owners \in deviceOwners(m) : Enter(a, m, "prepare", j(owners))
    BY <1>1 DEF PrepareResourceClaims
  <2>2. j(owners) \in Job
    <3>1. owners \in [Devices -> Claims \cup {NoOwner}]
      BY DEF deviceOwners
    <3>2. [c \in Claims |-> IF c \in batch THEN alloc[c] ELSE {}] \in [Claims -> SUBSET Devices]
      BY DEF TypeInv, TypeOK
    <3>3. hw \in Snapshot
      BY DEF TypeInv, TypeOK
    <3>. QED  BY <3>1, <3>2, <3>3, <1>j DEF Job
  <2>3. m \in PersistedState
    BY <1>r
  <2>. HIDE DEF m, j
  <2>4. /\ holder' = a /\ pc' = "prepare" /\ job' \in Job /\ mem' \in [Agents -> PersistedState]
    BY <2>1, <2>2, <2>3 DEF Enter, TypeInv, TypeOK
  <2>. QED  BY <1>1, <2>4 DEF PrepareResourceClaims, TypeInv, TypeOK, LockHeld, CurrentClaim, PreparingSteps, ReleasingSteps, Steps, storeVars, agentVars, podVars
<1>2. ASSUME NEW batch \in SUBSET Claims, UnprepareResourceClaims(a, batch) PROVE TypeInv'
  <2>1. [NoJob EXCEPT !.batch = batch, !.todo = batch, !.snap = hw] \in Job
    BY <1>j DEF Job, TypeInv, TypeOK
  <2>2. /\ holder' = a /\ pc' = "unprepare" /\ job' \in Job /\ mem' \in [Agents -> PersistedState]
    BY <1>2, <1>r, <2>1 DEF UnprepareResourceClaims, Enter, TypeInv, TypeOK
  <2>3. grant' \in [Claims -> SUBSET Devices]
    BY <1>2 DEF UnprepareResourceClaims, TypeInv, TypeOK
  <2>. QED  BY <1>2, <2>2, <2>3 DEF UnprepareResourceClaims, TypeInv, TypeOK, LockHeld, CurrentClaim, PreparingSteps, ReleasingSteps, Steps, storeVars, agentVars, podVars
<1>3. CASE RefreshFailed(a)
  <2>1. spent' \in Budget
    BY <1>3 DEF RefreshFailed
  <2>2. mem' \in [Agents -> PersistedState]
    <3>1. observeLocked(Reloaded(a), hw, FALSE) \in PersistedState
      BY <1>r
    <3>2. \/ mem' = [mem EXCEPT ![a] = Reloaded(a)]
          \/ mem' = [mem EXCEPT ![a] = observeLocked(Reloaded(a), hw, FALSE)]
      BY <1>3 DEF RefreshFailed
    <3>. QED  BY <3>1, <3>2, <1>r DEF TypeInv, TypeOK
  <2>. QED  BY <1>3, <2>1, <2>2 DEF RefreshFailed, txnVars, TypeInv, TypeOK, LockHeld, CurrentClaim, PreparingSteps, ReleasingSteps, Steps, storeVars, agentVars, podVars
<1>4. CASE SnapshotStats(a)
  BY <1>4, <1>r DEF SnapshotStats, txnVars, TypeInv, TypeOK, LockHeld, CurrentClaim, PreparingSteps, ReleasingSteps, Steps, storeVars, agentVars, podVars
<1>5. CASE Scan(a)
  BY <1>5 DEF Scan, txnVars, TypeInv, TypeOK, LockHeld, CurrentClaim, PreparingSteps, ReleasingSteps, Steps, storeVars, agentVars, podVars
<1>6. CASE Monitor(a)
  <2>. DEFINE m == observeLocked(Reloaded(a), scan[a], TRUE)
  <2>1. scan[a] \in Snapshot
    BY <1>6 DEF Monitor, TypeInv, TypeOK
  <2>2. Recoverable(m, scan[a]) \in SUBSET Devices
    BY DEF Recoverable, Seen
  <2>3. [NoJob EXCEPT !.snap = scan[a], !.left = Recoverable(m, scan[a])] \in Job
    BY <2>1, <2>2, <1>j DEF Job
  <2>4. m \in PersistedState
    BY <1>r
  <2>. HIDE DEF m
  <2>5. Enter(a, m, "monitor", [NoJob EXCEPT !.snap = scan[a], !.left = Recoverable(m, scan[a])])
    BY <1>6 DEF Monitor, m
  <2>6. /\ holder' = a /\ pc' = "monitor" /\ job' \in Job /\ mem' \in [Agents -> PersistedState]
    BY <2>3, <2>4, <2>5 DEF Enter, TypeInv, TypeOK
  <2>. QED  BY <1>6, <2>6 DEF Monitor, TypeInv, TypeOK, LockHeld, CurrentClaim, PreparingSteps, ReleasingSteps, Steps, storeVars, agentVars, podVars
<1>7. CASE MonitorUnreadable(a)
  BY <1>7 DEF MonitorUnreadable, txnVars, TypeInv, TypeOK, LockHeld, CurrentClaim, PreparingSteps, ReleasingSteps, Steps, storeVars, agentVars, podVars
<1>8. CASE InventoryFailed(a)
  <2>1. spent' \in Budget
    BY <1>8 DEF InventoryFailed
  <2>2. quarantineLocked(Reloaded(a), Reloaded(a).known) \in PersistedState
    BY <1>r, QuarantineType
  <2>3. mem' \in [Agents -> PersistedState]
    BY <1>8, <1>r, <2>2 DEF InventoryFailed, TypeInv, TypeOK
  <2>4. disk' \in PersistedState /\ file' \in {"absent", "ok", "corrupt"}
    BY <1>8, <2>2, PersistType DEF InventoryFailed, storeVars, TypeInv, TypeOK
  <2>. QED  BY <1>8, <2>1, <2>3, <2>4 DEF InventoryFailed, txnVars, TypeInv, TypeOK, LockHeld, CurrentClaim, PreparingSteps, ReleasingSteps, Steps, storeVars, agentVars, podVars
<1>9. CASE NewManager(a)
  <2>1. load(disk, EmptyState) \in PersistedState /\ EmptyState \in PersistedState
    BY LoadType, EmptyType DEF TypeInv, TypeOK
  <2>2. /\ holder' = a /\ pc' \in {"corrupt", "reconcile"} /\ job' \in Job
        /\ mem' \in [Agents -> PersistedState]
    BY <1>9, <1>j, <2>1 DEF NewManager, Enter, TypeInv, TypeOK
  <2>. QED  BY <1>9, <2>2 DEF NewManager, TypeInv, TypeOK, LockHeld, CurrentClaim, PreparingSteps, ReleasingSteps, Steps, storeVars, agentVars, podVars
<1>10. CASE Crash(a)
  <2>1. spent' \in Budget
    BY <1>10 DEF Crash, Budget, TypeInv, TypeOK
  <2>2. /\ up' \in [Agents -> BOOLEAN] /\ mem' \in [Agents -> PersistedState]
        /\ scan' \in [Agents -> Snapshot \cup {NoScan}]
    BY <1>10, EmptyType DEF Crash, TypeInv, TypeOK
  <2>3. \/ holder' = NoAgent /\ pc' = "idle" /\ job' \in Job
        \/ UNCHANGED txnVars
    BY <1>10, <1>j DEF Crash, unlockState
  <2>. QED  BY <1>10, <2>1, <2>2, <2>3 DEF Crash, txnVars, TypeInv, TypeOK, LockHeld, CurrentClaim, PreparingSteps, ReleasingSteps, Steps, storeVars, agentVars, podVars
<1>. QED  BY <1>1, <1>2, <1>3, <1>4, <1>5, <1>6, <1>7, <1>8, <1>9, <1>10 DEF Call

\* What happens around the agents preserves the type invariant.
LEMMA EnvironmentType == TypeInv /\ Environment => TypeInv'
<1>. SUFFICES ASSUME TypeInv, Environment PROVE TypeInv'
  OBVIOUS
<1>1. ASSUME NEW c \in Claims, Allocate(c) \/ Deallocate(c) PROVE TypeInv'
  <2>1. alloc' \in [Claims -> SUBSET Devices]
    BY <1>1 DEF Allocate, Deallocate, TypeInv, TypeOK
  <2>. QED  BY <1>1, <2>1 DEF Allocate, Deallocate, txnVars, TypeInv, TypeOK, LockHeld, CurrentClaim, PreparingSteps, ReleasingSteps, Steps, storeVars, agentVars, podVars
<1>2. ASSUME NEW c \in Claims, ContainerStart(c) \/ ContainerStop(c) PROVE TypeInv'
  <2>1. running' \in SUBSET Claims /\ user' \in [Devices -> Claims \cup {NoOwner}]
    BY <1>2 DEF ContainerStart, ContainerStop, TypeInv, TypeOK
  <2>. QED  BY <1>2, <2>1 DEF ContainerStart, ContainerStop, txnVars, TypeInv, TypeOK, LockHeld, CurrentClaim, PreparingSteps, ReleasingSteps, Steps, storeVars, agentVars, podVars
<1>3. ASSUME NEW d \in Devices, HardwareChange(d) PROVE TypeInv'
  <2>1. hw' \in Snapshot /\ spent' \in Budget
    BY <1>3 DEF HardwareChange, Snapshot, Budget, TypeInv, TypeOK
  <2>. QED  BY <1>3, <2>1 DEF HardwareChange, txnVars, TypeInv, TypeOK, LockHeld, CurrentClaim, PreparingSteps, ReleasingSteps, Steps, storeVars, agentVars, podVars
<1>4. CASE Corrupt
  <2>1. spent' \in Budget
    BY <1>4 DEF Corrupt, Budget, TypeInv, TypeOK
  <2>. QED  BY <1>4, <2>1, EmptyType DEF Corrupt, txnVars, TypeInv, TypeOK, LockHeld, CurrentClaim, PreparingSteps, ReleasingSteps, Steps, storeVars, agentVars, podVars
<1>. QED  BY <1>1, <1>2, <1>3, <1>4 DEF Environment

\* Every step preserves the type invariant.
LEMMA NextType == TypeInv /\ [Next]_vars => TypeInv'
<1>. SUFFICES ASSUME TypeInv, [Next]_vars PROVE TypeInv'
  OBVIOUS
<1>1. CASE UNCHANGED vars
  BY <1>1 DEF vars, txnVars, TypeInv, TypeOK, LockHeld, CurrentClaim, PreparingSteps, ReleasingSteps, Steps, storeVars, agentVars, podVars
<1>. QED  BY <1>1, PrepareStepType, UnprepareStepType, MonitorType, StartupType, CallType,
            EnvironmentType DEF Next, Transaction

\* Type correctness: whatever the agents, pods, hardware and file system do,
\* every variable keeps its type; in particular the state files the manager
\* writes are always well formed (persistedState, state.go).
THEOREM TypeCorrect == Spec => []TypeOK
<1>1. TypeInv => TypeOK
  BY DEF TypeInv
<1>. QED  BY <1>1, InitType, NextType, PTL DEF Spec

(***************************************************************************)
(* What claims.json says about a claim while an agent works on it and      *)
(* after kubelet received its devices, for any number of overlapping       *)
(* agents, claims, devices, faults and crashes.                            *)
(***************************************************************************)

(***************************************************************************)
(* Observing, quarantining and sanitizing leave the claim records alone.   *)
(***************************************************************************)

\* quarantineLocked and observeLocked change no claim record.
LEMMA ObserveClaims ==
  ASSUME NEW s \in PersistedState, NEW snap, NEW r, NEW Q
  PROVE  /\ quarantineLocked(s, Q).claims = s.claims
         /\ observeLocked(s, snap, r).claims = s.claims
BY DEF quarantineLocked, observeLocked, PersistedState

\* sanitizeLocked and the recovery of an idle device change no claim record.
LEMMA SanitizeClaims ==
  ASSUME NEW s \in PersistedState, NEW d, NEW ok, NEW snap, NEW r
  PROVE  /\ sanitizeLocked(s, d, ok).claims = s.claims
         /\ Recover(s, d, snap).claims = s.claims
         /\ [s EXCEPT !.quar[d] = r].claims = s.claims
BY DEF sanitizeLocked, Recover, PersistedState

\* After a reload the record of a claim the file names is the file's.
LEMMA LoadClaims ==
  ASSUME NEW s \in PersistedState, NEW m \in PersistedState, NEW c \in Claims
  PROVE  Owned(s, c) => load(s, m).claims[c] = s.claims[c]
BY DEF load

\* Startup reconciliation keeps every record and its devices.
LEMMA ReconcileClaims ==
  ASSUME NEW s \in PersistedState, NEW al \in [Claims -> SUBSET Devices], NEW snap,
         NEW c \in Claims, Owned(s, c)
  PROVE  LET r == reconcileStartup(s, al, snap)
         IN  Owned(r, c) /\ r.claims[c].devs = s.claims[c].devs
<1>1. ReconciledClaims(s, al, snap).claims[c] = ReconciledClaim(s.claims[c], al[c], snap)
  BY DEF ReconciledClaims, PersistedState
<1>2. reconcileStartup(s, al, snap).claims = ReconciledClaims(s, al, snap).claims
  BY DEF reconcileStartup, quarantineLocked, ReconciledClaims, PersistedState
<1>3. s.claims[c] \in PreparedClaim /\ s.claims[c].phase # "Absent"
  BY DEF Owned, PersistedState
<1>. QED  BY <1>1, <1>2, <1>3 DEF ReconciledClaim, Owned, PreparedClaim

\* The state an agent starts a transaction from has every record of the file.
LEMMA ReloadedClaims ==
  ASSUME TypeInv, NEW a \in Agents, file = "ok", NEW c \in Claims, Owned(disk, c)
  PROVE  Reloaded(a).claims[c] = disk.claims[c]
BY LoadClaims DEF Reloaded, TypeInv, TypeOK

-----------------------------------------------------------------------------
(***************************************************************************)
(* Work in flight is marked.                                               *)
(*                                                                         *)
(* InFlightMarked is not inductive: when a prepare or unprepare takes up a *)
(* claim that memory already calls Preparing or Releasing it writes no     *)
(* intent, so memory must not be behind the file for the claims it has     *)
(* still to decide.  A failed write of Prepared breaks that agreement for  *)
(* the claim just decided, never for the ones left.                        *)
(***************************************************************************)
StoreEmpty == file # "ok" => disk = EmptyState

PrepareSteps == {"prepare"} \cup PreparingSteps
ReleaseSteps == {"unprepare"} \cup ReleasingSteps

CurrentTodo == pc \in PreparingSteps \cup ReleasingSteps => job.cur \in job.todo

Agreement ==
  pc \in PrepareSteps \cup ReleaseSteps =>
    \A c \in job.todo : disk.claims[c].phase = "Prepared" => State.claims[c].phase = "Prepared"

MarkInv == StoreEmpty /\ CurrentTodo /\ Agreement /\ InFlightMarked

\* A step that keeps the records of memory and file, or writes memory's records
\* to the file, and goes on with the claims it had left.
LEMMA QuietStep ==
  ASSUME TypeInv, MarkInv,
         holder' = holder,
         pc \in PrepareSteps \cup ReleaseSteps,
         State'.claims = State.claims,
         \/ file' = file /\ disk' = disk
         \/ file' = "ok" /\ disk'.claims = disk.claims
         \/ file' = "ok" /\ disk'.claims = State.claims /\ pc' \notin PreparingSteps \cup ReleasingSteps,
         job'.todo \subseteq job.todo,
         pc' \in PreparingSteps \cup ReleasingSteps =>
           /\ job'.cur \in job'.todo
           /\ \/ pc \in PreparingSteps \cup ReleasingSteps /\ job'.cur = job.cur
              \/ State.claims[job'.cur].phase # "Prepared"
  PROVE  MarkInv'
<1>1. ASSUME NEW c \in job'.todo, disk'.claims[c].phase = "Prepared"
      PROVE  State'.claims[c].phase = "Prepared"
  BY <1>1 DEF MarkInv, Agreement
<1>2. InFlightMarked'
  BY DEF MarkInv, Agreement, InFlightMarked
<1>. QED  BY <1>1, <1>2 DEF MarkInv, StoreEmpty, CurrentTodo, Agreement

\* Outside prepare and unprepare only the file matters.
LEMMA OutsideStep ==
  ASSUME MarkInv, pc' \notin PrepareSteps \cup ReleaseSteps,
         \/ UNCHANGED storeVars
         \/ \E m, w : persist(m, w)
         \/ disk' = EmptyState
  PROVE  MarkInv'
BY DEF MarkInv, StoreEmpty, CurrentTodo, Agreement, InFlightMarked, persist, storeVars, PrepareSteps, ReleaseSteps

\* Decide leaves the claims it did not decide.
LEMMA DecideTodo ==
  ASSUME TypeInv, NEW c, NEW g, NEW step, Decide(c, g, step)
  PROVE  holder' = holder /\ pc' = step /\ job'.todo = job.todo \ {c}
<1>1. job \in Job
  BY DEF TypeInv, TypeOK
<1>. QED  BY <1>1 DEF Decide, Job

\* What Remember makes of the holder's state.
LEMMA RememberState ==
  ASSUME TypeInv, pc # "idle", holder' = holder, NEW m, Remember(m)
  PROVE  State' = m
BY DEF TypeInv, TypeOK, LockHeld, Remember, State

\* Steps of a prepare.
LEMMA PrepareStepMark == TypeInv /\ MarkInv /\ PrepareStep => MarkInv'
<1>. SUFFICES ASSUME TypeInv, MarkInv, PrepareStep PROVE MarkInv'
  OBVIOUS
<1>. USE DecideTodo DEF PrepareSteps, ReleaseSteps, PreparingSteps, ReleasingSteps
<1>j. job \in Job
  BY DEF TypeInv, TypeOK
<1>s. pc # "idle" => State \in PersistedState
  BY StateType
<1>1. CASE PrepareRejected
  <2>1. PICK c \in job.todo : Decide(c, FALSE, "prepare")
    BY <1>1 DEF PrepareRejected
  <2>2. pc = "prepare" /\ UNCHANGED <<storeVars, mem>>
    BY <1>1 DEF PrepareRejected
  <2>3. holder' = holder /\ pc' = "prepare" /\ job'.todo \subseteq job.todo
    BY <2>1
  <2>. QED  BY <2>2, <2>3, QuietStep DEF storeVars, State
<1>2. CASE PrepareRepeated
  <2>1. PICK c \in job.todo, w \in Writes : Decide(c, w = "ok", "prepare")
    BY <1>2 DEF PrepareRepeated
  <2>2. pc = "prepare" /\ UNCHANGED <<storeVars, mem>>
    BY <1>2 DEF PrepareRepeated
  <2>3. holder' = holder /\ pc' = "prepare" /\ job'.todo \subseteq job.todo
    BY <2>1
  <2>. QED  BY <2>2, <2>3, QuietStep DEF storeVars, State
<1>3. CASE PrepareResumed
  <2>1. PICK c \in job.todo : State.claims[c].phase = "Preparing" /\ StartSanitize(c)
    BY <1>3 DEF PrepareResumed
  <2>2. pc = "prepare" /\ UNCHANGED <<storeVars, mem, holder>> /\ pc' = "sanitize"
    BY <1>3, <2>1 DEF PrepareResumed, StartSanitize
  <2>3. job'.todo = job.todo /\ job'.cur = c
    BY <2>1, <1>j DEF StartSanitize, Job
  <2>. QED  BY <2>1, <2>2, <2>3, QuietStep DEF storeVars, State
<1>4. CASE PrepareIntent
  <2>. DEFINE m(c) == SetClaim(State, c, [phase |-> "Preparing", devs |-> job.al[c], placed |-> TRUE])
  <2>1. PICK c \in job.todo, w \in Writes \cup {"unaudited"} :
          /\ persist(m(c), w)
          /\ IF w \in {"early", "late"} THEN UNCHANGED mem ELSE Remember(m(c))
          /\ IF w = "ok" THEN StartSanitize(c) ELSE Decide(c, FALSE, "prepare")
    BY <1>4 DEF PrepareIntent
  <2>2. pc = "prepare" /\ c \in Claims
    BY <1>4, <1>j DEF PrepareIntent, Job
  <2>3. /\ holder' = holder /\ job'.todo \subseteq job.todo
        /\ \/ pc' = "prepare" /\ c \notin job'.todo
           \/ pc' = "sanitize" /\ job'.cur = c /\ c \in job'.todo /\ w = "ok"
    <3>1. CASE w = "ok"
      BY <2>1, <3>1, <1>j DEF StartSanitize, Job
    <3>2. CASE w # "ok"
      BY <2>1, <3>2
    <3>. QED  BY <3>1, <3>2
  <2>4. /\ m(c).claims[c].phase = "Preparing"
        /\ \A x \in Claims \ {c} : m(c).claims[x] = State.claims[x]
    BY <1>s, <2>2 DEF SetClaim, PersistedState
  <2>5. State' = IF w \in {"early", "late"} THEN State ELSE m(c)
    BY <2>1, <2>2, <2>3, RememberState DEF State
  <2>6. \/ UNCHANGED storeVars /\ w = "early"
        \/ file' = "ok" /\ disk' = m(c)
    BY <2>1 DEF persist, storeVars
  <2>. HIDE DEF m
  <2>7. ASSUME NEW x \in job'.todo, disk'.claims[x].phase = "Prepared"
        PROVE  State'.claims[x].phase = "Prepared"
    <3>1. x \in Claims /\ x \in job.todo
      BY <2>3, <1>j DEF Job
    <3>2. x # c
      BY <2>3, <2>4, <2>6, <2>7
    <3>. QED  BY <2>2, <2>4, <2>5, <2>6, <2>7, <3>1, <3>2 DEF MarkInv, Agreement, storeVars
  <2>8. StoreEmpty' /\ CurrentTodo' /\ InFlightMarked'
    BY <2>3, <2>4, <2>6 DEF MarkInv, StoreEmpty, CurrentTodo, InFlightMarked, storeVars
  <2>. QED  BY <2>7, <2>8 DEF MarkInv, Agreement
<1>5. CASE PrepareSanitize
  <2>1. PICK d \in job.left : \E o :
          /\ Remember(sanitizeLocked(State, d, o = "ok"))
          /\ \/ Decide(job.cur, FALSE, "prepare")
             \/ /\ pc' = IF job.left = {d} THEN "verify" ELSE "sanitize"
                /\ job' = [job EXCEPT !.left = @ \ {d}]
                /\ UNCHANGED holder
    BY <1>5 DEF PrepareSanitize
  <2>2. pc = "sanitize" /\ UNCHANGED storeVars
    BY <1>5 DEF PrepareSanitize
  <2>3. /\ holder' = holder /\ job'.todo \subseteq job.todo
        /\ \/ pc' = "prepare"
           \/ pc' \in PreparingSteps /\ job'.cur = job.cur /\ job'.todo = job.todo
    BY <2>1, <1>j DEF Job
  <2>4. State'.claims = State.claims
    BY <2>1, <2>2, <2>3, <1>s, RememberState, SanitizeClaims
  <2>. QED  BY <2>2, <2>3, <2>4, QuietStep DEF storeVars, MarkInv, CurrentTodo
<1>6. CASE PrepareVerify
  <2>. DEFINE m == observeLocked(State, hw, FALSE)
  <2>1. /\ pc = "verify" /\ UNCHANGED storeVars
        /\ UNCHANGED mem \/ Remember(m) \/ \E d : Remember(quarantineLocked(m, {d}))
        /\ Goto("expose") \/ Decide(job.cur, FALSE, "prepare")
    BY <1>6 DEF PrepareVerify
  <2>2. m \in PersistedState /\ m.claims = State.claims
    BY <2>1, <1>s, ObserveType, ObserveClaims
  <2>. HIDE DEF m
  <2>3. \A d : quarantineLocked(m, {d}).claims = State.claims
    BY <2>2, ObserveClaims
  <2>4. /\ holder' = holder /\ job'.todo \subseteq job.todo
        /\ pc' = "prepare" \/ (pc' = "expose" /\ job' = job)
    BY <2>1 DEF Goto
  <2>5. State'.claims = State.claims
    BY <2>1, <2>2, <2>3, <2>4, RememberState DEF State
  <2>. QED  BY <2>1, <2>4, <2>5, QuietStep DEF storeVars, MarkInv, CurrentTodo
<1>7. CASE PrepareExpose
  <2>1. /\ pc = "expose" /\ UNCHANGED <<storeVars, mem>>
        /\ Goto("commit") \/ Decide(job.cur, FALSE, "prepare")
    BY <1>7 DEF PrepareExpose
  <2>2. /\ holder' = holder /\ job'.todo \subseteq job.todo
        /\ pc' = "prepare" \/ (pc' = "commit" /\ job' = job)
    BY <2>1 DEF Goto
  <2>. QED  BY <2>1, <2>2, QuietStep DEF storeVars, State, MarkInv, CurrentTodo
<1>8. CASE PrepareCommit
  <2>. DEFINE c == job.cur
              m == SetPhase(State, c, "Prepared")
              q == quarantineLocked(State, State.claims[c].devs)
  <2>1. PICK w \in Writes \cup {"unaudited"} :
          /\ IF w = "unaudited" THEN UNCHANGED storeVars ELSE persist(m, w)
          /\ Remember(CASE w = "ok" -> m
                        [] w = "unaudited" -> q
                        [] OTHER -> SetPhase(State, c, "Preparing"))
    BY <1>8 DEF PrepareCommit
  <2>2. /\ pc = "commit" /\ c \in Claims /\ holder' = holder /\ pc' = "prepare"
        /\ job'.todo = job.todo \ {c}
    BY <1>8, <1>j DEF PrepareCommit, TypeInv, CurrentClaim, Job
  <2>3. \A x \in Claims \ {c} :
          /\ m.claims[x] = State.claims[x] /\ q.claims[x] = State.claims[x]
          /\ SetPhase(State, c, "Preparing").claims[x] = State.claims[x]
    BY <1>s, <2>2, ObserveClaims DEF SetPhase, PersistedState
  <2>4. State' \in {m, q, SetPhase(State, c, "Preparing")}
    BY <2>1, <2>2, RememberState
  <2>5. UNCHANGED storeVars \/ (file' = "ok" /\ disk' = m)
    BY <2>1 DEF persist, storeVars
  <2>. HIDE DEF m, q
  <2>6. ASSUME NEW x \in job'.todo, disk'.claims[x].phase = "Prepared"
        PROVE  State'.claims[x].phase = "Prepared"
    <3>1. x \in Claims \ {c} /\ x \in job.todo
      BY <2>2, <1>j DEF Job
    <3>. QED  BY <2>2, <2>3, <2>4, <2>5, <2>6, <3>1 DEF MarkInv, Agreement, storeVars
  <2>. QED  BY <2>2, <2>5, <2>6 DEF MarkInv, StoreEmpty, CurrentTodo, Agreement, InFlightMarked, storeVars
<1>9. CASE PrepareReply
  <2>1. pc' = "idle" /\ \E w : persist(State, w)
    BY <1>9 DEF PrepareReply, unlockState
  <2>. QED  BY <2>1, OutsideStep
<1>. QED  BY <1>1, <1>2, <1>3, <1>4, <1>5, <1>6, <1>7, <1>8, <1>9 DEF PrepareStep

\* Steps of an unprepare.
LEMMA UnprepareStepMark == TypeInv /\ MarkInv /\ UnprepareStep => MarkInv'
<1>. SUFFICES ASSUME TypeInv, MarkInv, UnprepareStep PROVE MarkInv'
  OBVIOUS
<1>. USE DecideTodo DEF PrepareSteps, ReleaseSteps, PreparingSteps, ReleasingSteps
<1>j. job \in Job
  BY DEF TypeInv, TypeOK
<1>s. pc # "idle" => State \in PersistedState
  BY StateType
<1>1. CASE UnprepareUnknown
  <2>1. PICK c \in job.todo : Decide(c, TRUE, "unprepare")
    BY <1>1 DEF UnprepareUnknown
  <2>2. pc = "unprepare" /\ UNCHANGED <<storeVars, mem>>
    BY <1>1 DEF UnprepareUnknown
  <2>3. holder' = holder /\ pc' = "unprepare" /\ job'.todo \subseteq job.todo
    BY <2>1
  <2>. QED  BY <2>2, <2>3, QuietStep DEF storeVars, State
<1>2. CASE UnprepareIntent
  <2>. DEFINE m(c) == SetPhase(State, c, "Releasing")
  <2>1. PICK c \in job.todo, w \in Writes \cup {"unaudited"} :
          /\ IF State.claims[c].phase = "Releasing" THEN UNCHANGED storeVars ELSE persist(m(c), w)
          /\ Remember(m(c))
          /\ IF w # "ok" THEN Decide(c, FALSE, "unprepare")
             ELSE /\ pc' = "scrub"
                  /\ job' = [job EXCEPT !.cur = c, !.left = State.claims[c].devs]
                  /\ UNCHANGED holder
    BY <1>2 DEF UnprepareIntent
  <2>2. pc = "unprepare" /\ c \in Claims
    BY <1>2, <1>j DEF UnprepareIntent, Job
  <2>3. /\ holder' = holder /\ job'.todo \subseteq job.todo
        /\ \/ pc' = "unprepare" /\ c \notin job'.todo
           \/ pc' = "scrub" /\ job'.cur = c /\ c \in job'.todo /\ w = "ok"
    <3>1. CASE w = "ok"
      BY <2>1, <3>1, <1>j DEF Job
    <3>2. CASE w # "ok"
      BY <2>1, <3>2
    <3>. QED  BY <3>1, <3>2
  <2>4. /\ m(c).claims[c].phase = "Releasing"
        /\ \A x \in Claims \ {c} : m(c).claims[x] = State.claims[x]
    BY <1>s, <2>2 DEF SetPhase, PersistedState, PreparedClaim
  <2>5. State' = m(c)
    BY <2>1, <2>2, <2>3, RememberState
  <2>6. \/ UNCHANGED storeVars /\ (w = "early" \/ State.claims[c].phase = "Releasing")
        \/ file' = "ok" /\ disk' = m(c)
    BY <2>1 DEF persist, storeVars
  <2>. HIDE DEF m
  <2>7. ASSUME NEW x \in job'.todo, disk'.claims[x].phase = "Prepared"
        PROVE  State'.claims[x].phase = "Prepared"
    <3>1. x \in Claims /\ x \in job.todo
      BY <2>3, <1>j DEF Job
    <3>2. x # c
      BY <2>2, <2>3, <2>4, <2>6, <2>7 DEF MarkInv, Agreement, storeVars
    <3>. QED  BY <2>2, <2>4, <2>5, <2>6, <2>7, <3>1, <3>2 DEF MarkInv, Agreement, storeVars
  <2>8. StoreEmpty' /\ CurrentTodo'
    BY <2>3, <2>6 DEF MarkInv, StoreEmpty, CurrentTodo, storeVars
  <2>9. InFlightMarked'
    BY <2>2, <2>3, <2>4, <2>6 DEF MarkInv, Agreement, InFlightMarked, storeVars
  <2>. QED  BY <2>7, <2>8, <2>9 DEF MarkInv, Agreement
<1>3. CASE UnprepareScrub
  <2>0. pc # "idle" /\ State \in PersistedState
    BY <1>3, <1>s DEF UnprepareScrub
  <2>1. /\ pc = "scrub" /\ UNCHANGED storeVars
        /\ \/ Goto("release") /\ UNCHANGED mem
           \/ \E d, o : /\ \/ Remember(quarantineLocked(State, {d}))
                           \/ Remember(sanitizeLocked(State, d, o = "ok"))
                        /\ pc' = "scrub" /\ UNCHANGED holder
                        /\ job' = [job EXCEPT !.left = @ \ {d}, !.bad = @ \/ o # "ok"]
    BY <1>3 DEF UnprepareScrub
  <2>2. holder' = holder /\ pc' \in {"scrub", "release"} /\ job'.todo = job.todo /\ job'.cur = job.cur
    BY <2>1, <1>j DEF Goto, Job
  <2>3. State'.claims = State.claims
    <3>1. CASE UNCHANGED mem
      BY <2>2, <3>1 DEF State
    <3>2. ASSUME NEW d, Remember(quarantineLocked(State, {d}))
          PROVE  State'.claims = State.claims
      BY <2>0, <2>2, <3>2, RememberState, ObserveClaims
    <3>3. ASSUME NEW d, NEW o, Remember(sanitizeLocked(State, d, o = "ok"))
          PROVE  State'.claims = State.claims
      BY <2>0, <2>2, <3>3, RememberState, SanitizeClaims
    <3>. QED  BY <2>1, <3>1, <3>2, <3>3
  <2>. QED  BY <2>1, <2>2, <2>3, QuietStep DEF storeVars, MarkInv, CurrentTodo
<1>4. CASE UnprepareApprove
  <2>1. /\ pc = "release"
        /\ \/ (\E w : persist(State, w)) /\ Decide(job.cur, FALSE, "unprepare")
           \/ UNCHANGED storeVars /\ (Goto("remove") \/ Decide(job.cur, FALSE, "unprepare"))
        /\ UNCHANGED mem \/ Remember(quarantineLocked(State, State.claims[job.cur].devs))
    BY <1>4 DEF UnprepareApprove
  <2>2. /\ holder' = holder /\ job'.todo \subseteq job.todo
        /\ pc' = "unprepare" \/ (pc' = "remove" /\ job' = job /\ UNCHANGED storeVars)
    BY <2>1 DEF Goto
  <2>3. State'.claims = State.claims
    BY <2>1, <2>2, <1>s, RememberState, ObserveClaims DEF State
  <2>4. UNCHANGED storeVars \/ (file' = "ok" /\ disk' = State)
    BY <2>1 DEF persist, storeVars
  <2>. QED  BY <2>1, <2>2, <2>3, <2>4, QuietStep DEF storeVars, MarkInv, CurrentTodo
<1>5. CASE UnprepareRemoveCDI
  <2>1. /\ pc = "remove" /\ UNCHANGED <<storeVars, mem>>
        /\ Goto("forget") \/ Decide(job.cur, FALSE, "unprepare")
    BY <1>5 DEF UnprepareRemoveCDI
  <2>2. /\ holder' = holder /\ job'.todo \subseteq job.todo
        /\ pc' = "unprepare" \/ (pc' = "forget" /\ job' = job)
    BY <2>1 DEF Goto
  <2>. QED  BY <2>1, <2>2, QuietStep DEF storeVars, State, MarkInv, CurrentTodo
<1>6. CASE UnprepareForget
  <2>. DEFINE c == job.cur
              m == SetClaim(State, c, NoClaim)
  <2>1. PICK w \in Writes :
          /\ persist(m, w)
          /\ IF w = "ok" THEN Remember(m) ELSE UNCHANGED mem
          /\ Decide(c, w = "ok", "unprepare")
    BY <1>6 DEF UnprepareForget
  <2>2. /\ pc = "forget" /\ c \in Claims
    BY <1>6 DEF UnprepareForget, TypeInv, CurrentClaim
  <2>3. holder' = holder /\ pc' = "unprepare" /\ job'.todo = job.todo \ {c}
    BY <2>1
  <2>4. \A x \in Claims \ {c} : m.claims[x] = State.claims[x]
    BY <1>s, <2>2 DEF SetClaim, PersistedState
  <2>5. State' = IF w = "ok" THEN m ELSE State
    BY <2>1, <2>2, <2>3, RememberState DEF State
  <2>6. UNCHANGED storeVars \/ (file' = "ok" /\ disk' = m)
    BY <2>1 DEF persist, storeVars
  <2>. HIDE DEF m
  <2>7. ASSUME NEW x \in job'.todo, disk'.claims[x].phase = "Prepared"
        PROVE  State'.claims[x].phase = "Prepared"
    <3>1. x \in Claims \ {c} /\ x \in job.todo
      BY <2>3, <1>j DEF Job
    <3>. QED  BY <2>2, <2>4, <2>5, <2>6, <2>7, <3>1 DEF MarkInv, Agreement, storeVars
  <2>. QED  BY <2>3, <2>6, <2>7 DEF MarkInv, StoreEmpty, CurrentTodo, Agreement, InFlightMarked, storeVars
<1>7. CASE UnprepareReply
  <2>1. pc' = "idle" /\ \E w : persist(State, w)
    BY <1>7 DEF UnprepareReply, unlockState
  <2>. QED  BY <2>1, OutsideStep
<1>. QED  BY <1>1, <1>2, <1>3, <1>4, <1>5, <1>6, <1>7 DEF UnprepareStep

\* Nobody is inside a transaction while the lock is free.
LEMMA FreeIdle == TypeInv /\ holder = NoAgent => pc = "idle"
BY NoAgentIsNoAgent DEF TypeInv, LockHeld

\* The janitor and startup are outside prepare and unprepare.
LEMMA OtherStepMark ==
  TypeInv /\ MarkInv /\ (MonitorRecover \/ MonitorPersist \/ StartupStep) => MarkInv'
<1>. SUFFICES ASSUME TypeInv, MarkInv, MonitorRecover \/ MonitorPersist \/ StartupStep PROVE MarkInv'
  OBVIOUS
<1>1. /\ pc' \notin PrepareSteps \cup ReleaseSteps
      /\ \/ UNCHANGED storeVars
         \/ \E m, w : persist(m, w)
         \/ disk' = EmptyState
  <2>1. CASE MonitorRecover
    BY <2>1 DEF MonitorRecover, PrepareSteps, ReleaseSteps, PreparingSteps, ReleasingSteps
  <2>2. CASE MonitorPersist
    BY <2>2 DEF MonitorPersist, unlockState, PrepareSteps, ReleaseSteps, PreparingSteps, ReleasingSteps
  <2>3. CASE RecoverRename
    BY <2>3 DEF RecoverRename, Goto, Exit, unlockState, PrepareSteps, ReleaseSteps, PreparingSteps, ReleasingSteps
  <2>4. CASE RecoverFence
    BY <2>4 DEF RecoverFence, Goto, Exit, unlockState, PrepareSteps, ReleaseSteps, PreparingSteps, ReleasingSteps
  <2>5. CASE Reconcile
    BY <2>5 DEF Reconcile, Exit, unlockState, PrepareSteps, ReleaseSteps, PreparingSteps, ReleasingSteps
  <2>6. CASE removeOrphanCDI
    BY <2>6 DEF removeOrphanCDI, Goto, Exit, unlockState, PrepareSteps, ReleaseSteps, PreparingSteps, ReleasingSteps
  <2>7. CASE StartupPersist
    BY <2>7 DEF StartupPersist, Exit, unlockState, PrepareSteps, ReleaseSteps, PreparingSteps, ReleasingSteps
  <2>. QED  BY <2>1, <2>2, <2>3, <2>4, <2>5, <2>6, <2>7 DEF StartupStep
<1>. QED  BY <1>1, OutsideStep

\* A call starts with what it reloaded, which is not behind the file.
LEMMA CallMark == ASSUME TypeInv, MarkInv, NEW a \in Agents, Call(a) PROVE MarkInv'
<1>. USE DEF PrepareSteps, ReleaseSteps, PreparingSteps, ReleasingSteps
<1>1. ASSUME NEW m \in PersistedState, NEW step, NEW j, Enter(a, m, step, j),
             step \in {"prepare", "unprepare"}, j.todo \subseteq Claims,
             m.claims = Reloaded(a).claims, UNCHANGED storeVars
      PROVE  MarkInv'
  <2>1. State' = m /\ job' = j /\ pc' = step
    BY <1>1 DEF Enter, State, TypeInv, TypeOK
  <2>2. ASSUME NEW c \in job'.todo, disk'.claims[c].phase = "Prepared"
        PROVE  State'.claims[c].phase = "Prepared"
    <3>1. c \in Claims /\ Owned(disk, c) /\ disk.claims[c].phase = "Prepared"
      BY <1>1, <2>1, <2>2 DEF Owned, storeVars
    <3>2. file = "ok"
      BY <3>1 DEF MarkInv, StoreEmpty, EmptyState, NoClaim
    <3>. QED  BY <1>1, <2>1, <3>1, <3>2, ReloadedClaims
  <2>. QED  BY <1>1, <2>1, <2>2 DEF MarkInv, StoreEmpty, CurrentTodo, Agreement, InFlightMarked, storeVars
<1>2. ASSUME NEW batch \in SUBSET Claims, PrepareResourceClaims(a, batch) PROVE MarkInv'
  <2>. DEFINE m == observeLocked(Reloaded(a), hw, FALSE)
              j(o) == [NoJob EXCEPT !.batch = batch, !.todo = batch, !.snap = hw, !.owners = o,
                                    !.al = [c \in Claims |-> IF c \in batch THEN alloc[c] ELSE {}]]
  <2>1. PICK owners : Enter(a, m, "prepare", j(owners))
    BY <1>2 DEF PrepareResourceClaims
  <2>2. m \in PersistedState /\ m.claims = Reloaded(a).claims
    BY ReloadedType, ObserveType, ObserveClaims
  <2>3. j(owners).todo \subseteq Claims
    BY DEF NoJob
  <2>4. UNCHANGED storeVars
    BY <1>2 DEF PrepareResourceClaims
  <2>. HIDE DEF m, j
  <2>. QED  BY <1>1, <2>1, <2>2, <2>3, <2>4
<1>3. ASSUME NEW batch \in SUBSET Claims, UnprepareResourceClaims(a, batch) PROVE MarkInv'
  <2>. DEFINE m == observeLocked(Reloaded(a), hw, FALSE)
              j == [NoJob EXCEPT !.batch = batch, !.todo = batch, !.snap = hw]
  <2>1. Enter(a, m, "unprepare", j) /\ UNCHANGED storeVars
    BY <1>3 DEF UnprepareResourceClaims
  <2>2. m \in PersistedState /\ m.claims = Reloaded(a).claims
    BY ReloadedType, ObserveType, ObserveClaims
  <2>3. j.todo \subseteq Claims
    BY DEF NoJob
  <2>. HIDE DEF m, j
  <2>. QED  BY <1>1, <2>1, <2>2, <2>3
<1>4. CASE \/ RefreshFailed(a) \/ SnapshotStats(a) \/ MonitorUnreadable(a) \/ InventoryFailed(a)
  <2>1. pc' = "idle" /\ (UNCHANGED storeVars \/ \E m, w : persist(m, w))
    BY <1>4, FreeIdle DEF RefreshFailed, SnapshotStats, MonitorUnreadable, InventoryFailed, CanLock, txnVars
  <2>. QED  BY <2>1, OutsideStep
<1>5. CASE Monitor(a) \/ NewManager(a)
  <2>1. pc' \in {"monitor", "corrupt", "reconcile"} /\ UNCHANGED storeVars
    BY <1>5 DEF Monitor, NewManager, Enter
  <2>. QED  BY <2>1, OutsideStep
<1>6. CASE Scan(a)
  BY <1>6 DEF Scan, MarkInv, StoreEmpty, CurrentTodo, Agreement, InFlightMarked, State, storeVars, txnVars
<1>7. CASE Crash(a)
  <2>1. CASE holder = a
    BY <1>7, <2>1, OutsideStep DEF Crash, unlockState
  <2>2. CASE pc = "idle" /\ holder # a
    BY <1>7, <2>2, OutsideStep DEF Crash, txnVars
  <2>3. CASE pc # "idle" /\ holder # a
    <3>1. State' = State /\ UNCHANGED <<storeVars, txnVars>>
      BY <1>7, <2>3 DEF Crash, State, txnVars, TypeInv, TypeOK, LockHeld
    <3>. QED  BY <3>1 DEF MarkInv, StoreEmpty, CurrentTodo, Agreement, InFlightMarked, storeVars, txnVars
  <2>. QED  BY <2>1, <2>2, <2>3
<1>. QED  BY <1>2, <1>3, <1>4, <1>5, <1>6, <1>7 DEF Call

\* Around the agents only a corruption touches the file, and it leaves no record.
LEMMA EnvironmentMark == TypeInv /\ MarkInv /\ Environment => MarkInv'
<1>. SUFFICES ASSUME TypeInv, MarkInv, Environment PROVE MarkInv'
  OBVIOUS
<1>1. CASE UNCHANGED <<storeVars, mem, txnVars>>
  BY <1>1 DEF MarkInv, StoreEmpty, CurrentTodo, Agreement, InFlightMarked, State, storeVars, txnVars
<1>2. CASE Corrupt
  <2>1. disk' = EmptyState /\ UNCHANGED <<mem, txnVars>> /\ job.todo \subseteq Claims
    BY <1>2 DEF Corrupt, TypeInv, TypeOK, Job
  <2>2. \A c \in Claims : EmptyState.claims[c].phase = "Absent"
    BY DEF EmptyState, NoClaim
  <2>. QED  BY <2>1, <2>2 DEF MarkInv, StoreEmpty, CurrentTodo, Agreement, InFlightMarked, TypeInv, CurrentClaim, txnVars
<1>. QED  BY <1>1, <1>2 DEF Environment, Allocate, Deallocate, ContainerStart, ContainerStop, HardwareChange

\* Every step preserves the marking invariant.
LEMMA NextMark == TypeInv /\ MarkInv /\ [Next]_vars => MarkInv'
<1>. SUFFICES ASSUME TypeInv, MarkInv, [Next]_vars PROVE MarkInv'
  OBVIOUS
<1>1. CASE UNCHANGED vars
  BY <1>1 DEF vars, MarkInv, StoreEmpty, CurrentTodo, Agreement, InFlightMarked, State, storeVars, txnVars
<1>. QED  BY <1>1, PrepareStepMark, UnprepareStepMark, OtherStepMark, CallMark, EnvironmentMark
          DEF Next, Transaction

\* Every initial state satisfies the marking invariant.
LEMMA InitMark == Init => MarkInv
BY DEF Init, MarkInv, StoreEmpty, CurrentTodo, Agreement, InFlightMarked, PrepareSteps, ReleaseSteps, PreparingSteps, ReleasingSteps

\* A crash in the middle of a prepare or unprepare is never mistaken for a
\* finished prepare: while prepareOne or unprepareOne works on a claim,
\* claims.json does not call it Prepared (state.go, prepare.go, unprepare.go).
THEOREM InFlightAlwaysMarked == Spec => []InFlightMarked
<1>1. MarkInv => InFlightMarked
  BY DEF MarkInv
<1>2. Init => TypeInv /\ MarkInv
  BY InitType, InitMark
<1>3. TypeInv /\ MarkInv /\ [Next]_vars => (TypeInv /\ MarkInv)'
  BY NextType, NextMark
<1>. QED  BY <1>1, <1>2, <1>3, PTL DEF Spec

-----------------------------------------------------------------------------
(***************************************************************************)
(* Granted devices are owned.                                              *)
(*                                                                         *)
(* Every transaction ends by writing memory to the file, so a record must  *)
(* be safe in the memory of whoever has the lock too, and an agent that    *)
(* was idle while another one worked gets it from its reload.  A prepare   *)
(* may only report claims that memory records with the devices it reports, *)
(* and an unprepare only drops claims whose grant kubelet gave up.         *)
(***************************************************************************)
Records(s, c, D) == Owned(s, c) /\ s.claims[c].devs = D

Keeps(s) == \A c \in Claims : grant[c] # {} => Records(s, c, grant[c])

Clean == file # "corrupt" /\ pc \notin {"corrupt", "fence"}

GrantStored == (\E c \in Claims : grant[c] # {}) => file = "ok" /\ Keeps(disk)

GrantHeld == pc # "idle" => Keeps(State)

ReleaseRevoked == pc \in ReleaseSteps => \A c \in job.todo : grant[c] = {}

DoneRecorded == pc \in PrepareSteps => \A c \in job.done : Records(State, c, job.al[c])

CurrentRecorded == pc \in PreparingSteps => Records(State, job.cur, job.al[job.cur])

OwnInv == Clean /\ GrantStored /\ GrantHeld /\ ReleaseRevoked /\ DoneRecorded /\ CurrentRecorded

\* t has every record of s, with the same devices.
Preserves(s, t) == \A c \in Claims : Owned(s, c) => Records(t, c, s.claims[c].devs)

\* A state with the same records as another preserves it.
LEMMA SameRecords == ASSUME NEW s, NEW t, t.claims = s.claims PROVE Preserves(s, t)
BY DEF Preserves, Records, Owned

\* Changing a phase to one that is not Absent, and adding a record, preserve a state.
LEMMA PhasePreserves ==
  ASSUME NEW s \in PersistedState, NEW c \in Claims, NEW p \in Phases \ {"Absent"}
  PROVE  /\ Preserves(s, SetPhase(s, c, p))
         /\ SetPhase(s, c, p).claims[c].devs = s.claims[c].devs
         /\ Owned(SetPhase(s, c, p), c)
BY DEF Preserves, Records, Owned, SetPhase, PersistedState, PreparedClaim

\* Recording a claim that has no record preserves the others and records it.
LEMMA NewClaimPreserves ==
  ASSUME NEW s \in PersistedState, NEW c \in Claims, NEW D, ~Owned(s, c)
  PROVE  LET t == SetClaim(s, c, [phase |-> "Preparing", devs |-> D, placed |-> TRUE])
         IN  Preserves(s, t) /\ Records(t, c, D)
BY DEF Preserves, Records, Owned, SetClaim, PersistedState

\* What preserves a state that keeps the grants keeps them.
LEMMA PreservesKeeps ==
  ASSUME NEW s, NEW t, Keeps(s), Preserves(s, t) PROVE Keeps(t)
BY DEF Keeps, Preserves, Records

\* A step of a transaction that grants nothing, whose memory and file keep the grants.
LEMMA KeepStep ==
  ASSUME TypeInv, OwnInv, grant' = grant,
         pc' \notin {"corrupt", "fence"},
         pc' # "idle" => Keeps(State'),
         UNCHANGED storeVars \/ (file' = "ok" /\ Keeps(disk')),
         pc' \in ReleaseSteps => pc \in ReleaseSteps /\ job'.todo \subseteq job.todo,
         pc' \in PrepareSteps => \A c \in job'.done : Records(State', c, job'.al[c]),
         pc' \in PreparingSteps => Records(State', job'.cur, job'.al[job'.cur])
  PROVE  OwnInv'
<1>1. Clean'
  BY DEF OwnInv, Clean, storeVars
<1>2. GrantStored'
  BY DEF OwnInv, GrantStored, storeVars, Keeps
<1>3. GrantHeld'
  BY DEF GrantHeld, Keeps
<1>4. ReleaseRevoked'
  BY DEF OwnInv, ReleaseRevoked
<1>5. DoneRecorded' /\ CurrentRecorded'
  BY DEF DoneRecorded, CurrentRecorded
<1>. QED  BY <1>1, <1>2, <1>3, <1>4, <1>5 DEF OwnInv

\* A step that stays among the claims of a batch: what it decided well is
\* recorded, and memory preserves what it had.
LEMMA BatchStep ==
  ASSUME TypeInv, OwnInv, grant' = grant,
         pc \in PrepareSteps \cup ReleaseSteps,
         \/ pc \in PrepareSteps /\ pc' \in PrepareSteps
         \/ pc \in ReleaseSteps /\ pc' \in ReleaseSteps,
         Preserves(State, State'),
         UNCHANGED storeVars \/ (file' = "ok" /\ Preserves(State, disk')),
         job'.todo \subseteq job.todo, job'.al = job.al,
         pc' \in PrepareSteps => \A c \in job'.done : c \in job.done \/ Records(State', c, job.al[c]),
         pc' \in PreparingSteps => Records(State', job'.cur, job.al[job'.cur])
  PROVE  OwnInv'
<1>1. job \in Job
  BY DEF TypeInv, TypeOK
<1>2. pc # "idle" /\ pc' \notin {"idle", "corrupt", "fence"}
  BY DEF PrepareSteps, ReleaseSteps, PreparingSteps, ReleasingSteps
<1>3. Keeps(State)
  BY <1>2 DEF OwnInv, GrantHeld
<1>4. Keeps(State') /\ (UNCHANGED storeVars \/ (file' = "ok" /\ Keeps(disk')))
  BY <1>3, PreservesKeeps
<1>5. ASSUME NEW c \in job.done, pc' \in PrepareSteps PROVE Records(State', c, job.al[c])
  <2>1. Records(State, c, job.al[c])
    BY <1>5 DEF OwnInv, DoneRecorded, PrepareSteps, ReleaseSteps, PreparingSteps, ReleasingSteps
  <2>2. c \in Claims
    BY <1>1, <1>5 DEF Job
  <2>. QED  BY <2>1, <2>2 DEF Preserves, Records
<1>6. pc' \in ReleaseSteps => pc \in ReleaseSteps
  BY DEF PrepareSteps, ReleaseSteps, PreparingSteps, ReleasingSteps
<1>. QED  BY <1>2, <1>4, <1>5, <1>6, KeepStep

\* The job after Decide.
LEMMA DecideJob ==
  ASSUME TypeInv, NEW c, NEW g, NEW step, Decide(c, g, step)
  PROVE  /\ holder' = holder /\ pc' = step /\ job'.todo = job.todo \ {c} /\ job'.al = job.al
         /\ job'.done \subseteq job.done \cup {c}
         /\ ~g => job'.done = job.done
<1>1. job \in Job
  BY DEF TypeInv, TypeOK
<1>. QED  BY <1>1 DEF Decide, Job

\* Steps of a prepare.
LEMMA PrepareStepOwn == TypeInv /\ OwnInv /\ PrepareStep => OwnInv'
<1>. SUFFICES ASSUME TypeInv, OwnInv, PrepareStep PROVE OwnInv'
  OBVIOUS
<1>. USE DecideJob DEF PrepareSteps, ReleaseSteps, PreparingSteps, ReleasingSteps
<1>j. job \in Job
  BY DEF TypeInv, TypeOK
<1>s. pc # "idle" => State \in PersistedState
  BY StateType
<1>k. Preserves(State, State)
  BY SameRecords
<1>1. CASE PrepareRejected
  <2>1. PICK c \in job.todo : Decide(c, FALSE, "prepare")
    BY <1>1 DEF PrepareRejected
  <2>2. pc = "prepare" /\ UNCHANGED <<storeVars, mem, grant>>
    BY <1>1 DEF PrepareRejected, podVars
  <2>3. /\ holder' = holder /\ pc' = "prepare" /\ job'.todo \subseteq job.todo
        /\ job'.al = job.al /\ job'.done = job.done
    BY <2>1
  <2>4. State' = State
    BY <2>2, <2>3 DEF State
  <2>. QED  BY <1>k, <2>2, <2>3, <2>4, BatchStep
<1>2. CASE PrepareRepeated
  <2>1. PICK c \in job.todo, w \in Writes :
          sameClaim(State.claims[c], job.al[c]) /\ Repeatable(c) /\ Decide(c, w = "ok", "prepare")
    BY <1>2 DEF PrepareRepeated
  <2>2. pc = "prepare" /\ UNCHANGED <<storeVars, mem, grant>>
    BY <1>2 DEF PrepareRepeated, podVars
  <2>3. /\ holder' = holder /\ pc' = "prepare" /\ job'.todo \subseteq job.todo
        /\ job'.al = job.al /\ job'.done \subseteq job.done \cup {c}
    BY <2>1
  <2>4. State' = State
    BY <2>2, <2>3 DEF State
  <2>5. Records(State, c, job.al[c])
    BY <2>1 DEF Records, Owned, sameClaim, Repeatable
  <2>. QED  BY <1>k, <2>2, <2>3, <2>4, <2>5, BatchStep
<1>3. CASE PrepareResumed
  <2>1. PICK c \in job.todo :
          /\ sameClaim(State.claims[c], job.al[c]) /\ State.claims[c].phase = "Preparing"
          /\ StartSanitize(c)
    BY <1>3 DEF PrepareResumed
  <2>2. pc = "prepare" /\ UNCHANGED <<storeVars, mem, grant, holder>> /\ pc' = "sanitize"
    BY <1>3, <2>1 DEF PrepareResumed, StartSanitize, podVars
  <2>3. job'.todo = job.todo /\ job'.cur = c /\ job'.al = job.al /\ job'.done = job.done
    BY <2>1, <1>j DEF StartSanitize, Job
  <2>4. State' = State
    BY <2>2 DEF State
  <2>5. Records(State, c, job.al[c])
    BY <2>1 DEF Records, Owned, sameClaim
  <2>. QED  BY <1>k, <2>2, <2>3, <2>4, <2>5, BatchStep
<1>4. CASE PrepareIntent
  <2>. DEFINE m(c) == SetClaim(State, c, [phase |-> "Preparing", devs |-> job.al[c], placed |-> TRUE])
  <2>1. PICK c \in job.todo, w \in Writes \cup {"unaudited"} :
          /\ ~Owned(State, c) /\ persist(m(c), w)
          /\ IF w \in {"early", "late"} THEN UNCHANGED mem ELSE Remember(m(c))
          /\ IF w = "ok" THEN StartSanitize(c) ELSE Decide(c, FALSE, "prepare")
    BY <1>4 DEF PrepareIntent
  <2>2. pc = "prepare" /\ c \in Claims /\ UNCHANGED grant
    BY <1>4, <1>j DEF PrepareIntent, Job, podVars
  <2>3. /\ holder' = holder /\ job'.todo \subseteq job.todo /\ job'.al = job.al /\ job'.done = job.done
        /\ pc' = "prepare" \/ (pc' = "sanitize" /\ job'.cur = c /\ w = "ok")
    <3>1. CASE w = "ok"
      <4>1. StartSanitize(c)
        BY <2>1, <3>1
      <4>. QED  BY <4>1, <3>1, <1>j DEF StartSanitize, Job
    <3>2. CASE w # "ok"
      BY <2>1, <3>2
    <3>. QED  BY <3>1, <3>2
  <2>4. Preserves(State, m(c)) /\ Records(m(c), c, job.al[c])
    BY <1>s, <2>1, <2>2, NewClaimPreserves
  <2>5. State' = IF w \in {"early", "late"} THEN State ELSE m(c)
    BY <2>1, <2>2, <2>3, RememberState DEF State
  <2>6. UNCHANGED storeVars \/ (file' = "ok" /\ disk' = m(c))
    BY <2>1 DEF persist, storeVars
  <2>. HIDE DEF m
  <2>. QED  BY <1>k, <2>2, <2>3, <2>4, <2>5, <2>6, BatchStep
<1>5. CASE PrepareSanitize
  <2>1. PICK d \in job.left : \E o :
          /\ Remember(sanitizeLocked(State, d, o = "ok"))
          /\ \/ Decide(job.cur, FALSE, "prepare")
             \/ /\ pc' = IF job.left = {d} THEN "verify" ELSE "sanitize"
                /\ job' = [job EXCEPT !.left = @ \ {d}]
                /\ UNCHANGED holder
    BY <1>5 DEF PrepareSanitize
  <2>2. pc = "sanitize" /\ UNCHANGED <<storeVars, grant>>
    BY <1>5 DEF PrepareSanitize, podVars
  <2>3. /\ holder' = holder /\ job'.todo \subseteq job.todo /\ job'.al = job.al /\ job'.done = job.done
        /\ pc' = "prepare" \/ (pc' \in PreparingSteps /\ job'.cur = job.cur)
    <3>1. CASE Decide(job.cur, FALSE, "prepare")
      BY <3>1
    <3>2. CASE /\ pc' = IF job.left = {d} THEN "verify" ELSE "sanitize"
               /\ job' = [job EXCEPT !.left = @ \ {d}]
               /\ UNCHANGED holder
      BY <3>2, <1>j DEF Job
    <3>. QED  BY <2>1, <3>1, <3>2
  <2>4. State'.claims = State.claims
    BY <2>1, <2>2, <2>3, <1>s, RememberState, SanitizeClaims
  <2>5. Preserves(State, State') /\ Records(State', job.cur, job.al[job.cur])
    BY <2>2, <2>4, SameRecords DEF OwnInv, CurrentRecorded, Records, Owned
  <2>. QED  BY <2>2, <2>3, <2>5, BatchStep
<1>6. CASE PrepareVerify
  <2>. DEFINE m == observeLocked(State, hw, FALSE)
  <2>1. /\ pc = "verify" /\ UNCHANGED <<storeVars, grant>>
        /\ UNCHANGED mem \/ Remember(m) \/ \E d : Remember(quarantineLocked(m, {d}))
        /\ Goto("expose") \/ Decide(job.cur, FALSE, "prepare")
    BY <1>6 DEF PrepareVerify, podVars
  <2>2. m \in PersistedState /\ m.claims = State.claims
    <3>1. State \in PersistedState
      BY <2>1, <1>s
    <3>2. m \in PersistedState
      BY <3>1, ObserveType
    <3>3. m.claims = State.claims
      BY <3>1 DEF observeLocked, quarantineLocked, PersistedState
    <3>. QED  BY <3>2, <3>3
  <2>. HIDE DEF m
  <2>3. \A d : quarantineLocked(m, {d}).claims = State.claims
    BY <2>2, ObserveClaims
  <2>4. /\ holder' = holder /\ job'.todo \subseteq job.todo /\ job'.al = job.al /\ job'.done = job.done
        /\ pc' = "prepare" \/ (pc' = "expose" /\ job' = job)
    <3>1. CASE Goto("expose")
      BY <3>1 DEF Goto
    <3>2. CASE Decide(job.cur, FALSE, "prepare")
      BY <3>2
    <3>. QED  BY <2>1, <3>1, <3>2
  <2>5. State'.claims = State.claims
    BY <2>1, <2>2, <2>3, <2>4, RememberState DEF State
  <2>6. Preserves(State, State') /\ Records(State', job.cur, job.al[job.cur])
    BY <2>1, <2>5, SameRecords DEF OwnInv, CurrentRecorded, Records, Owned
  <2>. QED  BY <2>1, <2>4, <2>6, BatchStep
<1>7. CASE PrepareExpose
  <2>1. /\ pc = "expose" /\ UNCHANGED <<storeVars, mem, grant>>
        /\ Goto("commit") \/ Decide(job.cur, FALSE, "prepare")
    BY <1>7 DEF PrepareExpose, podVars
  <2>2. /\ holder' = holder /\ job'.todo \subseteq job.todo /\ job'.al = job.al /\ job'.done = job.done
        /\ pc' = "prepare" \/ (pc' = "commit" /\ job' = job)
    <3>1. CASE Goto("commit")
      BY <3>1 DEF Goto
    <3>2. CASE Decide(job.cur, FALSE, "prepare")
      BY <3>2
    <3>. QED  BY <2>1, <3>1, <3>2
  <2>3. State' = State
    BY <2>1, <2>2 DEF State
  <2>4. Records(State, job.cur, job.al[job.cur])
    BY <2>1 DEF OwnInv, CurrentRecorded
  <2>. QED  BY <1>k, <2>1, <2>2, <2>3, <2>4, BatchStep
<1>8. CASE PrepareCommit
  <2>. DEFINE c == job.cur
              m == SetPhase(State, c, "Prepared")
              p == SetPhase(State, c, "Preparing")
              q == quarantineLocked(State, State.claims[c].devs)
  <2>1. PICK w \in Writes \cup {"unaudited"} :
          /\ IF w = "unaudited" THEN UNCHANGED storeVars ELSE persist(m, w)
          /\ Remember(CASE w = "ok" -> m [] w = "unaudited" -> q [] OTHER -> p)
    BY <1>8 DEF PrepareCommit
  <2>2. /\ pc = "commit" /\ c \in Claims /\ holder' = holder /\ pc' = "prepare" /\ UNCHANGED grant
        /\ job'.todo \subseteq job.todo /\ job'.al = job.al /\ job'.done \subseteq job.done \cup {c}
    BY <1>8, <1>j DEF PrepareCommit, TypeInv, CurrentClaim, Job, podVars
  <2>3. Preserves(State, m) /\ Preserves(State, p) /\ Preserves(State, q)
    BY <1>s, <2>2, PhasePreserves, ObserveClaims, SameRecords DEF Phases
  <2>4. State' \in {m, p, q}
    BY <2>1, <2>2, RememberState
  <2>5. UNCHANGED storeVars \/ (file' = "ok" /\ disk' = m)
    BY <2>1 DEF persist, storeVars
  <2>. HIDE DEF m, p, q
  <2>6. Records(State', c, job.al[c])
    BY <2>2, <2>3, <2>4 DEF OwnInv, CurrentRecorded, Records, Preserves
  <2>. QED  BY <2>2, <2>3, <2>4, <2>5, <2>6, BatchStep
<1>9. CASE PrepareReply
  <2>1. PICK w \in Writes :
          /\ persist(State, w)
          /\ grant' = IF w = "ok"
                      THEN [c \in Claims |-> IF c \in job.done THEN job.al[c] ELSE grant[c]]
                      ELSE grant
    BY <1>9 DEF PrepareReply
  <2>2. pc = "prepare" /\ pc' = "idle"
    BY <1>9 DEF PrepareReply, unlockState
  <2>3. Keeps(State)
    BY <2>2 DEF OwnInv, GrantHeld
  <2>4. CASE w = "ok"
    <3>1. file' = "ok" /\ disk' = State
      BY <2>1, <2>4 DEF persist
    <3>2. ASSUME NEW c \in Claims, grant'[c] # {} PROVE Records(State, c, grant'[c])
      <4>1. CASE c \in job.done
        BY <2>1, <2>2, <2>4, <4>1 DEF OwnInv, DoneRecorded
      <4>2. CASE c \notin job.done
        BY <2>1, <2>3, <2>4, <3>2, <4>2 DEF Keeps
      <4>. QED  BY <4>1, <4>2
    <3>3. GrantStored'
      BY <3>1, <3>2 DEF GrantStored, Keeps
    <3>. QED  BY <2>2, <3>1, <3>3 DEF OwnInv, Clean, GrantHeld, ReleaseRevoked, DoneRecorded, CurrentRecorded
  <2>5. CASE w # "ok"
    <3>1. UNCHANGED grant /\ (UNCHANGED storeVars \/ (file' = "ok" /\ disk' = State))
      BY <2>1, <2>5 DEF persist, storeVars
    <3>. QED  BY <2>2, <2>3, <3>1, KeepStep
  <2>. QED  BY <2>4, <2>5
<1>. QED  BY <1>1, <1>2, <1>3, <1>4, <1>5, <1>6, <1>7, <1>8, <1>9 DEF PrepareStep

\* Steps of an unprepare: only claims whose grant kubelet gave up are dropped.
LEMMA UnprepareStepOwn == TypeInv /\ MarkInv /\ OwnInv /\ UnprepareStep => OwnInv'
<1>. SUFFICES ASSUME TypeInv, MarkInv, OwnInv, UnprepareStep PROVE OwnInv'
  OBVIOUS
<1>. USE DecideJob DEF PrepareSteps, ReleaseSteps, PreparingSteps, ReleasingSteps
<1>j. job \in Job
  BY DEF TypeInv, TypeOK
<1>s. pc # "idle" => State \in PersistedState
  BY StateType
<1>k. Preserves(State, State)
  BY SameRecords
<1>g. ASSUME pc \in ReleaseSteps, pc' \in ReleaseSteps, UNCHANGED grant, Preserves(State, State'),
             UNCHANGED storeVars \/ (file' = "ok" /\ Preserves(State, disk')),
             job'.todo \subseteq job.todo, job'.al = job.al
      PROVE  OwnInv'
  BY <1>g, BatchStep
<1>1. CASE UnprepareUnknown
  <2>1. PICK c \in job.todo : Decide(c, TRUE, "unprepare")
    BY <1>1 DEF UnprepareUnknown
  <2>2. pc = "unprepare" /\ UNCHANGED <<storeVars, mem, grant>>
    BY <1>1 DEF UnprepareUnknown, podVars
  <2>3. holder' = holder /\ pc' = "unprepare" /\ job'.todo \subseteq job.todo /\ job'.al = job.al
    BY <2>1
  <2>4. State' = State
    BY <2>2, <2>3 DEF State
  <2>. QED  BY <1>g, <1>k, <2>2, <2>3, <2>4
<1>2. CASE UnprepareIntent
  <2>. DEFINE m(c) == SetPhase(State, c, "Releasing")
  <2>1. PICK c \in job.todo, w \in Writes \cup {"unaudited"} :
          /\ UNCHANGED storeVars \/ persist(m(c), w)
          /\ Remember(m(c))
          /\ \/ Decide(c, FALSE, "unprepare")
             \/ /\ pc' = "scrub"
                /\ job' = [job EXCEPT !.cur = c, !.left = State.claims[c].devs]
                /\ UNCHANGED holder
    BY <1>2 DEF UnprepareIntent
  <2>2. pc = "unprepare" /\ c \in Claims /\ UNCHANGED grant
    BY <1>2, <1>j DEF UnprepareIntent, Job, podVars
  <2>3. /\ holder' = holder /\ pc' \in {"unprepare", "scrub"}
        /\ job'.todo \subseteq job.todo /\ job'.al = job.al
    BY <2>1, <1>j DEF Job
  <2>4. Preserves(State, m(c))
    BY <1>s, <2>2, PhasePreserves DEF Phases
  <2>5. State' = m(c)
    BY <2>1, <2>2, <2>3, RememberState
  <2>6. UNCHANGED storeVars \/ (file' = "ok" /\ disk' = m(c))
    BY <2>1 DEF persist, storeVars
  <2>. HIDE DEF m
  <2>. QED  BY <1>g, <2>2, <2>3, <2>4, <2>5, <2>6
<1>3. CASE UnprepareScrub
  <2>0. pc = "scrub" /\ State \in PersistedState /\ UNCHANGED <<storeVars, grant>>
    BY <1>3, <1>s DEF UnprepareScrub, podVars
  <2>1. \/ Goto("release") /\ UNCHANGED mem
        \/ \E d, o : /\ \/ Remember(quarantineLocked(State, {d}))
                        \/ Remember(sanitizeLocked(State, d, o = "ok"))
                     /\ pc' = "scrub" /\ UNCHANGED holder
                     /\ job' = [job EXCEPT !.left = @ \ {d}, !.bad = @ \/ o # "ok"]
    BY <1>3 DEF UnprepareScrub
  <2>2. holder' = holder /\ pc' \in {"scrub", "release"} /\ job'.todo = job.todo /\ job'.al = job.al
    BY <2>1, <1>j DEF Goto, Job
  <2>3. State'.claims = State.claims
    <3>1. CASE UNCHANGED mem
      BY <2>2, <3>1 DEF State
    <3>2. ASSUME NEW d, Remember(quarantineLocked(State, {d}))
          PROVE  State'.claims = State.claims
      BY <2>0, <2>2, <3>2, RememberState, ObserveClaims
    <3>3. ASSUME NEW d, NEW o, Remember(sanitizeLocked(State, d, o = "ok"))
          PROVE  State'.claims = State.claims
      BY <2>0, <2>2, <3>3, RememberState, SanitizeClaims
    <3>. QED  BY <2>1, <3>1, <3>2, <3>3
  <2>. QED  BY <1>g, <2>0, <2>2, <2>3, SameRecords
<1>4. CASE UnprepareApprove
  <2>1. /\ pc = "release" /\ UNCHANGED grant
        /\ (\E w : persist(State, w)) \/ UNCHANGED storeVars
        /\ Goto("remove") \/ Decide(job.cur, FALSE, "unprepare")
        /\ UNCHANGED mem \/ Remember(quarantineLocked(State, State.claims[job.cur].devs))
    BY <1>4 DEF UnprepareApprove, podVars
  <2>2. /\ holder' = holder /\ pc' \in {"unprepare", "remove"}
        /\ job'.todo \subseteq job.todo /\ job'.al = job.al
    <3>1. CASE Goto("remove")
      BY <3>1 DEF Goto
    <3>2. CASE Decide(job.cur, FALSE, "unprepare")
      BY <3>2
    <3>. QED  BY <2>1, <3>1, <3>2
  <2>3. State'.claims = State.claims
    BY <2>1, <2>2, <1>s, RememberState, ObserveClaims DEF State
  <2>4. UNCHANGED storeVars \/ (file' = "ok" /\ disk' = State)
    BY <2>1 DEF persist, storeVars
  <2>. QED  BY <1>g, <1>k, <2>1, <2>2, <2>3, <2>4, SameRecords
<1>5. CASE UnprepareRemoveCDI
  <2>1. /\ pc = "remove" /\ UNCHANGED <<storeVars, mem, grant>>
        /\ Goto("forget") \/ Decide(job.cur, FALSE, "unprepare")
    BY <1>5 DEF UnprepareRemoveCDI, podVars
  <2>2. /\ holder' = holder /\ pc' \in {"unprepare", "forget"}
        /\ job'.todo \subseteq job.todo /\ job'.al = job.al
    <3>1. CASE Goto("forget")
      BY <3>1 DEF Goto
    <3>2. CASE Decide(job.cur, FALSE, "unprepare")
      BY <3>2
    <3>. QED  BY <2>1, <3>1, <3>2
  <2>3. State' = State
    BY <2>1, <2>2 DEF State
  <2>. QED  BY <1>g, <1>k, <2>1, <2>2, <2>3
<1>6. CASE UnprepareForget
  <2>. DEFINE c == job.cur
              m == SetClaim(State, c, NoClaim)
  <2>1. PICK w \in Writes :
          /\ persist(m, w)
          /\ UNCHANGED mem \/ Remember(m)
          /\ Decide(c, w = "ok", "unprepare")
    BY <1>6 DEF UnprepareForget
  <2>2. pc = "forget" /\ c \in Claims /\ UNCHANGED grant
    BY <1>6 DEF UnprepareForget, TypeInv, CurrentClaim, podVars
  <2>3. holder' = holder /\ pc' = "unprepare" /\ job'.todo \subseteq job.todo
    BY <2>1
  <2>4. grant[c] = {}
    BY <2>2 DEF MarkInv, CurrentTodo, OwnInv, ReleaseRevoked
  <2>5. Keeps(State) /\ Keeps(m)
    BY <1>s, <2>2, <2>4 DEF OwnInv, GrantHeld, Keeps, Records, Owned, SetClaim, PersistedState
  <2>6. State' \in {State, m}
    BY <2>1, <2>2, <2>3, RememberState DEF State
  <2>7. UNCHANGED storeVars \/ (file' = "ok" /\ disk' = m)
    BY <2>1 DEF persist, storeVars
  <2>. HIDE DEF m
  <2>. QED  BY <2>2, <2>3, <2>5, <2>6, <2>7, KeepStep
<1>7. CASE UnprepareReply
  <2>1. /\ pc = "unprepare" /\ pc' = "idle" /\ UNCHANGED grant
        /\ UNCHANGED storeVars \/ (file' = "ok" /\ disk' = State)
    BY <1>7 DEF UnprepareReply, unlockState, persist, storeVars
  <2>2. Keeps(State)
    BY <2>1 DEF OwnInv, GrantHeld
  <2>. QED  BY <2>1, <2>2, KeepStep
<1>. QED  BY <1>1, <1>2, <1>3, <1>4, <1>5, <1>6, <1>7 DEF UnprepareStep

\* Outside prepare and unprepare a step keeps the grants if its memory and the
\* file do.
LEMMA OutsideKeeps ==
  ASSUME TypeInv, OwnInv, UNCHANGED grant,
         pc' \notin PrepareSteps \cup ReleaseSteps \cup {"corrupt", "fence"},
         pc' # "idle" => Keeps(State'),
         UNCHANGED storeVars \/ (file' = "ok" /\ Keeps(disk'))
  PROVE  OwnInv'
BY KeepStep DEF PrepareSteps, ReleaseSteps, PreparingSteps, ReleasingSteps

\* The janitor and startup keep every record; without a corruption startup
\* never replaces the state.
LEMMA OtherStepOwn ==
  TypeInv /\ OwnInv /\ (MonitorRecover \/ MonitorPersist \/ StartupStep) => OwnInv'
<1>. SUFFICES ASSUME TypeInv, OwnInv, MonitorRecover \/ MonitorPersist \/ StartupStep PROVE OwnInv'
  OBVIOUS
<1>0. pc # "idle" /\ State \in PersistedState /\ Keeps(State) /\ UNCHANGED grant
  <2>1. pc # "idle" /\ UNCHANGED grant
    BY DEF MonitorRecover, MonitorPersist, StartupStep, RecoverRename, RecoverFence, Reconcile,
           removeOrphanCDI, StartupPersist, podVars
  <2>. QED  BY <2>1, StateType DEF OwnInv, GrantHeld
<1>1. CASE MonitorRecover
  <2>1. PICK d \in job.left :
             \/ UNCHANGED mem
             \/ Remember([State EXCEPT !.quar[d] = "none"])
             \/ Remember(Recover(State, d, job.snap))
             \/ Remember(sanitizeLocked(State, d, FALSE))
    BY <1>1 DEF MonitorRecover
  <2>2. pc = "monitor" /\ UNCHANGED <<pc, holder, storeVars>>
    BY <1>1 DEF MonitorRecover
  <2>3. State' \in {State, [State EXCEPT !.quar[d] = "none"], Recover(State, d, job.snap),
                    sanitizeLocked(State, d, FALSE)}
    BY <2>1, <2>2, <1>0, RememberState DEF State
  <2>4. State'.claims = State.claims
    <3>1. [State EXCEPT !.quar[d] = "none"].claims = State.claims
      BY <1>0 DEF PersistedState
    <3>2. Recover(State, d, job.snap).claims = State.claims
      BY <1>0, SanitizeClaims
    <3>3. sanitizeLocked(State, d, FALSE).claims = State.claims
      BY <1>0 DEF sanitizeLocked, PersistedState
    <3>. QED  BY <2>3, <3>1, <3>2, <3>3
  <2>5. Keeps(State')
    BY <2>4, <1>0, SameRecords, PreservesKeeps
  <2>. QED  BY <1>0, <2>2, <2>5, OutsideKeeps DEF PrepareSteps, ReleaseSteps, PreparingSteps, ReleasingSteps
<1>2. CASE MonitorPersist
  <2>1. pc' = "idle" /\ (UNCHANGED storeVars \/ (file' = "ok" /\ disk' = State))
    BY <1>2 DEF MonitorPersist, unlockState, persist, storeVars
  <2>. QED  BY <1>0, <2>1, OutsideKeeps DEF PrepareSteps, ReleaseSteps, PreparingSteps, ReleasingSteps
<1>3. CASE RecoverRename \/ RecoverFence
  BY <1>3 DEF RecoverRename, RecoverFence, OwnInv, Clean
<1>4. CASE Reconcile
  <2>. DEFINE m == reconcileStartup(State, alloc, hw)
  <2>1. /\ UNCHANGED storeVars
        /\ \/ pc' = "orphans" /\ UNCHANGED holder /\ \E Q : Remember(quarantineLocked(m, Q))
           \/ pc' = "idle"
    BY <1>4 DEF Reconcile, Exit, unlockState
  <2>2. m \in PersistedState /\ Preserves(State, m)
    BY <1>0, ReconcileType, ReconcileClaims DEF Preserves, Records, TypeInv, TypeOK
  <2>. HIDE DEF m
  <2>3. CASE pc' = "orphans" /\ UNCHANGED holder /\ \E Q : Remember(quarantineLocked(m, Q))
    <3>1. PICK Q : Remember(quarantineLocked(m, Q))
      BY <2>3
    <3>2. State' = quarantineLocked(m, Q)
      BY <2>3, <3>1, <1>0, RememberState
    <3>3. State'.claims = m.claims
      BY <3>2, <2>2, ObserveClaims
    <3>4. Keeps(State')
      BY <3>3, <2>2, <1>0, SameRecords, PreservesKeeps
    <3>. QED  BY <1>0, <2>1, <2>3, <3>4, OutsideKeeps DEF PrepareSteps, ReleaseSteps, PreparingSteps, ReleasingSteps
  <2>4. CASE pc' = "idle"
    BY <1>0, <2>1, <2>4, OutsideKeeps DEF PrepareSteps, ReleaseSteps, PreparingSteps, ReleasingSteps
  <2>. QED  BY <2>1, <2>3, <2>4
<1>5. CASE removeOrphanCDI
  <2>1. /\ UNCHANGED storeVars
        /\ (pc' = "serve" /\ UNCHANGED <<holder, mem>>) \/ pc' = "idle"
    BY <1>5 DEF removeOrphanCDI, Goto, Exit, unlockState
  <2>2. pc' = "serve" => State' = State
    BY <2>1 DEF State
  <2>. QED  BY <1>0, <2>1, <2>2, OutsideKeeps DEF PrepareSteps, ReleaseSteps, PreparingSteps, ReleasingSteps
<1>6. CASE StartupPersist
  <2>1. pc' = "idle" /\ (UNCHANGED storeVars \/ (file' = "ok" /\ disk' = State))
    BY <1>6 DEF StartupPersist, Exit, unlockState, persist, storeVars
  <2>. QED  BY <1>0, <2>1, OutsideKeeps DEF PrepareSteps, ReleaseSteps, PreparingSteps, ReleasingSteps
<1>. QED  BY <1>1, <1>2, <1>3, <1>4, <1>5, <1>6 DEF StartupStep

\* Whoever takes the lock starts from a state that keeps the grants.
LEMMA ReloadedKeeps ==
  ASSUME TypeInv, OwnInv, NEW a \in Agents PROVE Keeps(Reloaded(a))
<1>. SUFFICES ASSUME NEW c \in Claims, grant[c] # {} PROVE Records(Reloaded(a), c, grant[c])
  BY DEF Keeps
<1>1. file = "ok" /\ Records(disk, c, grant[c])
  BY DEF OwnInv, GrantStored, Keeps
<1>2. Reloaded(a).claims[c] = disk.claims[c]
  BY <1>1, ReloadedClaims DEF Records
<1>. QED  BY <1>1, <1>2 DEF Records, Owned

\* A call that takes the lock preserves the ownership invariant.
LEMMA CallOwn == ASSUME TypeInv, OwnInv, NEW a \in Agents, Call(a) PROVE OwnInv'
<1>. USE DEF PrepareSteps, ReleaseSteps, PreparingSteps, ReleasingSteps
<1>r. Reloaded(a) \in PersistedState /\ Keeps(Reloaded(a))
  BY ReloadedType, ReloadedKeeps
<1>o. ASSUME NEW snap, NEW r \in BOOLEAN PROVE Keeps(observeLocked(Reloaded(a), snap, r))
  <2>1. observeLocked(Reloaded(a), snap, r).claims = Reloaded(a).claims
    BY <1>r, ObserveClaims
  <2>. QED  BY <2>1, <1>r, SameRecords, PreservesKeeps
<1>e. ASSUME NEW m, NEW step, NEW j, Enter(a, m, step, j)
      PROVE  State' = m /\ pc' = step /\ job' = j
  BY <1>e DEF Enter, State, TypeInv, TypeOK
<1>1. ASSUME NEW batch \in SUBSET Claims, PrepareResourceClaims(a, batch) PROVE OwnInv'
  <2>. DEFINE m == observeLocked(Reloaded(a), hw, FALSE)
              j(o) == [NoJob EXCEPT !.batch = batch, !.todo = batch, !.snap = hw, !.owners = o,
                                    !.al = [c \in Claims |-> IF c \in batch THEN alloc[c] ELSE {}]]
  <2>1. PICK owners : Enter(a, m, "prepare", j(owners))
    BY <1>1 DEF PrepareResourceClaims
  <2>2. UNCHANGED <<storeVars, grant>>
    BY <1>1 DEF PrepareResourceClaims
  <2>3. j(owners).done = {}
    BY DEF NoJob
  <2>4. Keeps(m)
    BY <1>o
  <2>. HIDE DEF m, j
  <2>5. State' = m /\ pc' = "prepare" /\ job' = j(owners)
    BY <2>1, <1>e
  <2>. QED  BY <2>2, <2>3, <2>4, <2>5, KeepStep
<1>2. ASSUME NEW batch \in SUBSET Claims, UnprepareResourceClaims(a, batch) PROVE OwnInv'
  <2>. DEFINE m == observeLocked(Reloaded(a), hw, FALSE)
              j == [NoJob EXCEPT !.batch = batch, !.todo = batch, !.snap = hw]
  <2>1. Enter(a, m, "unprepare", j) /\ UNCHANGED storeVars
    BY <1>2 DEF UnprepareResourceClaims
  <2>2. grant' = [c \in Claims |-> IF c \in batch THEN {} ELSE grant[c]]
    BY <1>2 DEF UnprepareResourceClaims
  <2>3. j.todo = batch
    BY DEF NoJob
  <2>4. Keeps(m)
    BY <1>o
  <2>. HIDE DEF m, j
  <2>5. State' = m /\ pc' = "unprepare" /\ job' = j
    BY <2>1, <1>e
  <2>6. GrantStored'
    BY <2>1, <2>2 DEF OwnInv, GrantStored, Keeps, storeVars
  <2>7. GrantHeld'
    BY <2>2, <2>4, <2>5 DEF GrantHeld, Keeps
  <2>8. ReleaseRevoked'
    BY <2>2, <2>3, <2>5 DEF ReleaseRevoked
  <2>. QED  BY <2>1, <2>5, <2>6, <2>7, <2>8 DEF OwnInv, Clean, DoneRecorded, CurrentRecorded, storeVars
<1>3. CASE RefreshFailed(a) \/ SnapshotStats(a) \/ MonitorUnreadable(a)
  <2>1. pc' = "idle" /\ UNCHANGED <<storeVars, grant>>
    BY <1>3, FreeIdle DEF RefreshFailed, SnapshotStats, MonitorUnreadable, CanLock, txnVars, podVars
  <2>. QED  BY <2>1, OutsideKeeps
<1>4. CASE InventoryFailed(a)
  <2>. DEFINE m == quarantineLocked(Reloaded(a), Reloaded(a).known)
  <2>1. pc' = "idle" /\ UNCHANGED grant /\ (UNCHANGED storeVars \/ \E w : persist(m, w))
    BY <1>4, FreeIdle DEF InventoryFailed, CanLock, txnVars, podVars
  <2>2. m.claims = Reloaded(a).claims
    BY <1>r, ObserveClaims
  <2>. HIDE DEF m
  <2>3. Keeps(m)
    BY <2>2, <1>r, SameRecords, PreservesKeeps
  <2>. QED  BY <2>1, <2>3, OutsideKeeps DEF persist, storeVars
<1>5. CASE Monitor(a)
  <2>1. \E j : Enter(a, observeLocked(Reloaded(a), scan[a], TRUE), "monitor", j)
    BY <1>5 DEF Monitor
  <2>2. State' = observeLocked(Reloaded(a), scan[a], TRUE) /\ pc' = "monitor"
    BY <2>1, <1>e
  <2>3. UNCHANGED <<storeVars, grant>>
    BY <1>5 DEF Monitor, podVars
  <2>. QED  BY <1>o, <2>2, <2>3, OutsideKeeps
<1>6. CASE NewManager(a)
  <2>1. file # "corrupt"
    BY DEF OwnInv, Clean
  <2>2. Enter(a, IF file = "ok" THEN load(disk, EmptyState) ELSE EmptyState, "reconcile", NoJob)
    BY <1>6, <2>1 DEF NewManager
  <2>3. State' = (IF file = "ok" THEN load(disk, EmptyState) ELSE EmptyState) /\ pc' = "reconcile"
    BY <2>2, <1>e
  <2>4. UNCHANGED <<storeVars, grant>>
    BY <1>6 DEF NewManager, podVars
  <2>5. ASSUME NEW c \in Claims, grant[c] # {} PROVE Records(State', c, grant[c])
    <3>1. file = "ok" /\ Records(disk, c, grant[c])
      BY <2>5 DEF OwnInv, GrantStored, Keeps
    <3>2. load(disk, EmptyState).claims[c] = disk.claims[c]
      BY <3>1, LoadClaims, EmptyType DEF TypeInv, TypeOK, Records
    <3>. QED  BY <2>3, <3>1, <3>2 DEF Records, Owned
  <2>6. Keeps(State')
    BY <2>5 DEF Keeps
  <2>. QED  BY <2>3, <2>4, <2>6, OutsideKeeps
<1>7. CASE Scan(a)
  BY <1>7 DEF Scan, OwnInv, Clean, GrantStored, GrantHeld, ReleaseRevoked, DoneRecorded, CurrentRecorded,
              Keeps, State, storeVars, txnVars, podVars
<1>8. CASE Crash(a)
  <2>0. UNCHANGED <<storeVars, grant>>
    BY <1>8 DEF Crash, podVars
  <2>1. CASE holder = a
    BY <1>8, <2>0, <2>1, OutsideKeeps DEF Crash, unlockState
  <2>2. CASE pc = "idle" /\ holder # a
    BY <1>8, <2>0, <2>2, OutsideKeeps DEF Crash, txnVars
  <2>3. CASE pc # "idle" /\ holder # a
    <3>1. State' = State /\ UNCHANGED txnVars
      BY <1>8, <2>3 DEF Crash, State, txnVars, TypeInv, TypeOK, LockHeld
    <3>. QED  BY <2>0, <3>1 DEF OwnInv, Clean, GrantStored, GrantHeld, ReleaseRevoked, DoneRecorded,
                                CurrentRecorded, Keeps, storeVars, txnVars
  <2>. QED  BY <2>1, <2>2, <2>3
<1>. QED  BY <1>1, <1>2, <1>3, <1>4, <1>5, <1>6, <1>7, <1>8 DEF Call

\* A step that leaves files, agents and grants alone.
LEMMA FrameOwn == OwnInv /\ UNCHANGED <<storeVars, mem, txnVars, grant>> => OwnInv'
BY DEF OwnInv, Clean, GrantStored, GrantHeld, ReleaseRevoked, DoneRecorded, CurrentRecorded,
       Keeps, State, storeVars, txnVars

\* Only a corruption of claims.json counts as one.
LEMMA OthersUncounted ==
  ASSUME TypeInv, Next, ~Corrupt PROVE spent'.corruptions = spent.corruptions
<1>0. spent \in Budget
  BY DEF TypeInv, TypeOK
<1>1. ASSUME NEW b, Charge(b) PROVE spent'.corruptions = spent.corruptions
  BY <1>0, <1>1 DEF Charge, Budget
<1>2. PrepareStep => spent'.corruptions = spent.corruptions
  BY <1>1 DEF PrepareStep, PrepareRejected, PrepareRepeated, PrepareResumed, PrepareIntent, PrepareSanitize,
              PrepareVerify, PrepareExpose, PrepareCommit, PrepareReply, Reset
<1>3. UnprepareStep => spent'.corruptions = spent.corruptions
  BY <1>1 DEF UnprepareStep, UnprepareUnknown, UnprepareIntent, UnprepareScrub, UnprepareApprove,
              UnprepareRemoveCDI, UnprepareForget, UnprepareReply, Reset
<1>4. MonitorRecover \/ MonitorPersist \/ StartupStep => spent'.corruptions = spent.corruptions
  BY <1>1 DEF MonitorRecover, MonitorPersist, StartupStep, RecoverRename, RecoverFence, Reconcile,
              removeOrphanCDI, StartupPersist, Reset
<1>5. ASSUME NEW a \in Agents, Call(a) PROVE spent'.corruptions = spent.corruptions
  BY <1>0, <1>1, <1>5 DEF Call, PrepareResourceClaims, UnprepareResourceClaims, RefreshFailed, SnapshotStats,
              Scan, Monitor, MonitorUnreadable, InventoryFailed, NewManager, Crash, Budget
<1>6. Environment => spent'.corruptions = spent.corruptions \/ Corrupt
  BY <1>0 DEF Environment, Allocate, Deallocate, ContainerStart, ContainerStop, HardwareChange, Budget
<1>. QED  BY <1>2, <1>3, <1>4, <1>5, <1>6 DEF Next, Transaction

\* Corruptions are only counted up, by Corrupt.
LEMMA CorruptionCounted ==
  ASSUME TypeInv, Next, spent'.corruptions = 0
  PROVE  spent.corruptions = 0 /\ ~Corrupt
<1>0. spent \in Budget
  BY DEF TypeInv, TypeOK
<1>1. Corrupt => spent'.corruptions # 0
  BY <1>0 DEF Corrupt, Budget
<1>. QED  BY <1>1, OthersUncounted

Ownership == spent.corruptions = 0 => OwnInv

\* Every step preserves the ownership invariant.
LEMMA NextOwn == TypeInv /\ MarkInv /\ Ownership /\ [Next]_vars => Ownership'
<1>. SUFFICES ASSUME TypeInv, MarkInv, Ownership, [Next]_vars, spent'.corruptions = 0 PROVE OwnInv'
  BY DEF Ownership
<1>1. CASE UNCHANGED vars
  BY <1>1, FrameOwn DEF vars, Ownership, podVars
<1>2. CASE Next
  <2>1. OwnInv /\ ~Corrupt
    BY <1>2, CorruptionCounted DEF Ownership
  <2>2. CASE Environment
    <3>1. UNCHANGED <<storeVars, mem, txnVars, grant>>
      BY <2>1, <2>2 DEF Environment, Allocate, Deallocate, ContainerStart, ContainerStop, HardwareChange, podVars
    <3>. QED  BY <2>1, <3>1, FrameOwn
  <2>. QED  BY <1>2, <2>1, <2>2, PrepareStepOwn, UnprepareStepOwn, OtherStepOwn, CallOwn
            DEF Next, Transaction
<1>. QED  BY <1>1, <1>2

\* Every initial state satisfies the ownership invariant.
LEMMA InitOwn == Init => Ownership
BY DEF Init, Ownership, OwnInv, Clean, GrantStored, GrantHeld, ReleaseRevoked, DoneRecorded, CurrentRecorded,
       PrepareSteps, ReleaseSteps, PreparingSteps, ReleasingSteps

\* Devices are never unowned while access to them is granted: without a
\* corruption of claims.json, every device a successful prepare returned to
\* kubelet is recorded there for its claim until kubelet unprepares it, for any
\* number of overlapping agents, crashes and failed writes.
THEOREM GrantAlwaysOwned == Spec => []GrantOwned
<1>1. Ownership => GrantOwned
  BY DEF Ownership, OwnInv, GrantStored, GrantOwned, Keeps, Records
<1>2. Init => TypeInv /\ MarkInv /\ Ownership
  BY InitType, InitMark, InitOwn
<1>3. TypeInv /\ MarkInv /\ Ownership /\ [Next]_vars => (TypeInv /\ MarkInv /\ Ownership)'
  BY NextType, NextMark, NextOwn
<1>. QED  BY <1>1, <1>2, <1>3, PTL DEF Spec

(***************************************************************************)
(* Granted devices are exposed: a claim kubelet may start containers for   *)
(* has its CDI file.  The first part spells out what every step does to    *)
(* the state an agent works on, to the file, to the CDI directory and to   *)
(* the devices; the proofs about one agent (SerialProofs) rest on it too.  *)
(***************************************************************************)

(***************************************************************************)
(* Parts of steps.                                                         *)
(***************************************************************************)

\* The records stay, no device loses its quarantine and none starts to await
\* its health: observeLocked, quarantineLocked and a failed sanitizeLocked.
Tame(s, t) ==
  /\ s \in PersistedState /\ t \in PersistedState /\ t.claims = s.claims
  /\ \A d \in Devices : (t.quar[d] = "awaiting" => s.quar[d] = "awaiting") /\ (Quarantined(s, d) => Quarantined(t, d))

\* A successful sanitizeLocked.
Cleared(s, t, d) ==
  /\ s \in PersistedState /\ t \in PersistedState /\ t.claims = s.claims /\ d \in Devices
  /\ t.quar[d] = "none" /\ \A e \in Devices \ {d} : t.quar[e] = s.quar[e]

\* t has record rec for c and otherwise the contents of s.
Put(s, t, c, rec) ==
  /\ s \in PersistedState /\ t \in PersistedState /\ c \in Claims
  /\ t.claims[c] = rec /\ \A x \in Claims \ {c} : t.claims[x] = s.claims[x]
  /\ t.quar = s.quar

\* The file stays, or is replaced by m.
Written(m) == UNCHANGED <<file, disk>> \/ (file' = "ok" /\ disk' = m)

\* Agent a remembers m.
Knows(a, m) == a \in Agents /\ m \in PersistedState /\ mem' = [mem EXCEPT ![a] = m]

\* The agent in the transaction goes on with state m.
Continues(m) == Knows(holder, m) /\ holder' = holder /\ State' = m /\ State \in PersistedState

Wiped(d) == user' = user \/ user' = [user EXCEPT ![d] = NoOwner]

\* A transaction goes on with the claims of its batch; c is decided, D are done.
Decided(c, D) ==
  /\ job'.batch = job.batch /\ job'.todo = job.todo \ {c} /\ job'.done = D
  /\ job'.al = job.al /\ job'.owners = job.owners

\* A transaction takes up claim c, or goes on with it, with the devices of L left.
Working(c, L) ==
  /\ job'.batch = job.batch /\ job'.todo = job.todo /\ job'.done = job.done
  /\ job'.al = job.al /\ job'.owners = job.owners
  /\ c \in Claims /\ job'.cur = c /\ job'.left = L

worldVars == <<up, alloc, held, grant, running>>

Idle == holder' = NoAgent /\ pc' = "idle"

-----------------------------------------------------------------------------
(***************************************************************************)
(* What the steps of a prepare do.                                         *)
(***************************************************************************)

\* prepareOne gives up on c: nothing but quarantines, a reset or the CDI file of c.
Fails(c) ==
  /\ pc \in PrepareSteps /\ c \in job.todo
  /\ pc' = "prepare" /\ Decided(c, job.done)
  /\ \E t : Tame(State, t) /\ Continues(t)
  /\ cdi \subseteq cdi' /\ cdi' \subseteq cdi \cup {c}
  /\ c \in cdi' \ cdi => (pc = "expose" /\ c = job.cur) \/ State.claims[c].phase = "Prepared"
  /\ user' = user \/ (pc = "sanitize" /\ \E d \in job.left : Wiped(d))
  /\ UNCHANGED <<file, disk, worldVars>>

Repeats(c) ==
  /\ pc = "prepare" /\ c \in job.todo
  /\ Valid(c) /\ Records(State, c, job.al[c]) /\ Repeatable(c)
  /\ pc' = "prepare" /\ Decided(c, job.done \cup {c}) /\ Continues(State)
  /\ cdi' = cdi \cup {c}
  /\ UNCHANGED <<file, disk, mem, user, worldVars>>

Resumes(c) ==
  /\ pc = "prepare" /\ c \in job.todo
  /\ Valid(c) /\ Records(State, c, job.al[c]) /\ State.claims[c].phase = "Preparing"
  /\ pc' = "sanitize" /\ Working(c, job.al[c]) /\ Continues(State)
  /\ UNCHANGED <<file, disk, mem, cdi, user, worldVars>>

Intent(c) == [phase |-> "Preparing", devs |-> job.al[c], placed |-> TRUE]

\* The intent is on disk, or the claim is given up.
Intends(c) ==
  /\ pc = "prepare" /\ c \in job.todo /\ Valid(c) /\ ~Owned(State, c)
  /\ \E m : /\ Put(State, m, c, Intent(c))
            /\ \/ /\ file' = "ok" /\ disk' = m
                  /\ pc' = "sanitize" /\ Working(c, job.al[c]) /\ Continues(m)
               \/ /\ Written(m)
                  /\ pc' = "prepare" /\ Decided(c, job.done)
                  /\ Continues(State) \/ (disk' = m /\ Continues(m))
  /\ UNCHANGED <<cdi, user, worldVars>>

Sanitizes(d) ==
  /\ pc = "sanitize" /\ d \in job.left
  /\ \E t : Cleared(State, t, d) /\ Continues(t)
  /\ pc' = IF job.left = {d} THEN "verify" ELSE "sanitize"
  /\ Working(job.cur, job.left \ {d})
  /\ user' = [user EXCEPT ![d] = NoOwner]
  /\ UNCHANGED <<file, disk, cdi, worldVars>>

\* The second inventory, then the CDI file.
Advances ==
  /\ \E t : Tame(State, t) /\ Continues(t)
  /\ \/ pc = "verify" /\ pc' = "expose" /\ cdi' = cdi
     \/ pc = "expose" /\ pc' = "commit" /\ cdi' = cdi \cup {job.cur}
  /\ Working(job.cur, job.left)
  /\ UNCHANGED <<file, disk, user, worldVars>>

Commits ==
  /\ pc = "commit" /\ pc' = "prepare" /\ job.cur \in Claims
  /\ \E m : Put(State, m, job.cur, [State.claims[job.cur] EXCEPT !.phase = "Prepared"])
            /\ Continues(m) /\ file' = "ok" /\ disk' = m
  /\ job'.batch = job.batch /\ job'.todo = job.todo \ {job.cur} /\ job'.done = job.done \cup {job.cur}
  /\ job'.al = job.al
  /\ job'.owners = [d \in Devices |-> IF d \in State.claims[job.cur].devs THEN job.cur ELSE job.owners[d]]
  /\ cdi' = cdi \cup {job.cur}
  /\ UNCHANGED <<user, worldVars>>

CommitFails ==
  /\ pc = "commit" /\ pc' = "prepare" /\ job.cur \in Claims /\ Decided(job.cur, job.done)
  /\ \E m : Put(State, m, job.cur, [State.claims[job.cur] EXCEPT !.phase = "Prepared"]) /\ Written(m)
  /\ \E t : /\ Tame(State, t) \/ Put(State, t, job.cur, [State.claims[job.cur] EXCEPT !.phase = "Preparing"])
            /\ Continues(t)
  /\ cdi \ {job.cur} \subseteq cdi' /\ cdi' \subseteq cdi \cup {job.cur}
  /\ UNCHANGED <<user, worldVars>>

Grants ==
  /\ pc = "prepare" /\ job.todo = {} /\ Idle
  /\ file' = "ok" /\ disk' = State /\ State \in PersistedState
  /\ grant' = [c \in Claims |-> IF c \in job.done THEN job.al[c] ELSE grant[c]]
  /\ UNCHANGED <<mem, cdi, user, up, alloc, held, running>>

\* A transaction ends and kubelet learns nothing.
Ends ==
  /\ pc \in {"prepare", "unprepare", "monitor"} /\ Idle
  /\ State \in PersistedState /\ Written(State)
  /\ UNCHANGED <<mem, cdi, user, worldVars>>

PrepareEffect ==
  \/ \E c \in Claims : Fails(c) \/ Repeats(c) \/ Resumes(c) \/ Intends(c)
  \/ \E d \in Devices : Sanitizes(d)
  \/ Advances \/ Commits \/ CommitFails \/ Grants \/ Ends

\* observeLocked and quarantineLocked are tame.
LEMMA ObserveTame ==
  ASSUME NEW s \in PersistedState, NEW snap, NEW r \in BOOLEAN, NEW Q
  PROVE  Tame(s, s) /\ Tame(s, observeLocked(s, snap, r)) /\ Tame(s, quarantineLocked(s, Q))
<1>1. observeLocked(s, snap, r) \in PersistedState /\ quarantineLocked(s, Q) \in PersistedState
  BY ObserveType, QuarantineType
<1>2. observeLocked(s, snap, r).claims = s.claims /\ quarantineLocked(s, Q).claims = s.claims
  BY ObserveClaims
<1>3. ASSUME NEW d \in Devices
      PROVE  /\ quarantineLocked(s, Q).quar[d] \in {"fenced", s.quar[d]}
             /\ observeLocked(s, snap, r).quar[d] \in {"fenced", s.quar[d]}
  BY DEF quarantineLocked, observeLocked, PersistedState
<1>. QED  BY <1>1, <1>2, <1>3 DEF Tame, Quarantined

\* Two tame changes in a row are one.
LEMMA TameTwice == ASSUME NEW s, NEW t, NEW u, Tame(s, t), Tame(t, u) PROVE Tame(s, u)
BY DEF Tame

\* A failed sanitizeLocked is tame, a successful one clears the device.
LEMMA SanitizeTame ==
  ASSUME NEW s \in PersistedState, NEW d \in Devices
  PROVE  Tame(s, sanitizeLocked(s, d, FALSE)) /\ Cleared(s, sanitizeLocked(s, d, TRUE), d)
<1>1. sanitizeLocked(s, d, FALSE) \in PersistedState /\ sanitizeLocked(s, d, TRUE) \in PersistedState
  BY SanitizeType
<1>2. sanitizeLocked(s, d, FALSE).claims = s.claims /\ sanitizeLocked(s, d, TRUE).claims = s.claims
  BY DEF sanitizeLocked, PersistedState
<1>3. /\ sanitizeLocked(s, d, TRUE).quar[d] = "none"
      /\ sanitizeLocked(s, d, FALSE).quar[d] = IF s.quar[d] = "awaiting" THEN "awaiting" ELSE "fenced"
      /\ \A e \in Devices \ {d} : /\ sanitizeLocked(s, d, TRUE).quar[e] = s.quar[e]
                                  /\ sanitizeLocked(s, d, FALSE).quar[e] = s.quar[e]
  BY DEF sanitizeLocked, PersistedState
<1>4. Cleared(s, sanitizeLocked(s, d, TRUE), d)
  BY <1>1, <1>2, <1>3 DEF Cleared
<1>5. Tame(s, sanitizeLocked(s, d, FALSE))
  BY <1>1, <1>2, <1>3 DEF Tame, Quarantined
<1>. QED  BY <1>4, <1>5

\* Setting a phase or a record puts a record.
LEMMA PutClaim ==
  ASSUME NEW s \in PersistedState, NEW c \in Claims, NEW p \in Phases, NEW rec \in PreparedClaim
  PROVE  /\ Put(s, SetPhase(s, c, p), c, [s.claims[c] EXCEPT !.phase = p])
         /\ Put(s, SetClaim(s, c, rec), c, rec)
<1>1. SetPhase(s, c, p) \in PersistedState /\ SetClaim(s, c, rec) \in PersistedState
  BY PhaseType, ClaimType
<1>. QED  BY <1>1 DEF Put, SetPhase, SetClaim, PersistedState

\* A write of the state file.
LEMMA PersistWrites ==
  ASSUME NEW m, NEW w, persist(m, w)
  PROVE  Written(m) /\ (w # "early" => file' = "ok" /\ disk' = m)
BY DEF persist, Written

\* Remembering a state, or none, in a transaction that goes on.
LEMMA RememberContinues ==
  ASSUME TypeInv, pc # "idle", holder' = holder
  PROVE  /\ UNCHANGED mem => Continues(State)
         /\ \A m \in PersistedState : Remember(m) => Continues(m)
<1>1. holder \in Agents /\ State \in PersistedState /\ mem \in [Agents -> PersistedState]
  BY StateType DEF TypeInv, TypeOK, LockHeld
<1>2. UNCHANGED mem => State' = State /\ mem' = [mem EXCEPT ![holder] = State]
  BY <1>1 DEF State
<1>3. \A m : Remember(m) => State' = m /\ mem' = [mem EXCEPT ![holder] = m]
  BY <1>1 DEF State, Remember
<1>. QED  BY <1>1, <1>2, <1>3 DEF Continues, Knows

\* Decide, spelled out.
LEMMA DecideDecided ==
  ASSUME TypeInv, NEW c, NEW g, NEW step, Decide(c, g, step)
  PROVE  /\ holder' = holder /\ pc' = step
         /\ g => Decided(c, job.done \cup {c})
         /\ ~g => Decided(c, job.done)
<1>1. job \in Job
  BY DEF TypeInv, TypeOK
<1>. QED  BY <1>1 DEF Decide, Decided, Job

\* What a reset does to the users.
LEMMA ResetWipes ==
  ASSUME NEW d, NEW o, Reset(d, o)
  PROVE  Wiped(d) /\ (o = "ok" => user' = [user EXCEPT ![d] = NoOwner])
BY DEF Reset, Wiped

\* Each step of a prepare has one of the effects above.
LEMMA PrepareEffects == TypeInv /\ MarkInv /\ PrepareStep => PrepareEffect
<1>. SUFFICES ASSUME TypeInv, MarkInv, PrepareStep PROVE PrepareEffect
  OBVIOUS
<1>. USE DEF PrepareSteps, PreparingSteps
<1>j. job \in Job
  BY DEF TypeInv, TypeOK
<1>s. pc # "idle" => State \in PersistedState /\ Tame(State, State)
  BY StateType, ObserveTame
<1>f. UNCHANGED podVars /\ UNCHANGED agentVars => UNCHANGED worldVars
  BY DEF podVars, agentVars, worldVars
<1>1. CASE PrepareRejected
  <2>1. PICK c \in job.todo : Decide(c, FALSE, "prepare")
    BY <1>1 DEF PrepareRejected
  <2>2. pc = "prepare" /\ UNCHANGED <<file, disk, cdi, mem, user, worldVars>>
    BY <1>1, <1>f DEF PrepareRejected, storeVars
  <2>3. holder' = holder /\ pc' = "prepare" /\ Decided(c, job.done)
    BY <2>1, DecideDecided
  <2>4. Continues(State)
    BY <2>2, <2>3, RememberContinues
  <2>5. Fails(c) /\ c \in Claims
    BY <1>j, <1>s, <2>1, <2>2, <2>3, <2>4 DEF Fails, Job
  <2>. QED  BY <2>5 DEF PrepareEffect
<1>2. CASE PrepareRepeated
  <2>1. PICK c \in job.todo, w \in Writes :
          /\ Valid(c) /\ sameClaim(State.claims[c], job.al[c]) /\ Repeatable(c)
          /\ writeCDI({c}, w) /\ Decide(c, w = "ok", "prepare")
    BY <1>2 DEF PrepareRepeated
  <2>2. pc = "prepare" /\ UNCHANGED <<file, disk, mem, user, worldVars>> /\ c \in Claims
    BY <1>2, <1>f, <1>j DEF PrepareRepeated, storeVars, Job
  <2>3. /\ holder' = holder /\ pc' = "prepare"
        /\ w = "ok" => Decided(c, job.done \cup {c})
        /\ w # "ok" => Decided(c, job.done)
    BY <2>1, DecideDecided
  <2>4. Continues(State)
    BY <2>2, <2>3, RememberContinues
  <2>5. CASE w = "ok"
    <3>1. Repeats(c)
      BY <2>1, <2>2, <2>3, <2>4, <2>5 DEF Repeats, writeCDI, Records, Owned, sameClaim, Repeatable
    <3>. QED  BY <3>1, <2>2 DEF PrepareEffect
  <2>6. CASE w # "ok"
    <3>1. Fails(c)
      BY <1>s, <2>1, <2>2, <2>3, <2>4, <2>6 DEF Fails, writeCDI, Repeatable
    <3>. QED  BY <3>1, <2>2 DEF PrepareEffect
  <2>. QED  BY <2>5, <2>6
<1>t. ASSUME NEW c \in job.todo, StartSanitize(c)
      PROVE  holder' = holder /\ pc' = "sanitize" /\ Working(c, job.al[c]) /\ c \in Claims
  BY <1>j, <1>t DEF StartSanitize, Working, Job
<1>3. CASE PrepareResumed
  <2>1. PICK c \in job.todo :
          /\ Valid(c) /\ sameClaim(State.claims[c], job.al[c]) /\ State.claims[c].phase = "Preparing"
          /\ StartSanitize(c)
    BY <1>3 DEF PrepareResumed
  <2>2. pc = "prepare" /\ UNCHANGED <<file, disk, mem, cdi, user, worldVars>>
    BY <1>3, <1>f DEF PrepareResumed, storeVars
  <2>3. holder' = holder /\ pc' = "sanitize" /\ Working(c, job.al[c]) /\ c \in Claims
    BY <2>1, <1>t
  <2>4. Continues(State)
    BY <2>2, <2>3, RememberContinues
  <2>5. Resumes(c)
    BY <2>1, <2>2, <2>3, <2>4 DEF Resumes, Records, Owned, sameClaim
  <2>. QED  BY <2>3, <2>5 DEF PrepareEffect
<1>4. CASE PrepareIntent
  <2>. DEFINE m(c) == SetClaim(State, c, Intent(c))
  <2>1. PICK c \in job.todo, w \in Writes \cup {"unaudited"} :
          /\ Valid(c) /\ ~Owned(State, c) /\ persist(m(c), w)
          /\ IF w \in {"early", "late"} THEN UNCHANGED mem ELSE Remember(m(c))
          /\ IF w = "ok" THEN StartSanitize(c) ELSE Decide(c, FALSE, "prepare")
    BY <1>4 DEF PrepareIntent, Intent
  <2>2. pc = "prepare" /\ c \in Claims /\ UNCHANGED <<cdi, user, worldVars>>
    BY <1>4, <1>j, <1>f DEF PrepareIntent, Job
  <2>3. Put(State, m(c), c, Intent(c)) /\ m(c) \in PersistedState
    <3>1. Intent(c) \in PreparedClaim
      BY <1>j, <2>2 DEF Intent, PreparedClaim, Phases, Job
    <3>2. "Preparing" \in Phases
      BY DEF Phases
    <3>3. Put(State, m(c), c, Intent(c))
      BY <1>s, <2>2, <3>1, <3>2, PutClaim
    <3>. QED  BY <3>3 DEF Put
  <2>. HIDE DEF m
  <2>4. CASE w = "ok"
    <3>1. holder' = holder /\ pc' = "sanitize" /\ Working(c, job.al[c])
      BY <2>1, <2>4, <1>t
    <3>2. Continues(m(c))
      BY <2>1, <2>2, <2>3, <2>4, <3>1, RememberContinues
    <3>3. file' = "ok" /\ disk' = m(c)
      BY <2>1, <2>4 DEF persist
    <3>4. Intends(c)
      BY <2>1, <2>2, <2>3, <3>1, <3>2, <3>3 DEF Intends
    <3>. QED  BY <3>4, <2>2 DEF PrepareEffect
  <2>5. CASE w # "ok"
    <3>1. holder' = holder /\ pc' = "prepare" /\ Decided(c, job.done)
      BY <2>1, <2>5, DecideDecided
    <3>2. Continues(State) \/ (w = "unaudited" /\ Continues(m(c)))
      BY <2>1, <2>2, <2>3, <2>5, <3>1, RememberContinues DEF Writes
    <3>3. Written(m(c)) /\ (w = "unaudited" => disk' = m(c))
      BY <2>1, PersistWrites
    <3>4. Intends(c)
      BY <2>1, <2>2, <2>3, <3>1, <3>2, <3>3 DEF Intends
    <3>. QED  BY <3>4, <2>2 DEF PrepareEffect
  <2>. QED  BY <2>4, <2>5
<1>c. pc \in PreparingSteps => job.cur \in Claims /\ job.cur \in job.todo
  BY DEF TypeInv, CurrentClaim, MarkInv, CurrentTodo
<1>5. CASE PrepareSanitize
  <2>0. PICK d \in job.left : \E o \in ResetOutcomes(d) :
          /\ Reset(d, o)
          /\ Remember(sanitizeLocked(State, d, o = "ok"))
          /\ IF o # "ok" THEN Decide(job.cur, FALSE, "prepare")
             ELSE /\ pc' = IF job.left = {d} THEN "verify" ELSE "sanitize"
                  /\ job' = [job EXCEPT !.left = @ \ {d}]
                  /\ UNCHANGED holder
    BY <1>5 DEF PrepareSanitize
  <2>1. PICK o \in ResetOutcomes(d) :
          /\ Reset(d, o)
          /\ Remember(sanitizeLocked(State, d, o = "ok"))
          /\ IF o # "ok" THEN Decide(job.cur, FALSE, "prepare")
             ELSE /\ pc' = IF job.left = {d} THEN "verify" ELSE "sanitize"
                  /\ job' = [job EXCEPT !.left = @ \ {d}]
                  /\ UNCHANGED holder
    BY <2>0
  <2>2. pc = "sanitize" /\ d \in Devices /\ UNCHANGED <<file, disk, cdi, worldVars>>
    BY <1>5, <1>j, <1>f DEF PrepareSanitize, storeVars, Job, worldVars, podVars, agentVars
  <2>3. Wiped(d) /\ (o = "ok" => user' = [user EXCEPT ![d] = NoOwner])
    BY <2>1, ResetWipes
  <2>4. CASE o = "ok"
    <3>1. Cleared(State, sanitizeLocked(State, d, TRUE), d)
      BY <1>s, <2>2, SanitizeTame
    <3>2. Continues(sanitizeLocked(State, d, TRUE))
      <4>1. Remember(sanitizeLocked(State, d, TRUE)) /\ holder' = holder
        BY <2>1, <2>4
      <4>. QED  BY <2>2, <3>1, <4>1, RememberContinues DEF Cleared
    <3>3. Working(job.cur, job.left \ {d})
      BY <1>c, <1>j, <2>1, <2>2, <2>4 DEF Working, Job
    <3>4. pc' = IF job.left = {d} THEN "verify" ELSE "sanitize"
      BY <2>1, <2>4
    <3>5. Sanitizes(d)
      BY <2>2, <2>3, <2>4, <3>1, <3>2, <3>3, <3>4 DEF Sanitizes
    <3>. QED  BY <2>2, <3>5 DEF PrepareEffect
  <2>5. CASE o # "ok"
    <3>1. Tame(State, sanitizeLocked(State, d, FALSE))
      BY <1>s, <2>2, SanitizeTame
    <3>2. Remember(sanitizeLocked(State, d, FALSE)) /\ Decide(job.cur, FALSE, "prepare")
      BY <2>1, <2>5
    <3>3. holder' = holder /\ pc' = "prepare" /\ Decided(job.cur, job.done)
      BY <3>2, DecideDecided
    <3>4. Continues(sanitizeLocked(State, d, FALSE))
      BY <2>2, <3>1, <3>2, <3>3, RememberContinues DEF Tame
    <3>5. Fails(job.cur)
      BY <1>c, <2>2, <2>3, <3>1, <3>3, <3>4 DEF Fails
    <3>. QED  BY <1>c, <2>2, <3>5 DEF PrepareEffect
  <2>. QED  BY <2>4, <2>5
<1>6. CASE PrepareVerify
  <2>. DEFINE m == observeLocked(State, hw, FALSE)
  <2>1. /\ pc = "verify" /\ UNCHANGED <<file, disk, cdi, user, worldVars>>
        /\ UNCHANGED mem \/ Remember(m) \/ \E d : Remember(quarantineLocked(m, {d}))
        /\ Goto("expose") \/ Decide(job.cur, FALSE, "prepare")
    BY <1>6, <1>f DEF PrepareVerify, storeVars
  <2>2. Tame(State, m) /\ \A d : Tame(State, quarantineLocked(m, {d}))
    <3>1. Tame(State, m)
      BY <1>s, <2>1, ObserveTame
    <3>. HIDE DEF m
    <3>2. m \in PersistedState
      BY <3>1 DEF Tame
    <3>3. \A d : Tame(m, quarantineLocked(m, {d}))
      BY <3>2, ObserveTame
    <3>. QED  BY <3>1, <3>3, TameTwice
  <2>. HIDE DEF m
  <2>3. /\ holder' = holder
        /\ \/ pc' = "prepare" /\ Decided(job.cur, job.done)
           \/ pc' = "expose" /\ Working(job.cur, job.left)
    <3>1. CASE Goto("expose")
      BY <1>c, <2>1, <3>1 DEF Goto, Working
    <3>2. CASE Decide(job.cur, FALSE, "prepare")
      BY <3>2, DecideDecided
    <3>. QED  BY <2>1, <3>1, <3>2
  <2>4. \E t : Tame(State, t) /\ Continues(t)
    <3>1. CASE UNCHANGED mem
      BY <1>s, <2>1, <2>3, <3>1, RememberContinues
    <3>2. CASE Remember(m)
      BY <2>1, <2>2, <2>3, <3>2, RememberContinues DEF Tame
    <3>3. CASE \E d : Remember(quarantineLocked(m, {d}))
      <4>1. PICK d : Remember(quarantineLocked(m, {d}))
        BY <3>3
      <4>. QED  BY <2>1, <2>2, <2>3, <4>1, RememberContinues DEF Tame
    <3>. QED  BY <2>1, <3>1, <3>2, <3>3
  <2>5. Fails(job.cur) \/ Advances
    BY <1>c, <2>1, <2>3, <2>4 DEF Fails, Advances
  <2>. QED  BY <1>c, <2>1, <2>5 DEF PrepareEffect
<1>7. CASE PrepareExpose
  <2>1. PICK w \in Writes :
          /\ writeCDI({job.cur}, w)
          /\ IF w = "ok" THEN Goto("commit") ELSE Decide(job.cur, FALSE, "prepare")
    BY <1>7 DEF PrepareExpose
  <2>2. pc = "expose" /\ UNCHANGED <<file, disk, mem, user, worldVars>>
    BY <1>7, <1>f DEF PrepareExpose, storeVars
  <2>3. CASE w = "ok"
    <3>1. holder' = holder /\ pc' = "commit" /\ Working(job.cur, job.left) /\ cdi' = cdi \cup {job.cur}
      BY <1>c, <2>1, <2>2, <2>3 DEF Goto, Working, writeCDI
    <3>2. Continues(State)
      BY <2>2, <3>1, RememberContinues
    <3>3. Advances
      BY <1>s, <2>2, <3>1, <3>2 DEF Advances
    <3>. QED  BY <3>3 DEF PrepareEffect
  <2>4. CASE w # "ok"
    <3>1. holder' = holder /\ pc' = "prepare" /\ Decided(job.cur, job.done)
      BY <2>1, <2>4, DecideDecided
    <3>2. Continues(State)
      BY <2>2, <3>1, RememberContinues
    <3>3. Fails(job.cur)
      BY <1>c, <1>s, <2>1, <2>2, <3>1, <3>2 DEF Fails, writeCDI
    <3>. QED  BY <1>c, <2>2, <3>3 DEF PrepareEffect
  <2>. QED  BY <2>3, <2>4
<1>8. CASE PrepareCommit
  <2>. DEFINE c == job.cur
              m == SetPhase(State, c, "Prepared")
              p == SetPhase(State, c, "Preparing")
              q == quarantineLocked(State, State.claims[c].devs)
  <2>1. PICK w \in Writes \cup {"unaudited"}, left \in SUBSET {job.cur} :
          /\ w = "ok" => left = {c}
          /\ IF w = "unaudited" THEN UNCHANGED storeVars ELSE persist(m, w)
          /\ Remember(CASE w = "ok" -> m [] w = "unaudited" -> q [] OTHER -> p)
          /\ cdi' = (cdi \ {c}) \cup left
          /\ job' = [job EXCEPT !.todo = @ \ {c}, !.cur = NoOwner, !.left = {}, !.bad = FALSE,
                                !.done = IF w = "ok" THEN @ \cup {c} ELSE @,
                                !.owners = IF w = "ok" THEN [d \in Devices |-> IF d \in State.claims[c].devs THEN c ELSE @[d]] ELSE @]
    BY <1>8 DEF PrepareCommit
  <2>2. pc = "commit" /\ pc' = "prepare" /\ holder' = holder /\ c \in Claims /\ UNCHANGED <<user, worldVars>>
    BY <1>8, <1>c, <1>f DEF PrepareCommit
  <2>3. /\ Put(State, m, c, [State.claims[c] EXCEPT !.phase = "Prepared"])
        /\ Put(State, p, c, [State.claims[c] EXCEPT !.phase = "Preparing"])
        /\ Tame(State, q)
    <3>1. NoClaim \in PreparedClaim /\ "Prepared" \in Phases /\ "Preparing" \in Phases
      BY NoClaimType DEF Phases
    <3>. QED  BY <1>s, <2>2, <3>1, PutClaim, ObserveTame
  <2>4. m \in PersistedState /\ p \in PersistedState /\ q \in PersistedState
    BY <2>3 DEF Put, Tame
  <2>. HIDE DEF m, p, q
  <2>5. CASE w = "ok"
    <3>1. Continues(m)
      BY <2>1, <2>2, <2>4, <2>5, RememberContinues
    <3>2. file' = "ok" /\ disk' = m
      BY <2>1, <2>5, PersistWrites
    <3>3. job'.batch = job.batch /\ job'.todo = job.todo \ {c} /\ job'.done = job.done \cup {c} /\ job'.al = job.al
      BY <1>j, <2>1, <2>5 DEF Job
    <3>4. job'.owners = [d \in Devices |-> IF d \in State.claims[c].devs THEN c ELSE job.owners[d]]
      BY <1>j, <2>1, <2>5 DEF Job
    <3>5. cdi' = cdi \cup {c}
      BY <2>1, <2>5
    <3>6. Commits
      BY <2>2, <2>3, <3>1, <3>2, <3>3, <3>4, <3>5 DEF Commits
    <3>. QED  BY <3>6 DEF PrepareEffect
  <2>6. CASE w # "ok"
    <3>1. Continues(p) \/ Continues(q)
      BY <2>1, <2>2, <2>4, <2>6, RememberContinues
    <3>2. Written(m)
      BY <2>1, PersistWrites DEF storeVars, Written
    <3>3. Decided(c, job.done)
      BY <1>j, <2>1, <2>6 DEF Decided, Job
    <3>4. cdi \ {c} \subseteq cdi' /\ cdi' \subseteq cdi \cup {c}
      BY <2>1
    <3>5. CommitFails
      BY <2>2, <2>3, <3>1, <3>2, <3>3, <3>4 DEF CommitFails
    <3>. QED  BY <3>5 DEF PrepareEffect
  <2>. QED  BY <2>5, <2>6
<1>9. CASE PrepareReply
  <2>1. PICK w \in Writes :
          /\ persist(State, w)
          /\ grant' = IF w = "ok"
                      THEN [c \in Claims |-> IF c \in job.done THEN job.al[c] ELSE grant[c]]
                      ELSE grant
    BY <1>9 DEF PrepareReply
  <2>2. /\ pc = "prepare" /\ job.todo = {} /\ Idle
        /\ UNCHANGED <<mem, cdi, user, up, alloc, held, running>>
    BY <1>9 DEF PrepareReply, unlockState, Idle, agentVars
  <2>3. CASE w = "ok"
    BY <1>s, <2>1, <2>2, <2>3, PersistWrites DEF Grants, PrepareEffect
  <2>4. CASE w # "ok"
    BY <1>s, <2>1, <2>2, <2>4, PersistWrites DEF Ends, PrepareEffect, worldVars
  <2>. QED  BY <2>3, <2>4
<1>. QED  BY <1>1, <1>2, <1>3, <1>4, <1>5, <1>6, <1>7, <1>8, <1>9 DEF PrepareStep

-----------------------------------------------------------------------------
(***************************************************************************)
(* What the steps of an unprepare do.                                      *)
(***************************************************************************)

\* A claim without a record counts as released.
Skips(c) ==
  /\ pc = "unprepare" /\ c \in job.todo /\ ~Owned(State, c)
  /\ pc' = "unprepare" /\ Decided(c, job.done \cup {c}) /\ Continues(State)
  /\ UNCHANGED <<file, disk, mem, cdi, user, worldVars>>

\* The intent to release c is in memory, and on disk before its devices are touched.
Marks(c) ==
  /\ pc = "unprepare" /\ c \in job.todo /\ Owned(State, c)
  /\ \E m : /\ Put(State, m, c, [State.claims[c] EXCEPT !.phase = "Releasing"])
            /\ Continues(m) /\ Written(m)
            /\ \/ pc' = "unprepare" /\ Decided(c, job.done)
               \/ pc' = "scrub" /\ Working(c, State.claims[c].devs)
                  /\ job'.bad = job.bad
  /\ UNCHANGED <<cdi, user, worldVars>>

Scrubs(d) ==
  /\ pc = "scrub" /\ d \in job.left
  /\ pc' = "scrub" /\ Working(job.cur, job.left \ {d})
  /\ \/ /\ \E t : Cleared(State, t, d) /\ Continues(t)
        /\ user' = [user EXCEPT ![d] = NoOwner] /\ job'.bad = job.bad
     \/ /\ \E t : Tame(State, t) /\ Continues(t)
        /\ Wiped(d) /\ job'.bad
  /\ UNCHANGED <<file, disk, cdi, worldVars>>

\* All devices are scrubbed, the release is approved, the CDI file is removed.
Proceeds ==
  /\ \/ pc = "scrub" /\ job.left = {} /\ pc' = "release" /\ cdi' = cdi
     \/ pc = "release" /\ ~job.bad /\ pc' = "remove" /\ cdi' = cdi
     \/ pc = "remove" /\ pc' = "forget" /\ cdi' = cdi \ {job.cur}
  /\ Working(job.cur, job.left) /\ job'.bad = job.bad /\ Continues(State)
  /\ UNCHANGED <<file, disk, mem, user, worldVars>>

\* The claim keeps its record.
Spares ==
  /\ pc \in {"release", "remove"} /\ job.cur \in Claims
  /\ pc' = "unprepare" /\ Decided(job.cur, job.done)
  /\ Written(State) /\ \E t : Tame(State, t) /\ Continues(t)
  /\ UNCHANGED <<cdi, user, worldVars>>

Forgets ==
  /\ pc = "forget" /\ job.cur \in Claims /\ pc' = "unprepare"
  /\ \E m : /\ Put(State, m, job.cur, NoClaim)
            /\ \/ /\ file' = "ok" /\ disk' = m /\ Continues(m) /\ Decided(job.cur, job.done \cup {job.cur})
               \/ /\ Written(m) /\ Continues(State) /\ Decided(job.cur, job.done)
  /\ UNCHANGED <<cdi, user, worldVars>>

Releases ==
  /\ pc = "unprepare" /\ job.todo = {} /\ Idle
  /\ file' = "ok" /\ disk' = State /\ State \in PersistedState
  /\ held' = held \ job.done
  /\ UNCHANGED <<mem, cdi, user, up, alloc, grant, running>>

UnprepareEffect ==
  \/ \E c \in Claims : Skips(c) \/ Marks(c)
  \/ \E d \in Devices : Scrubs(d)
  \/ Proceeds \/ Spares \/ Forgets \/ Releases \/ Ends

\* Each step of an unprepare has one of the effects above.
LEMMA UnprepareEffects == TypeInv /\ MarkInv /\ UnprepareStep => UnprepareEffect
<1>. SUFFICES ASSUME TypeInv, MarkInv, UnprepareStep PROVE UnprepareEffect
  OBVIOUS
<1>. USE DEF ReleaseSteps, ReleasingSteps
<1>j. job \in Job
  BY DEF TypeInv, TypeOK
<1>s. pc # "idle" => State \in PersistedState /\ Tame(State, State)
  BY StateType, ObserveTame
<1>f. UNCHANGED podVars /\ UNCHANGED agentVars => UNCHANGED worldVars
  BY DEF podVars, agentVars, worldVars
<1>c. pc \in ReleasingSteps => job.cur \in Claims /\ job.cur \in job.todo
  BY DEF TypeInv, CurrentClaim, MarkInv, CurrentTodo
<1>1. CASE UnprepareUnknown
  <2>1. PICK c \in job.todo : ~Owned(State, c) /\ Decide(c, TRUE, "unprepare")
    BY <1>1 DEF UnprepareUnknown
  <2>2. pc = "unprepare" /\ UNCHANGED <<file, disk, cdi, mem, user, worldVars>> /\ c \in Claims
    BY <1>1, <1>f, <1>j DEF UnprepareUnknown, storeVars, Job
  <2>3. holder' = holder /\ pc' = "unprepare" /\ Decided(c, job.done \cup {c})
    BY <2>1, DecideDecided
  <2>4. Continues(State)
    BY <2>2, <2>3, RememberContinues
  <2>5. Skips(c)
    BY <2>1, <2>2, <2>3, <2>4 DEF Skips
  <2>. QED  BY <2>2, <2>5 DEF UnprepareEffect
<1>2. CASE UnprepareIntent
  <2>. DEFINE m(c) == SetPhase(State, c, "Releasing")
  <2>1. PICK c \in job.todo, w \in Writes \cup {"unaudited"} :
          /\ Owned(State, c)
          /\ UNCHANGED storeVars \/ persist(m(c), w)
          /\ Remember(m(c))
          /\ IF w # "ok" THEN Decide(c, FALSE, "unprepare")
             ELSE /\ pc' = "scrub"
                  /\ job' = [job EXCEPT !.cur = c, !.left = State.claims[c].devs]
                  /\ UNCHANGED holder
    BY <1>2 DEF UnprepareIntent
  <2>2. pc = "unprepare" /\ c \in Claims /\ UNCHANGED <<cdi, user, worldVars>>
    BY <1>2, <1>j, <1>f DEF UnprepareIntent, Job
  <2>3. Put(State, m(c), c, [State.claims[c] EXCEPT !.phase = "Releasing"]) /\ m(c) \in PersistedState
    <3>1. NoClaim \in PreparedClaim /\ "Releasing" \in Phases
      BY NoClaimType DEF Phases
    <3>2. Put(State, m(c), c, [State.claims[c] EXCEPT !.phase = "Releasing"])
      BY <1>s, <2>2, <3>1, PutClaim
    <3>. QED  BY <3>2 DEF Put
  <2>. HIDE DEF m
  <2>4. /\ holder' = holder
        /\ \/ pc' = "unprepare" /\ Decided(c, job.done)
           \/ pc' = "scrub" /\ Working(c, State.claims[c].devs) /\ job'.bad = job.bad
    <3>1. CASE w = "ok"
      BY <1>j, <2>1, <2>2, <3>1 DEF Working, Job
    <3>2. CASE w # "ok"
      BY <2>1, <3>2, DecideDecided
    <3>. QED  BY <3>1, <3>2
  <2>5. Continues(m(c)) /\ Written(m(c))
    BY <2>1, <2>2, <2>3, <2>4, RememberContinues, PersistWrites DEF Written, storeVars
  <2>6. Marks(c)
    BY <2>1, <2>2, <2>3, <2>4, <2>5 DEF Marks
  <2>. QED  BY <2>2, <2>6 DEF UnprepareEffect
<1>3. CASE UnprepareScrub
  <2>0. pc = "scrub" /\ UNCHANGED <<file, disk, cdi, worldVars>>
    BY <1>3 DEF UnprepareScrub, storeVars, worldVars, podVars, agentVars
  <2>1. CASE job.left = {} /\ Goto("release") /\ UNCHANGED <<mem, user>>
    <3>1. holder' = holder /\ pc' = "release" /\ Working(job.cur, job.left) /\ job'.bad = job.bad
      BY <1>c, <2>0, <2>1 DEF Goto, Working
    <3>2. Continues(State)
      BY <2>0, <2>1, <3>1, RememberContinues
    <3>3. Proceeds
      BY <2>0, <2>1, <3>1, <3>2 DEF Proceeds
    <3>. QED  BY <3>3 DEF UnprepareEffect
  <2>2. ASSUME NEW d \in job.left, NEW o \in ResetOutcomes(d) \cup {"missing"},
               IF o = "missing"
               THEN Charge(FALSE) /\ Remember(quarantineLocked(State, {d})) /\ UNCHANGED user
               ELSE Reset(d, o) /\ Remember(sanitizeLocked(State, d, o = "ok")),
               pc' = "scrub", job' = [job EXCEPT !.left = @ \ {d}, !.bad = @ \/ o # "ok"], UNCHANGED holder
        PROVE  Scrubs(d) /\ d \in Devices
    <3>1. /\ d \in Devices /\ Working(job.cur, job.left \ {d}) /\ holder' = holder
          /\ o = "ok" => job'.bad = job.bad
          /\ o # "ok" => job'.bad
      BY <1>c, <1>j, <2>0, <2>2 DEF Working, Job
    <3>2. CASE o = "ok"
      <4>1. Reset(d, o) /\ Remember(sanitizeLocked(State, d, TRUE))
        BY <2>2, <3>2
      <4>2. Cleared(State, sanitizeLocked(State, d, TRUE), d)
        BY <1>s, <2>0, <3>1, SanitizeTame
      <4>3. Continues(sanitizeLocked(State, d, TRUE))
        BY <2>0, <3>1, <4>1, <4>2, RememberContinues DEF Cleared
      <4>4. user' = [user EXCEPT ![d] = NoOwner]
        BY <3>2, <4>1, ResetWipes
      <4>. QED  BY <2>0, <2>2, <3>1, <3>2, <4>2, <4>3, <4>4 DEF Scrubs
    <3>3. CASE o # "ok"
      <4>1. Wiped(d)
        BY <2>2, ResetWipes DEF Wiped
      <4>2. Remember(quarantineLocked(State, {d})) \/ Remember(sanitizeLocked(State, d, FALSE))
        BY <2>2, <3>3
      <4>3. Tame(State, quarantineLocked(State, {d})) /\ Tame(State, sanitizeLocked(State, d, FALSE))
        BY <1>s, <2>0, <3>1, SanitizeTame, ObserveTame
      <4>4. \E t : Tame(State, t) /\ Continues(t)
        BY <2>0, <3>1, <4>2, <4>3, RememberContinues DEF Tame
      <4>. QED  BY <2>0, <2>2, <3>1, <3>3, <4>1, <4>4 DEF Scrubs
    <3>. QED  BY <3>1, <3>2, <3>3
  <2>. QED  BY <1>3, <2>1, <2>2 DEF UnprepareScrub, UnprepareEffect
<1>4. CASE UnprepareApprove
  <2>0. pc = "release" /\ UNCHANGED <<cdi, user, worldVars>>
    BY <1>4, <1>f DEF UnprepareApprove
  <2>1. \/ (\E w : persist(State, w)) /\ UNCHANGED mem /\ Decide(job.cur, FALSE, "unprepare")
        \/ ~job.bad /\ UNCHANGED storeVars /\ UNCHANGED mem /\ Goto("remove")
        \/ /\ UNCHANGED storeVars
           /\ Remember(quarantineLocked(State, State.claims[job.cur].devs))
           /\ Decide(job.cur, FALSE, "unprepare")
    BY <1>4 DEF UnprepareApprove
  <2>2. CASE ~job.bad /\ UNCHANGED storeVars /\ UNCHANGED mem /\ Goto("remove")
    <3>1. holder' = holder /\ pc' = "remove" /\ Working(job.cur, job.left) /\ job'.bad = job.bad
      BY <1>c, <2>0, <2>2 DEF Goto, Working
    <3>2. Continues(State)
      BY <2>0, <2>2, <3>1, RememberContinues
    <3>3. Proceeds
      BY <2>0, <2>2, <3>1, <3>2 DEF Proceeds, storeVars
    <3>. QED  BY <3>3 DEF UnprepareEffect
  <2>3. CASE /\ (\E w : persist(State, w)) \/ UNCHANGED storeVars
             /\ UNCHANGED mem \/ Remember(quarantineLocked(State, State.claims[job.cur].devs))
             /\ Decide(job.cur, FALSE, "unprepare")
    <3>1. holder' = holder /\ pc' = "unprepare" /\ Decided(job.cur, job.done)
      BY <2>3, DecideDecided
    <3>2. Written(State)
      BY <2>3, PersistWrites DEF Written, storeVars
    <3>3. Tame(State, quarantineLocked(State, State.claims[job.cur].devs))
      BY <1>s, <2>0, ObserveTame
    <3>4. \E t : Tame(State, t) /\ Continues(t)
      BY <1>s, <2>0, <2>3, <3>1, <3>3, RememberContinues DEF Tame
    <3>5. Spares
      BY <1>c, <2>0, <3>1, <3>2, <3>4 DEF Spares
    <3>. QED  BY <3>5 DEF UnprepareEffect
  <2>. QED  BY <2>1, <2>2, <2>3
<1>5. CASE UnprepareRemoveCDI
  <2>1. /\ pc = "remove" /\ UNCHANGED <<file, disk, mem, user, worldVars>>
        /\ \/ cdi' = cdi \ {job.cur} /\ Goto("forget")
           \/ UNCHANGED cdi /\ Decide(job.cur, FALSE, "unprepare")
    BY <1>5, <1>f DEF UnprepareRemoveCDI, storeVars
  <2>2. CASE cdi' = cdi \ {job.cur} /\ Goto("forget")
    <3>1. holder' = holder /\ pc' = "forget" /\ Working(job.cur, job.left) /\ job'.bad = job.bad
      BY <1>c, <2>1, <2>2 DEF Goto, Working
    <3>2. Continues(State)
      BY <2>1, <3>1, RememberContinues
    <3>3. Proceeds
      BY <2>1, <2>2, <3>1, <3>2 DEF Proceeds
    <3>. QED  BY <3>3 DEF UnprepareEffect
  <2>3. CASE UNCHANGED cdi /\ Decide(job.cur, FALSE, "unprepare")
    <3>1. holder' = holder /\ pc' = "unprepare" /\ Decided(job.cur, job.done)
      BY <2>3, DecideDecided
    <3>2. Tame(State, State) /\ Continues(State)
      BY <1>s, <2>1, <3>1, RememberContinues
    <3>3. Spares
      BY <1>c, <2>1, <2>3, <3>1, <3>2 DEF Spares, Written
    <3>. QED  BY <3>3 DEF UnprepareEffect
  <2>. QED  BY <2>1, <2>2, <2>3
<1>6. CASE UnprepareForget
  <2>. DEFINE c == job.cur
              m == SetClaim(State, c, NoClaim)
  <2>1. PICK w \in Writes :
          /\ persist(m, w)
          /\ IF w = "ok" THEN Remember(m) ELSE UNCHANGED mem
          /\ Decide(c, w = "ok", "unprepare")
    BY <1>6 DEF UnprepareForget
  <2>2. pc = "forget" /\ c \in Claims /\ UNCHANGED <<cdi, user, worldVars>>
    BY <1>6, <1>c, <1>f DEF UnprepareForget
  <2>3. /\ holder' = holder /\ pc' = "unprepare"
        /\ w = "ok" => Decided(c, job.done \cup {c})
        /\ w # "ok" => Decided(c, job.done)
    BY <2>1, DecideDecided
  <2>4. Put(State, m, c, NoClaim)
    <3>1. NoClaim \in PreparedClaim /\ "Absent" \in Phases
      BY NoClaimType DEF Phases
    <3>. QED  BY <1>s, <2>2, <3>1, PutClaim
  <2>5. m \in PersistedState
    BY <2>4 DEF Put
  <2>. HIDE DEF m
  <2>6. /\ Written(m) /\ (w = "ok" => file' = "ok" /\ disk' = m)
        /\ w = "ok" => Continues(m)
        /\ w # "ok" => Continues(State)
    BY <2>1, <2>2, <2>3, <2>5, RememberContinues, PersistWrites
  <2>7. Forgets
    BY <2>2, <2>3, <2>4, <2>6 DEF Forgets
  <2>. QED  BY <2>7 DEF UnprepareEffect
<1>7. CASE UnprepareReply
  <2>1. PICK w \in Writes : persist(State, w) /\ held' = IF w = "ok" THEN held \ job.done ELSE held
    BY <1>7 DEF UnprepareReply
  <2>2. /\ pc = "unprepare" /\ job.todo = {} /\ Idle
        /\ UNCHANGED <<mem, cdi, user, up, alloc, grant, running>>
    BY <1>7 DEF UnprepareReply, unlockState, Idle, agentVars
  <2>3. CASE w = "ok"
    BY <1>s, <2>1, <2>2, <2>3, PersistWrites DEF Releases, UnprepareEffect
  <2>4. CASE w # "ok"
    BY <1>s, <2>1, <2>2, <2>4, PersistWrites DEF Ends, UnprepareEffect, worldVars
  <2>. QED  BY <2>3, <2>4
<1>. QED  BY <1>1, <1>2, <1>3, <1>4, <1>5, <1>6, <1>7 DEF UnprepareStep

-----------------------------------------------------------------------------
(***************************************************************************)
(* What the janitor, startup, the calls and the environment do, as long as *)
(* the state file is readable.                                             *)
(***************************************************************************)

\* A reset of an unsafe idle device succeeded.
Awaits(s, t, d) ==
  /\ s \in PersistedState /\ t \in PersistedState /\ t.claims = s.claims /\ d \in Devices
  /\ t.quar[d] = "awaiting" /\ \A e \in Devices \ {d} : t.quar[e] = s.quar[e]

Recovers(d) ==
  /\ pc = "monitor" /\ pc' = "monitor" /\ d \in job.left /\ job'.left = job.left \ {d}
  /\ \E t : /\ Continues(t)
            /\ \/ Cleared(State, t, d) /\ State.quar[d] = "awaiting" /\ user' = user
               \/ Tame(State, t) /\ Wiped(d)
               \/ (Cleared(State, t, d) \/ Awaits(State, t, d)) /\ user' = [user EXCEPT ![d] = NoOwner]
  /\ UNCHANGED <<file, disk, cdi, worldVars>>

\* The records startup makes of those it loaded.
Reconciled(s, t) ==
  /\ s \in PersistedState /\ t \in PersistedState
  /\ \A c \in Claims : Owned(s, c) =>
       /\ Records(t, c, s.claims[c].devs)
       /\ t.claims[c].phase = IF alloc[c] = {} THEN "Releasing" ELSE s.claims[c].phase
  /\ \A c \in Claims : ~Owned(s, c) /\ Owned(t, c) =>
       t.claims[c].phase = "Recovered" /\ t.claims[c].devs = alloc[c]
  /\ \A d \in Devices : (t.quar[d] = "awaiting" => s.quar[d] = "awaiting") /\ (Quarantined(s, d) => Quarantined(t, d))

Reconciles ==
  /\ pc = "reconcile" /\ pc' = "orphans"
  /\ \E t : Reconciled(State, t) /\ Continues(t)
  /\ cdi \subseteq cdi'
  /\ UNCHANGED <<file, disk, user, worldVars>>

Sweeps ==
  /\ pc = "orphans" /\ pc' = "serve" /\ Continues(State)
  /\ cdi' = {c \in cdi : Owned(State, c)}
  /\ UNCHANGED <<file, disk, mem, user, worldVars>>

Serves ==
  /\ pc = "serve" /\ Idle /\ State \in PersistedState /\ holder \in Agents
  /\ file' = "ok" /\ disk' = State /\ up' = [up EXCEPT ![holder] = TRUE]
  /\ UNCHANGED <<cdi, mem, user, alloc, held, grant, running>>

\* Startup fails: the process exits.
Dies ==
  /\ pc \in {"reconcile", "orphans", "serve"} /\ Idle /\ State \in PersistedState
  /\ Written(State) /\ (pc # "serve" => UNCHANGED <<file, disk>>)
  /\ Knows(holder, EmptyState) /\ up' = [up EXCEPT ![holder] = FALSE]
  /\ {c \in cdi : Owned(State, c)} \subseteq cdi' /\ cdi' \subseteq cdi
  /\ UNCHANGED <<user, alloc, held, grant, running>>

\* m has what the file says, and what s says where the file says nothing.
Merged(s, m) ==
  /\ s \in PersistedState /\ m \in PersistedState
  /\ \A c \in Claims : m.claims[c] = IF Owned(disk, c) THEN disk.claims[c] ELSE s.claims[c]
  /\ \A d \in Devices : m.quar[d] = IF Quarantined(disk, d) THEN disk.quar[d] ELSE s.quar[d]

\* Agent a takes the lock, reloads and observes m.
Locks(a, m) ==
  /\ pc = "idle" /\ holder = NoAgent /\ up[a]
  /\ \E r : Merged(mem[a], r) /\ Tame(r, m)
  /\ Knows(a, m) /\ holder' = a /\ State' = m

CallsPrepare(a, batch) ==
  /\ \A c \in batch : alloc[c] # {}
  /\ pc' = "prepare" /\ held' = held \cup batch
  /\ \E m : Locks(a, m) /\ job'.owners \in deviceOwners(m)
  /\ job'.batch = batch /\ job'.todo = batch /\ job'.done = {}
  /\ job'.al = [c \in Claims |-> IF c \in batch THEN alloc[c] ELSE {}]
  /\ UNCHANGED <<file, disk, cdi, user, up, alloc, grant, running>>

CallsUnprepare(a, batch) ==
  /\ batch \subseteq held \ running
  /\ grant' = [c \in Claims |-> IF c \in batch THEN {} ELSE grant[c]]
  /\ pc' = "unprepare" /\ \E m : Locks(a, m)
  /\ job'.batch = batch /\ job'.todo = batch /\ job'.done = {}
  /\ UNCHANGED <<file, disk, cdi, user, up, alloc, held, running>>

CallsMonitor(a) ==
  /\ pc' = "monitor"
  /\ \E m : Locks(a, m) /\ \A d \in job'.left : Holders(m, d) = {}
  /\ UNCHANGED <<file, disk, cdi, user, worldVars>>

\* A transaction that only reloads, observes or fences.
Refreshes(a) ==
  /\ pc = "idle" /\ holder = NoAgent /\ up[a]
  /\ \E m : (\E r : Merged(mem[a], r) /\ Tame(r, m)) /\ Knows(a, m) /\ Written(m)
  /\ UNCHANGED <<holder, pc, job, cdi, user, worldVars>>

Restarts(a) ==
  /\ pc = "idle" /\ holder = NoAgent /\ ~up[a]
  /\ pc' = "reconcile" /\ holder' = a
  /\ \E m : Merged(EmptyState, m) /\ Knows(a, m) /\ State' = m
  /\ UNCHANGED <<file, disk, cdi, user, worldVars>>

Crashes(a) ==
  /\ Knows(a, EmptyState) /\ up' = [up EXCEPT ![a] = FALSE]
  /\ \/ holder = a /\ Idle
     \/ holder # a /\ UNCHANGED <<holder, pc, job>> /\ (pc # "idle" => State' = State)
  /\ UNCHANGED <<file, disk, cdi, user, alloc, held, grant, running>>

coreVars == <<file, disk, cdi, mem, holder, pc, job, up, held, grant>>

OtherEffect ==
  \/ \E d \in Devices : Recovers(d)
  \/ Ends \/ Reconciles \/ Sweeps \/ Serves \/ Dies

CallEffect(a) ==
  \/ \E batch \in SUBSET Claims : CallsPrepare(a, batch) \/ CallsUnprepare(a, batch)
  \/ CallsMonitor(a) \/ Refreshes(a) \/ Restarts(a) \/ Crashes(a)
  \/ UNCHANGED <<coreVars, user, alloc, running>>

\* The steps of the environment leave the agents alone.
LEMMA EnvironmentEffects ==
  Environment /\ ~Corrupt =>
    /\ UNCHANGED coreVars
    /\ \/ UNCHANGED <<user, alloc, running>>
       \/ \E c \in Claims : \/ (Allocate(c) \/ Deallocate(c)) /\ UNCHANGED <<user, running>>
                            \/ ContainerStart(c) /\ UNCHANGED alloc
                            \/ ContainerStop(c) /\ UNCHANGED <<user, alloc>>
<1>. USE DEF coreVars, storeVars, agentVars, txnVars, podVars
<1>1. ASSUME NEW c \in Claims, Allocate(c) \/ Deallocate(c) PROVE UNCHANGED <<coreVars, user, running>>
  BY <1>1 DEF Allocate, Deallocate
<1>2. ASSUME NEW c \in Claims, ContainerStart(c) PROVE UNCHANGED <<coreVars, alloc>>
  BY <1>2 DEF ContainerStart
<1>3. ASSUME NEW c \in Claims, ContainerStop(c) PROVE UNCHANGED <<coreVars, user, alloc>>
  BY <1>3 DEF ContainerStop
<1>4. ASSUME NEW d \in Devices, HardwareChange(d) PROVE UNCHANGED <<coreVars, user, alloc, running>>
  BY <1>4 DEF HardwareChange
<1>. HIDE DEF coreVars, storeVars, agentVars, txnVars, podVars
<1>. QED  BY <1>1, <1>2, <1>3, <1>4 DEF Environment

\* Recovering an idle device clears it or lets it await its health.
LEMMA RecoverEffect ==
  ASSUME NEW s \in PersistedState, NEW d \in Devices, NEW snap
  PROVE  Cleared(s, Recover(s, d, snap), d) \/ Awaits(s, Recover(s, d, snap), d)
<1>1. CASE snap[d] = "sick"
  <2>1. Recover(s, d, snap) = [s EXCEPT !.quar[d] = "awaiting"] /\ Recover(s, d, snap) \in PersistedState
    BY <1>1, RecoverType DEF Recover
  <2>2. /\ [s EXCEPT !.quar[d] = "awaiting"].claims = s.claims
        /\ [s EXCEPT !.quar[d] = "awaiting"].quar = [s.quar EXCEPT ![d] = "awaiting"]
        /\ s.quar \in [Devices -> QuarantineRecord]
    BY DEF PersistedState
  <2>. QED  BY <2>1, <2>2 DEF Awaits
<1>2. CASE snap[d] # "sick"
  BY <1>2, SanitizeTame DEF Recover
<1>. QED  BY <1>1, <1>2

\* What reconcileStartup makes of the records.
LEMMA ReconcileEffect ==
  ASSUME NEW s \in PersistedState, TypeInv, NEW snap, NEW Q
  PROVE  Reconciled(s, quarantineLocked(reconcileStartup(s, alloc, snap), Q))
<1>. DEFINE r == ReconciledClaims(s, alloc, snap)
            t == reconcileStartup(s, alloc, snap)
            u == quarantineLocked(t, Q)
<1>0. alloc \in [Claims -> SUBSET Devices]
  BY DEF TypeInv, TypeOK
<1>1. t \in PersistedState /\ r \in PersistedState
  <2>1. ASSUME NEW c \in Claims PROVE ReconciledClaim(s.claims[c], alloc[c], snap) \in PreparedClaim
    BY <1>0 DEF ReconciledClaim, PersistedState, PreparedClaim, Phases
  <2>2. r \in PersistedState
    BY <2>1 DEF ReconciledClaims, PersistedState
  <2>. QED  BY <1>0, <2>2, ReconcileType
<1>2. \A c \in Claims : r.claims[c] = ReconciledClaim(s.claims[c], alloc[c], snap)
  BY DEF ReconciledClaims, PersistedState
<1>3. r.quar = s.quar
  BY DEF ReconciledClaims, PersistedState
<1>4. Tame(r, t)
  <2>. HIDE DEF r
  <2>1. t = quarantineLocked(r, Interrupted(r, snap))
    BY DEF reconcileStartup, r
  <2>. QED  BY <1>1, <2>1, ObserveTame
<1>5. Tame(t, u)
  <2>. HIDE DEF t
  <2>. QED  BY <1>1, ObserveTame
<1>. HIDE DEF r, t, u
<1>6. Tame(r, u)
  BY <1>4, <1>5, TameTwice
<1>7. ASSUME NEW c \in Claims
      PROVE  /\ Owned(s, c) => /\ Records(u, c, s.claims[c].devs)
                               /\ u.claims[c].phase = IF alloc[c] = {} THEN "Releasing" ELSE s.claims[c].phase
             /\ ~Owned(s, c) /\ Owned(u, c) => u.claims[c].phase = "Recovered" /\ u.claims[c].devs = alloc[c]
  <2>1. u.claims[c] = ReconciledClaim(s.claims[c], alloc[c], snap)
    BY <1>2, <1>6 DEF Tame
  <2>2. s.claims[c] \in PreparedClaim
    BY DEF PersistedState
  <2>. QED  BY <2>1, <2>2 DEF ReconciledClaim, Owned, Records, PreparedClaim
<1>8. u \in PersistedState
      /\ \A d \in Devices : (u.quar[d] = "awaiting" => s.quar[d] = "awaiting") /\ (Quarantined(s, d) => Quarantined(u, d))
  BY <1>3, <1>6 DEF Tame, Quarantined
<1>9. Reconciled(s, u)
  BY <1>7, <1>8 DEF Reconciled
<1>. QED  BY <1>9 DEF u, t

\* Each step of the janitor and of startup has one of the effects above.
LEMMA OtherEffects ==
  TypeInv /\ Clean /\ (MonitorRecover \/ MonitorPersist \/ StartupStep) => OtherEffect
<1>. SUFFICES ASSUME TypeInv, Clean, MonitorRecover \/ MonitorPersist \/ StartupStep PROVE OtherEffect
  OBVIOUS
<1>j. job \in Job
  BY DEF TypeInv, TypeOK
<1>s. pc # "idle" => State \in PersistedState /\ Tame(State, State) /\ holder \in Agents
  BY StateType, ObserveTame DEF TypeInv, LockHeld
<1>f. UNCHANGED podVars /\ UNCHANGED agentVars => UNCHANGED worldVars
  BY DEF podVars, agentVars, worldVars
<1>x. ASSUME Exit(holder), pc # "idle"
      PROVE  Idle /\ Knows(holder, EmptyState) /\ up' = [up EXCEPT ![holder] = FALSE]
  BY <1>s, <1>x, EmptyType DEF Exit, unlockState, Idle, Knows
<1>1. CASE MonitorRecover
  <2>1. PICK d \in job.left :
          /\ \/ State.quar[d] = "awaiting" /\ UNCHANGED user
                /\ (Remember([State EXCEPT !.quar[d] = "none"]) \/ UNCHANGED mem)
             \/ \E o \in ResetOutcomes(d) :
                  /\ Reset(d, o)
                  /\ Remember(IF o = "ok" THEN Recover(State, d, job.snap) ELSE sanitizeLocked(State, d, FALSE))
          /\ job' = [job EXCEPT !.left = @ \ {d}]
    BY <1>1 DEF MonitorRecover
  <2>2. /\ pc = "monitor" /\ pc' = "monitor" /\ holder' = holder /\ d \in Devices
        /\ UNCHANGED <<file, disk, cdi, worldVars>> /\ job'.left = job.left \ {d}
    BY <1>1, <1>j, <2>1 DEF MonitorRecover, storeVars, agentVars, podVars, worldVars, Job
  <2>3. CASE State.quar[d] = "awaiting" /\ UNCHANGED user /\ Remember([State EXCEPT !.quar[d] = "none"])
    <3>. DEFINE t == [State EXCEPT !.quar[d] = "none"]
    <3>1. Cleared(State, t, d)
      BY <1>s, <2>2 DEF Cleared, PersistedState, QuarantineRecord
    <3>. HIDE DEF t
    <3>2. Continues(t)
      BY <2>2, <2>3, <3>1, RememberContinues DEF Cleared, t
    <3>. QED  BY <2>2, <2>3, <3>1, <3>2 DEF Recovers, OtherEffect
  <2>4. CASE UNCHANGED user /\ UNCHANGED mem
    <3>1. Continues(State)
      BY <2>2, <2>4, RememberContinues
    <3>. QED  BY <1>s, <2>2, <2>4, <3>1 DEF Recovers, OtherEffect, Wiped
  <2>5. ASSUME NEW o, Reset(d, o),
               Remember(IF o = "ok" THEN Recover(State, d, job.snap) ELSE sanitizeLocked(State, d, FALSE))
        PROVE  OtherEffect
    <3>1. CASE o = "ok"
      <4>. DEFINE t == Recover(State, d, job.snap)
      <4>1. Cleared(State, t, d) \/ Awaits(State, t, d)
        BY <1>s, <2>2, RecoverEffect
      <4>2. Remember(t)
        BY <2>5, <3>1
      <4>. HIDE DEF t
      <4>3. Continues(t)
        BY <2>2, <4>1, <4>2, RememberContinues DEF Cleared, Awaits
      <4>4. user' = [user EXCEPT ![d] = NoOwner]
        BY <2>5, <3>1, ResetWipes
      <4>. QED  BY <2>2, <4>1, <4>3, <4>4 DEF Recovers, OtherEffect
    <3>2. CASE o # "ok"
      <4>1. Tame(State, sanitizeLocked(State, d, FALSE))
        BY <1>s, <2>2, SanitizeTame
      <4>2. Continues(sanitizeLocked(State, d, FALSE))
        BY <2>2, <2>5, <3>2, <4>1, RememberContinues DEF Tame
      <4>3. Wiped(d)
        BY <2>5, ResetWipes
      <4>. QED  BY <2>2, <4>1, <4>2, <4>3 DEF Recovers, OtherEffect
    <3>. QED  BY <3>1, <3>2
  <2>. QED  BY <2>1, <2>3, <2>4, <2>5
<1>2. CASE MonitorPersist
  <2>1. /\ pc = "monitor" /\ Idle /\ \E w : persist(State, w)
        /\ UNCHANGED <<mem, cdi, user, worldVars>>
    BY <1>2, <1>f DEF MonitorPersist, unlockState, Idle
  <2>. QED  BY <1>s, <2>1, PersistWrites DEF Ends, OtherEffect
<1>3. CASE RecoverRename \/ RecoverFence
  BY <1>3 DEF RecoverRename, RecoverFence, Clean
<1>4. CASE Reconcile
  <2>0. pc = "reconcile" /\ UNCHANGED <<file, disk, user, alloc, held, grant, running>>
    BY <1>4 DEF Reconcile, storeVars, podVars
  <2>1. CASE Exit(holder) /\ UNCHANGED cdi
    BY <1>s, <1>x, <2>0, <2>1 DEF Dies, OtherEffect, Written
  <2>2. CASE /\ \E Q : Remember(quarantineLocked(reconcileStartup(State, alloc, hw), Q))
             /\ cdi \subseteq cdi' /\ pc' = "orphans" /\ UNCHANGED <<holder, agentVars>>
    <3>1. PICK Q : Remember(quarantineLocked(reconcileStartup(State, alloc, hw), Q))
      BY <2>2
    <3>. DEFINE t == quarantineLocked(reconcileStartup(State, alloc, hw), Q)
    <3>2. Reconciled(State, t)
      BY <1>s, <2>0, ReconcileEffect
    <3>. HIDE DEF t
    <3>3. Continues(t)
      BY <2>0, <2>2, <3>1, <3>2, RememberContinues DEF Reconciled, t
    <3>. QED  BY <2>0, <2>2, <3>2, <3>3 DEF Reconciles, OtherEffect, worldVars, agentVars
  <2>. QED  BY <1>4, <2>1, <2>2 DEF Reconcile
<1>5. CASE removeOrphanCDI
  <2>1. PICK stuck \in SUBSET {c \in cdi : ~Owned(State, c)} :
          /\ cdi' = {c \in cdi : Owned(State, c)} \cup stuck
          /\ IF stuck = {} THEN Goto("serve") /\ UNCHANGED <<agentVars, mem>> ELSE Exit(holder)
    BY <1>5 DEF removeOrphanCDI
  <2>2. pc = "orphans" /\ UNCHANGED <<file, disk, user, alloc, held, grant, running>>
    BY <1>5 DEF removeOrphanCDI, storeVars, podVars
  <2>3. CASE stuck = {}
    <3>1. pc' = "serve" /\ holder' = holder /\ UNCHANGED <<mem, worldVars>>
      BY <2>1, <2>2, <2>3 DEF Goto, agentVars, worldVars
    <3>2. Continues(State)
      BY <2>2, <3>1, RememberContinues
    <3>. QED  BY <2>1, <2>2, <2>3, <3>1, <3>2 DEF Sweeps, OtherEffect
  <2>4. CASE stuck # {}
    BY <1>s, <1>x, <2>1, <2>2, <2>4 DEF Dies, OtherEffect, Written
  <2>. QED  BY <2>3, <2>4
<1>6. CASE StartupPersist
  <2>1. PICK w \in Writes :
          /\ persist(State, w)
          /\ IF w = "ok" /\ ~job.bad
             THEN unlockState /\ up' = [up EXCEPT ![holder] = TRUE] /\ UNCHANGED <<mem, scan>>
             ELSE Exit(holder)
    BY <1>6 DEF StartupPersist
  <2>2. pc = "serve" /\ UNCHANGED <<cdi, user, alloc, held, grant, running>>
    BY <1>6 DEF StartupPersist, podVars
  <2>3. CASE w = "ok" /\ ~job.bad
    BY <1>s, <2>1, <2>2, <2>3, PersistWrites DEF Serves, OtherEffect, unlockState, Idle
  <2>4. CASE ~(w = "ok" /\ ~job.bad)
    BY <1>s, <1>x, <2>1, <2>2, <2>4, PersistWrites DEF Dies, OtherEffect
  <2>. QED  BY <2>3, <2>4
<1>. QED  BY <1>1, <1>2, <1>3, <1>4, <1>5, <1>6 DEF StartupStep

\* A reload merges the file into what the agent remembers.
LEMMA ReloadedMerged ==
  ASSUME TypeInv, MarkInv, NEW a \in Agents
  PROVE  /\ Merged(mem[a], Reloaded(a))
         /\ Merged(EmptyState, IF file = "ok" THEN load(disk, EmptyState) ELSE EmptyState)
<1>1. disk \in PersistedState /\ mem[a] \in PersistedState /\ EmptyState \in PersistedState
  BY EmptyType DEF TypeInv, TypeOK
<1>2. ASSUME NEW s \in PersistedState PROVE Merged(s, IF file = "ok" THEN load(disk, s) ELSE s)
  <2>1. CASE file = "ok"
    BY <1>1, <2>1, LoadType DEF Merged, load
  <2>2. CASE file # "ok"
    BY <1>1, <2>2 DEF Merged, MarkInv, StoreEmpty, EmptyState, NoClaim, Owned, Quarantined
  <2>. QED  BY <2>1, <2>2
<1>. QED  BY <1>1, <1>2 DEF Reloaded

\* Each call has one of the effects above.
LEMMA CallEffects ==
  ASSUME TypeInv, MarkInv, Clean, NEW a \in Agents, Call(a) PROVE CallEffect(a)
<1>f. UNCHANGED podVars /\ UNCHANGED up => UNCHANGED worldVars
  BY DEF podVars, worldVars
<1>0. holder = NoAgent => pc = "idle"
  BY FreeIdle
<1>r. Merged(mem[a], Reloaded(a)) /\ Reloaded(a) \in PersistedState
  BY ReloadedMerged DEF Merged
<1>o. ASSUME NEW snap, NEW r \in BOOLEAN PROVE Tame(Reloaded(a), observeLocked(Reloaded(a), snap, r))
  BY <1>r, ObserveTame
<1>e. ASSUME NEW m \in PersistedState, NEW step, NEW j, Enter(a, m, step, j)
      PROVE  Knows(a, m) /\ State' = m /\ pc' = step /\ job' = j /\ holder' = a
  BY <1>e DEF Enter, State, TypeInv, TypeOK, Knows
<1>1. ASSUME NEW batch \in SUBSET Claims, PrepareResourceClaims(a, batch) PROVE CallEffect(a)
  <2>. DEFINE m == observeLocked(Reloaded(a), hw, FALSE)
              j(o) == [NoJob EXCEPT !.batch = batch, !.todo = batch, !.snap = hw, !.owners = o,
                                    !.al = [c \in Claims |-> IF c \in batch THEN alloc[c] ELSE {}]]
  <2>1. PICK owners \in deviceOwners(m) : Enter(a, m, "prepare", j(owners))
    BY <1>1 DEF PrepareResourceClaims
  <2>2. /\ CanLock(a) /\ (\A c \in batch : alloc[c] # {}) /\ held' = held \cup batch
        /\ UNCHANGED <<file, disk, cdi, user, up, alloc, grant, running>>
    BY <1>1 DEF PrepareResourceClaims, storeVars, agentVars
  <2>3. /\ j(owners).batch = batch /\ j(owners).todo = batch /\ j(owners).done = {}
        /\ j(owners).al = [c \in Claims |-> IF c \in batch THEN alloc[c] ELSE {}]
        /\ j(owners).owners = owners
    BY DEF NoJob
  <2>4. Tame(Reloaded(a), m) /\ m \in PersistedState
    BY <1>o DEF Tame
  <2>. HIDE DEF m, j
  <2>5. Knows(a, m) /\ State' = m /\ pc' = "prepare" /\ job' = j(owners) /\ holder' = a
    BY <2>1, <2>4, <1>e
  <2>6. Locks(a, m)
    BY <1>0, <1>r, <2>2, <2>4, <2>5 DEF Locks, CanLock
  <2>7. CallsPrepare(a, batch)
    BY <2>1, <2>2, <2>3, <2>5, <2>6 DEF CallsPrepare
  <2>. QED  BY <2>7 DEF CallEffect
<1>2. ASSUME NEW batch \in SUBSET Claims, UnprepareResourceClaims(a, batch) PROVE CallEffect(a)
  <2>. DEFINE m == observeLocked(Reloaded(a), hw, FALSE)
              j == [NoJob EXCEPT !.batch = batch, !.todo = batch, !.snap = hw]
  <2>1. /\ Enter(a, m, "unprepare", j) /\ CanLock(a) /\ batch \subseteq held \ running
        /\ grant' = [c \in Claims |-> IF c \in batch THEN {} ELSE grant[c]]
        /\ UNCHANGED <<file, disk, cdi, user, up, alloc, held, running>>
    BY <1>2 DEF UnprepareResourceClaims, storeVars, agentVars
  <2>3. j.batch = batch /\ j.todo = batch /\ j.done = {}
    BY DEF NoJob
  <2>4. Tame(Reloaded(a), m) /\ m \in PersistedState
    BY <1>o DEF Tame
  <2>. HIDE DEF m, j
  <2>5. Knows(a, m) /\ State' = m /\ pc' = "unprepare" /\ job' = j /\ holder' = a
    BY <2>1, <2>4, <1>e
  <2>6. Locks(a, m)
    BY <1>0, <1>r, <2>1, <2>4, <2>5 DEF Locks, CanLock
  <2>7. CallsUnprepare(a, batch)
    BY <2>1, <2>3, <2>5, <2>6 DEF CallsUnprepare
  <2>. QED  BY <2>7 DEF CallEffect
<1>3. CASE RefreshFailed(a) \/ SnapshotStats(a) \/ InventoryFailed(a)
  <2>. DEFINE o == observeLocked(Reloaded(a), hw, FALSE)
              q == quarantineLocked(Reloaded(a), Reloaded(a).known)
  <2>1. /\ CanLock(a) /\ UNCHANGED <<holder, pc, job, cdi, user, worldVars>>
        /\ \/ UNCHANGED storeVars /\ mem' = [mem EXCEPT ![a] = Reloaded(a)]
           \/ UNCHANGED storeVars /\ mem' = [mem EXCEPT ![a] = o]
           \/ (\E w : persist(q, w)) /\ mem' = [mem EXCEPT ![a] = q]
    BY <1>3 DEF RefreshFailed, SnapshotStats, InventoryFailed, storeVars, agentVars, txnVars, podVars, worldVars
  <2>2. Tame(Reloaded(a), o) /\ Tame(Reloaded(a), q) /\ Tame(Reloaded(a), Reloaded(a))
    BY <1>r, ObserveTame
  <2>. HIDE DEF o, q
  <2>3. \E m : Tame(Reloaded(a), m) /\ Knows(a, m) /\ Written(m)
    BY <2>1, <2>2, PersistWrites DEF Knows, Written, Tame, storeVars
  <2>4. Refreshes(a)
    BY <1>0, <1>r, <2>1, <2>3 DEF Refreshes, CanLock
  <2>. QED  BY <2>4 DEF CallEffect
<1>4. CASE Scan(a) \/ MonitorUnreadable(a)
  <2>1. UNCHANGED <<coreVars, user, alloc, running>>
    BY <1>4 DEF Scan, MonitorUnreadable, coreVars, storeVars, txnVars, podVars
  <2>. QED  BY <2>1 DEF CallEffect
<1>5. CASE Monitor(a)
  <2>. DEFINE m == observeLocked(Reloaded(a), scan[a], TRUE)
              j == [NoJob EXCEPT !.snap = scan[a], !.left = Recoverable(m, scan[a])]
  <2>1. Enter(a, m, "monitor", j) /\ CanLock(a) /\ UNCHANGED <<file, disk, cdi, user, worldVars>>
    BY <1>5 DEF Monitor, storeVars, podVars, worldVars
  <2>2. j.left = Recoverable(m, scan[a])
    BY DEF NoJob
  <2>4. Tame(Reloaded(a), m) /\ m \in PersistedState
    BY <1>o DEF Tame
  <2>. HIDE DEF m, j
  <2>5. Knows(a, m) /\ State' = m /\ pc' = "monitor" /\ job' = j /\ holder' = a
    BY <2>1, <2>4, <1>e
  <2>6. Locks(a, m)
    BY <1>0, <1>r, <2>1, <2>4, <2>5 DEF Locks, CanLock
  <2>7. CallsMonitor(a)
    BY <2>1, <2>2, <2>5, <2>6 DEF CallsMonitor, Recoverable
  <2>. QED  BY <2>7 DEF CallEffect
<1>6. CASE NewManager(a)
  <2>. DEFINE m == IF file = "ok" THEN load(disk, EmptyState) ELSE EmptyState
  <2>1. /\ Enter(a, m, "reconcile", NoJob) /\ holder = NoAgent /\ ~up[a]
        /\ UNCHANGED <<file, disk, cdi, user, worldVars>>
    BY <1>6 DEF NewManager, Clean, storeVars, agentVars, podVars, worldVars
  <2>2. Merged(EmptyState, m) /\ m \in PersistedState
    BY ReloadedMerged DEF Merged
  <2>. HIDE DEF m
  <2>3. Knows(a, m) /\ State' = m /\ pc' = "reconcile" /\ holder' = a
    BY <2>1, <2>2, <1>e
  <2>4. Restarts(a)
    BY <1>0, <2>1, <2>2, <2>3 DEF Restarts
  <2>. QED  BY <2>4 DEF CallEffect
<1>7. CASE Crash(a)
  <2>1. /\ up' = [up EXCEPT ![a] = FALSE] /\ Knows(a, EmptyState)
        /\ UNCHANGED <<file, disk, cdi, user, alloc, held, grant, running>>
        /\ IF holder = a THEN Idle ELSE UNCHANGED <<holder, pc, job>>
    BY <1>7, EmptyType DEF Crash, Knows, storeVars, podVars, txnVars, unlockState, Idle
  <2>2. holder # a /\ pc # "idle" => State' = State
    BY <2>1 DEF Knows, State, TypeInv, TypeOK, LockHeld
  <2>3. Crashes(a)
    BY <2>1, <2>2 DEF Crashes
  <2>. QED  BY <2>3 DEF CallEffect
<1>. QED  BY <1>1, <1>2, <1>3, <1>4, <1>5, <1>6, <1>7 DEF Call

-----------------------------------------------------------------------------
(***************************************************************************)
(* Granted claims have their CDI file.                                     *)
(*                                                                         *)
(* Three steps remove a CDI file.  A failed commit removes that of a claim *)
(* memory calls Preparing, an unprepare that of a claim it took up, and    *)
(* startup those without a record.  None of them is granted: a granted     *)
(* claim is Prepared or Releasing in the file and in the memory of whoever *)
(* has the lock, and an unprepare begins by revoking the grant.            *)
(***************************************************************************)
Batch ==
  pc \in PrepareSteps \cup ReleaseSteps => job.todo \subseteq job.batch /\ job.batch \subseteq held

\* What a prepare has decided well is Prepared and exposed.
PrepareDone ==
  pc \in PrepareSteps =>
    /\ job.todo \cap job.done = {}
    /\ \A c \in job.done : State.claims[c].phase = "Prepared" /\ c \in cdi

PrepareCurrent ==
  /\ pc \in PreparingSteps => State.claims[job.cur].phase = "Preparing" /\ job.left \subseteq job.al[job.cur]
  /\ pc \in {"verify", "expose", "commit"} => job.left = {}
  /\ pc = "commit" => job.cur \in cdi

\* What an unprepare has decided well has no record, and what it works on is
\* Releasing.
ReleaseDone == pc \in ReleaseSteps => \A c \in job.done : ~Owned(State, c)

ReleaseCurrent ==
  /\ pc \in ReleasingSteps => State.claims[job.cur].phase = "Releasing" /\ job.left \subseteq State.claims[job.cur].devs
  /\ pc \in {"release", "remove", "forget"} => job.left = {}
  /\ pc \in {"remove", "forget"} => ~job.bad

Settled(s, c) == s.claims[c].phase \in {"Prepared", "Releasing"}

GrantSettled ==
  \A c \in Claims : grant[c] # {} => c \in cdi /\ Settled(disk, c) /\ (pc # "idle" => Settled(State, c))

JobInv == Batch /\ PrepareDone /\ PrepareCurrent /\ ReleaseDone /\ ReleaseCurrent /\ GrantSettled

\* Steps of a prepare.
LEMMA PrepareEffectJob == TypeInv /\ MarkInv /\ OwnInv /\ JobInv /\ PrepareEffect => JobInv'
<1>. SUFFICES ASSUME TypeInv, MarkInv, OwnInv, JobInv, PrepareEffect PROVE JobInv'
  OBVIOUS
<1>. USE DEF PrepareSteps, ReleaseSteps, PreparingSteps, ReleasingSteps
<1>j. job \in Job /\ job.done \subseteq Claims /\ job.todo \subseteq Claims
  BY DEF TypeInv, TypeOK, Job
<1>c. pc \in PreparingSteps => job.cur \in Claims /\ job.cur \in job.todo
  BY DEF TypeInv, CurrentClaim, MarkInv, CurrentTodo
<1>1. ASSUME NEW c \in Claims, Fails(c) PROVE JobInv'
  <2>1. State'.claims = State.claims
    BY <1>1 DEF Fails, Tame, Continues
  <2>2. Batch' /\ PrepareDone' /\ PrepareCurrent'
    BY <1>1, <2>1 DEF Fails, Decided, worldVars, JobInv, Batch, PrepareDone, PrepareCurrent
  <2>3. ReleaseDone' /\ ReleaseCurrent'
    BY <1>1 DEF Fails, ReleaseDone, ReleaseCurrent
  <2>4. GrantSettled'
    BY <1>1, <2>1 DEF Fails, worldVars, JobInv, GrantSettled, Settled
  <2>. QED  BY <2>2, <2>3, <2>4 DEF JobInv
<1>2. ASSUME NEW c \in Claims, Repeats(c) PROVE JobInv'
  <2>1. State' = State
    BY <1>2 DEF Repeats, Continues
  <2>2. Batch' /\ PrepareDone' /\ PrepareCurrent'
    BY <1>2, <2>1 DEF Repeats, Repeatable, Decided, worldVars, JobInv, Batch, PrepareDone, PrepareCurrent
  <2>3. ReleaseDone' /\ ReleaseCurrent'
    BY <1>2 DEF Repeats, ReleaseDone, ReleaseCurrent
  <2>4. GrantSettled'
    BY <1>2, <2>1 DEF Repeats, worldVars, JobInv, GrantSettled, Settled
  <2>. QED  BY <2>2, <2>3, <2>4 DEF JobInv
<1>3. ASSUME NEW c \in Claims, Resumes(c) PROVE JobInv'
  <2>1. State' = State
    BY <1>3 DEF Resumes, Continues
  <2>2. Batch' /\ PrepareDone' /\ PrepareCurrent'
    BY <1>3, <2>1 DEF Resumes, Working, worldVars, JobInv, Batch, PrepareDone, PrepareCurrent
  <2>3. ReleaseDone' /\ ReleaseCurrent'
    BY <1>3 DEF Resumes, ReleaseDone, ReleaseCurrent
  <2>4. GrantSettled'
    BY <1>3, <2>1 DEF Resumes, worldVars, JobInv, GrantSettled, Settled
  <2>. QED  BY <2>2, <2>3, <2>4 DEF JobInv
<1>4. ASSUME NEW c \in Claims, Intends(c) PROVE JobInv'
  <2>1. PICK m : /\ Put(State, m, c, Intent(c))
                 /\ \/ /\ file' = "ok" /\ disk' = m
                       /\ pc' = "sanitize" /\ Working(c, job.al[c]) /\ Continues(m)
                    \/ /\ Written(m)
                       /\ pc' = "prepare" /\ Decided(c, job.done)
                       /\ Continues(State) \/ (disk' = m /\ Continues(m))
    BY <1>4 DEF Intends
  <2>2. /\ pc = "prepare" /\ c \in job.todo /\ UNCHANGED <<cdi, user, worldVars>>
        /\ ~Owned(State, c)
    BY <1>4 DEF Intends
  <2>3. /\ m.claims[c].phase = "Preparing" /\ \A x \in Claims \ {c} : m.claims[x] = State.claims[x]
        /\ State' \in {State, m} /\ disk' \in {disk, m}
        /\ pc' = "sanitize" => State' = m
    BY <2>1 DEF Put, Intent, Continues, Written
  <2>4. grant[c] = {}
    BY <2>2 DEF OwnInv, GrantHeld, Keeps, Records
  <2>5. Batch' /\ PrepareDone' /\ PrepareCurrent'
    BY <1>j, <2>1, <2>2, <2>3 DEF Working, Decided, worldVars, JobInv, Batch, PrepareDone, PrepareCurrent
  <2>6. ReleaseDone' /\ ReleaseCurrent'
    BY <2>1 DEF ReleaseDone, ReleaseCurrent
  <2>7. GrantSettled'
    BY <2>2, <2>3, <2>4 DEF worldVars, JobInv, GrantSettled, Settled
  <2>. QED  BY <2>5, <2>6, <2>7 DEF JobInv
<1>5. ASSUME NEW d \in Devices, Sanitizes(d) PROVE JobInv'
  <2>1. State'.claims = State.claims
    BY <1>5 DEF Sanitizes, Cleared, Continues
  <2>2. Batch' /\ PrepareDone' /\ PrepareCurrent'
    BY <1>5, <2>1 DEF Sanitizes, Working, worldVars, JobInv, Batch, PrepareDone, PrepareCurrent
  <2>3. ReleaseDone' /\ ReleaseCurrent'
    BY <1>5 DEF Sanitizes, ReleaseDone, ReleaseCurrent
  <2>4. GrantSettled'
    BY <1>5, <2>1 DEF Sanitizes, worldVars, JobInv, GrantSettled, Settled
  <2>. QED  BY <2>2, <2>3, <2>4 DEF JobInv
<1>6. CASE Advances
  <2>1. State'.claims = State.claims
    BY <1>6 DEF Advances, Tame, Continues
  <2>2. Batch' /\ PrepareDone' /\ PrepareCurrent'
    BY <1>6, <2>1 DEF Advances, Working, worldVars, JobInv, Batch, PrepareDone, PrepareCurrent
  <2>3. ReleaseDone' /\ ReleaseCurrent'
    BY <1>6 DEF Advances, ReleaseDone, ReleaseCurrent
  <2>4. GrantSettled'
    BY <1>6, <2>1 DEF Advances, worldVars, JobInv, GrantSettled, Settled
  <2>. QED  BY <2>2, <2>3, <2>4 DEF JobInv
<1>g. pc = "commit" => grant[job.cur] = {}
  BY <1>c DEF JobInv, PrepareCurrent, GrantSettled, Settled
<1>r. pc = "commit" => State.claims[job.cur] \in PreparedClaim
  BY <1>c, StateType DEF PersistedState
<1>7. CASE Commits
  <2>1. PICK m : /\ Put(State, m, job.cur, [State.claims[job.cur] EXCEPT !.phase = "Prepared"])
                 /\ Continues(m) /\ disk' = m
    BY <1>7 DEF Commits
  <2>2. pc = "commit" /\ pc' = "prepare" /\ cdi' = cdi \cup {job.cur} /\ UNCHANGED worldVars
        /\ job'.batch = job.batch /\ job'.todo = job.todo \ {job.cur} /\ job'.done = job.done \cup {job.cur}
    BY <1>7 DEF Commits
  <2>3. /\ State' = m /\ m.claims[job.cur].phase = "Prepared"
        /\ \A x \in Claims \ {job.cur} : m.claims[x] = State.claims[x]
    BY <1>r, <2>1, <2>2 DEF Put, Continues, PreparedClaim
  <2>4. Batch' /\ PrepareDone' /\ PrepareCurrent'
    BY <1>j, <1>c, <2>2, <2>3 DEF worldVars, JobInv, Batch, PrepareDone, PrepareCurrent
  <2>5. ReleaseDone' /\ ReleaseCurrent'
    BY <2>2 DEF ReleaseDone, ReleaseCurrent
  <2>6. GrantSettled'
    BY <1>g, <2>1, <2>2, <2>3 DEF worldVars, JobInv, GrantSettled, Settled
  <2>. QED  BY <2>4, <2>5, <2>6 DEF JobInv
<1>8. CASE CommitFails
  <2>1. PICK m : Put(State, m, job.cur, [State.claims[job.cur] EXCEPT !.phase = "Prepared"]) /\ Written(m)
    BY <1>8 DEF CommitFails
  <2>2. PICK t : /\ Tame(State, t) \/ Put(State, t, job.cur, [State.claims[job.cur] EXCEPT !.phase = "Preparing"])
                 /\ Continues(t)
    BY <1>8 DEF CommitFails
  <2>3. /\ pc = "commit" /\ pc' = "prepare" /\ Decided(job.cur, job.done)
        /\ cdi \ {job.cur} \subseteq cdi' /\ UNCHANGED worldVars
    BY <1>8 DEF CommitFails
  <2>4. /\ \A x \in Claims \ {job.cur} : m.claims[x] = State.claims[x] /\ State'.claims[x] = State.claims[x]
        /\ disk' \in {disk, m}
    BY <2>1, <2>2 DEF Put, Tame, Continues, Written
  <2>5. Batch' /\ PrepareDone' /\ PrepareCurrent'
    BY <1>j, <1>c, <2>3, <2>4 DEF Decided, worldVars, JobInv, Batch, PrepareDone, PrepareCurrent
  <2>6. ReleaseDone' /\ ReleaseCurrent'
    BY <2>3 DEF ReleaseDone, ReleaseCurrent
  <2>7. GrantSettled'
    BY <1>g, <2>3, <2>4 DEF worldVars, JobInv, GrantSettled, Settled
  <2>. QED  BY <2>5, <2>6, <2>7 DEF JobInv
<1>9. CASE Grants
  <2>1. /\ pc = "prepare" /\ pc' = "idle" /\ disk' = State /\ cdi' = cdi
        /\ \A c \in Claims : grant'[c] = IF c \in job.done THEN job.al[c] ELSE grant[c]
    BY <1>9 DEF Grants, Idle
  <2>2. GrantSettled'
    BY <2>1 DEF JobInv, PrepareDone, GrantSettled, Settled
  <2>. QED  BY <2>1, <2>2 DEF JobInv, Batch, PrepareDone, PrepareCurrent, ReleaseDone, ReleaseCurrent
<1>10. CASE Ends
  BY <1>10 DEF Ends, Idle, Written, worldVars, JobInv, Batch, PrepareDone, PrepareCurrent, ReleaseDone, ReleaseCurrent, GrantSettled, Settled
<1>. QED  BY <1>1, <1>2, <1>3, <1>4, <1>5, <1>6, <1>7, <1>8, <1>9, <1>10 DEF PrepareEffect

\* Steps of an unprepare.
LEMMA UnprepareEffectJob == TypeInv /\ MarkInv /\ OwnInv /\ JobInv /\ UnprepareEffect => JobInv'
<1>. SUFFICES ASSUME TypeInv, MarkInv, OwnInv, JobInv, UnprepareEffect PROVE JobInv'
  OBVIOUS
<1>. USE DEF PrepareSteps, ReleaseSteps, PreparingSteps, ReleasingSteps
<1>j. job \in Job /\ job.done \subseteq Claims /\ job.todo \subseteq Claims
  BY DEF TypeInv, TypeOK, Job
<1>c. pc \in ReleasingSteps => job.cur \in Claims /\ job.cur \in job.todo /\ grant[job.cur] = {}
  BY DEF TypeInv, CurrentClaim, MarkInv, CurrentTodo, OwnInv, ReleaseRevoked
<1>1. ASSUME NEW c \in Claims, Skips(c) PROVE JobInv'
  <2>1. State' = State
    BY <1>1 DEF Skips, Continues
  <2>2. Batch' /\ ReleaseDone' /\ ReleaseCurrent'
    BY <1>1, <2>1 DEF Skips, Decided, worldVars, JobInv, Batch, ReleaseDone, ReleaseCurrent
  <2>3. PrepareDone' /\ PrepareCurrent'
    BY <1>1 DEF Skips, PrepareDone, PrepareCurrent
  <2>4. GrantSettled'
    BY <1>1, <2>1 DEF Skips, worldVars, JobInv, GrantSettled, Settled
  <2>. QED  BY <2>2, <2>3, <2>4 DEF JobInv
<1>2. ASSUME NEW c \in Claims, Marks(c) PROVE JobInv'
  <2>1. PICK m : /\ Put(State, m, c, [State.claims[c] EXCEPT !.phase = "Releasing"])
                 /\ Continues(m) /\ Written(m)
                 /\ \/ pc' = "unprepare" /\ Decided(c, job.done)
                    \/ pc' = "scrub" /\ Working(c, State.claims[c].devs)
    BY <1>2 DEF Marks
  <2>2. pc = "unprepare" /\ c \in job.todo /\ Owned(State, c) /\ UNCHANGED <<cdi, worldVars>>
    BY <1>2 DEF Marks
  <2>3. State.claims[c] \in PreparedClaim
    BY <2>2, StateType DEF PersistedState
  <2>4. /\ State' = m /\ disk' \in {disk, m}
        /\ m.claims[c].phase = "Releasing" /\ m.claims[c].devs = State.claims[c].devs
        /\ \A x \in Claims \ {c} : m.claims[x] = State.claims[x]
    BY <2>1, <2>3 DEF Put, Continues, Written, PreparedClaim
  <2>5. Batch' /\ ReleaseDone' /\ ReleaseCurrent'
    BY <1>j, <2>1, <2>2, <2>4 DEF Decided, Working, worldVars, JobInv, Batch, ReleaseDone, ReleaseCurrent, Owned
  <2>6. PrepareDone' /\ PrepareCurrent'
    BY <2>1 DEF PrepareDone, PrepareCurrent
  <2>7. GrantSettled'
    BY <2>2, <2>4 DEF worldVars, JobInv, GrantSettled, Settled, OwnInv, ReleaseRevoked
  <2>. QED  BY <2>5, <2>6, <2>7 DEF JobInv
<1>3. ASSUME NEW d \in Devices, Scrubs(d) PROVE JobInv'
  <2>1. State'.claims = State.claims
    BY <1>3 DEF Scrubs, Cleared, Tame, Continues
  <2>2. Batch' /\ ReleaseDone' /\ ReleaseCurrent'
    BY <1>3, <2>1 DEF Scrubs, Working, worldVars, JobInv, Batch, ReleaseDone, ReleaseCurrent, Owned
  <2>3. PrepareDone' /\ PrepareCurrent'
    BY <1>3 DEF Scrubs, PrepareDone, PrepareCurrent
  <2>4. GrantSettled'
    BY <1>3, <2>1 DEF Scrubs, worldVars, JobInv, GrantSettled, Settled
  <2>. QED  BY <2>2, <2>3, <2>4 DEF JobInv
<1>4. CASE Proceeds
  <2>1. State' = State
    BY <1>4 DEF Proceeds, Continues
  <2>2. Batch' /\ ReleaseDone' /\ ReleaseCurrent'
    BY <1>4, <2>1 DEF Proceeds, Working, worldVars, JobInv, Batch, ReleaseDone, ReleaseCurrent
  <2>3. PrepareDone' /\ PrepareCurrent'
    BY <1>4 DEF Proceeds, PrepareDone, PrepareCurrent
  <2>4. GrantSettled'
    BY <1>4, <1>c, <2>1 DEF Proceeds, worldVars, JobInv, GrantSettled, Settled
  <2>. QED  BY <2>2, <2>3, <2>4 DEF JobInv
<1>5. CASE Spares
  <2>1. State'.claims = State.claims
    BY <1>5 DEF Spares, Tame, Continues
  <2>2. Batch' /\ ReleaseDone' /\ ReleaseCurrent'
    BY <1>5, <2>1 DEF Spares, Decided, worldVars, JobInv, Batch, ReleaseDone, ReleaseCurrent, Owned
  <2>3. PrepareDone' /\ PrepareCurrent'
    BY <1>5 DEF Spares, PrepareDone, PrepareCurrent
  <2>4. GrantSettled'
    BY <1>5, <2>1 DEF Spares, Written, worldVars, JobInv, GrantSettled, Settled
  <2>. QED  BY <2>2, <2>3, <2>4 DEF JobInv
<1>6. CASE Forgets
  <2>1. PICK m : /\ Put(State, m, job.cur, NoClaim)
                 /\ \/ /\ file' = "ok" /\ disk' = m /\ Continues(m) /\ Decided(job.cur, job.done \cup {job.cur})
                    \/ /\ Written(m) /\ Continues(State) /\ Decided(job.cur, job.done)
    BY <1>6 DEF Forgets
  <2>2. pc = "forget" /\ pc' = "unprepare" /\ UNCHANGED <<cdi, worldVars>>
    BY <1>6 DEF Forgets
  <2>3. /\ State' \in {State, m} /\ disk' \in {disk, m} /\ ~Owned(m, job.cur)
        /\ \A x \in Claims \ {job.cur} : m.claims[x] = State.claims[x]
    BY <2>1 DEF Put, Continues, Written, Owned, NoClaim
  <2>4. ReleaseDone'
    <3>1. CASE State' = m /\ job'.done = job.done \cup {job.cur}
      BY <1>j, <2>2, <2>3, <3>1 DEF JobInv, ReleaseDone, Owned
    <3>2. CASE State' = State /\ job'.done = job.done
      BY <2>2, <3>2 DEF JobInv, ReleaseDone
    <3>. QED  BY <2>1, <3>1, <3>2 DEF Continues, Decided
  <2>5. Batch' /\ ReleaseCurrent' /\ PrepareDone' /\ PrepareCurrent'
    BY <2>1, <2>2 DEF Decided, worldVars, JobInv, Batch, ReleaseCurrent, PrepareDone, PrepareCurrent
  <2>6. GrantSettled'
    BY <1>c, <2>2, <2>3 DEF worldVars, JobInv, GrantSettled, Settled
  <2>. QED  BY <2>4, <2>5, <2>6 DEF JobInv
<1>7. CASE Releases \/ Ends
  BY <1>7 DEF Releases, Ends, Idle, Written, worldVars, JobInv, Batch, PrepareDone, PrepareCurrent, ReleaseDone, ReleaseCurrent, GrantSettled, Settled
<1>. QED  BY <1>1, <1>2, <1>3, <1>4, <1>5, <1>6, <1>7 DEF UnprepareEffect

\* Outside prepare and unprepare only the granted claims matter.
LEMMA OutsideJob ==
  ASSUME GrantSettled', pc' \notin PrepareSteps \cup ReleaseSteps PROVE JobInv'
BY DEF PrepareSteps, ReleaseSteps, PreparingSteps, ReleasingSteps, JobInv, Batch, PrepareDone, PrepareCurrent, ReleaseDone, ReleaseCurrent

\* Steps of the janitor and of startup.
LEMMA OtherEffectJob == TypeInv /\ OwnInv /\ JobInv /\ OtherEffect => JobInv'
<1>. SUFFICES ASSUME TypeInv, OwnInv, JobInv, OtherEffect PROVE JobInv'
  OBVIOUS
<1>. USE DEF PrepareSteps, ReleaseSteps, PreparingSteps, ReleasingSteps
<1>1. ASSUME NEW d \in Devices, Recovers(d) PROVE JobInv'
  <2>1. State'.claims = State.claims
    BY <1>1 DEF Recovers, Cleared, Tame, Awaits, Continues
  <2>2. GrantSettled' /\ pc' = "monitor"
    BY <1>1, <2>1 DEF Recovers, worldVars, JobInv, GrantSettled, Settled
  <2>. QED  BY <2>2, OutsideJob
<1>2. CASE Ends
  <2>1. GrantSettled' /\ pc' = "idle"
    BY <1>2 DEF Ends, Idle, Written, worldVars, JobInv, GrantSettled, Settled
  <2>. QED  BY <2>1, OutsideJob
<1>3. CASE Reconciles
  <2>1. PICK t : Reconciled(State, t) /\ Continues(t)
    BY <1>3 DEF Reconciles
  <2>2. pc = "reconcile" /\ pc' = "orphans" /\ cdi \subseteq cdi' /\ UNCHANGED <<disk, grant>>
    BY <1>3 DEF Reconciles, worldVars
  <2>3. ASSUME NEW c \in Claims, grant[c] # {} PROVE Settled(State', c)
    <3>1. Owned(State, c) /\ Settled(State, c)
      BY <2>2, <2>3 DEF OwnInv, GrantHeld, Keeps, Records, JobInv, GrantSettled
    <3>. QED  BY <2>1, <3>1 DEF Reconciled, Continues, Settled
  <2>4. GrantSettled'
    BY <2>2, <2>3 DEF JobInv, GrantSettled, Settled
  <2>. QED  BY <2>2, <2>4, OutsideJob
<1>g. ASSUME NEW c \in Claims, grant[c] # {}, pc # "idle" PROVE Owned(State, c) /\ Settled(State, c) /\ c \in cdi
  BY <1>g DEF OwnInv, GrantHeld, Keeps, Records, JobInv, GrantSettled
<1>4. CASE Sweeps
  <2>1. pc # "idle" /\ pc' = "serve" /\ State' = State
    BY <1>4 DEF Sweeps, Continues
  <2>2. GrantSettled'
    BY <1>4, <1>g, <2>1 DEF Sweeps, worldVars, JobInv, GrantSettled, Settled
  <2>. QED  BY <2>1, <2>2, OutsideJob
<1>5. CASE Serves \/ Dies
  <2>1. pc # "idle" /\ pc' = "idle" /\ {c \in cdi : Owned(State, c)} \subseteq cdi' /\ disk' \in {disk, State}
        /\ UNCHANGED grant
    BY <1>5 DEF Serves, Dies, Idle, Written
  <2>2. GrantSettled'
    BY <1>g, <2>1 DEF JobInv, GrantSettled, Settled
  <2>. QED  BY <2>1, <2>2, OutsideJob
<1>. QED  BY <1>1, <1>2, <1>3, <1>4, <1>5 DEF OtherEffect

\* Calls.
LEMMA CallEffectJob ==
  ASSUME TypeInv, OwnInv, JobInv, NEW a \in Agents, CallEffect(a) PROVE JobInv'
<1>. USE DEF PrepareSteps, ReleaseSteps, PreparingSteps, ReleasingSteps
<1>d. ASSUME NEW c \in Claims, grant[c] # {} PROVE Owned(disk, c) /\ Settled(disk, c) /\ c \in cdi
  BY <1>d DEF OwnInv, GrantStored, Keeps, Records, JobInv, GrantSettled
<1>m. ASSUME NEW s, NEW m, Merged(s, m), NEW c \in Claims, grant[c] # {} PROVE Settled(m, c)
  BY <1>d, <1>m DEF Merged, Settled
<1>l. ASSUME NEW m, Locks(a, m), NEW c \in Claims, grant[c] # {} PROVE Settled(State', c)
  <2>1. PICK r : Merged(mem[a], r) /\ Tame(r, m)
    BY <1>l DEF Locks
  <2>2. Settled(r, c)
    BY <1>l, <1>m, <2>1
  <2>. QED  BY <1>l, <2>1, <2>2 DEF Locks, Tame, Settled
<1>1. ASSUME NEW batch \in SUBSET Claims, CallsPrepare(a, batch) PROVE JobInv'
  <2>1. GrantSettled'
    BY <1>1, <1>d, <1>l DEF CallsPrepare, GrantSettled, Settled
  <2>2. Batch' /\ PrepareDone'
    BY <1>1 DEF CallsPrepare, Batch, PrepareDone
  <2>. QED  BY <1>1, <2>1, <2>2 DEF CallsPrepare, JobInv, PrepareCurrent, ReleaseDone, ReleaseCurrent
<1>2. ASSUME NEW batch \in SUBSET Claims, CallsUnprepare(a, batch) PROVE JobInv'
  <2>1. \A c \in Claims : grant'[c] # {} => grant[c] # {}
    BY <1>2 DEF CallsUnprepare
  <2>2. GrantSettled'
    BY <1>2, <1>d, <1>l, <2>1 DEF CallsUnprepare, GrantSettled, Settled
  <2>3. Batch' /\ ReleaseDone'
    BY <1>2 DEF CallsUnprepare, Batch, ReleaseDone
  <2>. QED  BY <1>2, <2>2, <2>3 DEF CallsUnprepare, JobInv, PrepareDone, PrepareCurrent, ReleaseCurrent
<1>3. CASE CallsMonitor(a)
  <2>1. GrantSettled' /\ pc' = "monitor"
    BY <1>3, <1>d, <1>l DEF CallsMonitor, worldVars, GrantSettled, Settled
  <2>. QED  BY <2>1, OutsideJob
<1>4. CASE Refreshes(a)
  <2>1. PICK r, m : Merged(mem[a], r) /\ Tame(r, m) /\ Written(m)
    BY <1>4 DEF Refreshes
  <2>2. ASSUME NEW c \in Claims, grant[c] # {} PROVE Settled(disk', c)
    <3>1. Settled(m, c)
      BY <1>m, <2>1, <2>2 DEF Tame, Settled
    <3>. QED  BY <1>d, <2>1, <2>2, <3>1 DEF Written, Settled
  <2>3. GrantSettled' /\ pc' = "idle"
    BY <1>4, <1>d, <2>2 DEF Refreshes, worldVars, GrantSettled
  <2>. QED  BY <2>3, OutsideJob
<1>5. CASE Restarts(a)
  <2>1. GrantSettled' /\ pc' = "reconcile"
    BY <1>5, <1>d, <1>m DEF Restarts, worldVars, GrantSettled, Settled
  <2>. QED  BY <2>1, OutsideJob
<1>6. CASE Crashes(a)
  <2>1. CASE Idle
    <3>1. GrantSettled'
      BY <1>6, <1>d, <2>1 DEF Crashes, Idle, GrantSettled, Settled
    <3>. QED  BY <2>1, <3>1, OutsideJob DEF Idle
  <2>2. CASE UNCHANGED <<holder, pc, job>> /\ (pc # "idle" => State' = State)
    BY <1>6, <2>2 DEF Crashes, JobInv, Batch, PrepareDone, PrepareCurrent, ReleaseDone, ReleaseCurrent, GrantSettled, Settled
  <2>. QED  BY <1>6, <2>1, <2>2 DEF Crashes
<1>7. CASE UNCHANGED <<coreVars, user, alloc, running>>
  BY <1>7 DEF coreVars, State, JobInv, Batch, PrepareDone, PrepareCurrent, ReleaseDone, ReleaseCurrent, GrantSettled, Settled
<1>. QED  BY <1>1, <1>2, <1>3, <1>4, <1>5, <1>6, <1>7 DEF CallEffect

\* What the steps below leave alone is all the invariant is about.
LEMMA FrameJob == JobInv /\ UNCHANGED coreVars => JobInv'
BY DEF coreVars, State, JobInv, Batch, PrepareDone, PrepareCurrent, ReleaseDone, ReleaseCurrent, GrantSettled, Settled

Jobs == spent.corruptions = 0 => JobInv

\* Every step preserves the invariant.
LEMMA NextJob == TypeInv /\ MarkInv /\ Ownership /\ Jobs /\ [Next]_vars => Jobs'
<1>. SUFFICES ASSUME TypeInv, MarkInv, Ownership, Jobs, [Next]_vars, spent'.corruptions = 0 PROVE JobInv'
  BY DEF Jobs
<1>1. CASE UNCHANGED vars
  BY <1>1, FrameJob DEF vars, coreVars, storeVars, agentVars, txnVars, podVars, Jobs
<1>2. CASE Next
  <2>1. OwnInv /\ JobInv /\ ~Corrupt /\ Clean
    BY <1>2, CorruptionCounted DEF Ownership, Jobs, OwnInv
  <2>2. CASE Environment
    BY <2>1, <2>2, EnvironmentEffects, FrameJob
  <2>3. CASE PrepareStep
    BY <2>1, <2>3, PrepareEffects, PrepareEffectJob
  <2>4. CASE UnprepareStep
    BY <2>1, <2>4, UnprepareEffects, UnprepareEffectJob
  <2>5. CASE MonitorRecover \/ MonitorPersist \/ StartupStep
    BY <2>1, <2>5, OtherEffects, OtherEffectJob
  <2>6. ASSUME NEW a \in Agents, Call(a) PROVE JobInv'
    BY <2>1, <2>6, CallEffects, CallEffectJob
  <2>. QED  BY <1>2, <2>2, <2>3, <2>4, <2>5, <2>6 DEF Next, Transaction
<1>. QED  BY <1>1, <1>2

\* Every initial state satisfies it.
LEMMA InitJob == Init => Jobs
BY DEF Init, Jobs, JobInv, Batch, PrepareDone, PrepareCurrent, ReleaseDone, ReleaseCurrent, GrantSettled,
       PrepareSteps, ReleaseSteps, PreparingSteps, ReleasingSteps

\* Without a corruption of claims.json, a claim whose devices kubelet received
\* has its CDI file until kubelet unprepares it: neither a failed commit nor an
\* unprepare nor the orphan cleanup of any agent removes it.
THEOREM GrantAlwaysExposed == Spec => []GrantExposed
<1>1. Jobs => GrantExposed
  BY DEF Jobs, JobInv, GrantSettled, GrantExposed
<1>2. Init => TypeInv /\ MarkInv /\ Ownership /\ Jobs
  BY InitType, InitMark, InitOwn, InitJob
<1>3. TypeInv /\ MarkInv /\ Ownership /\ Jobs /\ [Next]_vars => (TypeInv /\ MarkInv /\ Ownership /\ Jobs)'
  BY NextType, NextMark, NextOwn, NextJob
<1>. QED  BY <1>1, <1>2, <1>3, PTL DEF Spec
=============================================================================
