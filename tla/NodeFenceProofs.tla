--------------------------- MODULE NodeFenceProofs ---------------------------
(***************************************************************************)
(* What fencing and uninstalling promise of the Node, the ResourceSlices   *)
(* and the NodeTopology, for any number of failed calls, foreign writes,   *)
(* crashes, hangs, lost leases and hardware changes.                       *)
(***************************************************************************)
EXTENDS NodeFence, TLAPS

(***************************************************************************)
(* Types, in the groups the steps change.                                  *)
(***************************************************************************)
NodeType == taint \in BOOLEAN /\ cond \in {"none", "healthy", "unhealthy"} /\ beat \in BOOLEAN

OfferType == slices \in Offers /\ topo \in Offers

CopyType == copy \in [Writers -> Copy]

AgentType ==
  /\ agent \in Cycle \cup {"down", "hung", "observe"}
  /\ seen \in Offers /\ failed \in BOOLEAN /\ stopping \in BOOLEAN /\ desired \in Offers

DogType == dog \in Sweep /\ listed \in BOOLEAN

HookType == clean \in Hook /\ deployed \in SUBSET {"node", "controller"}

EnvType == leader \in BOOLEAN /\ allocated \in BOOLEAN /\ hw \in BOOLEAN

BoundType == torn \in BOOLEAN /\ spent \in 0..MaxDisturbances

Types == NodeType /\ OfferType /\ CopyType /\ AgentType /\ DogType /\ HookType /\ EnvType /\ BoundType

\* The groups are all of TypeOK.
LEMMA TypeParts == (TypeOK <=> Types) /\ (TypeOK' <=> Types')
BY DEF TypeOK, Types, NodeType, OfferType, CopyType, AgentType, DogType, HookType, EnvType, BoundType

\* What a step leaves alone keeps its type.
LEMMA TypeFrame ==
  ASSUME Types
  PROVE  /\ UNCHANGED nodeVars => NodeType'
         /\ UNCHANGED offerVars => OfferType'
         /\ UNCHANGED copy => CopyType'
         /\ UNCHANGED agentVars => AgentType'
         /\ UNCHANGED dogVars => DogType'
         /\ UNCHANGED cleanVars => HookType'
         /\ UNCHANGED envVars => EnvType'
         /\ UNCHANGED <<torn, spent>> => BoundType'
BY DEF Types, NodeType, OfferType, CopyType, AgentType, DogType, HookType, EnvType, BoundType,
       nodeVars, offerVars, agentVars, dogVars, cleanVars, envVars

\* What a disturbance, or none, and a broken off update do to the bound.
LEMMA DisturbanceType ==
  ASSUME Types
  PROVE  /\ Disturbance \/ UNCHANGED spent => spent' \in 0..MaxDisturbances
         /\ torn' = FALSE \/ UNCHANGED torn \/ (\E W : BreakOff(W)) => torn' \in BOOLEAN
         /\ Fault \/ Undisturbed => BoundType'
<1>1. Disturbance \/ UNCHANGED spent => spent' \in 0..MaxDisturbances
  BY BoundIsNatural DEF Disturbance, Types, BoundType
<1>2. torn' = FALSE \/ UNCHANGED torn \/ (\E W : BreakOff(W)) => torn' \in BOOLEAN
  BY DEF BreakOff, Types, BoundType
<1>3. Fault \/ Undisturbed => BoundType'
  BY <1>1, <1>2 DEF Fault, Undisturbed, BoundType
<1>. QED  BY <1>1, <1>2, <1>3

\* The calls on the Node object.
LEMMA CallType ==
  ASSUME Types, NEW w \in Writers
  PROVE  /\ Get(w) => NodeType' /\ CopyType'
         /\ Forget(w) => CopyType'
         /\ \A c \in Copy : Written(w, c) => CopyType'
         /\ \A unsafe \in BOOLEAN : UpdateTaint(w, unsafe) => NodeType' /\ CopyType'
         /\ \A c \in {"healthy", "unhealthy"} : UpdateStatus(w, c) => NodeType' /\ CopyType' /\ torn' \in BOOLEAN
         /\ CallFails(w) => NodeType' /\ CopyType' /\ BoundType'
<1>0. NoCopy \in Copy /\ copy \in [Writers -> Copy] /\ taint \in BOOLEAN
  BY DEF NoCopy, Copy, Types, CopyType, NodeType
<1>1. Get(w) => NodeType' /\ CopyType'
  <2>1. Get(w) => CopyType'
    BY <1>0 DEF Get, Copy, CopyType
  <2>. QED  BY <2>1, TypeFrame DEF Get
<1>2. Forget(w) => CopyType'
  BY <1>0 DEF Forget, CopyType
<1>3. \A c \in Copy : Written(w, c) => CopyType'
  <2>1. \A x \in Writers : [copy[x] EXCEPT !.current = FALSE] \in Copy
    BY <1>0 DEF Copy
  <2>. QED  BY <2>1 DEF Written, CopyType
<1>4. ASSUME NEW unsafe \in BOOLEAN, UpdateTaint(w, unsafe) PROVE NodeType' /\ CopyType'
  <2>1. [current |-> TRUE, taint |-> unsafe] \in Copy
    BY DEF Copy
  <2>. QED  BY <1>3, <1>4, <2>1 DEF UpdateTaint, Types, NodeType
<1>5. ASSUME NEW c \in {"healthy", "unhealthy"}, UpdateStatus(w, c) PROVE NodeType' /\ CopyType' /\ torn' \in BOOLEAN
  BY <1>0, <1>3, <1>5 DEF UpdateStatus, Types, NodeType
<1>6. CallFails(w) => NodeType' /\ CopyType' /\ BoundType'
  BY <1>2, TypeFrame, DisturbanceType DEF CallFails, BoundType
<1>. QED  BY <1>1, <1>2, <1>3, <1>4, <1>5, <1>6

\* Steps of the node loop, of its publisher and of its life.
LEMMA AgentSteps ==
  ASSUME Types, \/ AgentStart \/ AgentStep \/ StoreSlices \/ AgentCrash \/ AgentHang \/ LivenessKill
                \/ \E rolling \in BOOLEAN : AgentStop(rolling)
  PROVE Types'
<1>. USE TypeFrame, DisturbanceType
<1>w. "agent" \in Writers /\ NoCopy \in Copy
  BY DEF Writers, NoCopy, Copy
<1>n. NextTick => AgentType'
  BY DEF NextTick, AgentType, Types, Offers
<1>e. Exited => AgentType' /\ CopyType'
  BY <1>w, CallType DEF Exited, AgentType, Offers
<1>u. AgentUnsafe \in BOOLEAN
  BY DEF AgentUnsafe, NoHealthyDevices, Types, AgentType
<1>1. CASE AgentStart
  <2>1. NodeType' /\ OfferType' /\ CopyType' /\ DogType' /\ HookType' /\ EnvType' /\ BoundType'
    BY <1>1 DEF AgentStart
  <2>2. AgentType'
    BY <1>1 DEF AgentStart, AgentType, Offers
  <2>. QED  BY <2>1, <2>2 DEF Types
<1>2. CASE Observe
  <2>1. NodeType' /\ OfferType' /\ CopyType' /\ DogType' /\ HookType' /\ EnvType' /\ BoundType'
    BY <1>2 DEF Observe
  <2>2. AgentType'
    BY <1>2 DEF Observe, AgentType, Types, Offers, Cycle, DriverResources
  <2>. QED  BY <2>1, <2>2 DEF Types
<1>3. CASE PublishResources
  <2>1. NodeType' /\ OfferType' /\ CopyType' /\ DogType' /\ HookType' /\ EnvType' /\ BoundType'
    BY <1>3 DEF PublishResources
  <2>2. AgentType'
    BY <1>3 DEF PublishResources, AgentType, Types, Cycle
  <2>. QED  BY <2>1, <2>2 DEF Types
<1>4. CASE waitForResourcePublication
  <2>1. NodeType' /\ OfferType' /\ CopyType' /\ DogType' /\ HookType' /\ EnvType' /\ BoundType'
    BY <1>4 DEF waitForResourcePublication
  <2>2. AgentType'
    BY <1>4 DEF waitForResourcePublication, AgentType, Types, Cycle
  <2>. QED  BY <2>1, <2>2 DEF Types
<1>5. CASE PublishNode
  <2>1. NodeType' /\ CopyType' /\ DogType' /\ HookType' /\ EnvType' /\ BoundType'
    BY <1>5 DEF PublishNode
  <2>2. AgentType' /\ OfferType'
    BY <1>5 DEF PublishNode, AgentType, OfferType, Types, Cycle
  <2>. QED  BY <2>1, <2>2 DEF Types
<1>6. CASE SafetyGet
  <2>1. NodeType' /\ CopyType' /\ OfferType' /\ DogType' /\ HookType' /\ EnvType' /\ BoundType'
    BY <1>6, <1>w, CallType DEF SafetyGet
  <2>2. AgentType'
    BY <1>6, <1>n DEF SafetyGet, AgentType, Types, Cycle
  <2>. QED  BY <2>1, <2>2 DEF Types
<1>7. CASE SafetyTaint
  <2>1. NodeType' /\ CopyType' /\ OfferType' /\ DogType' /\ HookType' /\ EnvType' /\ BoundType'
    BY <1>7, <1>u, <1>w, CallType DEF SafetyTaint
  <2>2. AgentType'
    BY <1>7, <1>n DEF SafetyTaint, AgentType, Types, Cycle
  <2>. QED  BY <2>1, <2>2 DEF Types
<1>8. CASE SafetyStatus
  <2>1. NodeType' /\ CopyType' /\ OfferType' /\ DogType' /\ HookType' /\ EnvType' /\ BoundType'
    BY <1>8, <1>w, CallType DEF SafetyStatus, BoundType
  <2>2. AgentType'
    BY <1>8, <1>n DEF SafetyStatus
  <2>. QED  BY <2>1, <2>2 DEF Types
<1>9. CASE StoreSlices
  <2>1. NodeType' /\ CopyType' /\ AgentType' /\ HookType' /\ EnvType' /\ BoundType'
    BY <1>9 DEF StoreSlices
  <2>2. OfferType' /\ DogType'
    BY <1>9 DEF StoreSlices, OfferType, DogType, AgentType, Types
  <2>. QED  BY <2>1, <2>2 DEF Types
<1>10. CASE AgentCrash
  <2>1. NodeType' /\ OfferType' /\ CopyType' /\ AgentType' /\ DogType' /\ HookType' /\ EnvType' /\ BoundType'
    BY <1>10, <1>e DEF AgentCrash, BoundType
  <2>. QED  BY <2>1 DEF Types
<1>11. CASE AgentHang
  <2>1. NodeType' /\ OfferType' /\ CopyType' /\ DogType' /\ HookType' /\ EnvType' /\ BoundType'
    BY <1>11, <1>w, CallType DEF AgentHang, BoundType
  <2>2. AgentType'
    BY <1>11 DEF AgentHang, AgentType, Types, Offers
  <2>. QED  BY <2>1, <2>2 DEF Types
<1>12. CASE LivenessKill
  <2>1. NodeType' /\ OfferType' /\ CopyType' /\ AgentType' /\ DogType' /\ HookType' /\ EnvType' /\ BoundType'
    BY <1>12, <1>e DEF LivenessKill
  <2>. QED  BY <2>1 DEF Types
<1>13. ASSUME NEW rolling \in BOOLEAN, AgentStop(rolling) PROVE Types'
  <2>1. NodeType' /\ DogType' /\ HookType' /\ EnvType' /\ BoundType'
    BY <1>13 DEF AgentStop, BoundType
  <2>2. AgentType' /\ CopyType'
    BY <1>13, <1>e, <1>w, CallType DEF AgentStop, AgentType, Cycle, Offers
  <2>3. OfferType'
    BY <1>13 DEF AgentStop, OfferType, Types, Offers
  <2>. QED  BY <2>1, <2>2, <2>3 DEF Types
<1>. QED  BY <1>1, <1>2, <1>3, <1>4, <1>5, <1>6, <1>7, <1>8, <1>9, <1>10, <1>11, <1>12, <1>13 DEF AgentStep

\* Steps of the watchdog.
LEMMA WatchdogSteps ==
  ASSUME Types, WatchdogNodes \/ WatchdogStep \/ LeaderLost \/ LeaderElected PROVE Types'
<1>. USE TypeFrame, DisturbanceType
<1>w. "watchdog" \in Writers /\ NoCopy \in Copy
  BY DEF Writers, NoCopy, Copy
<1>1. CASE WatchdogNodes
  <2>1. NodeType' /\ CopyType' /\ BoundType' /\ OfferType' /\ AgentType' /\ HookType' /\ EnvType'
    BY <1>1 DEF WatchdogNodes
  <2>2. DogType'
    BY <1>1 DEF WatchdogNodes, DogType, Types, Sweep
  <2>. QED  BY <2>1, <2>2 DEF Types
<1>2. CASE WatchdogSlices
  <2>1. NodeType' /\ CopyType' /\ BoundType' /\ OfferType' /\ AgentType' /\ HookType' /\ EnvType'
    BY <1>2 DEF WatchdogSlices
  <2>2. DogType'
    BY <1>2 DEF WatchdogSlices, DogType, Types, Sweep
  <2>. QED  BY <2>1, <2>2 DEF Types
<1>3. CASE WatchdogGet
  <2>1. NodeType' /\ CopyType' /\ BoundType' /\ OfferType' /\ AgentType' /\ HookType' /\ EnvType'
    BY <1>3, <1>w, CallType DEF WatchdogGet
  <2>2. DogType'
    BY <1>3 DEF WatchdogGet, DogType, Types, Sweep
  <2>. QED  BY <2>1, <2>2 DEF Types
<1>4. CASE WatchdogTaint
  <2>1. NodeType' /\ CopyType' /\ BoundType' /\ OfferType' /\ AgentType' /\ HookType' /\ EnvType'
    BY <1>4, <1>w, CallType DEF WatchdogTaint
  <2>2. DogType'
    BY <1>4 DEF WatchdogTaint, DogType, Types, Sweep
  <2>. QED  BY <2>1, <2>2 DEF Types
<1>5. CASE WatchdogStatus
  <2>1. NodeType' /\ CopyType' /\ BoundType' /\ OfferType' /\ AgentType' /\ HookType' /\ EnvType'
    BY <1>5, <1>w, CallType DEF WatchdogStatus, BoundType
  <2>2. DogType'
    BY <1>5 DEF WatchdogStatus, DogType, Types, Sweep
  <2>. QED  BY <2>1, <2>2 DEF Types
<1>6. CASE WatchdogDelete
  <2>1. NodeType' /\ CopyType' /\ BoundType' /\ AgentType' /\ HookType' /\ EnvType'
    BY <1>6 DEF WatchdogDelete
  <2>2. DogType'
    BY <1>6 DEF WatchdogDelete, DogType, Types, Sweep
  <2>3. OfferType'
    BY <1>6 DEF WatchdogDelete, OfferType, Types, Offers
  <2>. QED  BY <2>1, <2>2, <2>3 DEF Types
<1>7. CASE WatchdogTopology
  <2>1. NodeType' /\ CopyType' /\ BoundType' /\ AgentType' /\ HookType' /\ EnvType'
    BY <1>7 DEF WatchdogTopology
  <2>2. DogType'
    BY <1>7 DEF WatchdogTopology, DogType, Types, Sweep
  <2>3. OfferType'
    BY <1>7 DEF WatchdogTopology, OfferType, Types, Offers
  <2>. QED  BY <2>1, <2>2, <2>3 DEF Types
<1>8. CASE LeaderLost
  <2>1. NodeType' /\ CopyType' /\ BoundType' /\ OfferType' /\ AgentType' /\ HookType'
    BY <1>8, <1>w, CallType DEF LeaderLost, BoundType
  <2>2. DogType' /\ EnvType'
    BY <1>8 DEF LeaderLost, DogType, EnvType, Types, Sweep
  <2>. QED  BY <2>1, <2>2 DEF Types
<1>9. CASE LeaderElected
  <2>1. NodeType' /\ CopyType' /\ BoundType' /\ OfferType' /\ AgentType' /\ HookType' /\ DogType'
    BY <1>9 DEF LeaderElected
  <2>2. EnvType'
    BY <1>9 DEF LeaderElected, EnvType, Types
  <2>. QED  BY <2>1, <2>2 DEF Types
<1>. QED  BY <1>1, <1>2, <1>3, <1>4, <1>5, <1>6, <1>7, <1>8, <1>9 DEF WatchdogStep

\* Steps of the uninstall hook.
LEMMA CleanupSteps ==
  ASSUME Types, CleanupCheck \/ CleanupStep PROVE Types'
<1>. USE TypeFrame, DisturbanceType
<1>w. "cleanup" \in Writers /\ NoCopy \in Copy
  BY DEF Writers, NoCopy, Copy
<1>1. CASE CleanupCheck
  <2>1. NodeType' /\ OfferType' /\ CopyType' /\ BoundType'
    BY <1>1 DEF CleanupCheck
  <2>2. AgentType' /\ EnvType' /\ DogType'
    BY <1>1 DEF CleanupCheck, CleanupUnchanged, agentVars, envVars, DogType, AgentType, EnvType, Types
  <2>3. HookType'
    BY <1>1 DEF CleanupCheck, HookType, Types, Hook
  <2>. QED  BY <2>1, <2>2, <2>3 DEF Types
<1>2. ASSUME NEW kind, NEW here, NEW next \in Hook, CleanupUndeploy(kind, here, next) PROVE Types'
  <2>1. NodeType' /\ OfferType' /\ CopyType' /\ BoundType'
    BY <1>2 DEF CleanupUndeploy
  <2>2. AgentType' /\ EnvType' /\ DogType'
    BY <1>2 DEF CleanupUndeploy, CleanupUnchanged, agentVars, envVars, DogType, AgentType, EnvType, Types
  <2>3. HookType'
    BY <1>2 DEF CleanupUndeploy, HookType, Types, Hook
  <2>. QED  BY <2>1, <2>2, <2>3 DEF Types
<1>3. CASE CleanupWait
  <2>1. NodeType' /\ OfferType' /\ CopyType' /\ BoundType'
    BY <1>3 DEF CleanupWait
  <2>2. AgentType' /\ EnvType' /\ DogType'
    BY <1>3 DEF CleanupWait, CleanupUnchanged, agentVars, envVars, DogType, AgentType, EnvType, Types
  <2>3. HookType'
    BY <1>3 DEF CleanupWait, HookType, Types, Hook
  <2>. QED  BY <2>1, <2>2, <2>3 DEF Types
<1>4. CASE CleanupSlices
  <2>1. NodeType' /\ CopyType' /\ BoundType'
    BY <1>4 DEF CleanupSlices
  <2>2. AgentType' /\ EnvType' /\ DogType'
    BY <1>4 DEF CleanupSlices, CleanupUnchanged, agentVars, envVars, DogType, AgentType, EnvType, Types
  <2>3. HookType'
    BY <1>4 DEF CleanupSlices, HookType, Types, Hook
  <2>4. OfferType'
    BY <1>4 DEF CleanupSlices, OfferType, Types, Offers
  <2>. QED  BY <2>1, <2>2, <2>3, <2>4 DEF Types
<1>5. CASE CleanupTopology
  <2>1. NodeType' /\ CopyType' /\ BoundType'
    BY <1>5 DEF CleanupTopology
  <2>2. AgentType' /\ EnvType' /\ DogType'
    BY <1>5 DEF CleanupTopology, CleanupUnchanged, agentVars, envVars, DogType, AgentType, EnvType, Types
  <2>3. HookType'
    BY <1>5 DEF CleanupTopology, HookType, Types, Hook
  <2>4. OfferType'
    BY <1>5 DEF CleanupTopology, OfferType, Types, Offers
  <2>. QED  BY <2>1, <2>2, <2>3, <2>4 DEF Types
<1>6. CASE CleanupGet
  <2>1. NodeType' /\ OfferType' /\ CopyType' /\ BoundType'
    BY <1>6, <1>w, CallType DEF CleanupGet
  <2>2. AgentType' /\ EnvType' /\ DogType'
    BY <1>6 DEF CleanupGet, CleanupUnchanged, agentVars, envVars, DogType, AgentType, EnvType, Types
  <2>3. HookType'
    BY <1>6 DEF CleanupGet, HookType, Types, Hook
  <2>. QED  BY <2>1, <2>2, <2>3 DEF Types
<1>7. CASE CleanupTaint
  <2>1. NodeType' /\ OfferType' /\ CopyType' /\ BoundType'
    BY <1>7, <1>w, CallType DEF CleanupTaint
  <2>2. AgentType' /\ EnvType' /\ DogType'
    BY <1>7 DEF CleanupTaint, CleanupUnchanged, agentVars, envVars, DogType, AgentType, EnvType, Types
  <2>3. HookType'
    BY <1>7 DEF CleanupTaint, HookType, Types, Hook
  <2>. QED  BY <2>1, <2>2, <2>3 DEF Types
<1>8. CASE CleanupStatus
  <2>1. OfferType' /\ CopyType' /\ BoundType'
    BY <1>8, <1>w, CallType DEF CleanupStatus, BoundType
  <2>2. AgentType' /\ EnvType' /\ DogType'
    BY <1>8 DEF CleanupStatus, CleanupUnchanged, agentVars, envVars, DogType, AgentType, EnvType, Types
  <2>3. HookType'
    BY <1>8 DEF CleanupStatus, HookType, Types, Hook
  <2>4. NodeType'
    BY <1>8, <1>w, CallType DEF CleanupStatus, NodeType, Types
  <2>. QED  BY <2>1, <2>2, <2>3, <2>4 DEF Types
<1>. QED  BY <1>1, <1>2, <1>3, <1>4, <1>5, <1>6, <1>7, <1>8 DEF CleanupStep, Hook

\* Time, hardware, scheduler and other writers of the Node.
LEMMA WorldSteps ==
  ASSUME Types, Expire \/ ForeignWrite \/ Flip \/ Allocate \/ Deallocate PROVE Types'
<1>. USE TypeFrame, DisturbanceType
<1>1. CASE Expire
  <2>1. OfferType' /\ CopyType' /\ AgentType' /\ DogType' /\ HookType' /\ EnvType' /\ BoundType'
    BY <1>1 DEF Expire
  <2>2. NodeType'
    BY <1>1 DEF Expire, NodeType, Types
  <2>. QED  BY <2>1, <2>2 DEF Types
<1>2. CASE ForeignWrite
  <2>1. NodeType' /\ OfferType' /\ AgentType' /\ DogType' /\ HookType' /\ EnvType' /\ BoundType'
    BY <1>2 DEF ForeignWrite, BoundType
  <2>2. CopyType'
    BY <1>2 DEF ForeignWrite, CopyType, Types, Copy
  <2>. QED  BY <2>1, <2>2 DEF Types
<1>3. CASE Flip
  <2>1. NodeType' /\ OfferType' /\ CopyType' /\ AgentType' /\ DogType' /\ HookType' /\ BoundType'
    BY <1>3 DEF Flip
  <2>2. EnvType'
    BY <1>3 DEF Flip, EnvType, Types
  <2>. QED  BY <2>1, <2>2 DEF Types
<1>4. CASE Allocate
  <2>1. NodeType' /\ OfferType' /\ CopyType' /\ AgentType' /\ DogType' /\ HookType' /\ BoundType'
    BY <1>4 DEF Allocate
  <2>2. EnvType'
    BY <1>4 DEF Allocate, EnvType, Types
  <2>. QED  BY <2>1, <2>2 DEF Types
<1>5. CASE Deallocate
  <2>1. NodeType' /\ OfferType' /\ CopyType' /\ AgentType' /\ DogType' /\ HookType' /\ BoundType'
    BY <1>5 DEF Deallocate
  <2>2. EnvType'
    BY <1>5 DEF Deallocate, EnvType, Types
  <2>. QED  BY <2>1, <2>2 DEF Types
<1>. QED  BY <1>1, <1>2, <1>3, <1>4, <1>5
\* Every step keeps the types.
LEMMA NextType == TypeOK /\ [Next]_vars => TypeOK'
<1>. SUFFICES ASSUME Types, [Next]_vars PROVE Types'
  BY TypeParts
<1>1. CASE UNCHANGED vars
  BY <1>1, TypeFrame DEF vars, Types
<1>2. CASE Next
  BY <1>2, AgentSteps, WatchdogSteps, CleanupSteps, WorldSteps DEF Next
<1>. QED  BY <1>1, <1>2

\* The initial states have them.
LEMMA InitType == Init => TypeOK
<1>. SUFFICES ASSUME Init PROVE Types
  BY TypeParts
<1>1. NodeType /\ OfferType /\ AgentType /\ DogType /\ HookType /\ EnvType
  BY DEF Init, NodeType, OfferType, AgentType, DogType, HookType, EnvType, Offers, Sweep, Hook
<1>2. CopyType
  BY DEF Init, CopyType, Copy, NoCopy
<1>3. BoundType
  <2>1. torn \in BOOLEAN
    BY DEF Init
  <2>2. spent \in 0..MaxDisturbances
    BY BoundIsNatural DEF Init
  <2>. QED  BY <2>1, <2>2 DEF BoundType
<1>. QED  BY <1>1, <1>2, <1>3 DEF Types

\* Every variable of the fencing model keeps its type: in particular the Node's
\* condition is absent, healthy or unhealthy and never anything else.
THEOREM FenceTypeCorrect == Spec => []TypeOK
BY InitType, NextType, PTL DEF Spec

-----------------------------------------------------------------------------
(***************************************************************************)
(* What the loop reports is stored.                                        *)
(*                                                                         *)
(* ReportedSafeIsStored is not inductive: the publisher of the helper      *)
(* stores what is desired at any time, also after the watchdog deleted the *)
(* slices, so from the confirmation on what is desired must be what this   *)
(* cycle observed.                                                         *)
(***************************************************************************)
Reporting == agent \in {"get", "taint", "status"}

Published == ~failed /\ ~stopping

ReportInv ==
  /\ agent = "confirm" => desired = seen
  /\ (agent = "topology" \/ Reporting) /\ Published => desired = seen /\ slices \in {seen, "none"}
  /\ Reporting /\ Published => topo \in {seen, "none"}

\* Steps of others leave the loop alone and at most take slices or topology away.
LEMMA OthersReport ==
  ASSUME ReportInv, UNCHANGED agentVars, slices' \in {slices, desired, "none"}, topo' \in {topo, "none"} PROVE ReportInv'
BY DEF ReportInv, Reporting, Published, agentVars

\* Every step preserves it.
LEMMA NextReport == ReportInv /\ [Next]_vars => ReportInv'
<1>. SUFFICES ASSUME ReportInv, [Next]_vars PROVE ReportInv'
  OBVIOUS
<1>n. NextTick => ReportInv'
  BY DEF NextTick, ReportInv, Reporting
<1>e. Exited => ReportInv'
  BY DEF Exited, ReportInv, Reporting
<1>1. CASE AgentStart
  BY <1>1 DEF AgentStart, ReportInv, Reporting
<1>2. CASE Observe
  BY <1>2 DEF Observe, ReportInv, Reporting
<1>3. CASE PublishResources
  BY <1>3 DEF PublishResources, ReportInv, Reporting, Published
<1>4. CASE waitForResourcePublication
  BY <1>4 DEF waitForResourcePublication, ConfirmResourcePublication, ReportInv, Reporting, Published, offerVars
<1>5. CASE PublishNode
  BY <1>5 DEF PublishNode, ReportInv, Reporting, Published
<1>6. CASE SafetyGet
  <2>1. CASE NextTick
    BY <1>n, <2>1
  <2>2. CASE agent' = "taint" /\ UNCHANGED <<seen, failed, stopping, desired>>
    BY <1>6, <2>2 DEF SafetyGet, ReportInv, Reporting, Published, offerVars
  <2>. QED  BY <1>6, <2>1, <2>2 DEF SafetyGet
<1>7. CASE SafetyTaint
  <2>1. CASE NextTick
    BY <1>n, <2>1
  <2>2. CASE agent' = "status" /\ UNCHANGED <<seen, failed, stopping, desired>>
    BY <1>7, <2>2 DEF SafetyTaint, ReportInv, Reporting, Published, offerVars
  <2>. QED  BY <1>7, <2>1, <2>2 DEF SafetyTaint
<1>8. CASE SafetyStatus
  BY <1>8, <1>n DEF SafetyStatus
<1>9. CASE StoreSlices
  BY <1>9, OthersReport DEF StoreSlices
<1>10. CASE AgentCrash \/ LivenessKill
  BY <1>10, <1>e DEF AgentCrash, LivenessKill
<1>11. CASE AgentHang
  BY <1>11 DEF AgentHang, ReportInv, Reporting
<1>12. ASSUME NEW rolling \in BOOLEAN, AgentStop(rolling) PROVE ReportInv'
  BY <1>12, <1>e DEF AgentStop, ReportInv, Reporting, Published
<1>13. CASE WatchdogNodes \/ WatchdogStep \/ LeaderLost \/ LeaderElected
  <2>1. UNCHANGED agentVars /\ slices' \in {slices, "none"} /\ topo' \in {topo, "none"}
    BY <1>13 DEF WatchdogNodes, WatchdogStep, WatchdogSlices, WatchdogGet, WatchdogTaint, WatchdogStatus, WatchdogDelete,
                 WatchdogTopology, LeaderLost, LeaderElected, offerVars
  <2>. QED  BY <2>1, OthersReport
<1>14. CASE CleanupCheck \/ CleanupStep
  <2>1. UNCHANGED agentVars /\ slices' \in {slices, "none"} /\ topo' \in {topo, "none"}
    BY <1>14 DEF CleanupCheck, CleanupStep, CleanupUndeploy, CleanupWait, CleanupSlices, CleanupTopology, CleanupGet,
                 CleanupTaint, CleanupStatus, CleanupUnchanged, offerVars
  <2>. QED  BY <2>1, OthersReport
<1>15. CASE Expire \/ ForeignWrite \/ Flip \/ Allocate \/ Deallocate
  <2>1. UNCHANGED <<agentVars, offerVars>>
    BY <1>15 DEF Expire, ForeignWrite, Flip, Allocate, Deallocate
  <2>. QED  BY <2>1, OthersReport DEF offerVars
<1>16. CASE UNCHANGED vars
  BY <1>16, OthersReport DEF vars, offerVars
<1>. QED  BY <1>1, <1>2, <1>3, <1>4, <1>5, <1>6, <1>7, <1>8, <1>9, <1>10, <1>11, <1>12, <1>13, <1>14, <1>15, <1>16
          DEF Next, AgentStep

\* When the loop is about to report the node safe, the API server offers what this
\* cycle observed or nothing, whatever publications, deletions by the watchdog,
\* lost calls and restarts came in between.
THEOREM ReportedSafeAlwaysStored == Spec => []ReportedSafeIsStored
<1>1. Init => ReportInv
  BY DEF Init, ReportInv, Reporting
<1>2. ReportInv => ReportedSafeIsStored
  BY DEF ReportInv, ReportedSafeIsStored, Reporting, Published, AgentUnsafe
<1>. QED  BY <1>1, <1>2, NextReport, PTL DEF Spec

-----------------------------------------------------------------------------
(***************************************************************************)
(* The uninstall leaves neither slices, NodeTopology nor condition.        *)
(*                                                                         *)
(* What the hook deletes stays deleted because nobody is left to write it: *)
(* it waits for the Pods after it deleted what would start new ones.       *)
(***************************************************************************)
Sweeping == {"slices", "topology", "get", "taint", "status", "done"}

Undeployed ==
  /\ clean \in {"undeployController", "wait"} \cup Sweeping => "node" \notin deployed
  /\ clean \in {"wait"} \cup Sweeping => "controller" \notin deployed

Deserted ==
  /\ ~leader => dog = "idle"
  /\ clean \in Sweeping => agent = "down" /\ ~leader

Removed ==
  /\ clean \in Sweeping \ {"slices"} => slices = "none"
  /\ clean \in Sweeping \ {"slices", "topology"} => topo = "none"
  /\ clean = "done" => cond = "none"

UninstallInv == Undeployed /\ Deserted /\ Removed

\* Steps of the node loop and of the publisher: there are none any more.
LEMMA AgentUninstall ==
  ASSUME UninstallInv, \/ AgentStart \/ AgentStep \/ StoreSlices \/ AgentCrash \/ AgentHang \/ LivenessKill
                       \/ \E rolling \in BOOLEAN : AgentStop(rolling)
  PROVE  UninstallInv'
<1>1. UNCHANGED <<clean, deployed, leader, dog>>
  BY DEF AgentStart, AgentStep, Observe, PublishResources, waitForResourcePublication, PublishNode, SafetyGet, SafetyTaint,
         SafetyStatus, StoreSlices, AgentCrash, AgentHang, LivenessKill, AgentStop, dogVars, cleanVars, envVars
<1>2. agent # "down" \/ (AgentStart /\ "node" \in deployed)
  BY DEF AgentStart, AgentStep, Observe, PublishResources, waitForResourcePublication, PublishNode, SafetyGet, SafetyTaint,
         SafetyStatus, StoreSlices, AgentCrash, AgentHang, LivenessKill, AgentStop
<1>3. clean \notin Sweeping
  BY <1>2 DEF UninstallInv, Undeployed, Deserted
<1>. QED  BY <1>1, <1>3 DEF UninstallInv, Undeployed, Deserted, Removed, Sweeping

\* Steps of the watchdog: likewise.
LEMMA WatchdogUninstall ==
  ASSUME UninstallInv, WatchdogNodes \/ WatchdogStep \/ LeaderLost \/ LeaderElected PROVE UninstallInv'
<1>1. UNCHANGED <<clean, deployed, agent>>
  BY DEF WatchdogNodes, WatchdogStep, WatchdogSlices, WatchdogGet, WatchdogTaint, WatchdogStatus, WatchdogDelete,
         WatchdogTopology, LeaderLost, LeaderElected, agentVars, cleanVars
<1>2. leader \/ LeaderElected
  BY DEF WatchdogNodes, WatchdogStep, WatchdogSlices, WatchdogGet, WatchdogTaint, WatchdogStatus, WatchdogDelete,
         WatchdogTopology, LeaderLost, UninstallInv, Deserted
<1>3. clean \notin Sweeping
  BY <1>2 DEF UninstallInv, Undeployed, Deserted, LeaderElected
<1>4. ~leader' => dog' = "idle"
  <2>1. CASE LeaderLost \/ LeaderElected
    BY <2>1 DEF LeaderLost, LeaderElected
  <2>2. CASE WatchdogNodes \/ WatchdogStep
    <3>1. UNCHANGED leader
      BY <2>2 DEF WatchdogNodes, WatchdogStep, WatchdogSlices, WatchdogGet, WatchdogTaint, WatchdogStatus, WatchdogDelete,
                  WatchdogTopology, envVars
    <3>2. leader
      BY <2>2 DEF WatchdogNodes, WatchdogStep, WatchdogSlices, WatchdogGet, WatchdogTaint, WatchdogStatus, WatchdogDelete,
                  WatchdogTopology, UninstallInv, Deserted
    <3>. QED  BY <3>1, <3>2
  <2>. QED  BY <2>1, <2>2
<1>. QED  BY <1>1, <1>3, <1>4 DEF UninstallInv, Undeployed, Deserted, Removed, Sweeping

\* Steps of the hook.
LEMMA CleanupUninstall == ASSUME TypeOK, UninstallInv, CleanupCheck \/ CleanupStep PROVE UninstallInv'
<1>. USE DEF UninstallInv, Undeployed, Deserted, Removed, Sweeping
<1>0. UNCHANGED <<agent, dog, leader>>
  BY DEF CleanupCheck, CleanupStep, CleanupUndeploy, CleanupWait, CleanupSlices, CleanupTopology, CleanupGet,
         CleanupTaint, CleanupStatus, CleanupUnchanged, agentVars, envVars
<1>1. CASE CleanupCheck
  BY <1>0, <1>1 DEF CleanupCheck, offerVars, nodeVars
<1>2. CASE CleanupUndeploy("node", "undeployNode", "undeployController")
  BY <1>0, <1>2 DEF CleanupUndeploy, offerVars, nodeVars
<1>3. CASE CleanupUndeploy("controller", "undeployController", "wait")
  BY <1>0, <1>3 DEF CleanupUndeploy, offerVars, nodeVars
<1>4. CASE CleanupWait
  BY <1>0, <1>4 DEF CleanupWait, offerVars, nodeVars
<1>5. CASE CleanupSlices
  BY <1>0, <1>5 DEF CleanupSlices, nodeVars
<1>6. CASE CleanupTopology
  BY <1>0, <1>6 DEF CleanupTopology, nodeVars
<1>7. CASE CleanupGet
  BY <1>0, <1>7 DEF CleanupGet, offerVars, nodeVars
<1>8. CASE CleanupTaint
  BY <1>0, <1>8 DEF CleanupTaint, offerVars
<1>9. CASE CleanupStatus
  BY <1>0, <1>9 DEF CleanupStatus, offerVars
<1>. QED  BY <1>1, <1>2, <1>3, <1>4, <1>5, <1>6, <1>7, <1>8, <1>9 DEF CleanupStep

\* Every step preserves the invariant.
LEMMA NextUninstall == TypeOK /\ UninstallInv /\ [Next]_vars => UninstallInv'
<1>. SUFFICES ASSUME TypeOK, UninstallInv, [Next]_vars PROVE UninstallInv'
  OBVIOUS
<1>1. CASE Expire \/ ForeignWrite \/ Flip \/ Allocate \/ Deallocate \/ UNCHANGED vars
  <2>1. UNCHANGED <<clean, deployed, agent, dog, leader, slices, topo, cond>>
    BY <1>1 DEF Expire, ForeignWrite, Flip, Allocate, Deallocate, vars, nodeVars, offerVars, agentVars, dogVars, cleanVars, envVars
  <2>. QED  BY <2>1 DEF UninstallInv, Undeployed, Deserted, Removed
<1>. QED  BY <1>1, AgentUninstall, WatchdogUninstall, CleanupUninstall DEF Next

\* After a successful uninstall the slices, the topology and the condition are gone
\* and stay gone, whatever failed, crashed or hung before: no agent, publisher or
\* watchdog is left to write them again.
THEOREM CleanupAlwaysLeavesNothing == Spec => []CleanupLeavesNothing
<1>1. Init => TypeOK /\ UninstallInv
  BY InitType DEF Init, UninstallInv, Undeployed, Deserted, Removed, Sweeping
<1>2. TypeOK /\ UninstallInv /\ [Next]_vars => (TypeOK /\ UninstallInv)'
  BY NextType, NextUninstall
<1>3. UninstallInv => CleanupLeavesNothing
  BY DEF UninstallInv, Removed, CleanupLeavesNothing, Sweeping
<1>. QED  BY <1>1, <1>2, <1>3, PTL DEF Spec

-----------------------------------------------------------------------------
(***************************************************************************)
(* Taint and condition agree.                                              *)
(*                                                                         *)
(* Each writer sets them in two calls, so they differ in between.  What    *)
(* keeps three writers from leaving them so: whenever they differ, an      *)
(* update was broken off, or a writer whose copy is current is about to    *)
(* write the condition that goes with the taint; another write of the Node *)
(* takes that from it only by putting its own writer into its place, or by *)
(* making the two agree.                                                   *)
(***************************************************************************)
CopiesRight == \A w \in Writers : copy[w].current => copy[w].taint = taint

Writing(w) ==
  \/ w = "agent" /\ agent = "status"
  \/ w = "watchdog" /\ dog = "status"
  \/ w = "cleanup" /\ clean = "status"

Wanted(w) == IF w = "agent" THEN AgentUnsafe ELSE w = "watchdog"

WritersRight == \A w \in Writers : Halfway(w) => taint = Wanted(w)

Matching == torn \/ taint = (cond = "unhealthy") \/ \E w \in Writers : Halfway(w)

MatchInv == CopiesRight /\ WritersRight /\ Matching

\* What a step of the writer w leaves alone: the updates of the others.
Aside(w) == \A x \in Writers \ {w} : (Writing(x)' <=> Writing(x)) /\ Wanted(x)' = Wanted(x)

\* Being halfway is writing with a current copy.
LEMMA HalfwayWrites ==
  /\ \A w : Halfway(w) <=> Writing(w) /\ copy[w].current
  /\ \A w : Halfway(w)' <=> Writing(w)' /\ copy'[w].current
BY DEF Halfway, Writing

\* What the calls on the Node object do to the copies.
LEMMA NodeCalls ==
  ASSUME TypeOK, CopiesRight, NEW w \in Writers
  PROVE  /\ Get(w) \/ (Forget(w) /\ UNCHANGED nodeVars) =>
              CopiesRight' /\ UNCHANGED <<taint, cond>> /\ \A x \in Writers \ {w} : copy'[x] = copy[x]
         /\ \A unsafe \in BOOLEAN : UpdateTaint(w, unsafe) =>
              /\ CopiesRight' /\ taint' = unsafe /\ cond' = cond
              /\ copy'[w].current /\ \A x \in Writers \ {w} : ~copy'[x].current
         /\ Written(w, NoCopy) => CopiesRight' /\ \A x \in Writers : ~copy'[x].current
<1>0. copy \in [Writers -> Copy] /\ \A x \in Writers : copy[x].current \in BOOLEAN
  BY DEF TypeOK, Copy
<1>1. ASSUME Get(w) \/ (Forget(w) /\ UNCHANGED nodeVars)
      PROVE  CopiesRight' /\ UNCHANGED <<taint, cond>> /\ \A x \in Writers \ {w} : copy'[x] = copy[x]
  <2>1. UNCHANGED <<taint, cond>> /\ \A x \in Writers \ {w} : copy'[x] = copy[x]
    BY <1>0, <1>1 DEF Get, Forget, nodeVars
  <2>2. copy'[w].current => copy'[w].taint = taint
    BY <1>0, <1>1 DEF Get, Forget, NoCopy
  <2>. QED  BY <2>1, <2>2 DEF CopiesRight
<1>2. ASSUME NEW unsafe \in BOOLEAN, UpdateTaint(w, unsafe)
      PROVE  /\ CopiesRight' /\ taint' = unsafe /\ cond' = cond
             /\ copy'[w].current /\ \A x \in Writers \ {w} : ~copy'[x].current
  <2>1. copy'[w] = [current |-> TRUE, taint |-> unsafe] /\ taint' = unsafe /\ cond' = cond
    BY <1>2 DEF UpdateTaint, Written
  <2>2. ASSUME NEW x \in Writers \ {w} PROVE ~copy'[x].current
    BY <1>0, <1>2 DEF UpdateTaint, Written, Copy
  <2>. QED  BY <2>1, <2>2 DEF CopiesRight
<1>3. ASSUME Written(w, NoCopy) PROVE CopiesRight' /\ \A x \in Writers : ~copy'[x].current
  <2>1. ASSUME NEW x \in Writers PROVE ~copy'[x].current
    BY <1>0, <1>3 DEF Written, Copy, NoCopy
  <2>. QED  BY <2>1 DEF CopiesRight
<1>. QED  BY <1>1, <1>2, <1>3

\* A step that writes neither the Node nor a copy and neither ends nor begins an update.
LEMMA MatchFrame ==
  ASSUME MatchInv, UNCHANGED <<taint, cond, copy, torn>>,
         \A w \in Writers : (Writing(w)' <=> Writing(w)) /\ (Writing(w) => Wanted(w)' = Wanted(w))
  PROVE  MatchInv'
<1>1. \A w \in Writers : Halfway(w)' <=> Halfway(w)
  BY HalfwayWrites
<1>2. CopiesRight'
  BY DEF MatchInv, CopiesRight
<1>3. WritersRight'
  BY <1>1, HalfwayWrites DEF MatchInv, WritersRight
<1>4. Matching'
  BY <1>1 DEF MatchInv, Matching
<1>. QED  BY <1>2, <1>3, <1>4 DEF MatchInv

\* A step of w that writes nothing to the Node and after which w is not between its two
\* writes: if it was, and could have gone on, its update is broken off.
LEMMA MatchAbort ==
  ASSUME TypeOK, MatchInv, NEW w \in Writers, Aside(w), ~Writing(w)',
         Get(w) \/ (Forget(w) /\ UNCHANGED nodeVars) \/ UNCHANGED <<taint, cond, copy>>,
         torn' = (torn \/ Halfway(w))
  PROVE  MatchInv'
<1>1. CopiesRight' /\ UNCHANGED <<taint, cond>> /\ \A x \in Writers \ {w} : copy'[x] = copy[x]
  <2>1. CASE UNCHANGED <<taint, cond, copy>>
    BY <2>1 DEF MatchInv, CopiesRight
  <2>2. CASE Get(w) \/ (Forget(w) /\ UNCHANGED nodeVars)
    BY <2>2, NodeCalls DEF MatchInv
  <2>. QED  BY <2>1, <2>2
<1>2. ~Halfway(w)' /\ \A x \in Writers \ {w} : (Halfway(x)' <=> Halfway(x)) /\ Wanted(x)' = Wanted(x)
  BY <1>1, HalfwayWrites DEF Aside
<1>3. WritersRight'
  BY <1>1, <1>2 DEF MatchInv, WritersRight
<1>4. Matching'
  BY <1>1, <1>2 DEF MatchInv, Matching
<1>. QED  BY <1>1, <1>3, <1>4 DEF MatchInv

\* w finds the taint as it wants it.
LEMMA MatchFound ==
  ASSUME TypeOK, MatchInv, NEW w \in Writers, Aside(w), ~Writing(w),
         copy[w].taint = Wanted(w)', UNCHANGED <<taint, cond, copy, torn>>
  PROVE  MatchInv'
<1>1. CopiesRight'
  BY DEF MatchInv, CopiesRight
<1>2. ~Halfway(w) /\ \A x \in Writers \ {w} : (Halfway(x)' <=> Halfway(x)) /\ Wanted(x)' = Wanted(x)
  BY HalfwayWrites DEF Aside
<1>3. Halfway(w)' => taint = Wanted(w)'
  BY HalfwayWrites DEF MatchInv, CopiesRight
<1>4. WritersRight'
  BY <1>2, <1>3 DEF MatchInv, WritersRight
<1>5. Matching'
  BY <1>2 DEF MatchInv, Matching
<1>. QED  BY <1>1, <1>4, <1>5 DEF MatchInv

\* w writes the taint: whoever was halfway is not any more, and w is.
LEMMA MatchTaint ==
  ASSUME TypeOK, MatchInv, NEW w \in Writers, Writing(w)', NEW unsafe \in BOOLEAN,
         UpdateTaint(w, unsafe), Wanted(w)' = unsafe
  PROVE  MatchInv'
<1>1. CopiesRight' /\ taint' = unsafe /\ copy'[w].current /\ \A x \in Writers \ {w} : ~copy'[x].current
  BY NodeCalls DEF MatchInv
<1>2. Halfway(w)' /\ \A x \in Writers \ {w} : ~Halfway(x)'
  BY <1>1, HalfwayWrites
<1>. QED  BY <1>1, <1>2 DEF MatchInv, WritersRight, Matching

\* w writes the condition that goes with the taint it wanted.
LEMMA MatchStatus ==
  ASSUME TypeOK, MatchInv, NEW w \in Writers, Writing(w), copy[w].current, Written(w, NoCopy),
         UNCHANGED taint, Wanted(w) = (cond' = "unhealthy")
  PROVE  MatchInv'
<1>1. CopiesRight' /\ \A x \in Writers : ~copy'[x].current
  BY NodeCalls DEF MatchInv
<1>2. taint = Wanted(w)
  BY HalfwayWrites DEF MatchInv, WritersRight
<1>3. \A x \in Writers : ~Halfway(x)'
  BY <1>1, HalfwayWrites
<1>. QED  BY <1>1, <1>2, <1>3 DEF MatchInv, WritersRight, Matching

\* Steps of the node loop.
LEMMA AgentMatch ==
  ASSUME TypeOK, MatchInv,
         \/ AgentStart \/ AgentStep \/ StoreSlices \/ AgentCrash \/ AgentHang \/ LivenessKill
         \/ \E rolling \in BOOLEAN : AgentStop(rolling)
  PROVE  MatchInv'
<1>w. "agent" \in Writers /\ AgentUnsafe \in BOOLEAN /\ (Writing("agent") <=> agent = "status")
      /\ (Writing("agent")' <=> agent' = "status") /\ Wanted("agent") = AgentUnsafe /\ Wanted("agent")' = AgentUnsafe'
  BY DEF Writers, AgentUnsafe, NoHealthyDevices, TypeOK, Writing, Wanted
<1>n. NextTick => agent' \in {"down", "observe"}
  BY DEF NextTick
<1>b. BreakOff({"agent"}) => torn' = (torn \/ Halfway("agent"))
  BY DEF BreakOff
<1>h. agent # "status" => ~Halfway("agent")
  BY <1>w, HalfwayWrites
<1>t. UNCHANGED torn /\ agent # "status" => torn' = (torn \/ Halfway("agent"))
  BY <1>h DEF TypeOK
<1>a. UNCHANGED <<dog, clean>> => Aside("agent")
  BY DEF Aside, Writing, Wanted, Writers
<1>d. UNCHANGED dogVars /\ UNCHANGED cleanVars => Aside("agent")
  BY <1>a DEF dogVars, cleanVars
<1>1. CASE StoreSlices
  <2>1. UNCHANGED <<taint, cond, copy, torn, agent, seen, failed, stopping, dog, clean>>
    BY <1>1 DEF StoreSlices, nodeVars, agentVars, cleanVars
  <2>. QED  BY <2>1, MatchFrame DEF Writing, Wanted, AgentUnsafe, NoHealthyDevices
<1>2. CASE AgentStart \/ Observe \/ PublishResources \/ waitForResourcePublication \/ PublishNode
  <2>1. UNCHANGED <<taint, cond, copy, torn, dog, clean>> /\ agent # "status" /\ agent' # "status"
    BY <1>2 DEF AgentStart, Observe, PublishResources, waitForResourcePublication, PublishNode, nodeVars, dogVars,
                cleanVars, Fault, Undisturbed
  <2>. QED  BY <1>a, <1>t, <1>w, <2>1, MatchAbort
<1>3. CASE SafetyGet
  <2>1. UNCHANGED torn /\ agent = "get" /\ agent' # "status" /\ Aside("agent")
        /\ (Get("agent") \/ UNCHANGED <<taint, cond, copy>>)
    BY <1>3, <1>d, <1>n DEF SafetyGet, Fault, Undisturbed, cleanVars, nodeVars
  <2>. QED  BY <1>t, <1>w, <2>1, MatchAbort
<1>4. CASE SafetyTaint
  <2>0. agent = "taint" /\ Aside("agent")
    BY <1>4, <1>d DEF SafetyTaint
  <2>1. CASE /\ copy["agent"].taint = AgentUnsafe /\ UNCHANGED <<nodeVars, copy>>
             /\ agent' = "status" /\ UNCHANGED <<seen, failed, stopping, torn>>
    <3>1. AgentUnsafe' = AgentUnsafe /\ UNCHANGED <<taint, cond, copy, torn>>
      BY <2>1 DEF AgentUnsafe, NoHealthyDevices, nodeVars
    <3>. QED  BY <1>w, <2>0, <2>1, <3>1, MatchFound
  <2>2. CASE UpdateTaint("agent", AgentUnsafe) /\ agent' = "status" /\ UNCHANGED <<seen, failed, stopping, torn>>
    <3>1. AgentUnsafe' = AgentUnsafe
      BY <2>2 DEF AgentUnsafe, NoHealthyDevices
    <3>. QED  BY <1>w, <2>2, <3>1, MatchTaint
  <2>3. CASE CallFails("agent") /\ NextTick
    <3>1. Forget("agent") /\ UNCHANGED nodeVars /\ torn' = (torn \/ Halfway("agent")) /\ agent' # "status"
      BY <1>b, <1>n, <2>3 DEF CallFails
    <3>. QED  BY <1>w, <2>0, <3>1, MatchAbort
  <2>. QED  BY <1>4, <2>1, <2>2, <2>3 DEF SafetyTaint
<1>5. CASE SafetyStatus
  <2>0. agent = "status" /\ agent' # "status" /\ Aside("agent")
    BY <1>5, <1>d, <1>n DEF SafetyStatus
  <2>1. CASE UpdateStatus("agent", IF AgentUnsafe THEN "unhealthy" ELSE "healthy")
    <3>1. Written("agent", NoCopy) /\ UNCHANGED taint /\ copy["agent"].current
          /\ cond' = IF AgentUnsafe THEN "unhealthy" ELSE "healthy"
      BY <2>1 DEF UpdateStatus
    <3>2. AgentUnsafe = (cond' = "unhealthy")
      BY <1>w, <3>1
    <3>. QED  BY <1>w, <2>0, <3>1, <3>2, MatchStatus
  <2>2. CASE CallFails("agent")
    <3>1. Forget("agent") /\ UNCHANGED nodeVars /\ torn' = (torn \/ Halfway("agent"))
      BY <1>b, <2>2 DEF CallFails
    <3>. QED  BY <1>w, <2>0, <3>1, MatchAbort
  <2>. QED  BY <1>5, <2>1, <2>2 DEF SafetyStatus
<1>6. CASE LivenessKill
  <2>1. Forget("agent") /\ UNCHANGED <<nodeVars, torn>> /\ agent = "hung" /\ agent' = "down" /\ Aside("agent")
    BY <1>6, <1>d DEF LivenessKill, Exited
  <2>. QED  BY <1>t, <1>w, <2>1, MatchAbort
<1>7. CASE AgentCrash \/ AgentHang \/ \E rolling \in BOOLEAN : AgentStop(rolling)
  <2>1. /\ Forget("agent") /\ UNCHANGED nodeVars /\ agent' # "status"
        /\ torn' = (torn \/ Halfway("agent")) /\ Aside("agent")
    BY <1>7, <1>b, <1>d DEF AgentCrash, AgentHang, AgentStop, Exited
  <2>. QED  BY <1>w, <2>1, MatchAbort
<1>. QED  BY <1>1, <1>2, <1>3, <1>4, <1>5, <1>6, <1>7 DEF AgentStep

\* Steps of the watchdog.
LEMMA WatchdogMatch ==
  ASSUME TypeOK, MatchInv, WatchdogNodes \/ WatchdogStep \/ LeaderLost \/ LeaderElected
  PROVE  MatchInv'
<1>w. "watchdog" \in Writers /\ (Writing("watchdog") <=> dog = "status") /\ (Writing("watchdog")' <=> dog' = "status")
      /\ Wanted("watchdog") = TRUE /\ Wanted("watchdog")' = TRUE
  BY DEF Writers, Writing, Wanted
<1>b. BreakOff({"watchdog"}) => torn' = (torn \/ Halfway("watchdog"))
  BY DEF BreakOff
<1>t. UNCHANGED torn /\ dog # "status" => torn' = (torn \/ Halfway("watchdog"))
  BY <1>w, HalfwayWrites DEF TypeOK
<1>a. Aside("watchdog")
  <2>1. UNCHANGED <<agent, seen, failed, stopping, clean>>
    BY DEF WatchdogNodes, WatchdogStep, WatchdogSlices, WatchdogGet, WatchdogTaint, WatchdogStatus, WatchdogDelete,
           WatchdogTopology, LeaderLost, LeaderElected, agentVars, cleanVars
  <2>. QED  BY <2>1 DEF Aside, Writing, Wanted, Writers, AgentUnsafe, NoHealthyDevices
<1>1. CASE WatchdogNodes \/ WatchdogSlices \/ WatchdogDelete \/ WatchdogTopology
  <2>1. UNCHANGED <<taint, cond, copy, torn>> /\ dog # "status" /\ dog' # "status"
    BY <1>1 DEF WatchdogNodes, WatchdogSlices, WatchdogDelete, WatchdogTopology, nodeVars, Fault, Undisturbed
  <2>. QED  BY <1>a, <1>t, <1>w, <2>1, MatchAbort
<1>2. CASE LeaderElected
  <2>1. UNCHANGED <<taint, cond, copy, torn, agent, seen, failed, stopping, dog, clean>>
    BY <1>2 DEF LeaderElected, nodeVars, agentVars, dogVars, cleanVars
  <2>. QED  BY <2>1, MatchFrame DEF Writing, Wanted, AgentUnsafe, NoHealthyDevices
<1>3. CASE WatchdogGet
  <2>1. UNCHANGED torn /\ dog = "get" /\ dog' # "status" /\ (Get("watchdog") \/ UNCHANGED <<taint, cond, copy>>)
    BY <1>3 DEF WatchdogGet, Fault, Undisturbed, nodeVars
  <2>. QED  BY <1>a, <1>t, <1>w, <2>1, MatchAbort
<1>4. CASE WatchdogTaint
  <2>0. dog = "taint"
    BY <1>4 DEF WatchdogTaint
  <2>1. CASE copy["watchdog"].taint /\ UNCHANGED <<nodeVars, copy, torn>> /\ dog' = "status"
    <3>1. UNCHANGED <<taint, cond, copy, torn>> /\ copy["watchdog"].taint = TRUE
      BY <1>w, <2>1 DEF nodeVars, TypeOK, Copy
    <3>. QED  BY <1>a, <1>w, <2>0, <3>1, MatchFound
  <2>2. CASE UpdateTaint("watchdog", TRUE) /\ dog' = "status"
    BY <1>w, <2>2, MatchTaint
  <2>3. CASE CallFails("watchdog") /\ dog' = "delete"
    <3>1. Forget("watchdog") /\ UNCHANGED nodeVars /\ torn' = (torn \/ Halfway("watchdog"))
      BY <1>b, <2>3 DEF CallFails
    <3>. QED  BY <1>a, <1>w, <2>3, <3>1, MatchAbort
  <2>. QED  BY <1>4, <2>1, <2>2, <2>3 DEF WatchdogTaint, Undisturbed
<1>5. CASE WatchdogStatus
  <2>0. dog = "status" /\ dog' = "delete"
    BY <1>5 DEF WatchdogStatus
  <2>1. CASE UpdateStatus("watchdog", "unhealthy")
    <3>1. Written("watchdog", NoCopy) /\ UNCHANGED taint /\ copy["watchdog"].current /\ cond' = "unhealthy"
      BY <2>1 DEF UpdateStatus
    <3>. QED  BY <1>w, <2>0, <3>1, MatchStatus
  <2>2. CASE CallFails("watchdog")
    <3>1. Forget("watchdog") /\ UNCHANGED nodeVars /\ torn' = (torn \/ Halfway("watchdog"))
      BY <1>b, <2>2 DEF CallFails
    <3>. QED  BY <1>a, <1>w, <2>0, <3>1, MatchAbort
  <2>. QED  BY <1>5, <2>1, <2>2 DEF WatchdogStatus
<1>6. CASE LeaderLost
  <2>1. Forget("watchdog") /\ UNCHANGED nodeVars /\ dog' # "status" /\ torn' = (torn \/ Halfway("watchdog"))
    BY <1>6, <1>b DEF LeaderLost
  <2>. QED  BY <1>a, <1>w, <2>1, MatchAbort
<1>. QED  BY <1>1, <1>2, <1>3, <1>4, <1>5, <1>6 DEF WatchdogStep

\* Steps of the uninstall hook.
LEMMA CleanupMatch == ASSUME TypeOK, MatchInv, CleanupCheck \/ CleanupStep PROVE MatchInv'
<1>w. "cleanup" \in Writers /\ (Writing("cleanup") <=> clean = "status") /\ (Writing("cleanup")' <=> clean' = "status")
      /\ Wanted("cleanup") = FALSE /\ Wanted("cleanup")' = FALSE
  BY DEF Writers, Writing, Wanted
<1>b. BreakOff({"cleanup"}) => torn' = (torn \/ Halfway("cleanup"))
  BY DEF BreakOff
<1>t. UNCHANGED torn /\ clean # "status" => torn' = (torn \/ Halfway("cleanup"))
  BY <1>w, HalfwayWrites DEF TypeOK
<1>a. Aside("cleanup")
  <2>1. UNCHANGED <<agent, seen, failed, stopping, dog>>
    BY DEF CleanupCheck, CleanupStep, CleanupUndeploy, CleanupWait, CleanupSlices, CleanupTopology, CleanupGet,
           CleanupTaint, CleanupStatus, CleanupUnchanged, agentVars
  <2>. QED  BY <2>1 DEF Aside, Writing, Wanted, Writers, AgentUnsafe, NoHealthyDevices
<1>1. CASE \/ CleanupCheck \/ CleanupUndeploy("node", "undeployNode", "undeployController")
           \/ CleanupUndeploy("controller", "undeployController", "wait")
           \/ CleanupWait \/ CleanupSlices \/ CleanupTopology
  <2>1. UNCHANGED <<taint, cond, copy, torn>> /\ clean # "status" /\ clean' # "status"
    BY <1>1 DEF CleanupCheck, CleanupUndeploy, CleanupWait, CleanupSlices, CleanupTopology, nodeVars, Fault, Undisturbed
  <2>. QED  BY <1>a, <1>t, <1>w, <2>1, MatchAbort
<1>2. CASE CleanupGet
  <2>1. UNCHANGED torn /\ clean = "get" /\ clean' # "status" /\ (Get("cleanup") \/ UNCHANGED <<taint, cond, copy>>)
    BY <1>2 DEF CleanupGet, Fault, Undisturbed, nodeVars
  <2>. QED  BY <1>a, <1>t, <1>w, <2>1, MatchAbort
<1>3. CASE CleanupTaint
  <2>0. clean = "taint"
    BY <1>3 DEF CleanupTaint
  <2>1. CASE ~copy["cleanup"].taint /\ UNCHANGED <<nodeVars, copy, torn>> /\ clean' = "status"
    <3>1. UNCHANGED <<taint, cond, copy, torn>> /\ copy["cleanup"].taint = FALSE
      BY <1>w, <2>1 DEF nodeVars, TypeOK, Copy
    <3>. QED  BY <1>a, <1>w, <2>0, <3>1, MatchFound
  <2>2. CASE UpdateTaint("cleanup", FALSE) /\ clean' = "status"
    BY <1>w, <2>2, MatchTaint
  <2>3. CASE CallFails("cleanup") /\ clean' = "failed"
    <3>1. Forget("cleanup") /\ UNCHANGED nodeVars /\ torn' = (torn \/ Halfway("cleanup"))
      BY <1>b, <2>3 DEF CallFails
    <3>. QED  BY <1>a, <1>w, <2>3, <3>1, MatchAbort
  <2>. QED  BY <1>3, <2>1, <2>2, <2>3 DEF CleanupTaint, Undisturbed
<1>4. CASE CleanupStatus
  <2>0. clean = "status" /\ clean' # "status"
    BY <1>4 DEF CleanupStatus
  <2>1. CASE copy["cleanup"].current /\ cond' = "none" /\ Written("cleanup", NoCopy) /\ UNCHANGED taint
    <3>1. Wanted("cleanup") = (cond' = "unhealthy")
      BY <1>w, <2>1
    <3>. QED  BY <1>w, <2>0, <2>1, <3>1, MatchStatus
  <2>2. CASE CallFails("cleanup")
    <3>1. Forget("cleanup") /\ UNCHANGED nodeVars /\ torn' = (torn \/ Halfway("cleanup"))
      BY <1>b, <2>2 DEF CallFails
    <3>. QED  BY <1>a, <1>w, <2>0, <3>1, MatchAbort
  <2>. QED  BY <1>4, <2>1, <2>2 DEF CleanupStatus
<1>. QED  BY <1>1, <1>2, <1>3, <1>4 DEF CleanupStep

\* Another component's write of the Node breaks off whatever update is halfway.
LEMMA ForeignMatch == ASSUME TypeOK, MatchInv, ForeignWrite PROVE MatchInv'
<1>1. \A w \in Writers : ~copy'[w].current
  BY DEF ForeignWrite, TypeOK, Copy
<1>2. UNCHANGED <<taint, cond>> /\ torn' = (torn \/ \E w \in Writers : Halfway(w))
  BY DEF ForeignWrite, BreakOff, nodeVars
<1>3. \A w \in Writers : ~Halfway(w)'
  BY <1>1, HalfwayWrites
<1>4. Matching'
  BY <1>2 DEF MatchInv, Matching
<1>. QED  BY <1>1, <1>3, <1>4 DEF MatchInv, CopiesRight, WritersRight

\* Every step preserves the invariant.
LEMMA NextMatch == TypeOK /\ MatchInv /\ [Next]_vars => MatchInv'
<1>. SUFFICES ASSUME TypeOK, MatchInv, [Next]_vars PROVE MatchInv'
  OBVIOUS
<1>1. CASE Expire \/ Flip \/ Allocate \/ Deallocate \/ UNCHANGED vars
  <2>1. UNCHANGED <<taint, cond, copy, torn, agent, seen, failed, stopping, dog, clean>>
    BY <1>1 DEF Expire, Flip, Allocate, Deallocate, Fault, Undisturbed, vars, nodeVars, agentVars, dogVars, cleanVars
  <2>. QED  BY <2>1, MatchFrame DEF Writing, Wanted, AgentUnsafe, NoHealthyDevices
<1>. QED  BY <1>1, AgentMatch, WatchdogMatch, CleanupMatch, ForeignMatch DEF Next

\* However agent, watchdog, uninstall hook and foreign writers interleave, and whatever
\* calls fail and processes stop, taint and condition agree whenever no update is
\* between its two writes, unless the last one to get there was broken off: the next
\* complete update makes them agree again.
THEOREM TaintAlwaysMatches == Spec => []TaintMatchesCondition
<1>1. Init => TypeOK /\ MatchInv
  <2>1. ASSUME Init PROVE CopiesRight /\ Matching
    <3>1. NoCopy.current = FALSE
      BY DEF NoCopy
    <3>2. \A w \in Writers : copy[w] = NoCopy
      BY <2>1 DEF Init
    <3>3. taint = (cond = "unhealthy")
      BY <2>1, Zenon DEF Init
    <3>. QED  BY <3>1, <3>2, <3>3 DEF CopiesRight, Matching
  <2>2. Init => WritersRight
    BY DEF Init, WritersRight, Halfway
  <2>. QED  BY <2>1, <2>2, InitType DEF MatchInv
<1>2. TypeOK /\ MatchInv /\ [Next]_vars => (TypeOK /\ MatchInv)'
  BY NextType, NextMatch
<1>3. MatchInv => TaintMatchesCondition
  BY DEF MatchInv, Matching, Halfway, TaintMatchesCondition
<1>. QED  BY <1>1, <1>2, <1>3, PTL DEF Spec
=============================================================================
