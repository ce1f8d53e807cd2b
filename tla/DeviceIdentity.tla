--------------------------- MODULE DeviceIdentity ---------------------------
(***************************************************************************)
(* Device identity against device path.  A device is its hardware UUID     *)
(* (StableID, DRA name); the character device it is reached by may change  *)
(* when the node is powered off: cards are replaced, removed or renumbered.*)
(* The manager records paths in Known, in the claims and in CDI files, and *)
(* resets a card through a path.                                           *)
(*                                                                         *)
(* One agent, claims of one device each, and every device that is present  *)
(* is healthy; NodeState and Lifecycle have the health, the failing writes *)
(* and the overlapping agents this module leaves out.                      *)
(***************************************************************************)
EXTENDS Naturals, FiniteSets

CONSTANTS Claims,      \* ResourceClaim UIDs
          Devices,     \* identities, numbered in the order of their StableID
          Paths,       \* /dev/tenstorrent/N
          NoPath,      \* the empty path; a device without one is not plugged in
          NoDevice,    \* a claim that is not allocated
          NoUser,      \* a device nobody used since its last reset
          MaxMoves,    \* bound: hardware changes
          MaxRestarts, \* bound: agent crashes and reboots
          MaxFaults    \* bound: failed resets

ASSUME DevicesAreOrdered == Devices \subseteq Nat
ASSUME NonesAreNone == NoPath \notin Paths /\ NoDevice \notin Devices /\ NoUser \notin Claims
ASSUME BoundsAreNaturals == MaxMoves \in Nat /\ MaxRestarts \in Nat /\ MaxFaults \in Nat

VARIABLES at,         \* the path of every plugged-in device
          mem,        \* m.state
          disk,       \* claims.json
          cdi,        \* the device node in every claim's CDI file
          up,         \* the agent serves
          pc, cur,    \* the running transaction and its claim
          published,  \* devices offered in the ResourceSlices
          alloc,      \* ResourceClaim.Status.Allocation
          held,       \* claims in kubelet's cache: to be prepared or unprepared
          grant,      \* claims a prepare succeeded for since the node booted
          user,       \* the claim that used a device since its last reset
          unscrubbed, \* new cards on a known path that were not reset yet
          spent       \* how much of the bounds is used

nodeVars == <<at, user, unscrubbed>>
stateVars == <<mem, disk, cdi>>
clusterVars == <<published, alloc, held>>
vars == <<nodeVars, stateVars, up, pc, cur, clusterVars, grant, spent>>

Places == [Devices -> Paths \cup {NoPath}]

Phases == {"Absent", "Preparing", "Prepared", "Releasing", "Recovered"}

ClaimRecord == [phase : Phases, dev : Devices \cup {NoDevice}, path : Paths \cup {NoPath}]

NoRecord == [phase |-> "Absent", dev |-> NoDevice, path |-> NoPath]

\* persistedState; Known[d] = NoPath when d has no entry.
PersistedState == [claims : [Claims -> ClaimRecord], known : Places, quar : SUBSET Devices]

EmptyState == [claims |-> [c \in Claims |-> NoRecord],
               known  |-> [d \in Devices |-> NoPath],
               quar   |-> {}]

Present(snap) == {d \in Devices : snap[d] # NoPath}

Owned(s, c) == s.claims[c].phase # "Absent"

Holders(s, d) == {c \in Claims : Owned(s, c) /\ s.claims[c].dev = d}

Injective(snap) == \A d, e \in Present(snap) : snap[d] = snap[e] => d = e

Init ==
  /\ at \in {snap \in Places : Injective(snap) /\ Present(snap) # {}}
  /\ mem = EmptyState
  /\ disk = EmptyState
  /\ cdi = [c \in Claims |-> NoPath]
  /\ up = FALSE
  /\ pc = "idle"
  /\ cur = NoUser
  /\ published = {}
  /\ alloc = [c \in Claims |-> NoDevice]
  /\ held = {}
  /\ grant = {}
  /\ user = [d \in Devices |-> NoUser]
  /\ unscrubbed = {}
  /\ spent = [moves |-> 0, restarts |-> 0, faults |-> 0]

TypeOK ==
  /\ at \in Places /\ Injective(at)
  /\ mem \in PersistedState
  /\ disk \in PersistedState
  /\ cdi \in [Claims -> Paths \cup {NoPath}]
  /\ up \in BOOLEAN
  /\ pc \in {"idle", "reset", "verify", "scrub"}
  /\ cur \in Claims \cup {NoUser}
  /\ published \in SUBSET Devices
  /\ alloc \in [Claims -> Devices \cup {NoDevice}]
  /\ held \in SUBSET Claims
  /\ grant \in SUBSET Claims
  /\ user \in [Devices -> Claims \cup {NoUser}]
  /\ unscrubbed \in SUBSET Devices
  /\ spent \in [moves : 0..MaxMoves, restarts : 0..MaxRestarts, faults : 0..MaxFaults]

-----------------------------------------------------------------------------
(* observeLocked *)

\* Known[e].Path when the loop over the snapshot, sorted by StableID, reaches
\* device d: the entry of an observed device before d is already replaced.
PriorPath(s, snap, d, e) == IF e < d /\ snap[e] # NoPath THEN snap[e] ELSE s.known[e]

\* Faulty Displacing: a path that changed hands goes unnoticed.
DisplacingNone(s, snap) == {}

\* Faulty Displacing: a device is compared with its own entry too.
DisplacingSelf(s, snap) ==
  {d \in Present(snap) : \E e \in Devices : PriorPath(s, snap, d, e) = snap[d]}

\* Devices observed on a path that Known still gives to another device.
Displacing(s, snap) ==
  {d \in Present(snap) : \E e \in Devices \ {d} : PriorPath(s, snap, d, e) = snap[d]}

\* observeLocked up to its recovery loop.
observeLocked(s, snap, recoverIdle) ==
  LET Known == {d \in Devices : s.known[d] # NoPath}
  IN  [s EXCEPT
        !.known = [d \in Devices |-> IF d \in Present(snap) THEN snap[d] ELSE @[d]],
        !.quar  = @ \cup Displacing(s, snap) \cup (Known \ Present(snap))
                    \cup (IF recoverIdle THEN Present(snap) \ Known ELSE {})]

Fault(faulty) ==
  /\ faulty => spent.faults < MaxFaults
  /\ spent' = [spent EXCEPT !.faults = IF faulty THEN @ + 1 ELSE @]

\* The devices reached through the paths P, as the hardware is now.
Reached(P) == {d \in Devices : at[d] \in P}

\* Resetter.Reset on each of the paths P.
Reset(P) ==
  /\ user' = [d \in Devices |-> IF d \in Reached(P) THEN NoUser ELSE user[d]]
  /\ unscrubbed' = unscrubbed \ Reached(P)
  /\ UNCHANGED at

persist(s) == mem' = s /\ disk' = s

-----------------------------------------------------------------------------
(* Monitor and publication *)

\* One cycle of the node loop: observe, reset the idle quarantined devices that
\* are present, release those whose reset succeeded, persist and publish.
Monitor ==
  /\ up /\ pc = "idle"
  /\ LET s == observeLocked(mem, at, TRUE)
         idle == {d \in Present(at) \cap s.quar : Holders(s, d) = {}}
     IN  \E failed \in SUBSET idle :
           LET done == idle \ failed
           IN  /\ Fault(failed # {})
               /\ Reset({at[d] : d \in done})
               /\ persist([s EXCEPT !.quar = @ \ done])
               /\ published' = Present(at) \ (s.quar \ done)
  /\ UNCHANGED <<cdi, up, pc, cur, alloc, held, grant>>

-----------------------------------------------------------------------------
(* PrepareResourceClaims and UnprepareResourceClaims *)

\* Faulty sameClaim: the device node is not compared.
sameClaimByName(rec, d, path) == rec.dev = d

\* sameClaim: the record names the device and the path it has now.
sameClaim(rec, d, path) == rec.dev = d /\ rec.path = path

\* claimFromAllocation: the device is observed and nobody else holds it.
claimFromAllocation(s, c) ==
  /\ alloc[c] # NoDevice
  /\ at[alloc[c]] # NoPath
  /\ Holders(s, alloc[c]) \subseteq {c}

\* Prepare observes and validates, and answers a repeated call from its record.
PrepareAnswered(c) ==
  /\ up /\ pc = "idle" /\ alloc[c] # NoDevice
  /\ LET s == observeLocked(mem, at, FALSE)
         rec == s.claims[c]
         good == /\ claimFromAllocation(s, c)
                 /\ rec.phase = "Prepared" /\ sameClaim(rec, alloc[c], at[alloc[c]])
                 /\ alloc[c] \notin s.quar
         proceeds == /\ claimFromAllocation(s, c)
                     /\ \/ ~Owned(s, c)
                        \/ rec.phase = "Preparing" /\ sameClaim(rec, alloc[c], at[alloc[c]])
     IN  /\ ~proceeds
         /\ persist(s)
         /\ cdi' = IF good THEN [cdi EXCEPT ![c] = rec.path] ELSE cdi
         /\ grant' = IF good THEN grant \cup {c} ELSE grant
  /\ held' = held \cup {c}
  /\ UNCHANGED <<nodeVars, up, pc, cur, published, alloc, spent>>

\* Prepare records its intent, or resumes the one it finds: then the file is not
\* written, and what was observed stays in memory until the next write.
PrepareIntent(c) ==
  /\ up /\ pc = "idle"
  /\ LET s == observeLocked(mem, at, FALSE)
         rec == s.claims[c]
     IN  /\ claimFromAllocation(s, c)
         /\ \/ /\ ~Owned(s, c)
               /\ persist([s EXCEPT !.claims[c] = [phase |-> "Preparing", dev |-> alloc[c],
                                                   path |-> at[alloc[c]]]])
            \/ /\ rec.phase = "Preparing" /\ sameClaim(rec, alloc[c], at[alloc[c]])
               /\ mem' = s /\ UNCHANGED disk
  /\ pc' = "reset" /\ cur' = c
  /\ held' = held \cup {c}
  /\ UNCHANGED <<nodeVars, cdi, up, published, alloc, grant, spent>>

\* The preflight reset goes through the recorded path; success lifts the
\* quarantine, failure adds one and ends the call.
PrepareReset ==
  /\ pc = "reset"
  /\ LET rec == mem.claims[cur]
     IN  \/ /\ Reached({rec.path}) # {}
            /\ Fault(FALSE)
            /\ Reset({rec.path})
            /\ mem' = [mem EXCEPT !.quar = @ \ {rec.dev}]
            /\ pc' = "verify" /\ UNCHANGED <<disk, cur>>
         \/ /\ Fault(Reached({rec.path}) # {})
            /\ persist([mem EXCEPT !.quar = @ \cup {rec.dev}])
            /\ pc' = "idle" /\ cur' = NoUser
            /\ UNCHANGED nodeVars
  /\ UNCHANGED <<cdi, up, clusterVars, grant>>

\* The second observation: a device that is quarantined by now is refused.
PrepareVerify ==
  /\ pc = "verify"
  /\ LET s == observeLocked(mem, at, FALSE)
         rec == s.claims[cur]
         good == rec.dev \in Present(at) \ s.quar
     IN  /\ persist(IF good THEN [s EXCEPT !.claims[cur].phase = "Prepared"]
                    ELSE [s EXCEPT !.quar = @ \cup {rec.dev}])
         /\ cdi' = IF good THEN [cdi EXCEPT ![cur] = rec.path] ELSE cdi
         /\ grant' = IF good THEN grant \cup {cur} ELSE grant
  /\ pc' = "idle" /\ cur' = NoUser
  /\ UNCHANGED <<nodeVars, up, clusterVars, spent>>

\* Kubelet unprepares after it stopped the containers; a claim without a record
\* is done, any other is marked Releasing unless it already is.
UnprepareIntent(c) ==
  /\ up /\ pc = "idle" /\ c \in held
  /\ LET s == observeLocked(mem, at, FALSE)
     IN  \/ /\ ~Owned(s, c)
            /\ persist(s)
            /\ held' = held \ {c} /\ UNCHANGED <<pc, cur>>
         \/ /\ Owned(s, c)
            /\ IF s.claims[c].phase = "Releasing"
               THEN mem' = s /\ UNCHANGED disk
               ELSE persist([s EXCEPT !.claims[c].phase = "Releasing"])
            /\ pc' = "scrub" /\ cur' = c /\ UNCHANGED held
  /\ grant' = grant \ {c}
  /\ UNCHANGED <<nodeVars, cdi, up, published, alloc, spent>>

\* Faulty ScrubPath: the path in the claim record.
ScrubPathRecorded(rec) == rec.path

\* The post-use reset goes to the path the device has now.
ScrubPath(rec) == at[rec.dev]

\* A good reset lifts the quarantine, the CDI file and the record; a device
\* that is absent, or whose reset fails, is quarantined and stays owned.
UnprepareScrub ==
  /\ pc = "scrub"
  /\ LET rec == mem.claims[cur]
     IN  \/ /\ rec.dev \in Present(at)
            /\ Fault(FALSE)
            /\ Reset({ScrubPath(rec)})
            /\ persist([mem EXCEPT !.quar = @ \ {rec.dev}, !.claims[cur] = NoRecord])
            /\ cdi' = [cdi EXCEPT ![cur] = NoPath]
            /\ held' = held \ {cur}
         \/ /\ Fault(rec.dev \in Present(at))
            /\ persist([mem EXCEPT !.quar = @ \cup {rec.dev}])
            /\ UNCHANGED <<nodeVars, cdi, held>>
  /\ pc' = "idle" /\ cur' = NoUser
  /\ UNCHANGED <<up, published, alloc, grant>>

-----------------------------------------------------------------------------
(* Startup, crashes, hardware *)

\* Faulty ReconciledClaim: a recovered claim gets no phase.
ReconciledClaimNoPhase(rec, d) ==
  IF rec.phase = "Absent" /\ d # NoDevice THEN [phase |-> "", dev |-> d, path |-> at[d]] ELSE rec

\* reconcileStartup for one claim.
ReconciledClaim(rec, d) ==
  CASE rec.phase = "Absent" /\ d # NoDevice -> [phase |-> "Recovered", dev |-> d, path |-> at[d]]
    [] rec.phase # "Absent" /\ d = NoDevice -> [rec EXCEPT !.phase = "Releasing"]
    [] OTHER -> rec

\* NewManager: the devices of claims that are interrupted, gone or at another
\* path are quarantined, CDI files are written from the records.
NewManager ==
  /\ ~up
  /\ LET claims == [c \in Claims |-> ReconciledClaim(disk.claims[c], alloc[c])]
         suspect == {claims[c].dev : c \in
                       {x \in Claims : /\ claims[x].phase # "Absent"
                                       /\ \/ claims[x].phase # "Prepared"
                                          \/ at[claims[x].dev] = NoPath
                                          \/ at[claims[x].dev] # claims[x].path}}
     IN  /\ persist([disk EXCEPT !.claims = claims, !.quar = @ \cup suspect])
         /\ cdi' = [c \in Claims |-> IF claims[c].phase = "Absent" THEN NoPath
                                     ELSE IF claims[c].path # NoPath THEN claims[c].path
                                     ELSE cdi[c]]
  /\ up' = TRUE
  /\ UNCHANGED <<nodeVars, pc, cur, clusterVars, grant, spent>>

\* The agent stops anywhere.  On a reboot the containers and kubelet's memory
\* of what it prepared are gone too.
Stop(reboot) ==
  /\ up
  /\ spent.restarts < MaxRestarts
  /\ spent' = [spent EXCEPT !.restarts = @ + 1]
  /\ up' = FALSE /\ pc' = "idle" /\ cur' = NoUser
  /\ mem' = EmptyState
  /\ grant' = IF reboot THEN {} ELSE grant
  /\ UNCHANGED <<nodeVars, disk, cdi, clusterVars>>

\* Kubelet and the agent are stopped before hardware is replaced: cards are
\* removed, added, replaced and renumbered while the node runs nothing.
Rewire ==
  /\ ~up /\ grant = {}
  /\ spent.moves < MaxMoves
  /\ spent' = [spent EXCEPT !.moves = @ + 1]
  /\ \E snap \in Places \ {at} :
       /\ Injective(snap)
       /\ at' = snap
       /\ unscrubbed' = {d \in Present(snap) :
                           \/ d \in unscrubbed
                           \/ disk.known[d] = NoPath /\ \E e \in Devices : disk.known[e] = snap[d]}
  /\ UNCHANGED <<stateVars, up, pc, cur, clusterVars, grant, user>>

-----------------------------------------------------------------------------
(* The scheduler and the containers *)

Allocate(c) ==
  /\ alloc[c] = NoDevice
  /\ \E d \in published \ {alloc[x] : x \in Claims} : alloc' = [alloc EXCEPT ![c] = d]
  /\ UNCHANGED <<nodeVars, stateVars, up, pc, cur, published, held, grant, spent>>

Deallocate(c) ==
  /\ alloc[c] # NoDevice /\ c \notin held
  /\ alloc' = [alloc EXCEPT ![c] = NoDevice]
  /\ UNCHANGED <<nodeVars, stateVars, up, pc, cur, published, held, grant, spent>>

\* The containers of a prepared claim use the device node of its CDI file.
Use(c) ==
  /\ c \in grant
  /\ user' = [d \in Devices |-> IF d \in Reached({cdi[c]}) THEN c ELSE user[d]]
  /\ UNCHANGED <<at, unscrubbed, stateVars, up, pc, cur, clusterVars, grant, spent>>

Next ==
  \/ Monitor \/ PrepareReset \/ PrepareVerify \/ UnprepareScrub \/ NewManager \/ Rewire
  \/ \E reboot \in BOOLEAN : Stop(reboot)
  \/ \E c \in Claims : \/ PrepareAnswered(c) \/ PrepareIntent(c) \/ UnprepareIntent(c)
                       \/ Allocate(c) \/ Deallocate(c) \/ Use(c)

Spec == Init /\ [][Next]_vars

\* A stopped agent is restarted, a transaction runs on, the loop monitors on
\* every tick and kubelet retries a prepare that failed.
Fairness ==
  /\ WF_vars(NewManager)
  /\ WF_vars(PrepareReset) /\ WF_vars(PrepareVerify) /\ WF_vars(UnprepareScrub)
  /\ SF_vars(Monitor)
  /\ \A c \in Claims : SF_vars(PrepareIntent(c))

FairSpec == Spec /\ Fairness

-----------------------------------------------------------------------------
(* What the manager promises *)

\* The device node kubelet injects for a prepared claim is the one of the device
\* the scheduler allocated, across reboots that renumber the cards: a record
\* made for an earlier path is never answered.
GrantedDeviceIsAllocated ==
  \A c \in grant : alloc[c] # NoDevice /\ cdi[c] = at[alloc[c]]

\* A device that carries the state of a claim is owned by it or quarantined in
\* claims.json, even when its path now belongs to another card: the post-use
\* reset reaches the card that was used.
UsedStaysFenced ==
  \A d \in Devices : user[d] # NoUser => user[d] \in Holders(disk, d) \/ d \in disk.quar

\* A new card on the path of a known card that was removed is not offered before
\* it was reset, whichever of the node loop, kubelet's calls and a restart sees
\* it first.
ReplacementScrubbed ==
  [][\A d \in published' \ published, e \in Devices :
       d \in unscrubbed' /\ e # d /\ at[e] = NoPath => disk.known[e] # at[d]]_vars

\* The same wherever the card went that had the path before: a new identity on
\* an existing device path is reset before it is published.  What the documents
\* promise and observeLocked does not keep when the other card was renumbered and a
\* call of kubelet sees the new one first (README, section 5); no run checks it.
PathChangeScrubbed == published \cap unscrubbed = {}

\* A claim that was allocated and not prepared is still not, or cannot be: its
\* device is gone or held by another claim, it has to be released first, or the
\* card moved under its record.
Served(c) ==
  \/ alloc[c] = NoDevice \/ at[alloc[c]] = NoPath
  \/ disk.claims[c].phase \in {"Prepared", "Releasing", "Recovered"}
  \/ Owned(disk, c) /\ disk.claims[c].path # at[alloc[c]]
  \/ Holders(disk, alloc[c]) \ {c} # {}

\* The path of device d is, in Known, still the one of a card that was removed.
Shadowed(d) == \E e \in Devices \ {d} : at[e] = NoPath /\ disk.known[e] = at[d]

\* Kubelet keeps asking and a claim on a plugged-in device is eventually
\* prepared, unless a removed card still has the device's path in Known.
AllocatedPrepares ==
  \A c \in Claims : alloc[c] # NoDevice ~> Served(c) \/ Shadowed(alloc[c])

\* The same for a card that replaced another one on its path: it is quarantined
\* until it was sanitized and seen healthy, and from then on it can be prepared.
ReplacementPrepares == \A c \in Claims : alloc[c] # NoDevice ~> Served(c)
=============================================================================
