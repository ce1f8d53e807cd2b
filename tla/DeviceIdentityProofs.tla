------------------------ MODULE DeviceIdentityProofs ------------------------
(***************************************************************************)
(* Theorems about DeviceIdentity, for any claims, devices, paths and       *)
(* bounds.                                                                 *)
(***************************************************************************)
EXTENDS DeviceIdentity, TLAPS

(***************************************************************************)
(* The inductive invariant.                                                *)
(***************************************************************************)

\* An owned record names a device.
RecordsNamed == \A c \in Claims : Owned(disk, c) => disk.claims[c].dev \in Devices

\* While the agent serves and no call is under way, claims.json holds what it knows.
\* A call that resumes an intent has more quarantined in memory than in the file, and
\* after the preflight reset the file is behind by the quarantine the reset lifted.
Stored ==
  up => /\ mem.claims = disk.claims
        /\ pc = "idle" => mem.known = disk.known /\ mem.quar = disk.quar
        /\ pc # "verify" => disk.quar \subseteq mem.quar
        /\ pc = "verify" => disk.quar \subseteq mem.quar \cup {mem.claims[cur].dev}

\* A transaction runs in a serving agent, on a claim kubelet keeps and the agent
\* owns, that no container runs for.
Running ==
  pc # "idle" => /\ up
                 /\ cur \in Claims \cap held
                 /\ cur \notin grant
                 /\ Owned(disk, cur)

\* A prepare works on the record of a device no other claim holds, for the path
\* the device still has.
PreparingInv ==
  pc \in {"reset", "verify"} =>
    /\ alloc[cur] \in Present(at)
    /\ disk.claims[cur] = [phase |-> "Preparing", dev |-> alloc[cur], path |-> at[alloc[cur]]]
    /\ Holders(disk, alloc[cur]) \subseteq {cur}
    /\ pc = "verify" => user[alloc[cur]] = NoUser

\* A granted claim is recorded as prepared for the path its device has now, and
\* its CDI file names it.
GrantInv ==
  \A c \in grant : /\ c \in held
                   /\ alloc[c] \in Present(at)
                   /\ disk.claims[c] = [phase |-> "Prepared", dev |-> alloc[c], path |-> at[alloc[c]]]
                   /\ cdi[c] = at[alloc[c]]

IdentityInv ==
  /\ TypeOK /\ RecordsNamed /\ Stored /\ Running
  /\ PreparingInv /\ GrantInv /\ UsedStaysFenced

(***************************************************************************)
(* The operators the steps are built from.                                 *)
(***************************************************************************)

\* Observing keeps the state well formed, changes no claim record and lifts no
\* quarantine (observeLocked, manager.go).
LEMMA Observes ==
  ASSUME NEW s \in PersistedState, NEW snap \in Places, NEW r
  PROVE  /\ observeLocked(s, snap, r) \in PersistedState
         /\ observeLocked(s, snap, r).claims = s.claims
         /\ s.quar \subseteq observeLocked(s, snap, r).quar
<1>1. Displacing(s, snap) \subseteq Devices /\ Present(snap) \subseteq Devices
  BY DEF Displacing, Present
<1>2. \A d \in Present(snap) : snap[d] \in Paths \cup {NoPath}
  BY DEF Present, Places
<1>3. s.known \in Places /\ s.quar \subseteq Devices
  BY DEF PersistedState
<1> QED  BY <1>1, <1>2, <1>3 DEF observeLocked, PersistedState, Places

\* Startup reconciliation makes well-formed records that name a device
\* (reconcileStartup, recovery.go).
LEMMA Reconciles ==
  ASSUME NEW rec \in ClaimRecord, NEW d \in Devices \cup {NoDevice}, at \in Places,
         rec.phase # "Absent" => rec.dev \in Devices
  PROVE  /\ ReconciledClaim(rec, d) \in ClaimRecord
         /\ ReconciledClaim(rec, d).phase # "Absent" => ReconciledClaim(rec, d).dev \in Devices
         /\ rec.phase # "Absent" =>
              /\ ReconciledClaim(rec, d).phase # "Absent"
              /\ ReconciledClaim(rec, d).dev = rec.dev
              /\ ReconciledClaim(rec, d).path = rec.path
         /\ rec.phase # "Absent" /\ d # NoDevice => ReconciledClaim(rec, d) = rec
<1>1. CASE rec.phase = "Absent" /\ d # NoDevice
  BY <1>1 DEF ReconciledClaim, ClaimRecord, Phases, Places
<1>2. CASE rec.phase # "Absent" /\ d = NoDevice
  BY <1>2 DEF ReconciledClaim, ClaimRecord, Phases
<1>3. CASE rec.phase = "Absent" /\ d = NoDevice
  BY <1>3 DEF ReconciledClaim
<1>4. CASE rec.phase # "Absent" /\ d # NoDevice
  BY <1>4 DEF ReconciledClaim
<1> QED  BY <1>1, <1>2, <1>3, <1>4

\* A device without a record of its own path cannot be mistaken for another: a
\* path reaches at most one device.
LEMMA ReachesOne ==
  ASSUME at \in Places, Injective(at), NEW d \in Present(at)
  PROVE  Reached({at[d]}) = {d}
BY DEF Reached, Present, Injective

\* The budgets stay in bounds.
LEMMA Bounded ==
  ASSUME spent \in [moves : 0..MaxMoves, restarts : 0..MaxRestarts, faults : 0..MaxFaults]
  PROVE  /\ \A faulty \in BOOLEAN : Fault(faulty) => spent' \in [moves : 0..MaxMoves, restarts : 0..MaxRestarts, faults : 0..MaxFaults]
         /\ spent.moves < MaxMoves =>
              [spent EXCEPT !.moves = @ + 1] \in [moves : 0..MaxMoves, restarts : 0..MaxRestarts, faults : 0..MaxFaults]
         /\ spent.restarts < MaxRestarts =>
              [spent EXCEPT !.restarts = @ + 1] \in [moves : 0..MaxMoves, restarts : 0..MaxRestarts, faults : 0..MaxFaults]
BY BoundsAreNaturals DEF Fault

\* The agent starts with no state, stopped, on a node nobody uses.
LEMMA InitIdentity == Init => IdentityInv
<1> SUFFICES ASSUME Init PROVE IdentityInv
  OBVIOUS
<1>1. EmptyState \in PersistedState
  BY DEF EmptyState, PersistedState, NoRecord, ClaimRecord, Phases, Places
<1>2. TypeOK
  <2>1. at \in Places /\ Injective(at)
    BY DEF Init
  <2>2. cdi \in [Claims -> Paths \cup {NoPath}] /\ alloc \in [Claims -> Devices \cup {NoDevice}]
    BY DEF Init
  <2>3. user \in [Devices -> Claims \cup {NoUser}] /\ unscrubbed \in SUBSET Devices
    BY DEF Init
  <2>4. spent \in [moves : 0..MaxMoves, restarts : 0..MaxRestarts, faults : 0..MaxFaults]
    BY BoundsAreNaturals DEF Init
  <2>. QED  BY <1>1, <2>1, <2>2, <2>3, <2>4 DEF Init, TypeOK
<1>3. RecordsNamed
  BY DEF Init, RecordsNamed, Owned, EmptyState, NoRecord
<1> QED
  BY <1>2, <1>3 DEF Init, IdentityInv, Stored, Running, PreparingInv, GrantInv, UsedStaysFenced

(***************************************************************************)
(* Every step keeps the invariant.                                         *)
(***************************************************************************)

\* The node loop resets a device through the path it has now, so a quarantine
\* it lifts leaves no user behind.
LEMMA MonitorKeeps == ASSUME IdentityInv, Monitor PROVE IdentityInv'
<1> DEFINE s == observeLocked(mem, at, TRUE)
           idle == {d \in Present(at) \cap s.quar : Holders(s, d) = {}}
<1>1. PICK failed \in SUBSET idle :
        /\ Fault(failed # {})
        /\ Reset({at[d] : d \in idle \ failed})
        /\ persist([s EXCEPT !.quar = @ \ (idle \ failed)])
        /\ published' = Present(at) \ (s.quar \ (idle \ failed))
  BY DEF Monitor
<1> DEFINE done == idle \ failed
<1> HIDE DEF s
<1>2. up /\ pc = "idle" /\ UNCHANGED <<cdi, up, pc, cur, alloc, held, grant>>
  BY DEF Monitor
<1>3. TypeOK /\ RecordsNamed /\ GrantInv /\ UsedStaysFenced /\ mem = disk
  BY <1>2 DEF IdentityInv, Stored, TypeOK, PersistedState
<1>4. s \in PersistedState /\ s.claims = disk.claims /\ disk.quar \subseteq s.quar
  BY <1>3, Observes DEF s, TypeOK
<1>5. /\ mem' \in PersistedState /\ disk' = mem'
      /\ disk'.claims = disk.claims /\ disk'.quar = s.quar \ done
  BY <1>1, <1>4 DEF persist, PersistedState
<1>6. /\ at' = at /\ unscrubbed' \in SUBSET Devices
      /\ user' \in [Devices -> Claims \cup {NoUser}]
      /\ \A d \in Devices : user'[d] # NoUser => user'[d] = user[d] /\ d \notin done
  BY <1>1, <1>3 DEF Reset, TypeOK, Reached, Present
<1>7. published' \in SUBSET Devices /\ (failed # {}) \in BOOLEAN
  BY <1>1 DEF Present
<1>8. TypeOK'
  BY <1>1, <1>2, <1>3, <1>5, <1>6, <1>7, Bounded DEF TypeOK
<1>9. UsedStaysFenced'
  BY <1>3, <1>4, <1>5, <1>6 DEF UsedStaysFenced, Holders, Owned
<1>10. GrantInv'
  BY <1>2, <1>3, <1>5, <1>6 DEF GrantInv, Present
<1> QED
  BY <1>2, <1>3, <1>5, <1>8, <1>9, <1>10
     DEF IdentityInv, RecordsNamed, Stored, Running, PreparingInv, Owned

\* A call that is refused, or answered from its record, grants a claim only when
\* the record is for the path the device has now (Prepare, manager.go).
LEMMA PrepareAnsweredKeeps ==
  ASSUME IdentityInv, NEW c \in Claims, PrepareAnswered(c) PROVE IdentityInv'
<1> DEFINE s == observeLocked(mem, at, FALSE)
           rec == s.claims[c]
           good == /\ claimFromAllocation(s, c)
                   /\ rec.phase = "Prepared" /\ sameClaim(rec, alloc[c], at[alloc[c]])
                   /\ alloc[c] \notin s.quar
<1>1. /\ up /\ pc = "idle" /\ persist(s)
      /\ cdi' = IF good THEN [cdi EXCEPT ![c] = rec.path] ELSE cdi
      /\ grant' = IF good THEN grant \cup {c} ELSE grant
      /\ held' = held \cup {c}
      /\ UNCHANGED <<nodeVars, up, pc, cur, published, alloc, spent>>
  BY DEF PrepareAnswered
<1> HIDE DEF s
<1>2. TypeOK /\ RecordsNamed /\ GrantInv /\ UsedStaysFenced /\ mem = disk
  BY <1>1 DEF IdentityInv, Stored, TypeOK, PersistedState
<1>3. s \in PersistedState /\ s.claims = disk.claims /\ disk.quar \subseteq s.quar
  BY <1>2, Observes DEF s, TypeOK
<1>4. rec \in ClaimRecord
  BY <1>3 DEF PersistedState
<1>5. good => /\ alloc[c] \in Present(at)
              /\ rec = [phase |-> "Prepared", dev |-> alloc[c], path |-> at[alloc[c]]]
  BY <1>2, <1>4 DEF claimFromAllocation, sameClaim, Present, ClaimRecord, TypeOK
<1>6. mem' = s /\ disk' = s /\ at' = at
  BY <1>1 DEF persist, nodeVars
<1>7. TypeOK'
  <2>1. cdi' \in [Claims -> Paths \cup {NoPath}]
    BY <1>1, <1>2, <1>4 DEF TypeOK, ClaimRecord
  <2> QED  BY <1>1, <1>2, <1>3, <1>6, <2>1 DEF TypeOK, nodeVars
<1>8. GrantInv'
  <2> SUFFICES ASSUME NEW x \in grant'
               PROVE  /\ x \in held' /\ alloc'[x] \in Present(at')
                      /\ disk'.claims[x] = [phase |-> "Prepared", dev |-> alloc'[x], path |-> at'[alloc'[x]]]
                      /\ cdi'[x] = at'[alloc'[x]]
    BY DEF GrantInv, Present
  <2>1. CASE x = c /\ good
    BY <2>1, <1>1, <1>2, <1>5, <1>6 DEF TypeOK
  <2>2. CASE ~(x = c /\ good)
    BY <2>2, <1>1, <1>2, <1>3, <1>5, <1>6 DEF GrantInv, TypeOK
  <2> QED  BY <2>1, <2>2
<1>9. UsedStaysFenced'
  BY <1>1, <1>2, <1>3, <1>6 DEF UsedStaysFenced, Holders, Owned, nodeVars
<1> QED
  BY <1>1, <1>2, <1>3, <1>6, <1>7, <1>8, <1>9
     DEF IdentityInv, RecordsNamed, Stored, Running, PreparingInv, Owned

\* A prepare starts on a device nobody else holds, with a record of the path it
\* has now.
LEMMA PrepareIntentKeeps ==
  ASSUME IdentityInv, NEW c \in Claims, PrepareIntent(c) PROVE IdentityInv'
<1> DEFINE s == observeLocked(mem, at, FALSE)
           rec == s.claims[c]
           new == [phase |-> "Preparing", dev |-> alloc[c], path |-> at[alloc[c]]]
<1>1. /\ up /\ pc = "idle" /\ claimFromAllocation(s, c)
      /\ \/ ~Owned(s, c) /\ persist([s EXCEPT !.claims[c] = new])
         \/ /\ rec.phase = "Preparing" /\ sameClaim(rec, alloc[c], at[alloc[c]])
            /\ mem' = s /\ disk' = disk
      /\ pc' = "reset" /\ cur' = c /\ held' = held \cup {c}
      /\ UNCHANGED <<nodeVars, cdi, up, published, alloc, grant, spent>>
  BY DEF PrepareIntent
<1> HIDE DEF s
<1>2. TypeOK /\ RecordsNamed /\ GrantInv /\ UsedStaysFenced /\ mem = disk
  BY <1>1 DEF IdentityInv, Stored, TypeOK, PersistedState
<1>3. s \in PersistedState /\ s.claims = disk.claims /\ disk.quar \subseteq s.quar
  BY <1>2, Observes DEF s, TypeOK
<1>4. rec \in ClaimRecord /\ alloc[c] \in Present(at) /\ new \in ClaimRecord
  BY <1>1, <1>2, <1>3 DEF PersistedState, claimFromAllocation, Present, TypeOK, ClaimRecord, Phases, Places
<1>5. Owned(s, c) => rec = new
  BY <1>1, <1>4 DEF Owned, sameClaim, ClaimRecord
<1>6. /\ mem' \in PersistedState /\ disk' \in PersistedState /\ at' = at /\ user' = user
      /\ mem'.claims = disk'.claims /\ disk.quar \subseteq disk'.quar /\ disk'.quar \subseteq mem'.quar
      /\ disk'.claims[c] = new
      /\ \A x \in Claims \ {c} : disk'.claims[x] = disk.claims[x]
  <2>1. CASE ~Owned(s, c) /\ persist([s EXCEPT !.claims[c] = new])
    BY <2>1, <1>1, <1>3, <1>4 DEF persist, PersistedState, nodeVars
  <2>2. CASE Owned(s, c) /\ mem' = s /\ disk' = disk
    BY <2>2, <1>1, <1>2, <1>3, <1>5 DEF TypeOK, nodeVars
  <2> QED  BY <1>1, <2>1, <2>2 DEF Owned
<1>7. c \notin grant
  <2>1. c \in grant => disk.claims[c] = [new EXCEPT !.phase = "Prepared"]
    BY <1>2 DEF GrantInv
  <2>2. rec.phase \in {"Absent", "Preparing"} /\ rec = disk.claims[c]
    BY <1>1, <1>3 DEF Owned
  <2> QED  BY <2>1, <2>2, [new EXCEPT !.phase = "Prepared"].phase = "Prepared"
<1>8. TypeOK'
  BY <1>1, <1>2, <1>6 DEF TypeOK, nodeVars
<1>9. RecordsNamed'
  BY <1>2, <1>4, <1>6 DEF RecordsNamed, Owned, Present
<1>10. GrantInv'
  BY <1>1, <1>2, <1>6, <1>7 DEF GrantInv, Present, TypeOK
<1>11. UsedStaysFenced'
  <2> SUFFICES ASSUME NEW d \in Devices, user[d] # NoUser
               PROVE  user[d] \in Holders(disk, d)' \/ d \in disk'.quar
    BY <1>6 DEF UsedStaysFenced
  <2>1. CASE d \in disk.quar
    BY <2>1, <1>3, <1>6
  <2>2. CASE user[d] \in Holders(disk, d)
    BY <2>2, <1>3, <1>5, <1>6 DEF Holders, Owned
  <2> QED  BY <1>2, <2>1, <2>2 DEF UsedStaysFenced
<1>12. PreparingInv'
  <2>1. Holders(s, alloc[c]) \subseteq {c}
    BY <1>1 DEF claimFromAllocation
  <2>2. Holders(disk, alloc[c])' \subseteq {c}
    BY <2>1, <1>1, <1>3, <1>6 DEF Holders, Owned
  <2> QED  BY <1>1, <1>4, <1>6, <2>2 DEF PreparingInv, Present
<1>13. Running' /\ Stored'
  BY <1>1, <1>6, <1>7 DEF Running, Stored, Owned
<1> QED
  BY <1>8, <1>9, <1>10, <1>11, <1>12, <1>13 DEF IdentityInv

\* The preflight reset reaches the recorded device, whose path has not changed
\* since the record was made or compared.
LEMMA PrepareResetKeeps == ASSUME IdentityInv, PrepareReset PROVE IdentityInv'
<1> DEFINE rec == mem.claims[cur]
<1>1. pc = "reset" /\ UNCHANGED <<cdi, up, clusterVars, grant>>
  BY DEF PrepareReset
<1>2. /\ TypeOK /\ RecordsNamed /\ GrantInv /\ UsedStaysFenced
      /\ mem.claims = disk.claims /\ disk.quar \subseteq mem.quar
      /\ up /\ cur \in Claims /\ cur \in held /\ cur \notin grant /\ Owned(disk, cur)
      /\ alloc[cur] \in Present(at)
      /\ rec = [phase |-> "Preparing", dev |-> alloc[cur], path |-> at[alloc[cur]]]
      /\ Holders(disk, alloc[cur]) \subseteq {cur}
  BY <1>1 DEF IdentityInv, Stored, Running, PreparingInv, TypeOK, PersistedState
<1>3. alloc[cur] \in Devices /\ rec.dev = alloc[cur] /\ rec.path = at[alloc[cur]]
  BY <1>2 DEF Present
<1>4. Reached({rec.path}) = {alloc[cur]}
  BY <1>2, <1>3, ReachesOne DEF TypeOK
<1>5. CASE /\ Fault(FALSE) /\ Reset({rec.path})
           /\ mem' = [mem EXCEPT !.quar = @ \ {rec.dev}]
           /\ pc' = "verify" /\ UNCHANGED <<disk, cur>>
  <2>1. /\ mem' \in PersistedState /\ mem'.claims = disk.claims
        /\ disk.quar \subseteq mem'.quar \cup {alloc[cur]}
    BY <1>2, <1>3, <1>5 DEF TypeOK, PersistedState
  <2>2. /\ at' = at /\ unscrubbed' \in SUBSET Devices
        /\ user' \in [Devices -> Claims \cup {NoUser}]
        /\ user'[alloc[cur]] = NoUser
        /\ \A d \in Devices : user'[d] # NoUser => user'[d] = user[d]
    BY <1>2, <1>3, <1>4, <1>5 DEF Reset, TypeOK
  <2>3. TypeOK'
    BY <1>1, <1>2, <1>5, <2>1, <2>2, Bounded DEF TypeOK, clusterVars
  <2>4. UsedStaysFenced'
    BY <1>2, <1>5, <2>2 DEF UsedStaysFenced, Holders, Owned
  <2>5. GrantInv'
    BY <1>1, <1>2, <1>5, <2>2 DEF GrantInv, Present, clusterVars
  <2>6. PreparingInv'
    BY <1>1, <1>2, <1>5, <2>2 DEF PreparingInv, Present, Holders, Owned, clusterVars
  <2>7. Stored' /\ Running' /\ RecordsNamed'
    BY <1>1, <1>2, <1>3, <1>5, <2>1 DEF Stored, Running, RecordsNamed, Owned, clusterVars
  <2> QED  BY <2>3, <2>4, <2>5, <2>6, <2>7 DEF IdentityInv
<1>6. CASE /\ Fault(Reached({rec.path}) # {})
           /\ persist([mem EXCEPT !.quar = @ \cup {rec.dev}])
           /\ pc' = "idle" /\ cur' = NoUser
           /\ UNCHANGED nodeVars
  <2>1. /\ mem' \in PersistedState /\ disk' = mem' /\ disk'.claims = disk.claims
        /\ disk.quar \subseteq disk'.quar
    BY <1>2, <1>3, <1>6 DEF TypeOK, PersistedState, persist
  <2>2. TypeOK'
    BY <1>1, <1>2, <1>6, <2>1, Bounded DEF TypeOK, clusterVars, nodeVars
  <2>3. UsedStaysFenced'
    BY <1>2, <1>6, <2>1 DEF UsedStaysFenced, Holders, Owned, nodeVars
  <2>4. GrantInv'
    BY <1>1, <1>2, <1>6, <2>1 DEF GrantInv, Present, clusterVars, nodeVars
  <2>5. PreparingInv' /\ Stored' /\ Running' /\ RecordsNamed'
    BY <1>1, <1>2, <1>6, <2>1 DEF PreparingInv, Stored, Running, RecordsNamed, Owned
  <2> QED  BY <2>2, <2>3, <2>4, <2>5 DEF IdentityInv
<1> QED
  BY <1>5, <1>6 DEF PrepareReset

\* A prepare grants the device it has just reset, on the path it still has; the
\* quarantine the reset lifted comes back when the second observation refuses it.
LEMMA PrepareVerifyKeeps == ASSUME IdentityInv, PrepareVerify PROVE IdentityInv'
<1> DEFINE s == observeLocked(mem, at, FALSE)
           rec == s.claims[cur]
           good == rec.dev \in Present(at) \ s.quar
<1>1. /\ pc = "verify" /\ pc' = "idle" /\ cur' = NoUser
      /\ persist(IF good THEN [s EXCEPT !.claims[cur].phase = "Prepared"]
                 ELSE [s EXCEPT !.quar = @ \cup {rec.dev}])
      /\ cdi' = IF good THEN [cdi EXCEPT ![cur] = rec.path] ELSE cdi
      /\ grant' = IF good THEN grant \cup {cur} ELSE grant
      /\ UNCHANGED <<nodeVars, up, clusterVars, spent>>
  BY DEF PrepareVerify
<1> HIDE DEF s
<1>2. /\ TypeOK /\ RecordsNamed /\ GrantInv /\ UsedStaysFenced
      /\ mem.claims = disk.claims
      /\ disk.quar \subseteq mem.quar \cup {mem.claims[cur].dev}
      /\ up /\ cur \in Claims /\ cur \in held /\ cur \notin grant
      /\ alloc[cur] \in Present(at)
      /\ mem.claims[cur] = [phase |-> "Preparing", dev |-> alloc[cur], path |-> at[alloc[cur]]]
      /\ user[alloc[cur]] = NoUser
  BY <1>1 DEF IdentityInv, Stored, Running, PreparingInv
<1>3. s \in PersistedState /\ s.claims = disk.claims /\ disk.quar \subseteq s.quar \cup {alloc[cur]}
  <2>1. mem.claims[cur].dev = alloc[cur]
    BY <1>2
  <2>2. s \in PersistedState /\ s.claims = mem.claims /\ mem.quar \subseteq s.quar
    BY <1>2, Observes DEF s, TypeOK
  <2> QED  BY <1>2, <2>1, <2>2
<1>4. /\ alloc[cur] \in Devices /\ rec \in ClaimRecord
      /\ rec.phase = "Preparing" /\ rec.dev = alloc[cur] /\ rec.path = at[alloc[cur]]
  BY <1>2, <1>3 DEF Present, PersistedState
<1>5. /\ mem' \in PersistedState /\ disk' = mem' /\ at' = at /\ user' = user
      /\ s.quar \subseteq disk'.quar
      /\ \A x \in Claims \ {cur} : disk'.claims[x] = disk.claims[x]
      /\ disk'.claims[cur].dev = alloc[cur] /\ disk'.claims[cur].phase # "Absent"
      /\ good => disk'.claims[cur] = [phase |-> "Prepared", dev |-> alloc[cur], path |-> at[alloc[cur]]]
  <2>1. CASE good
    <3>1. disk' = [s EXCEPT !.claims = [s.claims EXCEPT ![cur] = [rec EXCEPT !.phase = "Prepared"]]]
      BY <2>1, <1>1, <1>3, <1>4 DEF persist, PersistedState
    <3>2. /\ [rec EXCEPT !.phase = "Prepared"] \in ClaimRecord
          /\ [rec EXCEPT !.phase = "Prepared"] = [phase |-> "Prepared", dev |-> alloc[cur], path |-> at[alloc[cur]]]
      BY <1>4 DEF ClaimRecord, Phases
    <3> HIDE DEF rec
    <3> QED  BY <2>1, <1>1, <1>2, <1>3, <3>1, <3>2 DEF persist, PersistedState, nodeVars
  <2>2. CASE ~good
    BY <2>2, <1>1, <1>2, <1>3, <1>4 DEF persist, PersistedState, nodeVars
  <2> QED  BY <2>1, <2>2
<1>6. TypeOK'
  BY <1>1, <1>2, <1>4, <1>5 DEF TypeOK, nodeVars, clusterVars, ClaimRecord
<1>7. RecordsNamed'
  BY <1>2, <1>4, <1>5 DEF RecordsNamed, Owned
<1>8. GrantInv'
  <2> SUFFICES ASSUME NEW x \in grant'
               PROVE  /\ x \in held' /\ alloc'[x] \in Present(at')
                      /\ disk'.claims[x] = [phase |-> "Prepared", dev |-> alloc'[x], path |-> at'[alloc'[x]]]
                      /\ cdi'[x] = at'[alloc'[x]]
    BY DEF GrantInv, Present
  <2>1. CASE x = cur
    BY <2>1, <1>1, <1>2, <1>4, <1>5 DEF TypeOK, clusterVars
  <2>2. CASE x # cur
    BY <2>2, <1>1, <1>2, <1>4, <1>5 DEF GrantInv, TypeOK, clusterVars
  <2> QED  BY <2>1, <2>2
<1>9. UsedStaysFenced'
  <2> SUFFICES ASSUME NEW d \in Devices, user[d] # NoUser
               PROVE  user[d] \in Holders(disk, d)' \/ d \in disk'.quar
    BY <1>5 DEF UsedStaysFenced
  <2>1. CASE d \in disk.quar
    BY <2>1, <1>2, <1>3, <1>5
  <2>2. CASE user[d] \in Holders(disk, d)
    <3>1. user[d] = cur => d = alloc[cur]
      BY <2>2, <1>3, <1>4 DEF Holders
    <3> QED  BY <2>2, <3>1, <1>2, <1>5 DEF Holders, Owned
  <2> QED  BY <1>2, <2>1, <2>2 DEF UsedStaysFenced
<1> QED
  BY <1>1, <1>2, <1>5, <1>6, <1>7, <1>8, <1>9 DEF IdentityInv, Stored, Running, PreparingInv, nodeVars

\* An unprepare begins when the containers are gone: the claim is not granted any
\* more, its device stays owned.
LEMMA UnprepareIntentKeeps ==
  ASSUME IdentityInv, NEW c \in Claims, UnprepareIntent(c) PROVE IdentityInv'
<1> DEFINE s == observeLocked(mem, at, FALSE)
<1>1. /\ up /\ pc = "idle" /\ c \in held /\ grant' = grant \ {c}
      /\ UNCHANGED <<nodeVars, cdi, up, published, alloc, spent>>
      /\ \/ /\ Owned(s, c)
            /\ \/ persist([s EXCEPT !.claims[c].phase = "Releasing"])
               \/ mem' = s /\ disk' = disk
            /\ pc' = "scrub" /\ cur' = c /\ held' = held
         \/ /\ ~Owned(s, c) /\ persist(s)
            /\ held' = held \ {c} /\ pc' = pc /\ cur' = cur
  BY DEF UnprepareIntent
<1> HIDE DEF s
<1>2. TypeOK /\ RecordsNamed /\ GrantInv /\ UsedStaysFenced /\ mem = disk
  BY <1>1 DEF IdentityInv, Stored, TypeOK, PersistedState
<1>3. s \in PersistedState /\ s.claims = disk.claims /\ disk.quar \subseteq s.quar
  BY <1>2, Observes DEF s, TypeOK
<1>4. /\ mem' \in PersistedState /\ disk' \in PersistedState /\ mem'.claims = disk'.claims
      /\ disk.quar \subseteq disk'.quar /\ disk'.quar \subseteq mem'.quar
      /\ pc' = "idle" => mem' = disk'
      /\ \A x \in Claims : /\ disk'.claims[x].dev = disk.claims[x].dev
                           /\ disk'.claims[x].phase = "Absent" <=> disk.claims[x].phase = "Absent"
                           /\ x # c => disk'.claims[x] = disk.claims[x]
  <2>1. CASE Owned(s, c) /\ persist([s EXCEPT !.claims[c].phase = "Releasing"])
    <3>1. disk' = [s EXCEPT !.claims = [s.claims EXCEPT ![c] = [s.claims[c] EXCEPT !.phase = "Releasing"]]]
      BY <2>1, <1>3 DEF persist, PersistedState
    <3>2. /\ [s.claims[c] EXCEPT !.phase = "Releasing"] \in ClaimRecord
          /\ [s.claims[c] EXCEPT !.phase = "Releasing"].dev = s.claims[c].dev
          /\ [s.claims[c] EXCEPT !.phase = "Releasing"].phase = "Releasing"
      BY <1>3 DEF PersistedState, ClaimRecord, Phases
    <3> QED  BY <2>1, <1>3, <3>1, <3>2 DEF persist, PersistedState, Owned
  <2>2. CASE persist(s)
    BY <2>2, <1>3 DEF persist, Owned
  <2>3. CASE mem' = s /\ disk' = disk /\ pc' = "scrub"
    BY <2>3, <1>2, <1>3 DEF TypeOK
  <2> QED  BY <1>1, <2>1, <2>2, <2>3
<1>5. TypeOK'
  BY <1>1, <1>2, <1>4 DEF TypeOK, nodeVars
<1>6. RecordsNamed'
  BY <1>2, <1>4 DEF RecordsNamed, Owned
<1>7. GrantInv'
  <2>1. \A x \in grant' : x \in grant /\ x \in held' /\ disk'.claims[x] = disk.claims[x]
    BY <1>1, <1>2, <1>4 DEF GrantInv, TypeOK
  <2> QED  BY <2>1, <1>1, <1>2 DEF GrantInv, Present, nodeVars
<1>8. UsedStaysFenced'
  BY <1>1, <1>2, <1>3, <1>4 DEF UsedStaysFenced, Holders, Owned, nodeVars
<1>9. Running' /\ Stored' /\ PreparingInv'
  BY <1>1, <1>2, <1>3, <1>4 DEF Running, Stored, PreparingInv, Owned
<1> QED
  BY <1>5, <1>6, <1>7, <1>8, <1>9 DEF IdentityInv

\* The post-use reset goes through the path the device has now, so the card that
\* was used is clean when its record goes.
LEMMA UnprepareScrubKeeps == ASSUME IdentityInv, UnprepareScrub PROVE IdentityInv'
<1> DEFINE rec == mem.claims[cur]
<1>1. pc = "scrub" /\ pc' = "idle" /\ cur' = NoUser /\ UNCHANGED <<up, published, alloc, grant>>
  BY DEF UnprepareScrub
<1>2. /\ TypeOK /\ RecordsNamed /\ GrantInv /\ UsedStaysFenced
      /\ mem.claims = disk.claims /\ disk.quar \subseteq mem.quar
      /\ up /\ cur \in Claims /\ cur \notin grant /\ Owned(disk, cur)
  BY <1>1 DEF IdentityInv, Stored, Running, TypeOK, PersistedState
<1>3. rec.dev \in Devices
  BY <1>2 DEF RecordsNamed
<1>4. CASE /\ rec.dev \in Present(at) /\ Fault(FALSE) /\ Reset({ScrubPath(rec)})
           /\ persist([mem EXCEPT !.quar = @ \ {rec.dev}, !.claims[cur] = NoRecord])
           /\ cdi' = [cdi EXCEPT ![cur] = NoPath]
           /\ held' = held \ {cur}
  <2>1. /\ mem' \in PersistedState /\ disk' = mem'
        /\ disk.quar \subseteq disk'.quar \cup {rec.dev} /\ disk'.claims[cur] = NoRecord
        /\ \A x \in Claims \ {cur} : disk'.claims[x] = disk.claims[x]
    BY <1>2, <1>4 DEF TypeOK, PersistedState, persist, NoRecord, ClaimRecord, Phases
  <2>2. Reached({ScrubPath(rec)}) = {rec.dev}
    BY <1>2, <1>4, ReachesOne DEF TypeOK, ScrubPath
  <2>3. /\ at' = at /\ unscrubbed' \in SUBSET Devices
        /\ user' \in [Devices -> Claims \cup {NoUser}]
        /\ user'[rec.dev] = NoUser
        /\ \A d \in Devices : user'[d] # NoUser => user'[d] = user[d]
    BY <1>2, <1>3, <1>4, <2>2 DEF Reset, TypeOK
  <2>4. TypeOK'
    BY <1>1, <1>2, <1>4, <2>1, <2>3, Bounded DEF TypeOK
  <2>5. RecordsNamed'
    BY <1>2, <2>1 DEF RecordsNamed, Owned, NoRecord
  <2>6. GrantInv'
    BY <1>1, <1>2, <1>4, <2>1, <2>3 DEF GrantInv, Present, TypeOK
  <2>7. UsedStaysFenced'
    <3> SUFFICES ASSUME NEW d \in Devices, user'[d] # NoUser
                 PROVE  user'[d] \in Holders(disk, d)' \/ d \in disk'.quar
      BY DEF UsedStaysFenced
    <3>1. d # rec.dev /\ user'[d] = user[d]
      BY <2>3
    <3>2. d \in disk.quar \/ (user[d] \in Holders(disk, d) /\ user[d] # cur)
      BY <3>1, <1>2 DEF UsedStaysFenced, Holders
    <3> QED  BY <2>1, <3>1, <3>2 DEF Holders, Owned
  <2> QED
    BY <1>1, <2>1, <2>4, <2>5, <2>6, <2>7 DEF IdentityInv, Stored, Running, PreparingInv
<1>5. CASE /\ Fault(rec.dev \in Present(at))
           /\ persist([mem EXCEPT !.quar = @ \cup {rec.dev}])
           /\ UNCHANGED <<nodeVars, cdi, held>>
  <2>1. /\ mem' \in PersistedState /\ disk' = mem' /\ disk'.claims = disk.claims
        /\ disk.quar \subseteq disk'.quar
    BY <1>2, <1>3, <1>5 DEF TypeOK, PersistedState, persist
  <2>2. TypeOK'
    <3>1. (rec.dev \in Present(at)) \in BOOLEAN
      OBVIOUS
    <3>2. spent' \in [moves : 0..MaxMoves, restarts : 0..MaxRestarts, faults : 0..MaxFaults]
      BY <1>2, <1>5, <3>1, Bounded DEF TypeOK
    <3> QED  BY <1>1, <1>2, <1>5, <2>1, <3>2 DEF TypeOK, nodeVars
  <2>3. UsedStaysFenced'
    BY <1>2, <1>5, <2>1 DEF UsedStaysFenced, Holders, Owned, nodeVars
  <2>4. GrantInv'
    BY <1>1, <1>2, <1>5, <2>1 DEF GrantInv, Present, nodeVars
  <2>5. PreparingInv' /\ Stored' /\ Running' /\ RecordsNamed'
    BY <1>1, <1>2, <2>1 DEF PreparingInv, Stored, Running, RecordsNamed, Owned
  <2> QED  BY <2>2, <2>3, <2>4, <2>5 DEF IdentityInv
<1> QED
  BY <1>4, <1>5 DEF UnprepareScrub

\* A restart keeps the records the file has and quarantines more than it did
\* (NewManager, manager.go).
LEMMA NewManagerKeeps == ASSUME IdentityInv, NewManager PROVE IdentityInv'
<1> DEFINE claims == [c \in Claims |-> ReconciledClaim(disk.claims[c], alloc[c])]
           suspect == {claims[c].dev : c \in
                         {x \in Claims : /\ claims[x].phase # "Absent"
                                         /\ \/ claims[x].phase # "Prepared"
                                            \/ at[claims[x].dev] = NoPath
                                            \/ at[claims[x].dev] # claims[x].path}}
<1>1. /\ ~up /\ up' = TRUE
      /\ persist([disk EXCEPT !.claims = claims, !.quar = @ \cup suspect])
      /\ cdi' = [c \in Claims |-> IF claims[c].phase = "Absent" THEN NoPath
                                  ELSE IF claims[c].path # NoPath THEN claims[c].path
                                  ELSE cdi[c]]
      /\ UNCHANGED <<nodeVars, pc, cur, clusterVars, grant, spent>>
  BY DEF NewManager
<1>2. TypeOK /\ RecordsNamed /\ GrantInv /\ UsedStaysFenced /\ pc = "idle"
  BY <1>1 DEF IdentityInv, Running
<1>3. \A c \in Claims :
        /\ claims[c] \in ClaimRecord
        /\ claims[c].phase # "Absent" => claims[c].dev \in Devices
        /\ Owned(disk, c) => claims[c].phase # "Absent" /\ claims[c].dev = disk.claims[c].dev
        /\ Owned(disk, c) /\ alloc[c] # NoDevice => claims[c] = disk.claims[c]
  BY <1>2, Reconciles DEF TypeOK, PersistedState, RecordsNamed, Owned
<1>4. claims \in [Claims -> ClaimRecord]
  BY <1>3
<1> HIDE DEF claims
<1>5. suspect \subseteq Devices
  BY <1>3
<1> HIDE DEF suspect
<1>6. /\ mem' \in PersistedState /\ disk' = mem'
      /\ disk'.claims = claims /\ disk.quar \subseteq disk'.quar
  BY <1>1, <1>2, <1>4, <1>5 DEF TypeOK, PersistedState, persist
<1>7. cdi' \in [Claims -> Paths \cup {NoPath}]
  BY <1>1, <1>2, <1>3 DEF TypeOK, ClaimRecord
<1>8. TypeOK'
  BY <1>1, <1>2, <1>6, <1>7 DEF TypeOK, nodeVars, clusterVars
<1>9. RecordsNamed'
  BY <1>3, <1>6 DEF RecordsNamed, Owned
<1>10. GrantInv'
  <2> SUFFICES ASSUME NEW x \in grant
               PROVE  /\ x \in held /\ alloc[x] \in Present(at)
                      /\ disk'.claims[x] = [phase |-> "Prepared", dev |-> alloc[x], path |-> at[alloc[x]]]
                      /\ cdi'[x] = at[alloc[x]]
    BY <1>1 DEF GrantInv, Present, nodeVars, clusterVars
  <2>1. /\ x \in Claims /\ x \in held /\ alloc[x] \in Devices /\ at[alloc[x]] # NoPath
        /\ disk.claims[x] = [phase |-> "Prepared", dev |-> alloc[x], path |-> at[alloc[x]]]
    BY <1>2 DEF GrantInv, Present, TypeOK
  <2>2. disk.claims[x].phase = "Prepared" /\ disk.claims[x].path = at[alloc[x]]
    BY <2>1
  <2>3. claims[x] = disk.claims[x]
    BY <1>3, <2>1, <2>2, NonesAreNone DEF Owned
  <2>4. cdi'[x] = at[alloc[x]]
    BY <1>1, <2>1, <2>2, <2>3
  <2> QED  BY <1>6, <2>1, <2>3, <2>4 DEF Present
<1>11. UsedStaysFenced'
  BY <1>1, <1>2, <1>3, <1>6 DEF UsedStaysFenced, Holders, Owned, nodeVars
<1> QED
  BY <1>1, <1>2, <1>6, <1>8, <1>9, <1>10, <1>11
     DEF IdentityInv, Stored, Running, PreparingInv

\* What a crash takes with it was not in the file.
LEMMA StopKeeps == ASSUME IdentityInv, NEW reboot \in BOOLEAN, Stop(reboot) PROVE IdentityInv'
<1>1. /\ up' = FALSE /\ pc' = "idle" /\ cur' = NoUser /\ mem' = EmptyState
      /\ spent.restarts < MaxRestarts /\ spent' = [spent EXCEPT !.restarts = @ + 1]
      /\ grant' \subseteq grant
      /\ UNCHANGED <<nodeVars, disk, cdi, clusterVars>>
  BY DEF Stop
<1>2. TypeOK /\ RecordsNamed /\ GrantInv /\ UsedStaysFenced
  BY DEF IdentityInv
<1>3. EmptyState \in PersistedState
  BY DEF EmptyState, PersistedState, NoRecord, ClaimRecord, Phases, Places
<1>4. TypeOK'
  BY <1>1, <1>2, <1>3, Bounded DEF TypeOK, nodeVars, clusterVars
<1>5. RecordsNamed' /\ UsedStaysFenced'
  BY <1>1, <1>2 DEF RecordsNamed, UsedStaysFenced, Holders, Owned, nodeVars
<1>6. GrantInv'
  BY <1>1, <1>2 DEF GrantInv, Present, nodeVars, clusterVars
<1> QED
  BY <1>1, <1>4, <1>5, <1>6 DEF IdentityInv, Stored, Running, PreparingInv

\* Hardware moves while the agent is stopped and no container runs: no grant and
\* no transaction refers to a path.
LEMMA RewireKeeps == ASSUME IdentityInv, Rewire PROVE IdentityInv'
<1>1. /\ ~up /\ grant = {} /\ spent.moves < MaxMoves
      /\ spent' = [spent EXCEPT !.moves = @ + 1]
      /\ at' \in Places /\ Injective(at') /\ unscrubbed' \in SUBSET Devices
      /\ UNCHANGED <<stateVars, up, pc, cur, clusterVars, grant, user>>
  BY DEF Rewire, Present
<1>2. TypeOK /\ RecordsNamed /\ UsedStaysFenced /\ pc = "idle"
  BY <1>1 DEF IdentityInv, Running
<1>3. TypeOK'
  BY <1>1, <1>2, Bounded DEF TypeOK, stateVars, clusterVars, Injective, Present
<1>4. RecordsNamed' /\ UsedStaysFenced'
  BY <1>1, <1>2 DEF RecordsNamed, UsedStaysFenced, Holders, Owned, stateVars
<1> QED
  BY <1>1, <1>2, <1>3, <1>4 DEF IdentityInv, Stored, Running, PreparingInv, GrantInv

\* The scheduler takes no device from a claim kubelet keeps.
LEMMA SchedulerKeeps ==
  ASSUME IdentityInv, NEW c \in Claims, Allocate(c) \/ Deallocate(c) PROVE IdentityInv'
<1>1. /\ c \notin held \/ alloc[c] = NoDevice
      /\ alloc' \in [Claims -> Devices \cup {NoDevice}]
      /\ \A x \in Claims \ {c} : alloc'[x] = alloc[x]
      /\ UNCHANGED <<nodeVars, stateVars, up, pc, cur, published, held, grant, spent>>
  <2>1. CASE Allocate(c)
    <3>1. PICK d \in published : alloc' = [alloc EXCEPT ![c] = d]
      BY <2>1 DEF Allocate
    <3> QED  BY <2>1, <3>1 DEF Allocate, IdentityInv, TypeOK
  <2>2. CASE Deallocate(c)
    BY <2>2 DEF Deallocate, IdentityInv, TypeOK
  <2> QED  BY <2>1, <2>2
<1>2. TypeOK /\ RecordsNamed /\ Stored /\ Running /\ PreparingInv /\ GrantInv /\ UsedStaysFenced
  BY DEF IdentityInv
<1>3. TypeOK'
  BY <1>1, <1>2 DEF TypeOK, nodeVars, stateVars
<1>4. GrantInv' /\ PreparingInv'
  <2>1. \A x \in grant : x # c /\ x \in Claims
    <3>1. \A x \in grant : x \in held /\ alloc[x] \in Devices /\ x \in Claims
      BY <1>2 DEF GrantInv, Present, TypeOK
    <3> QED  BY <3>1, <1>1, NonesAreNone
  <2>2. GrantInv'
    BY <2>1, <1>1, <1>2 DEF GrantInv, Present, nodeVars, stateVars
  <2>3. pc \in {"reset", "verify"} => cur # c /\ cur \in Claims
    BY <1>1, <1>2, NonesAreNone DEF Running, PreparingInv, Present
  <2>4. PreparingInv'
    BY <2>3, <1>1, <1>2 DEF PreparingInv, Present, Holders, Owned, nodeVars, stateVars
  <2> QED  BY <2>2, <2>4
<1>5. RecordsNamed' /\ Stored' /\ Running' /\ UsedStaysFenced'
  BY <1>1, <1>2 DEF RecordsNamed, Stored, Running, UsedStaysFenced, Holders, Owned, nodeVars, stateVars
<1> QED
  BY <1>3, <1>4, <1>5 DEF IdentityInv

\* Containers use the card their CDI file names, which is the one their claim
\* owns and nobody prepares.
LEMMA UseKeeps == ASSUME IdentityInv, NEW c \in Claims, Use(c) PROVE IdentityInv'
<1>1. /\ c \in grant
      /\ user' = [d \in Devices |-> IF d \in Reached({cdi[c]}) THEN c ELSE user[d]]
      /\ UNCHANGED <<at, unscrubbed, stateVars, up, pc, cur, clusterVars, grant, spent>>
  BY DEF Use
<1>2. TypeOK /\ RecordsNamed /\ Stored /\ Running /\ PreparingInv /\ GrantInv /\ UsedStaysFenced
  BY DEF IdentityInv
<1>3. /\ alloc[c] \in Present(at) /\ cdi[c] = at[alloc[c]]
      /\ disk.claims[c] = [phase |-> "Prepared", dev |-> alloc[c], path |-> at[alloc[c]]]
  BY <1>1, <1>2 DEF GrantInv
<1>4. Reached({cdi[c]}) = {alloc[c]}
  BY <1>2, <1>3, ReachesOne DEF TypeOK
<1>5. c \in Holders(disk, alloc[c])
  <2>1. disk.claims[c].phase = "Prepared" /\ disk.claims[c].dev = alloc[c]
    BY <1>3
  <2> QED  BY <2>1 DEF Holders, Owned
<1>6. TypeOK'
  BY <1>1, <1>2 DEF TypeOK, stateVars, clusterVars
<1>7. UsedStaysFenced'
  BY <1>1, <1>2, <1>4, <1>5 DEF UsedStaysFenced, Holders, Owned, stateVars
<1>8. PreparingInv'
  <2>1. pc \in {"reset", "verify"} => alloc[cur] # alloc[c]
    BY <1>1, <1>2, <1>5 DEF PreparingInv, Running
  <2>2. pc \in {"reset", "verify"} => user'[alloc[cur]] = user[alloc[cur]]
    BY <2>1, <1>1, <1>2, <1>4 DEF PreparingInv, Present
  <2> QED  BY <2>2, <1>1, <1>2 DEF PreparingInv, Present, Holders, Owned, stateVars, clusterVars
<1>9. RecordsNamed' /\ Stored' /\ Running' /\ GrantInv'
  BY <1>1, <1>2 DEF RecordsNamed, Stored, Running, GrantInv, Present, Owned, stateVars, clusterVars
<1> QED
  BY <1>6, <1>7, <1>8, <1>9 DEF IdentityInv

\* Every step keeps the invariant.
LEMMA NextIdentity == IdentityInv /\ [Next]_vars => IdentityInv'
<1> SUFFICES ASSUME IdentityInv, [Next]_vars PROVE IdentityInv'
  OBVIOUS
<1>1. CASE Monitor  BY <1>1, MonitorKeeps
<1>2. CASE PrepareReset  BY <1>2, PrepareResetKeeps
<1>3. CASE PrepareVerify  BY <1>3, PrepareVerifyKeeps
<1>4. CASE UnprepareScrub  BY <1>4, UnprepareScrubKeeps
<1>5. CASE NewManager  BY <1>5, NewManagerKeeps
<1>6. CASE Rewire  BY <1>6, RewireKeeps
<1>7. ASSUME NEW reboot \in BOOLEAN, Stop(reboot) PROVE IdentityInv'
  BY <1>7, StopKeeps
<1>8. ASSUME NEW c \in Claims, PrepareAnswered(c) PROVE IdentityInv'
  BY <1>8, PrepareAnsweredKeeps
<1>9. ASSUME NEW c \in Claims, PrepareIntent(c) PROVE IdentityInv'
  BY <1>9, PrepareIntentKeeps
<1>10. ASSUME NEW c \in Claims, UnprepareIntent(c) PROVE IdentityInv'
  BY <1>10, UnprepareIntentKeeps
<1>11. ASSUME NEW c \in Claims, Allocate(c) \/ Deallocate(c) PROVE IdentityInv'
  BY <1>11, SchedulerKeeps
<1>12. ASSUME NEW c \in Claims, Use(c) PROVE IdentityInv'
  BY <1>12, UseKeeps
<1>13. CASE UNCHANGED vars
  BY <1>13 DEF vars, nodeVars, stateVars, clusterVars, IdentityInv, TypeOK, RecordsNamed, Stored,
               Running, PreparingInv, GrantInv, UsedStaysFenced, Owned, Holders, Present, Injective
<1> QED
  BY <1>1, <1>2, <1>3, <1>4, <1>5, <1>6, <1>7, <1>8, <1>9, <1>10, <1>11, <1>12, <1>13 DEF Next

(***************************************************************************)
(* What is proved.                                                         *)
(***************************************************************************)

\* The invariant holds in every reachable state.
LEMMA IdentityAlways == Spec => []IdentityInv
BY InitIdentity, NextIdentity, PTL DEF Spec

\* Every variable keeps its type: records, known paths, quarantine and CDI files
\* are about devices and paths of the node, whatever is replaced.
THEOREM IdentityTypeCorrect == Spec => []TypeOK
<1>1. IdentityInv => TypeOK
  BY DEF IdentityInv
<1> QED  BY <1>1, IdentityAlways, PTL

\* The device node kubelet injects is the one of the allocated device, for any
\* number of cards, moves and restarts (sameClaim, manager.go).
THEOREM GrantedAlwaysAllocated == Spec => []GrantedDeviceIsAllocated
<1>1. IdentityInv => GrantedDeviceIsAllocated
  BY NonesAreNone DEF IdentityInv, GrantInv, GrantedDeviceIsAllocated, Present
<1> QED  BY <1>1, IdentityAlways, PTL

\* A device that carries a claim's state is owned by it or quarantined in
\* claims.json: every reset that lifts a quarantine or forgets a record reached
\* the card it is about (Unprepare and recoverDevices).
THEOREM UsedAlwaysFenced == Spec => []UsedStaysFenced
<1>1. IdentityInv => UsedStaysFenced
  BY DEF IdentityInv
<1> QED  BY <1>1, IdentityAlways, PTL

\* A new card on the path of a removed one is published only after a reset:
\* observeLocked quarantines it in the cycle that publishes, at the latest.
THEOREM ReplacementAlwaysScrubbed == Spec => ReplacementScrubbed
<1> DEFINE Scrubbed ==
      \A d \in published' \ published, e \in Devices :
        d \in unscrubbed' /\ e # d /\ at[e] = NoPath => disk.known[e] # at[d]
<1>1. IdentityInv /\ [Next]_vars => [Scrubbed]_vars
  <2> SUFFICES ASSUME IdentityInv, Next,
                      NEW d \in published' \ published, NEW e \in Devices,
                      d \in unscrubbed', e # d, at[e] = NoPath
               PROVE  disk.known[e] # at[d]
    OBVIOUS
  <2>1. Monitor
    BY DEF Next, PrepareReset, PrepareVerify, UnprepareScrub, NewManager, Rewire, Stop,
           PrepareAnswered, PrepareIntent, UnprepareIntent, Allocate, Deallocate, Use, clusterVars
  <2> DEFINE s == observeLocked(mem, at, TRUE)
  <2>2. PICK done \in SUBSET (Present(at) \cap s.quar) :
          /\ Reset({at[x] : x \in done})
          /\ published' = Present(at) \ (s.quar \ done)
    BY <2>1 DEF Monitor
  <2>3. d \in Present(at) /\ d \notin done
    BY <2>2 DEF Reset, Reached, Present
  <2>4. d \notin s.quar
    BY <2>2, <2>3
  <2>5. d \notin Displacing(mem, at)
    BY <2>4 DEF observeLocked, IdentityInv, TypeOK, PersistedState
  <2>6. PriorPath(mem, at, d, e) # at[d]
    BY <2>3, <2>5 DEF Displacing
  <2>7. PriorPath(mem, at, d, e) = mem.known[e] /\ mem.known = disk.known
    BY <2>1 DEF PriorPath, Monitor, IdentityInv, Stored
  <2> QED  BY <2>6, <2>7
<1> QED  BY <1>1, IdentityAlways, PTL DEF Spec, ReplacementScrubbed
=============================================================================
