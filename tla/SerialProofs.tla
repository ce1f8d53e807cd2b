---------------------------- MODULE SerialProofs ----------------------------
(***************************************************************************)
(* What a node with one agent at a time guarantees, for any claims,        *)
(* devices, faults, crashes and restarts, forced deletion or not: claims   *)
(* in use never share a device, devices come clean, used devices stay      *)
(* fenced, and the state file records what prepare does.                   *)
(*                                                                         *)
(* With several agents most of this is false: see overlap_disturbs in the  *)
(* README.  The invariants are about the views of the node, what the file  *)
(* says and what the agent remembers; nearly every step only makes views   *)
(* whose records come from the views before it.                            *)
(***************************************************************************)
EXTENDS LifecycleProofs, FiniteSetTheorems

OneAgent == \A a, b \in Agents : a = b

Views == {disk} \cup {mem[a] : a \in Agents}

-----------------------------------------------------------------------------
(***************************************************************************)
(* Where the records of a view come from.                                  *)
(***************************************************************************)

\* Still being prepared, or prepared.
Active(s, c) == s.claims[c].phase \in {"Preparing", "Prepared"}

\* A claim that may be prepared, or whose devices kubelet has.
Live(s, c) == Owned(s, c) /\ (Active(s, c) \/ grant[c] # {})

\* Every record of m is in a view now, with its devices and, unless it is being
\* released or was recovered, its phase; so is every device that awaits its
\* health.
RecordsFrom(m) ==
  \A c \in Claims : Owned(m, c) =>
    \E s \in Views : /\ Records(s, c, m.claims[c].devs)
                     /\ Active(m, c) => s.claims[c].phase = m.claims[c].phase

AwaitingFrom(m) ==
  \A d \in Devices : m.quar[d] = "awaiting" => \E s \in Views : s.quar[d] = "awaiting"

From(m) == RecordsFrom(m) /\ AwaitingFrom(m)

\* A view is from the views.
LEMMA FromView == ASSUME NEW s \in Views PROVE From(s)
BY DEF From, RecordsFrom, AwaitingFrom, Records, Owned

\* The empty state, and any state with fewer records or quarantines.
LEMMA FromEmpty == From(EmptyState)
BY DEF From, RecordsFrom, AwaitingFrom, EmptyState, NoClaim, Owned

\* Observing, quarantining and sanitizing.
LEMMA FromTame ==
  ASSUME NEW s, NEW t, From(s), Tame(s, t) \/ \E d : Cleared(s, t, d) PROVE From(t)
<1>1. t.claims = s.claims
  BY DEF Tame, Cleared
<1>2. \A d \in Devices : t.quar[d] = "awaiting" => s.quar[d] = "awaiting"
  BY DEF Tame, Cleared
<1>. QED  BY <1>1, <1>2 DEF From, RecordsFrom, AwaitingFrom, Owned, Active

\* Marking a record for release, and dropping it.
LEMMA FromPut ==
  ASSUME NEW s, NEW t, NEW c \in Claims, NEW rec, From(s), Put(s, t, c, rec),
         \/ rec = NoClaim
         \/ Owned(s, c) /\ rec = [s.claims[c] EXCEPT !.phase = "Releasing"]
  PROVE  From(t)
<1>1. s.claims[c] \in PreparedClaim
  BY DEF Put, PersistedState
<1>2. AwaitingFrom(t)
  BY DEF From, AwaitingFrom, Put
<1>3. ASSUME NEW x \in Claims, Owned(t, x)
      PROVE  \E v \in Views : /\ Records(v, x, t.claims[x].devs)
                              /\ Active(t, x) => v.claims[x].phase = t.claims[x].phase
  <2>1. CASE x # c
    BY <1>3, <2>1 DEF From, RecordsFrom, Put, Owned, Active
  <2>2. CASE x = c
    <3>1. rec = [s.claims[c] EXCEPT !.phase = "Releasing"] /\ Owned(s, c)
      BY <1>3, <2>2 DEF Put, Owned, NoClaim
    <3>2. t.claims[c].phase = "Releasing" /\ t.claims[c].devs = s.claims[c].devs
      BY <1>1, <3>1 DEF Put, PreparedClaim
    <3>. QED  BY <2>2, <3>1, <3>2 DEF From, RecordsFrom, Active
  <2>. QED  BY <2>1, <2>2
<1>. QED  BY <1>2, <1>3 DEF From, RecordsFrom

\* A reload.
LEMMA FromMerged ==
  ASSUME NEW s, NEW m, From(s), Merged(s, m) PROVE From(m)
<1>1. disk \in Views
  BY DEF Views
<1>2. ASSUME NEW x \in Claims, Owned(m, x)
      PROVE  \E v \in Views : /\ Records(v, x, m.claims[x].devs)
                              /\ Active(m, x) => v.claims[x].phase = m.claims[x].phase
  <2>1. CASE Owned(disk, x)
    BY <1>1, <2>1 DEF Merged, Records, Owned
  <2>2. CASE ~Owned(disk, x)
    BY <1>2, <2>2 DEF Merged, From, RecordsFrom, Owned, Active
  <2>. QED  BY <2>1, <2>2
<1>3. AwaitingFrom(m)
  BY <1>1 DEF Merged, From, AwaitingFrom
<1>. QED  BY <1>2, <1>3 DEF From, RecordsFrom

\* The views while the only agent is in a transaction.
LEMMA SerialViews ==
  ASSUME OneAgent, TypeInv, pc # "idle" PROVE Views = {disk, State} /\ holder \in Agents
<1>1. holder \in Agents /\ \A a \in Agents : a = holder
  BY DEF OneAgent, TypeInv, LockHeld
<1>. QED  BY <1>1 DEF Views, State

\* The views after the only agent learned m.
LEMMA KnownViews ==
  ASSUME OneAgent, TypeInv, NEW a, NEW m, Knows(a, m) PROVE Views' = {disk', m}
<1>1. a \in Agents /\ \A b \in Agents : b = a
  BY DEF OneAgent, Knows
<1>2. \A b \in Agents : mem'[b] = m
  BY <1>1 DEF Knows, TypeInv, TypeOK
<1>. QED  BY <1>1, <1>2 DEF Views

\* The views after a step that leaves memory alone.
LEMMA KeptViews ==
  ASSUME UNCHANGED mem PROVE \A v \in Views' : v \in Views \/ v = disk'
BY DEF Views

\* Every view after these steps is from the views before them.
PlainStep ==
  \/ \E c \in Claims : Fails(c) \/ Repeats(c) \/ Resumes(c) \/ Skips(c) \/ Marks(c)
  \/ \E d \in Devices : Sanitizes(d) \/ Scrubs(d)
  \/ Advances \/ Ends \/ Proceeds \/ Spares \/ Forgets \/ Releases \/ Sweeps \/ Serves \/ Dies

\* The steps of PlainStep make no record up.
LEMMA PlainStepFrom ==
  ASSUME OneAgent, TypeInv, PlainStep PROVE \A v \in Views' : From(v)
<1>i. pc # "idle"
  BY DEF PlainStep, Fails, Repeats, Resumes, Skips, Marks, Sanitizes, Scrubs, Advances, Ends, Proceeds, Spares,
         Forgets, Releases, Sweeps, Serves, Dies, PrepareSteps, PreparingSteps
<1>s. From(State) /\ From(disk) /\ State \in Views /\ disk \in Views
  BY <1>i, SerialViews, FromView
<1>c. ASSUME NEW t, Continues(t), From(t), disk' = disk \/ From(disk') PROVE \A v \in Views' : From(v)
  BY <1>c, <1>s, KnownViews DEF Continues
<1>w. ASSUME NEW t, From(t), Written(t) PROVE From(disk')
  BY <1>w, <1>s DEF Written
<1>1. ASSUME NEW c \in Claims, Fails(c) \/ Repeats(c) \/ Resumes(c) \/ Skips(c) PROVE \A v \in Views' : From(v)
  <2>1. disk' = disk /\ \E t : Continues(t) /\ (t = State \/ Tame(State, t))
    BY <1>1 DEF Fails, Repeats, Resumes, Skips
  <2>. QED  BY <1>c, <1>s, <2>1, FromTame
<1>2. ASSUME NEW c \in Claims, Marks(c) PROVE \A v \in Views' : From(v)
  <2>1. PICK m : /\ Put(State, m, c, [State.claims[c] EXCEPT !.phase = "Releasing"])
                 /\ Continues(m) /\ Written(m)
    BY <1>2 DEF Marks
  <2>2. From(m)
    BY <1>2, <1>s, <2>1, FromPut DEF Marks
  <2>. QED  BY <1>c, <1>w, <2>1, <2>2
<1>3. ASSUME NEW d \in Devices, Sanitizes(d) \/ Scrubs(d) PROVE \A v \in Views' : From(v)
  <2>1. disk' = disk /\ \E t : Continues(t) /\ (Tame(State, t) \/ Cleared(State, t, d))
    BY <1>3 DEF Sanitizes, Scrubs
  <2>. QED  BY <1>c, <1>s, <2>1, FromTame
<1>4. CASE Advances \/ Proceeds \/ Sweeps
  <2>1. disk' = disk /\ \E t : Continues(t) /\ (t = State \/ Tame(State, t))
    BY <1>4 DEF Advances, Proceeds, Sweeps
  <2>. QED  BY <1>c, <1>s, <2>1, FromTame
<1>5. CASE Spares
  <2>1. PICK t : Tame(State, t) /\ Continues(t)
    BY <1>5 DEF Spares
  <2>2. From(t) /\ From(disk')
    BY <1>5, <1>s, <1>w, <2>1, FromTame DEF Spares
  <2>. QED  BY <1>c, <2>1, <2>2
<1>6. CASE Forgets
  <2>1. PICK m : /\ Put(State, m, job.cur, NoClaim)
                 /\ Continues(m) \/ Continues(State)
                 /\ disk' = m \/ disk' = disk
    BY <1>6 DEF Forgets, Written
  <2>2. From(m)
    BY <1>6, <1>s, <2>1, FromPut DEF Forgets
  <2>. QED  BY <1>c, <1>s, <2>1, <2>2
<1>7. CASE Ends \/ Releases \/ Serves
  <2>1. UNCHANGED mem /\ (disk' = disk \/ disk' = State)
    BY <1>7 DEF Ends, Releases, Serves, Written
  <2>. QED  BY <1>s, <2>1, KeptViews, FromView
<1>8. CASE Dies
  <2>1. Knows(holder, EmptyState) /\ (disk' = disk \/ disk' = State)
    BY <1>8 DEF Dies, Written
  <2>. QED  BY <1>s, <2>1, KnownViews, FromEmpty
<1>. QED  BY <1>1, <1>2, <1>3, <1>4, <1>5, <1>6, <1>7, <1>8 DEF PlainStep

\* Neither does a call.
LEMMA CallFrom ==
  ASSUME OneAgent, TypeInv, NEW a \in Agents, CallEffect(a) PROVE \A v \in Views' : From(v)
<1>d. From(disk) /\ From(mem[a])
  BY FromView DEF Views
<1>m. ASSUME NEW r, NEW m, Merged(mem[a], r), Tame(r, m) PROVE From(m)
  BY <1>d, <1>m, FromMerged, FromTame
<1>1. ASSUME NEW m, Locks(a, m), disk' = disk PROVE \A v \in Views' : From(v)
  BY <1>1, <1>d, <1>m, KnownViews DEF Locks
<1>2. ASSUME NEW batch \in SUBSET Claims, CallsPrepare(a, batch) \/ CallsUnprepare(a, batch)
      PROVE  \A v \in Views' : From(v)
  BY <1>1, <1>2 DEF CallsPrepare, CallsUnprepare
<1>3. CASE CallsMonitor(a)
  BY <1>1, <1>3 DEF CallsMonitor
<1>4. CASE Refreshes(a)
  <2>1. PICK r, m : Merged(mem[a], r) /\ Tame(r, m) /\ Knows(a, m) /\ (disk' = disk \/ disk' = m)
    BY <1>4 DEF Refreshes, Written
  <2>. QED  BY <1>d, <1>m, <2>1, KnownViews
<1>5. CASE Restarts(a)
  <2>1. PICK m : Merged(EmptyState, m) /\ Knows(a, m) /\ disk' = disk
    BY <1>5 DEF Restarts
  <2>. QED  BY <1>d, <2>1, FromEmpty, FromMerged, KnownViews
<1>6. CASE Crashes(a)
  BY <1>6, <1>d, FromEmpty, KnownViews DEF Crashes
<1>7. CASE UNCHANGED <<coreVars, user, alloc, running>>
  BY <1>7, FromView DEF coreVars, Views
<1>. QED  BY <1>2, <1>3, <1>4, <1>5, <1>6, <1>7 DEF CallEffect

-----------------------------------------------------------------------------
(***************************************************************************)
(* Claims in use do not share devices.                                     *)
(*                                                                         *)
(* A prepare decides from the owner index it built when it took the lock.  *)
(* With one agent that index still covers memory and file whenever a claim *)
(* of the batch is taken up: what was added since are claims of the same   *)
(* batch, whose allocations are disjoint.                                  *)
(***************************************************************************)
Disjoint(s, c, t, x) == s.claims[c].devs \cap t.claims[x].devs = {}

LiveExclusive(s, t) ==
  \A c, x \in Claims : c # x /\ Live(s, c) /\ Live(t, x) => Disjoint(s, c, t, x)

Exclusion == \A s, t \in Views : LiveExclusive(s, t)

AllocDisjoint == \A c, x \in Claims : c # x => alloc[c] \cap alloc[x] = {}

\* Whoever holds a device the owner index calls free is of the batch.
IndexCovers(s) ==
  \A d \in Devices : job.owners[d] = NoOwner =>
    \A x \in Holders(s, d) : x \in job.batch /\ d \in job.al[x]

IndexRight ==
  pc \in PrepareSteps =>
    /\ IndexCovers(State) /\ IndexCovers(disk)
    /\ \A d \in Devices : job.owners[d] # NoOwner => job.owners[d] \in Holders(State, d)
    /\ \A c, x \in Claims : c # x => job.al[c] \cap job.al[x] = {}

ExclusiveInv == AllocDisjoint /\ Exclusion /\ IndexRight

\* A claim in use in m was in use in a view, with the same devices.
LiveFrom(m) ==
  \A c \in Claims : Live(m, c)' => \E s \in Views : Live(s, c) /\ s.claims[c].devs = m.claims[c].devs

\* Views whose claims in use come from the views before keep them apart.
LEMMA LiveFromExclusion ==
  ASSUME Exclusion, \A v \in Views' : LiveFrom(v) PROVE Exclusion'
BY DEF Exclusion, LiveExclusive, LiveFrom, Disjoint

\* What is from the views is in use only if it was.
LEMMA FromLive ==
  ASSUME NEW m, RecordsFrom(m), \A c \in Claims : grant'[c] # {} => grant[c] # {} PROVE LiveFrom(m)
<1>. SUFFICES ASSUME NEW c \in Claims, Live(m, c)'
              PROVE  \E s \in Views : Live(s, c) /\ s.claims[c].devs = m.claims[c].devs
  BY DEF LiveFrom
<1>1. Owned(m, c) /\ (Active(m, c) \/ grant[c] # {})
  BY DEF Live, Owned, Active
<1>2. PICK s \in Views : /\ Records(s, c, m.claims[c].devs)
                         /\ Active(m, c) => s.claims[c].phase = m.claims[c].phase
  BY <1>1 DEF RecordsFrom
<1>. QED  BY <1>1, <1>2 DEF Live, Records, Active

\* Same records in memory and file, same job: the owner index stays right.
LEMMA IndexKept ==
  ASSUME IndexRight, pc \in PrepareSteps,
         State'.claims = State.claims, disk'.claims \in {disk.claims, State.claims},
         job'.batch = job.batch, job'.owners = job.owners, job'.al = job.al
  PROVE  IndexRight'
BY DEF IndexRight, IndexCovers, Holders, Owned

\* Outside a prepare there is no owner index.
LEMMA IndexOutside == ASSUME pc' \notin PrepareSteps PROVE IndexRight'
BY DEF IndexRight

\* Nobody else holds a device of a claim the owner index lets through.
LEMMA ValidUnheld ==
  ASSUME TypeInv, MarkInv, JobInv, ExclusiveInv, pc = "prepare", NEW c \in job.todo, Valid(c), ~Owned(State, c),
         NEW s \in {State, disk}, NEW x \in Claims, x # c, Owned(s, x)
  PROVE  job.al[c] \cap s.claims[x].devs = {}
<1>1. c \in Claims /\ job.al[c] \subseteq Devices /\ pc \in PrepareSteps
  BY DEF TypeInv, TypeOK, Job, PrepareSteps
<1>2. ASSUME NEW d \in job.al[c], d \in s.claims[x].devs PROVE FALSE
  <2>1. job.owners[d] \in {NoOwner, c} /\ d \in Devices
    BY <1>1, <1>2 DEF Valid, claimFromAllocation
  <2>2. job.owners[d] # c
    BY <1>1, <2>1, NoOwnerIsNoClaim DEF ExclusiveInv, IndexRight, Holders
  <2>3. x \in Holders(s, d)
    BY <1>2 DEF Holders
  <2>4. d \in job.al[x]
    BY <1>1, <2>1, <2>2, <2>3 DEF ExclusiveInv, IndexRight, IndexCovers
  <2>. QED  BY <1>1, <1>2, <2>4 DEF ExclusiveInv, IndexRight
<1>. QED  BY <1>2

\* Steps of a prepare.
LEMMA PrepareEffectExclusive ==
  ASSUME OneAgent, TypeInv, MarkInv, OwnInv, JobInv, ExclusiveInv, PrepareEffect PROVE ExclusiveInv'
<1>. USE DEF PrepareSteps, PreparingSteps
<1>a. alloc' = alloc => AllocDisjoint'
  BY DEF ExclusiveInv, AllocDisjoint
<1>i. pc # "idle"
  BY DEF PrepareEffect, Fails, Repeats, Resumes, Intends, Sanitizes, Advances, Commits, CommitFails, Grants, Ends
<1>v. Views = {disk, State} /\ State \in PersistedState
  BY <1>i, SerialViews, StateType
<1>p. ASSUME PlainStep, grant' = grant PROVE Exclusion'
  BY <1>p, PlainStepFrom, FromLive, LiveFromExclusion DEF From, ExclusiveInv
<1>1. ASSUME NEW c \in Claims, Fails(c) \/ Repeats(c) \/ Resumes(c) PROVE ExclusiveInv'
  <2>1. /\ pc \in PrepareSteps /\ State'.claims = State.claims /\ disk' = disk /\ UNCHANGED <<grant, alloc>>
        /\ job'.batch = job.batch /\ job'.owners = job.owners /\ job'.al = job.al
    BY <1>1 DEF Fails, Repeats, Resumes, Tame, Continues, Decided, Working, worldVars
  <2>2. PlainStep
    BY <1>1 DEF PlainStep
  <2>. QED  BY <1>a, <1>p, <2>1, <2>2, IndexKept DEF ExclusiveInv
<1>2. ASSUME NEW d \in Devices, Sanitizes(d) PROVE ExclusiveInv'
  <2>1. /\ pc \in PrepareSteps /\ State'.claims = State.claims /\ disk' = disk /\ UNCHANGED <<grant, alloc>>
        /\ job'.batch = job.batch /\ job'.owners = job.owners /\ job'.al = job.al
    BY <1>2 DEF Sanitizes, Cleared, Continues, Working, worldVars
  <2>2. PlainStep
    BY <1>2 DEF PlainStep
  <2>. QED  BY <1>a, <1>p, <2>1, <2>2, IndexKept DEF ExclusiveInv
<1>3. CASE Advances
  <2>1. /\ pc \in PrepareSteps /\ State'.claims = State.claims /\ disk' = disk /\ UNCHANGED <<grant, alloc>>
        /\ job'.batch = job.batch /\ job'.owners = job.owners /\ job'.al = job.al
    BY <1>3 DEF Advances, Tame, Continues, Working, worldVars
  <2>2. PlainStep
    BY <1>3 DEF PlainStep
  <2>. QED  BY <1>a, <1>p, <2>1, <2>2, IndexKept DEF ExclusiveInv
<1>4. CASE Ends
  <2>1. pc' = "idle" /\ UNCHANGED <<grant, alloc>> /\ PlainStep
    BY <1>4 DEF Ends, Idle, worldVars, PlainStep
  <2>. QED  BY <1>a, <1>p, <2>1, IndexOutside DEF ExclusiveInv
<1>5. ASSUME NEW c \in Claims, Intends(c) PROVE ExclusiveInv'
  <2>1. PICK m : /\ Put(State, m, c, Intent(c))
                 /\ disk' \in {disk, m}
                 /\ Continues(State) \/ Continues(m)
                 /\ job'.batch = job.batch /\ job'.owners = job.owners /\ job'.al = job.al
    BY <1>5 DEF Intends, Written, Working, Decided
  <2>2. pc = "prepare" /\ c \in job.todo /\ Valid(c) /\ ~Owned(State, c) /\ UNCHANGED <<grant, alloc>>
    BY <1>5 DEF Intends, worldVars
  <2>3. /\ m.claims[c].devs = job.al[c] /\ \A x \in Claims \ {c} : m.claims[x] = State.claims[x]
        /\ Owned(m, c)
    BY <2>1 DEF Put, Intent, Owned
  <2>4. State' \in {State, m} /\ Views' \subseteq {disk, State, m}
    BY <2>1, KnownViews DEF Continues
  <2>5. ASSUME NEW s \in {disk, State, m}, NEW t \in {disk, State, m}, NEW x \in Claims, NEW y \in Claims,
               x # y, Live(s, x), Live(t, y)
        PROVE  Disjoint(s, x, t, y)
    <3>0. \A z \in Claims \ {c} : Live(m, z) => Live(State, z)
      BY <2>3 DEF Live, Owned, Active
    <3>1. CASE x # c /\ y # c
      <4>1. \E u \in Views : Live(u, x) /\ u.claims[x].devs = s.claims[x].devs
        BY <1>v, <2>3, <2>5, <3>0, <3>1
      <4>2. \E u \in Views : Live(u, y) /\ u.claims[y].devs = t.claims[y].devs
        BY <1>v, <2>3, <2>5, <3>0, <3>1
      <4>. QED  BY <2>5, <4>1, <4>2 DEF ExclusiveInv, Exclusion, LiveExclusive, Disjoint
    <3>u. ASSUME NEW z \in Claims \ {c}, NEW u \in {disk, State, m}, Owned(u, z)
          PROVE  job.al[c] \cap u.claims[z].devs = {}
      <4>1. CASE u \in {State, disk}
        BY <2>2, <3>u, <4>1, ValidUnheld
      <4>2. CASE u = m
        BY <2>2, <2>3, <3>u, <4>2, ValidUnheld DEF Owned
      <4>. QED  BY <4>1, <4>2
    <3>w. ASSUME NEW u \in {disk, State, m}, Live(u, c)
          PROVE  u.claims[c].devs = job.al[c] \/ (u = disk /\ u # m)
      BY <2>2, <2>3, <3>w DEF Live
    <3>d. ASSUME Live(disk, c), NEW u \in {disk, State, m}, NEW z \in Claims \ {c}, Live(u, z)
          PROVE  Disjoint(disk, c, u, z)
      <4>1. \E v \in Views : Live(v, z) /\ v.claims[z].devs = u.claims[z].devs
        BY <1>v, <2>3, <3>0, <3>d
      <4>2. disk \in Views
        BY <1>v
      <4>. QED  BY <3>d, <4>1, <4>2 DEF ExclusiveInv, Exclusion, LiveExclusive, Disjoint
    <3>2. CASE x = c
      <4>1. CASE s.claims[c].devs = job.al[c]
        BY <2>5, <3>2, <3>u, <4>1 DEF Live, Disjoint
      <4>2. CASE s = disk
        BY <2>5, <3>2, <3>d, <4>2
      <4>. QED  BY <2>5, <3>2, <3>w, <4>1, <4>2
    <3>3. CASE y = c
      <4>1. CASE t.claims[c].devs = job.al[c]
        BY <2>5, <3>3, <3>u, <4>1 DEF Live, Disjoint
      <4>2. CASE t = disk
        BY <2>5, <3>3, <3>d, <4>2 DEF Disjoint
      <4>. QED  BY <2>5, <3>3, <3>w, <4>1, <4>2
    <3>. QED  BY <2>5, <3>1, <3>2, <3>3
  <2>6. Exclusion'
    BY <2>2, <2>4, <2>5 DEF Exclusion, LiveExclusive, Live, Active, Owned, Disjoint
  <2>7. IndexCovers(State) /\ IndexCovers(disk) /\ c \in job.batch
    BY <2>2 DEF ExclusiveInv, IndexRight, JobInv, Batch
  <2>8. ASSUME NEW d \in Devices, NEW x \in Holders(m, d) PROVE (x = c /\ d \in job.al[c]) \/ x \in Holders(State, d)
    BY <2>3 DEF Holders, Owned
  <2>9. ASSUME NEW s \in {State, disk, m}, NEW d \in Devices, job.owners[d] = NoOwner, NEW x \in Holders(s, d)
        PROVE  x \in job.batch /\ d \in job.al[x]
    BY <2>7, <2>8, <2>9 DEF IndexCovers
  <2>10. \A d \in Devices : Holders(State, d) \subseteq Holders(m, d)
    BY <2>2, <2>3 DEF Holders, Owned
  <2>11. IndexRight'
    <3>1. IndexCovers(State)' /\ IndexCovers(disk)'
      BY <2>1, <2>4, <2>9 DEF IndexCovers, Holders, Owned
    <3>2. \A d \in Devices : job'.owners[d] # NoOwner => job'.owners[d] \in Holders(State', d)
      BY <2>1, <2>2, <2>4, <2>10 DEF ExclusiveInv, IndexRight
    <3>. QED  BY <2>1, <2>2, <3>1, <3>2 DEF ExclusiveInv, IndexRight, Holders, Owned
  <2>. QED  BY <1>a, <2>2, <2>6, <2>11 DEF ExclusiveInv
<1>c. pc = "commit" => /\ job.cur \in Claims /\ State.claims[job.cur] \in PreparedClaim
                       /\ State.claims[job.cur].phase = "Preparing"
  BY <1>v DEF TypeInv, CurrentClaim, JobInv, PrepareCurrent, PersistedState
<1>m. ASSUME NEW m, NEW p \in {"Preparing", "Prepared"}, pc = "commit",
             Put(State, m, job.cur, [State.claims[job.cur] EXCEPT !.phase = p])
      PROVE  /\ \A d \in Devices : Holders(m, d) = Holders(State, d)
             /\ \A c \in Claims : m.claims[c].devs = State.claims[c].devs /\ (Live(m, c) <=> Live(State, c))
  <2>1. m.claims[job.cur].devs = State.claims[job.cur].devs /\ m.claims[job.cur].phase = p
    BY <1>c, <1>m DEF Put, PreparedClaim
  <2>2. ASSUME NEW c \in Claims
        PROVE  /\ m.claims[c].devs = State.claims[c].devs /\ (Live(m, c) <=> Live(State, c))
               /\ Owned(m, c) <=> Owned(State, c)
    BY <1>c, <1>m, <2>1 DEF Put, Live, Owned, Active
  <2>. QED  BY <2>2 DEF Holders
<1>6. CASE Commits
  <2>1. PICK m : /\ Put(State, m, job.cur, [State.claims[job.cur] EXCEPT !.phase = "Prepared"])
                 /\ Continues(m) /\ disk' = m
    BY <1>6 DEF Commits
  <2>2. /\ pc = "commit" /\ pc' = "prepare" /\ UNCHANGED <<grant, alloc>>
        /\ job'.batch = job.batch /\ job'.al = job.al
        /\ job'.owners = [d \in Devices |-> IF d \in State.claims[job.cur].devs THEN job.cur ELSE job.owners[d]]
    BY <1>6 DEF Commits, worldVars
  <2>3. Views' = {m} /\ State' = m
    BY <2>1, KnownViews DEF Continues
  <2>4. /\ \A d \in Devices : Holders(m, d) = Holders(State, d)
        /\ \A c \in Claims : m.claims[c].devs = State.claims[c].devs /\ (Live(m, c) <=> Live(State, c))
    BY <1>m, <2>1, <2>2
  <2>5. LiveFrom(m)
    BY <1>v, <2>2, <2>4 DEF LiveFrom, Live, Active, Owned
  <2>6. Exclusion'
    BY <2>3, <2>5, LiveFromExclusion DEF ExclusiveInv
  <2>7. ASSUME NEW d \in Devices
        PROVE  /\ job'.owners[d] = NoOwner => job.owners[d] = NoOwner
               /\ job'.owners[d] # NoOwner => job'.owners[d] \in Holders(State, d)
    <3>1. CASE d \in State.claims[job.cur].devs
      BY <1>c, <2>2, <3>1, NoOwnerIsNoClaim DEF Holders, Owned
    <3>2. CASE d \notin State.claims[job.cur].devs
      BY <2>2, <3>2 DEF ExclusiveInv, IndexRight
    <3>. QED  BY <3>1, <3>2
  <2>8. ASSUME NEW d \in Devices, job'.owners[d] = NoOwner, NEW x \in Holders(m, d)
        PROVE  x \in job.batch /\ d \in job.al[x]
    BY <2>2, <2>4, <2>7, <2>8 DEF ExclusiveInv, IndexRight, IndexCovers
  <2>9. IndexCovers(State)' /\ IndexCovers(disk)'
    BY <2>1, <2>2, <2>3, <2>8 DEF IndexCovers, Holders, Owned
  <2>10. IndexRight'
    BY <2>2, <2>3, <2>4, <2>7, <2>9 DEF ExclusiveInv, IndexRight, Holders, Owned
  <2>. QED  BY <1>a, <2>2, <2>6, <2>10 DEF ExclusiveInv
<1>7. CASE CommitFails
  <2>1. PICK m : Put(State, m, job.cur, [State.claims[job.cur] EXCEPT !.phase = "Prepared"]) /\ disk' \in {disk, m}
    BY <1>7 DEF CommitFails, Written
  <2>2. PICK t : /\ Tame(State, t) \/ Put(State, t, job.cur, [State.claims[job.cur] EXCEPT !.phase = "Preparing"])
                 /\ Continues(t)
    BY <1>7 DEF CommitFails
  <2>3. /\ pc = "commit" /\ UNCHANGED <<grant, alloc>>
        /\ job'.batch = job.batch /\ job'.al = job.al /\ job'.owners = job.owners
    BY <1>7 DEF CommitFails, worldVars, Decided
  <2>4. ASSUME NEW s \in {m, t}
        PROVE  /\ \A d \in Devices : Holders(s, d) = Holders(State, d)
               /\ \A c \in Claims : s.claims[c].devs = State.claims[c].devs /\ (Live(s, c) <=> Live(State, c))
    <3>1. CASE Tame(State, s)
      BY <3>1 DEF Tame, Holders, Live, Owned, Active
    <3>2. CASE \E p \in {"Preparing", "Prepared"} : Put(State, s, job.cur, [State.claims[job.cur] EXCEPT !.phase = p])
      BY <1>m, <2>3, <3>2
    <3>. QED  BY <2>1, <2>2, <3>1, <3>2
  <2>k. PICK k : k = disk
    OBVIOUS
  <2>5. LiveFrom(m) /\ LiveFrom(t) /\ LiveFrom(k)
    <3>1. LiveFrom(m) /\ LiveFrom(t)
      BY <1>v, <2>3, <2>4 DEF LiveFrom, Live, Active, Owned
    <3>2. LiveFrom(k)
      BY <1>v, <2>3, <2>k DEF LiveFrom, Live, Active, Owned
    <3>. QED  BY <3>1, <3>2
  <2>6. State' = t /\ Views' = {disk', t}
    BY <2>2, KnownViews DEF Continues
  <2>7. Exclusion'
    BY <2>1, <2>k, <2>5, <2>6, LiveFromExclusion DEF ExclusiveInv
  <2>8. ASSUME NEW s \in {disk, m, t}, NEW d \in Devices, job.owners[d] = NoOwner, NEW x \in Holders(s, d)
        PROVE  x \in job.batch /\ d \in job.al[x]
    BY <2>3, <2>4, <2>8 DEF ExclusiveInv, IndexRight, IndexCovers
  <2>9. IndexCovers(State)' /\ IndexCovers(disk)'
    BY <2>1, <2>3, <2>6, <2>8 DEF IndexCovers, Holders, Owned
  <2>10. IndexRight'
    BY <2>3, <2>4, <2>6, <2>9 DEF ExclusiveInv, IndexRight, Holders, Owned
  <2>. QED  BY <1>a, <2>3, <2>7, <2>10 DEF ExclusiveInv
<1>8. CASE Grants
  <2>1. /\ pc = "prepare" /\ pc' = "idle" /\ disk' = State /\ UNCHANGED <<mem, alloc>>
        /\ \A c \in Claims : grant'[c] = IF c \in job.done THEN job.al[c] ELSE grant[c]
    BY <1>8 DEF Grants, Idle
  <2>2. Views' = {State}
    <3>1. holder \in Agents /\ \A a \in Agents : a = holder
      BY <1>i DEF OneAgent, TypeInv, LockHeld
    <3>. QED  BY <2>1, <3>1 DEF Views, State
  <2>3. PICK s : s = State
    OBVIOUS
  <2>4. LiveFrom(s)
    <3>1. ASSUME NEW c \in Claims, Owned(s, c), Active(s, c) \/ grant'[c] # {} PROVE Live(s, c)
      BY <2>1, <2>3, <3>1 DEF JobInv, PrepareDone, Live, Active
    <3>2. s \in Views
      BY <1>v, <2>3
    <3>. QED  BY <3>1, <3>2 DEF LiveFrom, Live, Active, Owned
  <2>5. Exclusion'
    BY <2>2, <2>3, <2>4, LiveFromExclusion DEF ExclusiveInv
  <2>. QED  BY <1>a, <2>1, <2>5, IndexOutside DEF ExclusiveInv
<1>. QED  BY <1>1, <1>2, <1>3, <1>4, <1>5, <1>6, <1>7, <1>8 DEF PrepareEffect

\* Steps of an unprepare.
LEMMA UnprepareEffectExclusive ==
  ASSUME OneAgent, TypeInv, ExclusiveInv, UnprepareEffect PROVE ExclusiveInv'
<1>1. PlainStep
  BY DEF UnprepareEffect, PlainStep
<1>2. UNCHANGED <<alloc, grant>> /\ pc' \notin PrepareSteps
  BY DEF UnprepareEffect, Skips, Marks, Scrubs, Proceeds, Spares, Forgets, Releases, Ends, Idle, worldVars,
         PrepareSteps, PreparingSteps
<1>3. Exclusion'
  BY <1>1, <1>2, PlainStepFrom, FromLive, LiveFromExclusion DEF From, ExclusiveInv
<1>. QED  BY <1>2, <1>3, IndexOutside DEF ExclusiveInv, AllocDisjoint

\* Steps of the janitor and of startup.
LEMMA OtherEffectExclusive ==
  ASSUME OneAgent, TypeInv, OwnInv, ExclusiveInv, OtherEffect PROVE ExclusiveInv'
<1>1. UNCHANGED <<alloc, grant>> /\ pc' \notin PrepareSteps /\ pc # "idle"
  BY DEF OtherEffect, Recovers, Reconciles, Sweeps, Serves, Dies, Ends, Idle, worldVars, PrepareSteps, PreparingSteps
<1>s. Views = {disk, State}
  BY <1>1, SerialViews
<1>k. PICK k : k = disk
  OBVIOUS
<1>d. LiveFrom(k)
  BY <1>1, <1>k, <1>s, FromView, FromLive DEF From
<1>2. ASSUME PlainStep PROVE Exclusion'
  BY <1>1, <1>2, PlainStepFrom, FromLive, LiveFromExclusion DEF From, ExclusiveInv
<1>3. ASSUME NEW d \in Devices, Recovers(d) PROVE Exclusion'
  <2>1. PICK t : Continues(t) /\ t.claims = State.claims
    BY <1>3 DEF Recovers, Tame, Cleared, Awaits
  <2>2. RecordsFrom(t)
    BY <1>s, <2>1 DEF RecordsFrom, Records, Owned
  <2>3. Views' = {k, t}
    BY <1>3, <1>k, <2>1, KnownViews DEF Recovers, Continues
  <2>. QED  BY <1>1, <1>d, <2>2, <2>3, FromLive, LiveFromExclusion DEF ExclusiveInv
<1>4. ASSUME Reconciles PROVE Exclusion'
  <2>1. PICK t : Continues(t) /\ Reconciled(State, t)
    BY <1>4 DEF Reconciles
  <2>2. ASSUME NEW c \in Claims, Owned(t, c), Active(t, c) \/ grant[c] # {}
        PROVE  Live(State, c) /\ State.claims[c].devs = t.claims[c].devs
    <3>1. Owned(State, c)
      BY <1>1, <2>1, <2>2 DEF OwnInv, GrantHeld, Keeps, Records, Reconciled, Active
    <3>2. Active(t, c) => Active(State, c)
      BY <2>1, <3>1 DEF Reconciled, Active
    <3>. QED  BY <2>1, <2>2, <3>1, <3>2 DEF Live, Reconciled, Records
  <2>3. LiveFrom(t)
    BY <1>1, <1>s, <2>2 DEF LiveFrom, Live, Active, Owned
  <2>4. Views' = {k, t}
    BY <1>4, <1>k, <2>1, KnownViews DEF Reconciles, Continues
  <2>. QED  BY <1>d, <2>3, <2>4, LiveFromExclusion DEF ExclusiveInv
<1>5. Exclusion'
  BY <1>2, <1>3, <1>4 DEF OtherEffect, PlainStep, ExclusiveInv
<1>. QED  BY <1>1, <1>5, IndexOutside DEF ExclusiveInv, AllocDisjoint

\* Calls.
LEMMA CallEffectExclusive ==
  ASSUME OneAgent, TypeInv, ExclusiveInv, NEW a \in Agents, CallEffect(a) PROVE ExclusiveInv'
<1>. USE DEF PrepareSteps, PreparingSteps
<1>1. UNCHANGED alloc /\ \A c \in Claims : grant'[c] # {} => grant[c] # {}
  BY DEF CallEffect, CallsPrepare, CallsUnprepare, CallsMonitor, Refreshes, Restarts, Crashes, coreVars, worldVars
<1>2. Exclusion' /\ AllocDisjoint'
  BY <1>1, CallFrom, FromLive, LiveFromExclusion DEF From, ExclusiveInv, AllocDisjoint
<1>3. ASSUME NEW batch \in SUBSET Claims, CallsPrepare(a, batch) PROVE IndexRight'
  <2>1. PICK m : Locks(a, m) /\ job'.owners \in deviceOwners(m)
    BY <1>3 DEF CallsPrepare
  <2>2. PICK r : Merged(mem[a], r) /\ Tame(r, m)
    BY <2>1 DEF Locks
  <2>3. ASSUME NEW d \in Devices
        PROVE  /\ job'.owners[d] = NoOwner => Holders(m, d) = {}
               /\ job'.owners[d] # NoOwner => job'.owners[d] \in Holders(m, d)
    BY <2>1, NoOwnerIsNoClaim DEF deviceOwners, Holders
  <2>4. \A d \in Devices : Holders(disk, d) \subseteq Holders(m, d)
    BY <2>2 DEF Merged, Tame, Holders, Owned
  <2>5. State' = m /\ disk' = disk
    BY <1>3, <2>1 DEF CallsPrepare, Locks
  <2>6. IndexCovers(State)' /\ IndexCovers(disk)'
    BY <2>3, <2>4, <2>5 DEF IndexCovers, Holders, Owned
  <2>7. \A c, x \in Claims : c # x => job'.al[c] \cap job'.al[x] = {}
    BY <1>3 DEF CallsPrepare, ExclusiveInv, AllocDisjoint
  <2>. QED  BY <2>3, <2>5, <2>6, <2>7 DEF IndexRight, Holders, Owned
<1>4. ASSUME NEW batch \in SUBSET Claims, CallsUnprepare(a, batch) PROVE IndexRight'
  BY <1>4, IndexOutside DEF CallsUnprepare
<1>5. ASSUME CallsMonitor(a) \/ Restarts(a) \/ Refreshes(a) PROVE IndexRight'
  BY <1>5, IndexOutside DEF CallsMonitor, Restarts, Refreshes
<1>6. ASSUME Crashes(a) PROVE IndexRight'
  <2>1. pc' = "idle"
    BY <1>6 DEF Crashes, Idle, OneAgent, TypeInv, LockHeld
  <2>. QED  BY <2>1, IndexOutside
<1>7. ASSUME UNCHANGED <<coreVars, user, alloc, running>> PROVE IndexRight'
  BY <1>7 DEF ExclusiveInv, IndexRight, IndexCovers, State, coreVars
<1>. QED  BY <1>2, <1>3, <1>4, <1>5, <1>6, <1>7 DEF CallEffect, ExclusiveInv

\* The environment.
LEMMA EnvironmentExclusive ==
  ASSUME TypeInv, ExclusiveInv, Environment, ~Corrupt PROVE ExclusiveInv'
<1>1. UNCHANGED coreVars /\ (UNCHANGED alloc \/ \E c \in Claims : Allocate(c) \/ Deallocate(c))
  BY EnvironmentEffects
<1>2. Exclusion' /\ IndexRight'
  BY <1>1 DEF coreVars, ExclusiveInv, Exclusion, LiveExclusive, Live, Views, IndexRight, IndexCovers, State, Disjoint
<1>3. ASSUME NEW c \in Claims, Allocate(c) \/ Deallocate(c) PROVE AllocDisjoint'
  <2>1. \E S \in SUBSET Devices : /\ alloc' = [alloc EXCEPT ![c] = S]
                                  /\ \A x \in Claims \ {c} : S \cap alloc[x] = {}
    <3>1. CASE Allocate(c)
      <4>1. PICK S \in SUBSET (Devices \ UNION {alloc[x] : x \in Claims}) : alloc' = [alloc EXCEPT ![c] = S]
        BY <3>1 DEF Allocate
      <4>2. \A x \in Claims \ {c} : S \cap alloc[x] = {}
        OBVIOUS
      <4>. QED  BY <4>1, <4>2
    <3>2. CASE Deallocate(c)
      <4>1. alloc' = [alloc EXCEPT ![c] = {}]
        BY <3>2 DEF Deallocate
      <4>2. {} \in SUBSET Devices /\ \A x \in Claims \ {c} : {} \cap alloc[x] = {}
        OBVIOUS
      <4>. QED  BY <4>1, <4>2
    <3>. QED  BY <1>3, <3>1, <3>2
  <2>. QED  BY <2>1 DEF AllocDisjoint, ExclusiveInv, TypeInv, TypeOK
<1>. QED  BY <1>1, <1>2, <1>3 DEF ExclusiveInv, AllocDisjoint

Exclusive == spent.corruptions = 0 => ExclusiveInv

\* Every step preserves the invariant.
LEMMA NextExclusive ==
  ASSUME OneAgent, TypeInv, MarkInv, Ownership, Jobs, Exclusive, [Next]_vars PROVE Exclusive'
<1>. SUFFICES ASSUME spent'.corruptions = 0 PROVE ExclusiveInv'
  BY DEF Exclusive
<1>1. CASE UNCHANGED vars
  BY <1>1 DEF vars, storeVars, txnVars, podVars, Exclusive, ExclusiveInv, AllocDisjoint, Exclusion, LiveExclusive, Live,
              Views, IndexRight, IndexCovers, State, Disjoint
<1>2. CASE Next
  <2>1. OwnInv /\ JobInv /\ ExclusiveInv /\ ~Corrupt /\ Clean
    BY <1>2, CorruptionCounted DEF Ownership, Jobs, Exclusive, OwnInv
  <2>2. CASE Environment
    BY <2>1, <2>2, EnvironmentExclusive
  <2>3. CASE PrepareStep
    BY <2>1, <2>3, PrepareEffects, PrepareEffectExclusive
  <2>4. CASE UnprepareStep
    BY <2>1, <2>4, UnprepareEffects, UnprepareEffectExclusive
  <2>5. CASE MonitorRecover \/ MonitorPersist \/ StartupStep
    BY <2>1, <2>5, OtherEffects, OtherEffectExclusive
  <2>6. ASSUME NEW a \in Agents, Call(a) PROVE ExclusiveInv'
    BY <2>1, <2>6, CallEffects, CallEffectExclusive
  <2>. QED  BY <1>2, <2>2, <2>3, <2>4, <2>5, <2>6 DEF Next, Transaction
<1>. QED  BY <1>1, <1>2

\* Every initial state satisfies it.
LEMMA InitExclusive == Init => Exclusive
<1>. SUFFICES ASSUME Init PROVE ExclusiveInv
  BY DEF Exclusive
<1>1. AllocDisjoint /\ IndexRight
  BY DEF Init, AllocDisjoint, IndexRight, PrepareSteps, PreparingSteps
<1>2. \A v \in Views : v = EmptyState
  BY DEF Init, Views
<1>3. Exclusion
  BY <1>2 DEF Exclusion, LiveExclusive, Live, Owned, EmptyState, NoClaim
<1>. QED  BY <1>1, <1>3 DEF ExclusiveInv

\* What the invariants are for: at most one claim in use per device of the file.
LEMMA ExclusiveCounts == Exclusive => PreparedExclusive
<1>. SUFFICES ASSUME Exclusive, spent.corruptions = 0, NEW d \in Devices
              PROVE  Cardinality({c \in Holders(disk, d) : disk.claims[c].phase \in {"Preparing", "Prepared"}}) <= 1
  BY DEF PreparedExclusive
<1>. DEFINE H == {c \in Holders(disk, d) : disk.claims[c].phase \in {"Preparing", "Prepared"}}
<1>1. \A c, x \in H : c = x
  <2>1. \A c \in H : c \in Claims /\ Live(disk, c) /\ d \in disk.claims[c].devs
    BY DEF Holders, Live, Active
  <2>2. disk \in Views
    BY DEF Views
  <2>. QED  BY <2>1, <2>2 DEF Exclusive, ExclusiveInv, Exclusion, LiveExclusive, Disjoint
<1>2. CASE H = {}
  BY <1>2, FS_EmptySet
<1>3. CASE H # {}
  <2>1. PICK c \in H : TRUE
    BY <1>3
  <2>2. H = {c}
    BY <1>1, <2>1
  <2>. QED  BY <2>2, FS_Singleton
<1>. QED  BY <1>2, <1>3

\* With one agent at a time and no corruption of claims.json, no two claims that
\* were prepared or are being prepared share a device in the state file, whatever
\* faults, crashes, restarts, hardware changes and forced deletions happen.
THEOREM PreparedAlwaysExclusive == ASSUME OneAgent PROVE Spec => []PreparedExclusive
<1>1. Init => TypeInv /\ MarkInv /\ Ownership /\ Jobs /\ Exclusive
  BY InitType, InitMark, InitOwn, InitJob, InitExclusive
<1>2. TypeInv /\ MarkInv /\ Ownership /\ Jobs /\ Exclusive /\ [Next]_vars
        => (TypeInv /\ MarkInv /\ Ownership /\ Jobs /\ Exclusive)'
  BY OneAgent, NextType, NextMark, NextOwn, NextJob, NextExclusive
<1>. QED  BY <1>1, <1>2, ExclusiveCounts, PTL DEF Spec

-----------------------------------------------------------------------------
(***************************************************************************)
(* Devices come clean and used devices stay fenced.                        *)
(*                                                                         *)
(* A device that awaits its health was reset and nobody has it; a prepared *)
(* claim's devices carry at most that claim's state.  So the janitor may   *)
(* lift an awaiting quarantine without another reset, a repeated prepare   *)
(* may answer without one, and an unprepare that saw every reset succeed   *)
(* may drop the record.                                                    *)
(***************************************************************************)
PreparedClean(s) ==
  \A c \in Claims : s.claims[c].phase = "Prepared" => \A d \in s.claims[c].devs : user[d] \in {NoOwner, c}

AwaitingClean(s) ==
  \A d \in Devices : s.quar[d] = "awaiting" => user[d] = NoOwner /\ \A c \in Claims : d \notin grant[c]

CleanViews == \A s \in Views : PreparedClean(s) /\ AwaitingClean(s)

\* With the devices used as u says, every used device is owned or quarantined in s.
Fenced(s, u) ==
  \A d \in Devices : u[d] # NoOwner => Holders(s, d) # {} \/ Quarantined(s, d)

StoreFenced == Fenced(disk, user) /\ (pc # "idle" => Fenced(State, user))

\* The devices a transaction has dealt with so far.
PrepareClean ==
  /\ pc \in PrepareSteps => \A c \in job.done : \A d \in job.al[c] : State.quar[d] # "awaiting"
  /\ pc \in PreparingSteps => \A d \in job.al[job.cur] \ job.left : State.quar[d] # "awaiting" /\ user[d] = NoOwner

ReleaseClean ==
  pc \in ReleasingSteps /\ ~job.bad =>
    \A d \in State.claims[job.cur].devs \ job.left : user[d] = NoOwner \/ \E x \in Claims : d \in grant[x]

RecoverIdle == pc = "monitor" => \A d \in job.left : Holders(State, d) = {}

\* GrantClean while nothing was corrupted.
GrantedClean == \A c \in Claims : \A d \in grant[c] : user[d] \in {NoOwner, c}

CleanInv == CleanViews /\ StoreFenced /\ PrepareClean /\ ReleaseClean /\ RecoverIdle /\ GrantedClean

\* What is Prepared or awaits health in m was so in a view.
CleanFrom(m) ==
  /\ \A c \in Claims : m.claims[c].phase = "Prepared" =>
       \E s \in Views : s.claims[c].phase = "Prepared" /\ s.claims[c].devs = m.claims[c].devs
  /\ AwaitingFrom(m)

\* Resets, releases, and nothing else.
Shrinks ==
  /\ \A d \in Devices : user'[d] \in {user[d], NoOwner}
  /\ \A c \in Claims : grant'[c] \in {grant[c], {}}

\* What is from the views is clean from them.
LEMMA FromCleanFrom == ASSUME NEW m, From(m) PROVE CleanFrom(m)
BY DEF From, RecordsFrom, CleanFrom, Records, Owned, Active

\* Views that come from clean views are clean.
LEMMA ShrinkClean ==
  ASSUME TypeInv, CleanViews, GrantedClean, Shrinks, \A v \in Views' : CleanFrom(v) PROVE CleanViews' /\ GrantedClean'
<1>v. \A s \in Views : s \in PersistedState
  BY DEF Views, TypeInv, TypeOK
<1>1. ASSUME NEW v \in Views', NEW c \in Claims, v.claims[c].phase = "Prepared", NEW d \in v.claims[c].devs
      PROVE  user'[d] \in {NoOwner, c}
  <2>1. PICK s \in Views : s.claims[c].phase = "Prepared" /\ s.claims[c].devs = v.claims[c].devs
    BY <1>1 DEF CleanFrom
  <2>2. d \in Devices
    BY <1>1, <1>v, <2>1 DEF PersistedState, PreparedClaim
  <2>. QED  BY <1>1, <2>1, <2>2 DEF CleanViews, PreparedClean, Shrinks
<1>2. ASSUME NEW v \in Views', NEW d \in Devices, v.quar[d] = "awaiting"
      PROVE  user'[d] = NoOwner /\ \A c \in Claims : d \notin grant'[c]
  <2>1. PICK s \in Views : s.quar[d] = "awaiting"
    BY <1>2 DEF CleanFrom, AwaitingFrom
  <2>. QED  BY <2>1 DEF CleanViews, AwaitingClean, Shrinks
<1>3. CleanViews'
  BY <1>1, <1>2 DEF CleanViews, PreparedClean, AwaitingClean
<1>4. ASSUME NEW c \in Claims, NEW d \in grant'[c] PROVE user'[d] \in {NoOwner, c}
  <2>1. d \in grant[c] /\ d \in Devices
    BY <1>4 DEF Shrinks, TypeInv, TypeOK
  <2>. QED  BY <2>1 DEF Shrinks, GrantedClean
<1>5. GrantedClean'
  BY <1>4 DEF GrantedClean
<1>. QED  BY <1>3, <1>5

\* A used device that s keeps fenced is fenced in t after the step.
Fences(s, t) ==
  \A d \in Devices : user'[d] # NoOwner =>
    (Holders(s, d) # {} => Holders(t, d) # {}) /\ (Quarantined(s, d) => Quarantined(t, d))

\* The changes of a state that lose no fence.
LEMMA FencesTame ==
  ASSUME NEW s, NEW t, \/ s = t
                       \/ Tame(s, t)
                       \/ \E d : Cleared(s, t, d) /\ user'[d] = NoOwner
                       \/ \E c, rec : /\ Put(s, t, c, rec) /\ rec.phase # "Absent"
                                      /\ Owned(s, c) => rec.devs = s.claims[c].devs
  PROVE  Fences(s, t)
<1>1. CASE s = t
  BY <1>1 DEF Fences
<1>2. CASE Tame(s, t)
  BY <1>2 DEF Fences, Tame, Holders, Owned
<1>3. ASSUME NEW d, Cleared(s, t, d), user'[d] = NoOwner PROVE Fences(s, t)
  BY <1>3 DEF Fences, Cleared, Holders, Owned, Quarantined
<1>4. ASSUME NEW c, NEW rec, Put(s, t, c, rec), rec.phase # "Absent", Owned(s, c) => rec.devs = s.claims[c].devs
      PROVE  Fences(s, t)
  <2>1. \A d \in Devices : Holders(s, d) \subseteq Holders(t, d)
    BY <1>4 DEF Put, Holders, Owned
  <2>2. t.quar = s.quar
    BY <1>4 DEF Put
  <2>. QED  BY <2>1, <2>2 DEF Fences, Quarantined
<1>. QED  BY <1>1, <1>2, <1>3, <1>4

\* A state with the fences of one that has them has them.
LEMMA FencesFenced ==
  ASSUME NEW s, NEW t, Fenced(s, user), Fences(s, t), Shrinks PROVE Fenced(t, user')
BY DEF Fenced, Fences, Shrinks

\* A step of a transaction that loses no fence.
LEMMA FencedStep ==
  ASSUME CleanInv, pc # "idle", Shrinks,
         NEW m, Fences(State, m), disk' \in {disk, m},
         pc' = "idle" \/ \E t : State' = t /\ Fences(State, t)
  PROVE  StoreFenced'
<1>1. Fenced(disk, user) /\ Fenced(State, user)
  BY DEF CleanInv, StoreFenced
<1>2. Fenced(disk, user') /\ Fenced(m, user')
  BY <1>1, FencesFenced, FencesTame
<1>3. pc' # "idle" => Fenced(State', user')
  BY <1>1, FencesFenced
<1>. QED  BY <1>2, <1>3 DEF StoreFenced

\* Steps of a prepare.
LEMMA PrepareEffectClean ==
  ASSUME OneAgent, TypeInv, MarkInv, OwnInv, JobInv, CleanInv, PrepareEffect PROVE CleanInv'
<1>. USE DEF PrepareSteps, PreparingSteps
<1>i. pc \in PrepareSteps \cup {"unprepare", "monitor"} /\ pc # "idle"
  BY DEF PrepareEffect, Fails, Repeats, Resumes, Intends, Sanitizes, Advances, Commits, CommitFails, Grants, Ends
<1>v. Views = {disk, State} /\ State \in PersistedState /\ disk \in PersistedState
  BY <1>i, SerialViews, StateType DEF TypeInv, TypeOK
<1>j. /\ job.done \subseteq Claims /\ \A c \in Claims : job.al[c] \subseteq Devices
      /\ pc \in PreparingSteps => job.cur \in Claims
  BY DEF TypeInv, TypeOK, Job, CurrentClaim
<1>o. pc' \in {"prepare", "idle"} \cup PreparingSteps => ReleaseClean' /\ RecoverIdle'
  BY DEF ReleaseClean, RecoverIdle, ReleasingSteps
<1>p. ASSUME PlainStep, Shrinks PROVE CleanViews' /\ GrantedClean'
  BY <1>p, PlainStepFrom, FromCleanFrom, ShrinkClean DEF CleanInv
<1>u. ASSUME user' = user, grant' = grant PROVE Shrinks
  BY <1>u DEF Shrinks
<1>w. ASSUME NEW d \in Devices, Wiped(d), grant' = grant PROVE Shrinks
  BY <1>w DEF Shrinks, Wiped, TypeInv, TypeOK
<1>1. ASSUME NEW c \in Claims, Fails(c) PROVE CleanInv'
  <2>1. PICK t : Tame(State, t) /\ State' = t
    BY <1>1 DEF Fails, Continues
  <2>2. job.left \subseteq Devices
    BY DEF TypeInv, TypeOK, Job
  <2>3. Shrinks
    BY <1>1, <1>u, <1>w, <2>2 DEF Fails, worldVars
  <2>4. PlainStep
    BY <1>1 DEF PlainStep
  <2>5. StoreFenced'
    BY <1>1, <1>i, <2>1, <2>3, FencedStep, FencesTame DEF Fails
  <2>6. PrepareClean'
    BY <1>1, <1>j, <2>1 DEF Fails, Decided, Tame, CleanInv, PrepareClean
  <2>7. ReleaseClean' /\ RecoverIdle'
    BY <1>1, <1>o DEF Fails
  <2>. QED  BY <1>p, <2>3, <2>4, <2>5, <2>6, <2>7 DEF CleanInv
<1>2. ASSUME NEW c \in Claims, Repeats(c) PROVE CleanInv'
  <2>1. Shrinks /\ PlainStep /\ State' = State /\ disk' = disk /\ pc' = "prepare"
    BY <1>2, <1>u DEF Repeats, worldVars, PlainStep, Continues
  <2>2. StoreFenced'
    BY <1>i, <2>1, FencedStep, FencesTame
  <2>3. \A d \in job.al[c] : State.quar[d] # "awaiting"
    BY <1>2 DEF Repeats, Repeatable, Records, Quarantined
  <2>4. PrepareClean'
    BY <1>2, <2>1, <2>3 DEF Repeats, Decided, CleanInv, PrepareClean
  <2>. QED  BY <1>o, <1>p, <2>1, <2>2, <2>4 DEF CleanInv
<1>3. ASSUME NEW c \in Claims, Resumes(c) PROVE CleanInv'
  <2>1. Shrinks /\ PlainStep /\ State' = State /\ disk' = disk /\ pc' = "sanitize"
    BY <1>3, <1>u DEF Resumes, worldVars, PlainStep, Continues
  <2>2. StoreFenced'
    BY <1>i, <2>1, FencedStep, FencesTame
  <2>3. PrepareClean'
    BY <1>3, <2>1 DEF Resumes, Working, CleanInv, PrepareClean
  <2>. QED  BY <1>o, <1>p, <2>1, <2>2, <2>3 DEF CleanInv
<1>4. ASSUME NEW d \in Devices, Sanitizes(d) PROVE CleanInv'
  <2>1. PICK t : Cleared(State, t, d) /\ State' = t
    BY <1>4 DEF Sanitizes, Continues
  <2>2. user' = [user EXCEPT ![d] = NoOwner] /\ disk' = disk /\ user'[d] = NoOwner
    BY <1>4 DEF Sanitizes, TypeInv, TypeOK
  <2>3. Shrinks /\ PlainStep
    BY <1>4, <1>w, <2>2 DEF Sanitizes, worldVars, PlainStep, Wiped
  <2>4. StoreFenced'
    BY <1>i, <2>1, <2>2, <2>3, FencedStep, FencesTame
  <2>5. \A e \in Devices : State'.quar[e] = "awaiting" => State.quar[e] = "awaiting" /\ e # d
    BY <2>1 DEF Cleared
  <2>6. PrepareClean'
    <3>1. ASSUME NEW c \in job.done, NEW e \in job.al[c] PROVE State'.quar[e] # "awaiting"
      BY <1>4, <1>j, <2>5 DEF Sanitizes, CleanInv, PrepareClean
    <3>2. ASSUME NEW e \in job.al[job.cur] \ (job.left \ {d}) PROVE State'.quar[e] # "awaiting" /\ user'[e] = NoOwner
      BY <1>4, <1>j, <2>2, <2>3, <2>5 DEF Sanitizes, CleanInv, PrepareClean, Shrinks
    <3>. QED  BY <1>4, <3>1, <3>2 DEF Sanitizes, Working, PrepareClean
  <2>7. ReleaseClean' /\ RecoverIdle'
    BY <1>4, <1>o DEF Sanitizes
  <2>. QED  BY <1>p, <2>3, <2>4, <2>6, <2>7 DEF CleanInv
<1>5. CASE Advances
  <2>1. PICK t : Tame(State, t) /\ State' = t
    BY <1>5 DEF Advances, Continues
  <2>2. Shrinks /\ PlainStep /\ disk' = disk /\ pc' \in {"expose", "commit"} /\ UNCHANGED user
    BY <1>5, <1>u DEF Advances, worldVars, PlainStep
  <2>3. StoreFenced'
    BY <1>i, <2>1, <2>2, FencedStep, FencesTame
  <2>4. PrepareClean'
    BY <1>5, <1>j, <2>1, <2>2 DEF Advances, Working, Tame, CleanInv, PrepareClean
  <2>. QED  BY <1>o, <1>p, <2>2, <2>3, <2>4 DEF CleanInv
<1>6. CASE Ends
  <2>1. Shrinks /\ PlainStep /\ disk' \in {disk, State} /\ pc' = "idle"
    BY <1>6, <1>u DEF Ends, Idle, Written, worldVars, PlainStep
  <2>2. StoreFenced'
    BY <1>i, <2>1, FencedStep, FencesTame
  <2>3. PrepareClean'
    BY <2>1 DEF PrepareClean
  <2>. QED  BY <1>o, <1>p, <2>1, <2>2, <2>3 DEF CleanInv
<1>7. ASSUME NEW c \in Claims, Intends(c) PROVE CleanInv'
  <2>1. PICK m : /\ Put(State, m, c, Intent(c))
                 /\ disk' \in {disk, m}
                 /\ Continues(State) \/ Continues(m)
                 /\ \/ pc' = "sanitize" /\ Working(c, job.al[c])
                    \/ pc' = "prepare" /\ Decided(c, job.done)
    BY <1>7 DEF Intends, Written
  <2>2. pc = "prepare" /\ ~Owned(State, c) /\ Shrinks /\ UNCHANGED user
    BY <1>7, <1>u DEF Intends, worldVars
  <2>3. m.quar = State.quar /\ State' \in {State, m} /\ Views' \subseteq {disk, State, m}
    BY <2>1, KnownViews DEF Put, Continues
  <2>4. CleanFrom(m) /\ CleanFrom(State) /\ CleanFrom(disk)
    BY <1>v, <2>1 DEF CleanFrom, AwaitingFrom, Put, Intent
  <2>5. CleanViews' /\ GrantedClean'
    BY <2>2, <2>3, <2>4, ShrinkClean DEF CleanInv
  <2>6. Fences(State, m) /\ Fences(State, State)
    BY <2>1, <2>2, FencesTame DEF Intent
  <2>7. StoreFenced'
    BY <1>i, <2>1, <2>2, <2>3, <2>6, FencedStep
  <2>8. PrepareClean'
    BY <2>1, <2>2, <2>3 DEF Working, Decided, CleanInv, PrepareClean
  <2>. QED  BY <1>o, <2>1, <2>5, <2>7, <2>8 DEF CleanInv
<1>m. ASSUME NEW m, NEW p \in {"Preparing", "Prepared"}, pc = "commit",
             Put(State, m, job.cur, [State.claims[job.cur] EXCEPT !.phase = p]), user' = user, grant' = grant
      PROVE  PreparedClean(m)' /\ AwaitingClean(m)' /\ Fences(State, m) /\ m.quar = State.quar
  <2>1. /\ job.cur \in Claims /\ State.claims[job.cur].devs = job.al[job.cur]
        /\ State.claims[job.cur] \in PreparedClaim
    BY <1>j, <1>m, <1>v DEF OwnInv, CurrentRecorded, Records, PersistedState
  <2>2. m.claims[job.cur].devs = job.al[job.cur] /\ m.claims[job.cur].phase = p
    BY <1>m, <2>1 DEF Put, PreparedClaim
  <2>3. \A d \in job.al[job.cur] : user[d] = NoOwner
    BY <1>m DEF JobInv, PrepareCurrent, CleanInv, PrepareClean
  <2>4. PreparedClean(State) /\ AwaitingClean(State)
    BY <1>v DEF CleanInv, CleanViews
  <2>5. m.quar = State.quar /\ \A x \in Claims \ {job.cur} : m.claims[x] = State.claims[x]
    BY <1>m DEF Put
  <2>6. PreparedClean(m)'
    BY <1>m, <2>2, <2>3, <2>4, <2>5 DEF PreparedClean
  <2>7. AwaitingClean(m)'
    BY <1>m, <2>4, <2>5 DEF AwaitingClean
  <2>8. Fences(State, m)
    <3>1. PICK rec : rec = [State.claims[job.cur] EXCEPT !.phase = p]
      OBVIOUS
    <3>2. rec.phase # "Absent" /\ rec.devs = State.claims[job.cur].devs
      BY <2>1, <3>1 DEF PreparedClaim
    <3>3. Put(State, m, job.cur, rec)
      BY <1>m, <3>1
    <3>. QED  BY <3>2, <3>3, FencesTame
  <2>. QED  BY <2>5, <2>6, <2>7, <2>8
<1>g. ASSUME grant' = grant, user' = user PROVE GrantedClean'
  BY <1>g DEF CleanInv, GrantedClean
<1>8. CASE Commits
  <2>1. PICK m : /\ Put(State, m, job.cur, [State.claims[job.cur] EXCEPT !.phase = "Prepared"])
                 /\ Continues(m) /\ disk' = m
    BY <1>8 DEF Commits
  <2>2. /\ pc = "commit" /\ pc' = "prepare" /\ UNCHANGED <<grant, user>> /\ Shrinks
        /\ job'.done = job.done \cup {job.cur} /\ job'.al = job.al
    BY <1>8, <1>u DEF Commits, worldVars
  <2>3. Views' = {m} /\ State' = m
    BY <2>1, KnownViews DEF Continues
  <2>4. PreparedClean(m)' /\ AwaitingClean(m)' /\ Fences(State, m) /\ m.quar = State.quar
    BY <1>m, <2>1, <2>2
  <2>5. CleanViews'
    BY <2>3, <2>4 DEF CleanViews
  <2>6. StoreFenced'
    BY <1>i, <2>1, <2>2, <2>3, <2>4, FencedStep
  <2>7. PrepareClean'
    BY <2>2, <2>3, <2>4 DEF JobInv, PrepareCurrent, CleanInv, PrepareClean
  <2>. QED  BY <1>g, <1>o, <2>2, <2>5, <2>6, <2>7 DEF CleanInv
<1>9. CASE CommitFails
  <2>1. PICK m : Put(State, m, job.cur, [State.claims[job.cur] EXCEPT !.phase = "Prepared"]) /\ disk' \in {disk, m}
    BY <1>9 DEF CommitFails, Written
  <2>2. PICK t : /\ Tame(State, t) \/ Put(State, t, job.cur, [State.claims[job.cur] EXCEPT !.phase = "Preparing"])
                 /\ Continues(t)
    BY <1>9 DEF CommitFails
  <2>3. /\ pc = "commit" /\ pc' = "prepare" /\ UNCHANGED <<grant, user>> /\ Shrinks
        /\ job'.done = job.done /\ job'.al = job.al
    BY <1>9, <1>u DEF CommitFails, worldVars, Decided
  <2>4. Views' = {disk', t} /\ State' = t
    BY <2>2, KnownViews DEF Continues
  <2>5. PreparedClean(m)' /\ AwaitingClean(m)' /\ Fences(State, m)
    BY <1>m, <2>1, <2>3
  <2>6. PreparedClean(t)' /\ AwaitingClean(t)' /\ Fences(State, t) /\ \A d \in Devices : t.quar[d] = "awaiting" => State.quar[d] = "awaiting"
    <3>1. CASE Tame(State, t)
      <4>1. PreparedClean(State) /\ AwaitingClean(State)
        BY <1>v DEF CleanInv, CleanViews
      <4>. QED  BY <2>3, <3>1, <4>1, FencesTame DEF Tame, PreparedClean, AwaitingClean
    <3>2. CASE Put(State, t, job.cur, [State.claims[job.cur] EXCEPT !.phase = "Preparing"])
      BY <1>m, <2>3, <3>2
    <3>. QED  BY <2>2, <3>1, <3>2
  <2>k. PICK k : k = disk
    OBVIOUS
  <2>7. PreparedClean(k)' /\ AwaitingClean(k)'
    BY <1>v, <2>3, <2>k DEF CleanInv, CleanViews, PreparedClean, AwaitingClean
  <2>8. CleanViews'
    BY <2>1, <2>4, <2>5, <2>6, <2>k, <2>7 DEF CleanViews
  <2>9. StoreFenced'
    BY <1>i, <2>1, <2>3, <2>4, <2>5, <2>6, FencedStep
  <2>10. PrepareClean'
    BY <1>j, <2>3, <2>4, <2>6 DEF CleanInv, PrepareClean
  <2>. QED  BY <1>g, <1>o, <2>3, <2>8, <2>9, <2>10 DEF CleanInv
<1>10. CASE Grants
  <2>1. /\ pc = "prepare" /\ pc' = "idle" /\ disk' = State /\ UNCHANGED <<mem, user>>
        /\ \A c \in Claims : grant'[c] = IF c \in job.done THEN job.al[c] ELSE grant[c]
    BY <1>10 DEF Grants, Idle
  <2>2. PICK s : s = State
    OBVIOUS
  <2>3. Views' = {s}
    <3>1. holder \in Agents /\ \A a \in Agents : a = holder
      BY <1>i DEF OneAgent, TypeInv, LockHeld
    <3>. QED  BY <2>1, <2>2, <3>1 DEF Views, State
  <2>4. PreparedClean(s) /\ AwaitingClean(s) /\ Fenced(s, user)
    BY <1>v, <1>i, <2>2 DEF CleanInv, CleanViews, StoreFenced
  <2>5. PreparedClean(s)'
    BY <2>1, <2>4 DEF PreparedClean
  <2>6. AwaitingClean(s)'
    BY <2>1, <2>2, <2>4 DEF AwaitingClean, CleanInv, PrepareClean
  <2>7. ASSUME NEW c \in Claims, NEW d \in grant'[c] PROVE user'[d] \in {NoOwner, c}
    <3>1. CASE c \in job.done
      <4>1. State.claims[c].phase = "Prepared" /\ State.claims[c].devs = job.al[c]
        BY <2>1, <3>1 DEF JobInv, PrepareDone, OwnInv, DoneRecorded, Records
      <4>. QED  BY <2>1, <2>2, <2>4, <2>7, <3>1, <4>1 DEF PreparedClean
    <3>2. CASE c \notin job.done
      BY <2>1, <2>7, <3>2 DEF CleanInv, GrantedClean
    <3>. QED  BY <3>1, <3>2
  <2>8. CleanViews' /\ GrantedClean'
    BY <2>3, <2>5, <2>6, <2>7 DEF CleanViews, GrantedClean
  <2>9. StoreFenced' /\ PrepareClean'
    BY <2>1, <2>2, <2>4 DEF StoreFenced, PrepareClean
  <2>. QED  BY <1>o, <2>1, <2>8, <2>9 DEF CleanInv
<1>. QED  BY <1>1, <1>2, <1>3, <1>4, <1>5, <1>6, <1>7, <1>8, <1>9, <1>10 DEF PrepareEffect

\* Steps of an unprepare.
LEMMA UnprepareEffectClean ==
  ASSUME OneAgent, TypeInv, MarkInv, OwnInv, JobInv, CleanInv, UnprepareEffect PROVE CleanInv'
<1>. USE DEF ReleaseSteps, ReleasingSteps
<1>i. pc # "idle"
  BY DEF UnprepareEffect, Skips, Marks, Scrubs, Proceeds, Spares, Forgets, Releases, Ends
<1>v. Views = {disk, State} /\ State \in PersistedState
  BY <1>i, SerialViews, StateType
<1>j. pc \in ReleasingSteps => job.cur \in Claims /\ job.cur \in job.todo
  BY DEF TypeInv, CurrentClaim, MarkInv, CurrentTodo
<1>1. PlainStep
  BY DEF UnprepareEffect, PlainStep
<1>2. grant' = grant /\ pc' \in {"idle", "unprepare"} \cup ReleasingSteps /\ (user' = user \/ \E d \in Devices : Scrubs(d))
  BY DEF UnprepareEffect, Skips, Marks, Scrubs, Proceeds, Spares, Forgets, Releases, Ends, Idle, worldVars
<1>3. Shrinks
  <2>1. CASE user' = user
    BY <1>2, <2>1 DEF Shrinks
  <2>2. ASSUME NEW d \in Devices, Scrubs(d) PROVE Shrinks
    <3>1. user' = user \/ user' = [user EXCEPT ![d] = NoOwner]
      BY <2>2 DEF Scrubs, Wiped
    <3>. QED  BY <1>2, <3>1 DEF Shrinks, TypeInv, TypeOK
  <2>. QED  BY <1>2, <2>1, <2>2
<1>4. CleanViews' /\ GrantedClean'
  BY <1>1, <1>3, PlainStepFrom, FromCleanFrom, ShrinkClean DEF CleanInv
<1>5. PrepareClean' /\ RecoverIdle'
  BY <1>2 DEF PrepareClean, RecoverIdle, PrepareSteps, PreparingSteps
<1>q. ASSUME ReleaseClean', StoreFenced' PROVE CleanInv'
  BY <1>4, <1>5, <1>q DEF CleanInv
<1>r. ASSUME pc' \in {"idle", "unprepare"} PROVE ReleaseClean'
  BY <1>r DEF ReleaseClean
<1>6. ASSUME NEW c \in Claims, Skips(c) PROVE CleanInv'
  <2>1. State' = State /\ disk' = disk /\ pc' = "unprepare"
    BY <1>6 DEF Skips, Continues
  <2>. QED  BY <1>i, <1>3, <1>q, <1>r, <2>1, FencedStep, FencesTame
<1>7. ASSUME NEW c \in Claims, Marks(c) PROVE CleanInv'
  <2>1. PICK rec : rec = [State.claims[c] EXCEPT !.phase = "Releasing"]
    OBVIOUS
  <2>2. PICK m : Put(State, m, c, rec) /\ State' = m /\ disk' \in {disk, m}
    BY <1>7, <2>1 DEF Marks, Continues, Written
  <2>3. rec.phase = "Releasing" /\ rec.devs = State.claims[c].devs
    BY <1>v, <2>1 DEF PersistedState, PreparedClaim
  <2>4. Fences(State, m)
    BY <2>2, <2>3, FencesTame
  <2>5. StoreFenced'
    BY <1>i, <1>3, <2>2, <2>4, FencedStep
  <2>6. State'.claims[c].devs = State.claims[c].devs
    BY <2>2, <2>3 DEF Put
  <2>7. ReleaseClean'
    BY <1>7, <2>6 DEF Marks, Working, ReleaseClean
  <2>. QED  BY <1>q, <2>5, <2>7
<1>8. ASSUME NEW d \in Devices, Scrubs(d) PROVE CleanInv'
  <2>1. PICK t : /\ Tame(State, t) \/ (Cleared(State, t, d) /\ user'[d] = NoOwner)
                 /\ State' = t /\ disk' = disk
    BY <1>8 DEF Scrubs, Continues, TypeInv, TypeOK
  <2>2. StoreFenced'
    BY <1>i, <1>3, <2>1, FencedStep, FencesTame
  <2>3. ReleaseClean'
    <3>1. State'.claims = State.claims /\ State.claims[job.cur].devs \subseteq Devices
      BY <1>8, <1>j, <1>v, <2>1 DEF Scrubs, Tame, Cleared, PersistedState, PreparedClaim
    <3>2. job'.bad \/ (job'.bad = job.bad /\ user'[d] = NoOwner)
      BY <1>8 DEF Scrubs, TypeInv, TypeOK
    <3>3. pc = "scrub" /\ job'.left = job.left \ {d} /\ job'.cur = job.cur
      BY <1>8 DEF Scrubs, Working
    <3>4. ASSUME ~job'.bad, NEW e \in State.claims[job.cur].devs \ (job.left \ {d})
          PROVE  user'[e] = NoOwner \/ \E x \in Claims : e \in grant[x]
      BY <1>3, <3>1, <3>2, <3>3, <3>4 DEF CleanInv, ReleaseClean, Shrinks
    <3>. QED  BY <1>2, <3>1, <3>3, <3>4 DEF ReleaseClean
  <2>. QED  BY <1>q, <2>2, <2>3
<1>9. CASE Proceeds
  <2>1. State' = State /\ disk' = disk /\ pc' \in ReleasingSteps /\ pc \in ReleasingSteps /\ user' = user
        /\ job'.cur = job.cur /\ job'.left = job.left /\ job'.bad = job.bad
    BY <1>9 DEF Proceeds, Working, Continues
  <2>2. StoreFenced'
    BY <1>i, <1>3, <2>1, FencedStep, FencesTame
  <2>3. ReleaseClean'
    BY <1>2, <2>1 DEF CleanInv, ReleaseClean
  <2>. QED  BY <1>q, <2>2, <2>3
<1>10. CASE Spares
  <2>1. PICK t : Tame(State, t) /\ State' = t /\ disk' \in {disk, State} /\ pc' = "unprepare"
    BY <1>10 DEF Spares, Written, Continues
  <2>. QED  BY <1>i, <1>3, <1>q, <1>r, <2>1, FencedStep, FencesTame
<1>11. CASE Forgets
  <2>1. PICK m : Put(State, m, job.cur, NoClaim) /\ State' \in {State, m} /\ disk' \in {disk, m}
    BY <1>11 DEF Forgets, Written, Continues
  <2>2. pc = "forget" /\ pc' = "unprepare" /\ user' = user /\ job.left = {} /\ ~job.bad /\ job.cur \in Claims
    BY <1>11 DEF Forgets, JobInv, ReleaseCurrent
  <2>3. ASSUME NEW d \in Devices, user[d] # NoOwner, Holders(State, d) # {} PROVE Holders(m, d) # {}
    <3>1. CASE \E x \in Claims : d \in grant[x]
      <4>1. PICK x \in Claims : d \in grant[x]
        BY <3>1
      <4>2. x # job.cur
        BY <1>j, <2>2, <4>1 DEF OwnInv, ReleaseRevoked
      <4>3. x \in Holders(State, d)
        BY <1>i, <4>1 DEF OwnInv, GrantHeld, Keeps, Records, Holders
      <4>. QED  BY <2>1, <4>2, <4>3 DEF Put, Holders, Owned
    <3>2. CASE ~\E x \in Claims : d \in grant[x]
      <4>1. d \notin State.claims[job.cur].devs
        BY <2>2, <2>3, <3>2 DEF CleanInv, ReleaseClean
      <4>. QED  BY <2>1, <2>3, <4>1 DEF Put, Holders, Owned
    <3>. QED  BY <3>1, <3>2
  <2>4. Fences(State, m)
    BY <2>1, <2>2, <2>3 DEF Fences, Put, Quarantined
  <2>5. Fences(State, State)
    BY FencesTame
  <2>6. StoreFenced'
    BY <1>i, <1>3, <2>1, <2>4, <2>5, FencedStep
  <2>. QED  BY <1>q, <1>r, <2>2, <2>6
<1>12. CASE Releases \/ Ends
  <2>1. disk' \in {disk, State} /\ pc' = "idle"
    BY <1>12 DEF Releases, Ends, Idle, Written
  <2>. QED  BY <1>i, <1>3, <1>q, <1>r, <2>1, FencedStep, FencesTame
<1>. QED  BY <1>6, <1>7, <1>8, <1>9, <1>10, <1>11, <1>12 DEF UnprepareEffect

\* Steps of the janitor and of startup.
LEMMA OtherEffectClean ==
  ASSUME OneAgent, TypeInv, OwnInv, CleanInv, OtherEffect PROVE CleanInv'
<1>i. pc # "idle"
  BY DEF OtherEffect, Recovers, Ends, Reconciles, Sweeps, Serves, Dies
<1>v. Views = {disk, State} /\ State \in PersistedState
  BY <1>i, SerialViews, StateType
<1>2. grant' = grant /\ pc' \in {"idle", "monitor", "orphans", "serve"} /\ (user' = user \/ \E d \in Devices : Recovers(d))
  BY DEF OtherEffect, Recovers, Ends, Reconciles, Sweeps, Serves, Dies, Idle, worldVars
<1>3. Shrinks
  <2>1. CASE user' = user
    BY <1>2, <2>1 DEF Shrinks
  <2>2. ASSUME NEW d \in Devices, Recovers(d) PROVE Shrinks
    <3>1. user' = user \/ user' = [user EXCEPT ![d] = NoOwner]
      BY <2>2 DEF Recovers, Wiped
    <3>. QED  BY <1>2, <3>1 DEF Shrinks, TypeInv, TypeOK
  <2>. QED  BY <1>2, <2>1, <2>2
<1>4. PrepareClean' /\ ReleaseClean'
  BY <1>2 DEF PrepareClean, ReleaseClean, PrepareSteps, PreparingSteps, ReleasingSteps
<1>5. pc' # "monitor" => RecoverIdle'
  BY DEF RecoverIdle
<1>p. ASSUME PlainStep PROVE CleanViews' /\ GrantedClean'
  BY <1>p, <1>3, PlainStepFrom, FromCleanFrom, ShrinkClean DEF CleanInv
<1>k. PICK k : k = disk
  OBVIOUS
<1>6. CASE Ends \/ Serves \/ Dies
  <2>1. disk' \in {disk, State} /\ pc' = "idle" /\ PlainStep
    BY <1>6 DEF Ends, Serves, Dies, Idle, Written, PlainStep
  <2>2. StoreFenced'
    BY <1>i, <1>3, <2>1, FencedStep, FencesTame
  <2>. QED  BY <1>4, <1>5, <1>p, <2>1, <2>2 DEF CleanInv
<1>7. CASE Sweeps
  <2>1. disk' = disk /\ State' = State /\ pc' = "serve" /\ PlainStep
    BY <1>7 DEF Sweeps, Continues, PlainStep
  <2>2. StoreFenced'
    BY <1>i, <1>3, <2>1, FencedStep, FencesTame
  <2>. QED  BY <1>4, <1>5, <1>p, <2>1, <2>2 DEF CleanInv
<1>8. CASE Reconciles
  <2>1. PICK t : Reconciled(State, t) /\ Continues(t)
    BY <1>8 DEF Reconciles
  <2>2. disk' = disk /\ State' = t /\ pc' = "orphans" /\ Views' = {disk, t}
    BY <1>8, <2>1, KnownViews DEF Reconciles, Continues
  <2>3. CleanFrom(t)
    <3>1. ASSUME NEW c \in Claims, t.claims[c].phase = "Prepared"
          PROVE  State.claims[c].phase = "Prepared" /\ State.claims[c].devs = t.claims[c].devs
      BY <2>1, <3>1 DEF Reconciled, Records, Owned
    <3>. QED  BY <1>v, <2>1, <3>1 DEF CleanFrom, AwaitingFrom, Reconciled
  <2>4. CleanFrom(disk)
    BY <1>v DEF CleanFrom, AwaitingFrom
  <2>5. CleanViews' /\ GrantedClean'
    BY <1>3, <2>2, <2>3, <2>4, ShrinkClean DEF CleanInv
  <2>6. \A d \in Devices : Holders(State, d) \subseteq Holders(t, d)
    BY <2>1 DEF Reconciled, Records, Holders
  <2>7. Fences(State, t)
    BY <2>1, <2>6 DEF Fences, Reconciled
  <2>8. StoreFenced'
    BY <1>i, <1>3, <2>2, <2>7, FencedStep
  <2>. QED  BY <1>4, <1>5, <2>2, <2>5, <2>8 DEF CleanInv
<1>9. ASSUME NEW d \in Devices, Recovers(d) PROVE CleanInv'
  <2>1. PICK t : /\ Continues(t) /\ t.claims = State.claims
                 /\ \/ Tame(State, t)
                    \/ Cleared(State, t, d) /\ State.quar[d] = "awaiting" /\ user' = user
                    \/ (Cleared(State, t, d) \/ Awaits(State, t, d)) /\ user'[d] = NoOwner
    BY <1>9 DEF Recovers, Tame, Cleared, Awaits, TypeInv, TypeOK
  <2>2. disk' = disk /\ State' = t /\ pc = "monitor" /\ d \in job.left /\ job'.left = job.left \ {d} /\ Views' = {k, t}
    BY <1>9, <1>k, <2>1, KnownViews DEF Recovers, Continues
  <2>3. State \in Views /\ PreparedClean(State) /\ AwaitingClean(State) /\ PreparedClean(k) /\ AwaitingClean(k)
    BY <1>v, <1>k DEF CleanInv, CleanViews
  <2>4. \A c \in Claims : d \notin grant[c]
    <3>1. Holders(State, d) = {}
      BY <2>2 DEF CleanInv, RecoverIdle
    <3>. QED  BY <1>i, <3>1 DEF OwnInv, GrantHeld, Keeps, Records, Holders
  <2>5. ASSUME NEW s \in {t, k}, NEW c \in Claims, s.claims[c].phase = "Prepared", NEW e \in s.claims[c].devs
        PROVE  user'[e] \in {NoOwner, c}
    <3>1. e \in Devices /\ user[e] \in {NoOwner, c}
      BY <1>v, <1>k, <2>1, <2>3, <2>5 DEF PreparedClean, PersistedState, PreparedClaim, TypeInv, TypeOK
    <3>. QED  BY <1>3, <3>1 DEF Shrinks
  <2>6. ASSUME NEW s \in {t, k}, NEW e \in Devices, s.quar[e] = "awaiting"
        PROVE  user'[e] = NoOwner /\ \A c \in Claims : e \notin grant'[c]
    <3>1. \/ s = k \/ State.quar[e] = "awaiting"
          \/ s = t /\ e = d /\ user'[d] = NoOwner
      BY <2>1, <2>6 DEF Tame, Cleared, Awaits
    <3>. QED  BY <1>2, <1>3, <2>3, <2>4, <2>6, <3>1 DEF AwaitingClean, Shrinks
  <2>7. CleanViews'
    BY <2>2, <2>5, <2>6 DEF CleanViews, PreparedClean, AwaitingClean
  <2>8. GrantedClean'
    BY <1>2, <1>3 DEF CleanInv, GrantedClean, Shrinks, TypeInv, TypeOK
  <2>9. Fences(State, t)
    <3>1. CASE Tame(State, t) \/ (Cleared(State, t, d) /\ user'[d] = NoOwner)
      BY <3>1, FencesTame
    <3>2. CASE Awaits(State, t, d)
      BY <3>2 DEF Awaits, Fences, Holders, Owned, Quarantined
    <3>3. State.quar[d] = "awaiting" /\ user' = user => user'[d] = NoOwner
      BY <2>3 DEF AwaitingClean
    <3>. QED  BY <2>1, <3>1, <3>2, <3>3
  <2>10. StoreFenced'
    BY <1>i, <1>3, <2>2, <2>9, FencedStep
  <2>11. RecoverIdle'
    BY <2>1, <2>2 DEF CleanInv, RecoverIdle, Holders, Owned
  <2>. QED  BY <1>4, <2>7, <2>8, <2>10, <2>11 DEF CleanInv
<1>. QED  BY <1>6, <1>7, <1>8, <1>9 DEF OtherEffect

\* Calls.
LEMMA CallEffectClean ==
  ASSUME OneAgent, TypeInv, CleanInv, NEW a \in Agents, CallEffect(a) PROVE CleanInv'
<1>1. user' = user /\ \A c \in Claims : grant'[c] \in {grant[c], {}}
  BY DEF CallEffect, CallsPrepare, CallsUnprepare, CallsMonitor, Refreshes, Restarts, Crashes, coreVars, worldVars
<1>2. Shrinks
  BY <1>1 DEF Shrinks
<1>3. CleanViews' /\ GrantedClean'
  BY <1>2, CallFrom, FromCleanFrom, ShrinkClean DEF CleanInv
<1>d. Fenced(disk, user')
  BY <1>1 DEF CleanInv, StoreFenced
<1>r. ASSUME NEW s, NEW m, Merged(s, m) PROVE Fences(disk, m)
  <2>1. \A d \in Devices : Holders(disk, d) \subseteq Holders(m, d)
    BY <1>r DEF Merged, Holders, Owned
  <2>. QED  BY <1>r, <2>1 DEF Fences, Merged, Quarantined
<1>m. ASSUME NEW s, NEW m, Merged(s, m) PROVE Fenced(m, user')
  BY <1>2, <1>m, <1>r, FencesFenced DEF CleanInv, StoreFenced
<1>t. ASSUME NEW s, NEW r, NEW m, Merged(s, r), Tame(r, m) PROVE Fenced(m, user')
  <2>1. Fenced(r, user)
    BY <1>1, <1>m, <1>t
  <2>. QED  BY <1>2, <1>t, <2>1, FencesTame, FencesFenced
<1>. USE DEF PrepareSteps, PreparingSteps, ReleasingSteps
<1>4. ASSUME NEW batch \in SUBSET Claims, CallsPrepare(a, batch) PROVE CleanInv'
  <2>1. StoreFenced'
    BY <1>4, <1>d, <1>t DEF CallsPrepare, Locks, StoreFenced
  <2>2. PrepareClean' /\ ReleaseClean' /\ RecoverIdle'
    BY <1>4 DEF CallsPrepare, PrepareClean, ReleaseClean, RecoverIdle
  <2>. QED  BY <1>3, <2>1, <2>2 DEF CleanInv
<1>5. ASSUME NEW batch \in SUBSET Claims, CallsUnprepare(a, batch) PROVE CleanInv'
  <2>1. StoreFenced'
    BY <1>5, <1>d, <1>t DEF CallsUnprepare, Locks, StoreFenced
  <2>2. PrepareClean' /\ ReleaseClean' /\ RecoverIdle'
    BY <1>5 DEF CallsUnprepare, PrepareClean, ReleaseClean, RecoverIdle
  <2>. QED  BY <1>3, <2>1, <2>2 DEF CleanInv
<1>6. CASE CallsMonitor(a)
  <2>1. StoreFenced'
    BY <1>6, <1>d, <1>t DEF CallsMonitor, Locks, StoreFenced
  <2>2. PrepareClean' /\ ReleaseClean'
    BY <1>6 DEF CallsMonitor, PrepareClean, ReleaseClean
  <2>3. RecoverIdle'
    BY <1>6 DEF CallsMonitor, Locks, RecoverIdle, Holders, Owned
  <2>. QED  BY <1>3, <2>1, <2>2, <2>3 DEF CleanInv
<1>7. CASE Refreshes(a)
  <2>1. StoreFenced'
    BY <1>7, <1>d, <1>t DEF Refreshes, Written, StoreFenced
  <2>2. PrepareClean' /\ ReleaseClean' /\ RecoverIdle'
    BY <1>7 DEF Refreshes, PrepareClean, ReleaseClean, RecoverIdle
  <2>. QED  BY <1>3, <2>1, <2>2 DEF CleanInv
<1>8. CASE Restarts(a)
  <2>1. StoreFenced'
    BY <1>8, <1>d, <1>m DEF Restarts, StoreFenced
  <2>2. PrepareClean' /\ ReleaseClean' /\ RecoverIdle'
    BY <1>8 DEF Restarts, PrepareClean, ReleaseClean, RecoverIdle
  <2>. QED  BY <1>3, <2>1, <2>2 DEF CleanInv
<1>9. CASE Crashes(a)
  <2>1. pc' = "idle" /\ disk' = disk
    BY <1>9 DEF Crashes, Idle, OneAgent, TypeInv, LockHeld
  <2>2. StoreFenced' /\ PrepareClean' /\ ReleaseClean' /\ RecoverIdle'
    BY <1>d, <2>1 DEF StoreFenced, PrepareClean, ReleaseClean, RecoverIdle
  <2>. QED  BY <1>3, <2>2 DEF CleanInv
<1>10. CASE UNCHANGED <<coreVars, user, alloc, running>>
  <2>1. StoreFenced' /\ PrepareClean' /\ ReleaseClean' /\ RecoverIdle'
    BY <1>10 DEF coreVars, State, CleanInv, StoreFenced, PrepareClean, ReleaseClean, RecoverIdle
  <2>. QED  BY <1>3, <2>1 DEF CleanInv
<1>. QED  BY <1>4, <1>5, <1>6, <1>7, <1>8, <1>9, <1>10 DEF CallEffect

\* Kubelet starts a container: its devices are in no other prepared claim and in
\* no claim that is being prepared.
LEMMA StartClean ==
  ASSUME OneAgent, TypeInv, OwnInv, JobInv, ExclusiveInv, CleanInv,
         NEW c \in Claims, ContainerStart(c), UNCHANGED coreVars PROVE CleanInv'
<1>. USE DEF coreVars
<1>1. grant[c] # {} /\ grant[c] \subseteq Devices /\ \A d \in Devices : user'[d] = IF d \in grant[c] THEN c ELSE user[d]
  BY DEF ContainerStart, TypeInv, TypeOK
<1>2. disk \in Views /\ \A x \in Claims : grant[x] # {} => Live(disk, x) /\ disk.claims[x].devs = grant[x]
  BY DEF Views, OwnInv, GrantStored, Keeps, Records, Live
<1>3. Views' = Views /\ State' = State /\ \A s \in Views : s \in PersistedState
  BY DEF Views, State, TypeInv, TypeOK
<1>4. ASSUME NEW s \in Views, NEW x \in Claims, s.claims[x].phase = "Prepared", NEW d \in s.claims[x].devs
      PROVE  user'[d] \in {NoOwner, x}
  <2>1. Live(s, x) /\ d \in Devices
    BY <1>3, <1>4 DEF Live, Owned, Active, PersistedState, PreparedClaim
  <2>2. d \in grant[c] => x = c
    BY <1>1, <1>2, <1>4, <2>1 DEF ExclusiveInv, Exclusion, LiveExclusive, Disjoint
  <2>. QED  BY <1>1, <1>4, <2>1, <2>2 DEF CleanInv, CleanViews, PreparedClean
<1>5. ASSUME NEW s \in Views, NEW d \in Devices, s.quar[d] = "awaiting"
      PROVE  user'[d] = NoOwner /\ \A x \in Claims : d \notin grant[x]
  BY <1>1, <1>5 DEF CleanInv, CleanViews, AwaitingClean
<1>6. CleanViews'
  BY <1>3, <1>4, <1>5 DEF CleanViews, PreparedClean, AwaitingClean
<1>7. ASSUME NEW x \in Claims, NEW d \in grant[x] PROVE user'[d] \in {NoOwner, x}
  <2>1. d \in Devices
    BY <1>7 DEF TypeInv, TypeOK
  <2>2. d \in grant[c] => x = c
    BY <1>1, <1>2, <1>7 DEF ExclusiveInv, Exclusion, LiveExclusive, Disjoint
  <2>. QED  BY <1>1, <1>7, <2>1, <2>2 DEF CleanInv, GrantedClean
<1>8. GrantedClean'
  BY <1>7 DEF GrantedClean
<1>9. \A d \in grant[c] : c \in Holders(disk, d) /\ (pc # "idle" => c \in Holders(State, d))
  BY <1>1 DEF OwnInv, GrantStored, GrantHeld, Keeps, Records, Holders
<1>10. StoreFenced'
  <2>1. Fenced(disk, user')
    BY <1>1, <1>9 DEF CleanInv, StoreFenced, Fenced
  <2>2. pc # "idle" => Fenced(State, user')
    BY <1>1, <1>9 DEF CleanInv, StoreFenced, Fenced
  <2>. QED  BY <1>3, <2>1, <2>2 DEF StoreFenced
<1>11. PrepareClean'
  <2>1. ASSUME pc \in PreparingSteps, NEW d \in job.al[job.cur] PROVE d \notin grant[c] /\ d \in Devices
    <3>1. job.cur \in Claims /\ State.claims[job.cur].phase = "Preparing" /\ State.claims[job.cur].devs = job.al[job.cur]
      BY <2>1 DEF TypeInv, CurrentClaim, JobInv, PrepareCurrent, OwnInv, CurrentRecorded, Records
    <3>2. pc # "idle" /\ State \in Views /\ d \in Devices
      BY <2>1, <3>1, SerialViews DEF PreparingSteps, TypeInv, TypeOK, Job
    <3>3. c # job.cur
      BY <1>1, <3>1, <3>2 DEF JobInv, GrantSettled, Settled
    <3>4. Live(State, job.cur)
      BY <3>1 DEF Live, Owned, Active
    <3>. QED  BY <1>1, <1>2, <2>1, <3>1, <3>2, <3>3, <3>4 DEF ExclusiveInv, Exclusion, LiveExclusive, Disjoint
  <2>. QED  BY <1>1, <1>3, <2>1 DEF CleanInv, PrepareClean
<1>12. ReleaseClean'
  <2>1. ASSUME pc \in ReleasingSteps, NEW d \in State.claims[job.cur].devs PROVE d \in Devices
    BY <2>1, StateType DEF TypeInv, CurrentClaim, ReleasingSteps, PersistedState, PreparedClaim
  <2>. QED  BY <1>1, <1>3, <2>1 DEF CleanInv, ReleaseClean
<1>13. RecoverIdle'
  BY <1>3 DEF CleanInv, RecoverIdle
<1>. QED  BY <1>6, <1>8, <1>10, <1>11, <1>12, <1>13 DEF CleanInv

\* What the other steps leave alone is all the invariant is about.
LEMMA FrameClean == CleanInv /\ UNCHANGED <<coreVars, user>> => CleanInv'
BY DEF coreVars, State, Views, CleanInv, CleanViews, PreparedClean, AwaitingClean, StoreFenced, PrepareClean, ReleaseClean,
       RecoverIdle, GrantedClean

Cleanly == spent.corruptions = 0 => CleanInv

\* Every step preserves the invariant.
LEMMA NextClean ==
  ASSUME OneAgent, TypeInv, MarkInv, Ownership, Jobs, Exclusive, Cleanly, [Next]_vars PROVE Cleanly'
<1>. SUFFICES ASSUME spent'.corruptions = 0 PROVE CleanInv'
  BY DEF Cleanly
<1>1. CASE UNCHANGED vars
  BY <1>1, FrameClean DEF vars, storeVars, agentVars, txnVars, podVars, coreVars, Cleanly
<1>2. CASE Next
  <2>1. OwnInv /\ JobInv /\ ExclusiveInv /\ CleanInv /\ ~Corrupt /\ Clean
    BY <1>2, CorruptionCounted DEF Ownership, Jobs, Exclusive, Cleanly, OwnInv
  <2>2. CASE Environment
    <3>1. UNCHANGED coreVars /\ (UNCHANGED user \/ \E c \in Claims : ContainerStart(c))
      BY <2>1, <2>2, EnvironmentEffects
    <3>2. CASE UNCHANGED user
      BY <2>1, <3>1, <3>2, FrameClean
    <3>3. CASE \E c \in Claims : ContainerStart(c)
      BY <2>1, <3>1, <3>3, StartClean
    <3>. QED  BY <3>1, <3>2, <3>3
  <2>3. CASE PrepareStep
    BY <2>1, <2>3, PrepareEffects, PrepareEffectClean
  <2>4. CASE UnprepareStep
    BY <2>1, <2>4, UnprepareEffects, UnprepareEffectClean
  <2>5. CASE MonitorRecover \/ MonitorPersist \/ StartupStep
    BY <2>1, <2>5, OtherEffects, OtherEffectClean
  <2>6. ASSUME NEW a \in Agents, Call(a) PROVE CleanInv'
    BY <2>1, <2>6, CallEffects, CallEffectClean
  <2>. QED  BY <1>2, <2>2, <2>3, <2>4, <2>5, <2>6 DEF Next, Transaction
<1>. QED  BY <1>1, <1>2

\* Every initial state satisfies it.
LEMMA InitClean == Init => Cleanly
<1>. SUFFICES ASSUME Init PROVE CleanInv
  BY DEF Cleanly
<1>1. \A v \in Views : v = EmptyState
  BY DEF Init, Views
<1>2. CleanViews
  BY <1>1 DEF CleanViews, PreparedClean, AwaitingClean, EmptyState, NoClaim
<1>. QED  BY <1>2 DEF Init, CleanInv, StoreFenced, Fenced, PrepareClean, ReleaseClean, RecoverIdle, GrantedClean,
                      PrepareSteps, PreparingSteps, ReleasingSteps

Uncorrupted == spent.corruptions = 0

SerialInv == TypeInv /\ MarkInv /\ Ownership /\ Jobs /\ Exclusive /\ Cleanly

\* The invariants of a node with one agent at a time, as one.
LEMMA InitSerial == Init => SerialInv
BY InitType, InitMark, InitOwn, InitJob, InitExclusive, InitClean DEF SerialInv

\* Every step preserves them.
LEMMA NextSerial == ASSUME OneAgent, SerialInv, [Next]_vars PROVE SerialInv'
<1>. USE DEF SerialInv
<1>1. TypeInv' /\ MarkInv' /\ Ownership' /\ Jobs'
  BY NextType, NextMark, NextOwn, NextJob
<1>2. Exclusive' /\ Cleanly'
  BY NextExclusive, NextClean
<1>. QED  BY <1>1, <1>2

\* With one agent at a time, as long as claims.json was never corrupted, devices
\* a prepare returned carry no state of another claim: each was reset after the
\* last other claim that used it, even when a repeated prepare answers without
\* a reset or the janitor lifts a quarantine that awaits health.
THEOREM GrantAlwaysClean == ASSUME OneAgent PROVE Spec => []GrantClean
<1>1. SerialInv => GrantClean
  BY DEF SerialInv, Cleanly, CleanInv, GrantedClean, GrantClean
<1>2. SerialInv /\ [Next]_vars => SerialInv'
  BY OneAgent, NextSerial
<1>. QED  BY <1>1, <1>2, InitSerial, PTL DEF Spec

\* With one agent at a time, as long as claims.json was never corrupted, a device
\* that was used and not reset since is owned or quarantined in the state file:
\* no release, recovery or startup frees it unsanitized, whatever step fails and
\* wherever the agent dies.
THEOREM DirtyAlwaysFenced == ASSUME OneAgent PROVE Spec => []DirtyFenced
<1>1. SerialInv => DirtyFenced
  BY DEF SerialInv, Cleanly, CleanInv, StoreFenced, Fenced, DirtyFenced
<1>2. SerialInv /\ [Next]_vars => SerialInv'
  BY OneAgent, NextSerial
<1>. QED  BY <1>1, <1>2, InitSerial, PTL DEF Spec

-----------------------------------------------------------------------------
(***************************************************************************)
(* The state file records what prepare does.                               *)
(*                                                                         *)
(* What the agent remembers and the file does not say is a claim kubelet   *)
(* still holds, whose record a failed write left behind; it is neither     *)
(* prepared nor being prepared.  So a claim that is taken up again has its *)
(* intent on disk, and a later write brings no released claim back.        *)
(***************************************************************************)
StartupSteps == {"reconcile", "orphans", "serve"}

AllUp == \A a \in Agents : up[a]

\* What m remembers and s does not say; kubelet holds the claims of H.
Remembered(m, s, H) ==
  \A c \in Claims : (Owned(m, c) => Owned(s, c) \/ c \in H) /\ (Active(m, c) => Owned(s, c))

Listed(s) == \A c \in cdi : Owned(s, c)

StartingDown == pc \in StartupSteps => ~up[holder]

MemoryRecorded == pc \notin StartupSteps => \A a \in Agents : Remembered(mem[a], disk, held)

FilesListed ==
  /\ AllUp => Listed(disk) /\ (pc # "idle" => Listed(State))
  /\ pc = "serve" => Listed(State)
  /\ pc = "forget" => job.cur \notin cdi

IntentKnown ==
  pc \in PrepareSteps =>
    \A c \in job.todo : State.claims[c].phase = "Preparing" => disk.claims[c].phase = "Preparing"

RecordedInv == StartingDown /\ MemoryRecorded /\ FilesListed /\ IntentKnown

\* A step of a prepare, an unprepare or the janitor that goes on with state t.
LEMMA RecordedStep ==
  ASSUME OneAgent, TypeInv, RecordedInv, pc' \notin StartupSteps, UNCHANGED <<up, held>>, IntentKnown',
         NEW t, Continues(t), Remembered(t, disk', held),
         AllUp => \A c \in cdi' : Owned(disk', c) /\ Owned(t, c),
         pc' = "forget" => job'.cur \notin cdi'
  PROVE  RecordedInv'
<1>1. \A a \in Agents : mem'[a] = t
  BY DEF OneAgent, Continues, Knows, TypeInv, TypeOK
<1>2. StartingDown' /\ MemoryRecorded'
  BY <1>1 DEF StartingDown, MemoryRecorded
<1>3. State' = t
  BY DEF Continues
<1>4. FilesListed'
  BY <1>3 DEF FilesListed, AllUp, Listed, StartupSteps
<1>. QED  BY <1>2, <1>4 DEF RecordedInv

\* A step that ends a transaction.
LEMMA RecordedEnd ==
  ASSUME OneAgent, TypeInv, RecordedInv, pc # "idle", pc \notin StartupSteps, pc' = "idle",
         UNCHANGED <<up, mem, cdi>>,
         disk' = State \/ (disk' = disk /\ held' = held)
  PROVE  RecordedInv'
<1>1. holder \in Agents /\ \A a \in Agents : mem[a] = State
  BY DEF OneAgent, TypeInv, LockHeld, State
<1>2. \A a \in Agents : Remembered(mem[a], disk', held')
  BY <1>1 DEF RecordedInv, MemoryRecorded, Remembered, Owned, Active
<1>3. StartingDown' /\ MemoryRecorded' /\ IntentKnown'
  BY <1>2 DEF StartingDown, MemoryRecorded, IntentKnown, StartupSteps, PrepareSteps, PreparingSteps
<1>4. FilesListed'
  BY DEF RecordedInv, FilesListed, AllUp, Listed
<1>. QED  BY <1>3, <1>4 DEF RecordedInv

\* Steps of a prepare.
LEMMA PrepareEffectRecorded ==
  ASSUME OneAgent, TypeInv, MarkInv, OwnInv, JobInv, RecordedInv, PrepareEffect PROVE RecordedInv'
<1>. USE DEF PrepareSteps, PreparingSteps, StartupSteps
<1>i. pc # "idle" /\ pc \notin StartupSteps
  BY DEF PrepareEffect, Fails, Repeats, Resumes, Intends, Sanitizes, Advances, Commits, CommitFails, Grants, Ends
<1>v. State \in PersistedState /\ holder \in Agents
  BY <1>i, StateType DEF TypeInv, LockHeld
<1>m. Remembered(State, disk, held)
  BY <1>i, <1>v DEF RecordedInv, MemoryRecorded, State
<1>l. AllUp => \A c \in cdi : Owned(disk, c) /\ Owned(State, c)
  BY <1>i DEF RecordedInv, FilesListed, Listed
<1>t. ASSUME NEW t, t.claims = State.claims PROVE Remembered(t, disk, held) /\ \A c \in Claims : Owned(t, c) <=> Owned(State, c)
  BY <1>m, <1>t DEF Remembered, Owned, Active
<1>c. pc \in PreparingSteps => job.cur \in Claims /\ State.claims[job.cur].phase = "Preparing"
  BY DEF TypeInv, CurrentClaim, JobInv, PrepareCurrent
<1>a. \A c \in Claims : Active(State, c) => Owned(disk, c) /\ Owned(State, c)
  BY <1>m DEF Remembered, Active, Owned
<1>d. cdi \subseteq Claims
  BY DEF TypeInv, TypeOK
<1>1. ASSUME NEW c \in Claims, Fails(c) PROVE RecordedInv'
  <2>1. PICK t : t.claims = State.claims /\ Continues(t)
    BY <1>1 DEF Fails, Tame
  <2>2. /\ disk' = disk /\ pc' = "prepare" /\ UNCHANGED <<up, held>> /\ job'.todo = job.todo \ {c} /\ State' = t
        /\ pc \in PrepareSteps /\ cdi' \subseteq cdi \cup {c}
    BY <1>1, <2>1 DEF Fails, Decided, worldVars, Continues
  <2>3. c \in cdi' \ cdi => Active(State, c)
    BY <1>1, <1>c DEF Fails, Active
  <2>4. AllUp => \A x \in cdi' : Owned(disk', x) /\ Owned(t, x)
    BY <1>a, <1>d, <1>l, <1>t, <2>1, <2>2, <2>3
  <2>5. IntentKnown'
    BY <2>1, <2>2 DEF RecordedInv, IntentKnown
  <2>. QED  BY <1>t, <2>1, <2>2, <2>4, <2>5, RecordedStep
<1>2. ASSUME NEW c \in Claims, Repeats(c) \/ Resumes(c) PROVE RecordedInv'
  <2>1. /\ disk' = disk /\ pc' \in {"prepare", "sanitize"} /\ UNCHANGED <<up, held>> /\ job'.todo \subseteq job.todo
        /\ Continues(State) /\ State' = State /\ pc \in PrepareSteps /\ cdi' \subseteq cdi \cup {c} /\ Active(State, c)
    BY <1>2 DEF Repeats, Resumes, Decided, Working, worldVars, Continues, Repeatable, Active
  <2>2. AllUp => \A x \in cdi' : Owned(disk', x) /\ Owned(State, x)
    BY <1>a, <1>l, <2>1
  <2>3. IntentKnown'
    BY <2>1 DEF RecordedInv, IntentKnown
  <2>. QED  BY <1>m, <2>1, <2>2, <2>3, RecordedStep
<1>3. ASSUME (\E d \in Devices : Sanitizes(d)) \/ Advances PROVE RecordedInv'
  <2>1. PICK t : t.claims = State.claims /\ Continues(t)
    BY <1>3 DEF Sanitizes, Advances, Tame, Cleared
  <2>2. /\ disk' = disk /\ pc' \in PreparingSteps /\ UNCHANGED <<up, held>> /\ job'.todo = job.todo /\ State' = t
        /\ pc \in PreparingSteps /\ cdi' \subseteq cdi \cup {job.cur}
    BY <1>3, <2>1 DEF Sanitizes, Advances, Working, worldVars, Continues
  <2>3. AllUp => \A x \in cdi' : Owned(disk', x) /\ Owned(t, x)
    BY <1>a, <1>c, <1>d, <1>l, <1>t, <2>1, <2>2 DEF Active
  <2>4. IntentKnown'
    BY <2>1, <2>2 DEF RecordedInv, IntentKnown
  <2>. QED  BY <1>t, <2>1, <2>2, <2>3, <2>4, RecordedStep
<1>4. ASSUME NEW c \in Claims, Intends(c) PROVE RecordedInv'
  <2>1. PICK m : /\ Put(State, m, c, Intent(c))
                 /\ \/ disk' = m /\ Continues(m)
                    \/ disk' \in {disk, m} /\ Continues(State) /\ job'.todo = job.todo \ {c}
                 /\ job'.todo \subseteq job.todo
    BY <1>4 DEF Intends, Written, Working, Decided
  <2>2. /\ pc = "prepare" /\ pc' \in {"prepare", "sanitize"} /\ UNCHANGED <<up, held, cdi>>
        /\ ~Owned(State, c)
    BY <1>4 DEF Intends, worldVars
  <2>3. \A x \in Claims : Owned(State, x) => Owned(m, x) /\ m.claims[x] = State.claims[x]
    BY <2>1, <2>2 DEF Put, Owned
  <2>4. CASE disk' = m /\ Continues(m)
    <3>1. State' = m
      BY <2>4 DEF Continues
    <3>2. Remembered(m, disk', held) /\ IntentKnown'
      BY <2>4, <3>1 DEF Remembered, IntentKnown, Active, Owned
    <3>3. AllUp => \A x \in cdi' : Owned(disk', x) /\ Owned(m, x)
      BY <1>d, <1>l, <2>2, <2>3, <2>4
    <3>. QED  BY <2>2, <2>4, <3>2, <3>3, RecordedStep
  <2>5. CASE disk' \in {disk, m} /\ Continues(State) /\ job'.todo = job.todo \ {c}
    <3>1. State' = State
      BY <2>5 DEF Continues
    <3>2. Remembered(State, disk', held)
      BY <1>m, <2>3, <2>5 DEF Remembered, Active, Owned
    <3>3. IntentKnown'
      BY <2>1, <2>2, <2>5, <3>1 DEF RecordedInv, IntentKnown, Put, TypeInv, TypeOK, Job
    <3>4. AllUp => \A x \in cdi' : Owned(disk', x) /\ Owned(State, x)
      BY <1>d, <1>l, <2>2, <2>3, <2>5
    <3>. QED  BY <2>2, <2>5, <3>2, <3>3, <3>4, RecordedStep
  <2>. QED  BY <2>1, <2>4, <2>5
<1>p. ASSUME NEW m, NEW p \in {"Preparing", "Prepared"}, pc = "commit",
             Put(State, m, job.cur, [State.claims[job.cur] EXCEPT !.phase = p])
      PROVE  /\ \A x \in Claims : (Owned(m, x) <=> Owned(State, x)) /\ (Active(m, x) <=> Active(State, x))
             /\ \A x \in Claims \ {job.cur} : m.claims[x] = State.claims[x]
  <2>1. job.cur \in Claims /\ State.claims[job.cur] \in PreparedClaim
    BY <1>c, <1>p, <1>v DEF PersistedState
  <2>2. m.claims[job.cur].phase = p
    BY <1>p, <2>1 DEF Put, PreparedClaim
  <2>. QED  BY <1>c, <1>p, <2>2 DEF Put, Owned, Active
<1>5. CASE Commits
  <2>1. PICK m : /\ Put(State, m, job.cur, [State.claims[job.cur] EXCEPT !.phase = "Prepared"])
                 /\ Continues(m) /\ disk' = m
    BY <1>5 DEF Commits
  <2>2. /\ pc = "commit" /\ pc' = "prepare" /\ UNCHANGED <<up, held>> /\ State' = m
        /\ cdi' = cdi \cup {job.cur} /\ job.cur \in Claims
    BY <1>5, <2>1 DEF Commits, worldVars, Continues
  <2>3. \A x \in Claims : Owned(m, x) <=> Owned(State, x)
    BY <1>p, <2>1, <2>2
  <2>4. Remembered(m, disk', held) /\ IntentKnown'
    BY <2>1, <2>2 DEF Remembered, IntentKnown, Active, Owned
  <2>5. AllUp => \A x \in cdi' : Owned(disk', x) /\ Owned(m, x)
    BY <1>a, <1>c, <1>d, <1>l, <2>1, <2>2, <2>3 DEF Active
  <2>. QED  BY <2>1, <2>2, <2>4, <2>5, RecordedStep
<1>6. CASE CommitFails
  <2>1. PICK m : Put(State, m, job.cur, [State.claims[job.cur] EXCEPT !.phase = "Prepared"]) /\ disk' \in {disk, m}
    BY <1>6 DEF CommitFails, Written
  <2>2. PICK t : /\ Tame(State, t) \/ Put(State, t, job.cur, [State.claims[job.cur] EXCEPT !.phase = "Preparing"])
                 /\ Continues(t)
    BY <1>6 DEF CommitFails
  <2>3. /\ pc = "commit" /\ pc' = "prepare" /\ UNCHANGED <<up, held>> /\ State' = t
        /\ cdi' \subseteq cdi \cup {job.cur} /\ job.cur \in Claims /\ job'.todo = job.todo \ {job.cur}
    BY <1>6, <2>2 DEF CommitFails, worldVars, Continues, Decided
  <2>4. ASSUME NEW s \in {m, t}
        PROVE  /\ \A x \in Claims : (Owned(s, x) <=> Owned(State, x)) /\ (Active(s, x) <=> Active(State, x))
               /\ \A x \in Claims \ {job.cur} : s.claims[x] = State.claims[x]
    <3>1. CASE Tame(State, s)
      BY <3>1 DEF Tame, Owned, Active
    <3>2. CASE \E p \in {"Preparing", "Prepared"} : Put(State, s, job.cur, [State.claims[job.cur] EXCEPT !.phase = p])
      BY <1>p, <2>3, <3>2
    <3>. QED  BY <2>1, <2>2, <3>1, <3>2
  <2>5. Remembered(t, disk', held)
    BY <1>m, <2>1, <2>4 DEF Remembered, Active, Owned
  <2>6. IntentKnown'
    BY <2>1, <2>3, <2>4 DEF RecordedInv, IntentKnown, TypeInv, TypeOK, Job
  <2>7. AllUp => \A x \in cdi' : Owned(disk', x) /\ Owned(t, x)
    BY <1>a, <1>c, <1>d, <1>l, <2>1, <2>3, <2>4 DEF Active
  <2>. QED  BY <2>2, <2>3, <2>5, <2>6, <2>7, RecordedStep
<1>7. CASE Grants \/ Ends
  <2>1. pc' = "idle" /\ UNCHANGED <<up, mem, cdi, held>> /\ disk' \in {disk, State}
    BY <1>7 DEF Grants, Ends, Idle, Written, worldVars
  <2>. QED  BY <1>i, <2>1, RecordedEnd
<1>. QED  BY <1>1, <1>2, <1>3, <1>4, <1>5, <1>6, <1>7 DEF PrepareEffect

\* Steps of an unprepare.
LEMMA UnprepareEffectRecorded ==
  ASSUME OneAgent, TypeInv, MarkInv, JobInv, RecordedInv, UnprepareEffect PROVE RecordedInv'
<1>. USE DEF ReleaseSteps, ReleasingSteps, StartupSteps
<1>i. pc # "idle" /\ pc \notin StartupSteps /\ pc' \notin StartupSteps
  BY DEF UnprepareEffect, Skips, Marks, Scrubs, Proceeds, Spares, Forgets, Releases, Ends, Idle
<1>v. State \in PersistedState /\ holder \in Agents
  BY <1>i, StateType DEF TypeInv, LockHeld
<1>m. Remembered(State, disk, held)
  BY <1>i, <1>v DEF RecordedInv, MemoryRecorded, State
<1>l. AllUp => \A c \in cdi : Owned(disk, c) /\ Owned(State, c)
  BY <1>i DEF RecordedInv, FilesListed, Listed
<1>d. cdi \subseteq Claims
  BY DEF TypeInv, TypeOK
<1>n. IntentKnown'
  BY DEF UnprepareEffect, Skips, Marks, Scrubs, Proceeds, Spares, Forgets, Releases, Ends, Idle, IntentKnown,
         PrepareSteps, PreparingSteps
<1>t. ASSUME NEW t, t.claims = State.claims, Continues(t), disk' \in {disk, State}, UNCHANGED <<up, held>>,
             cdi' \subseteq cdi, pc' = "forget" => job'.cur \notin cdi'
      PROVE  RecordedInv'
  <2>1. Remembered(t, disk', held)
    BY <1>m, <1>t DEF Remembered, Owned, Active
  <2>2. AllUp => \A c \in cdi' : Owned(disk', c) /\ Owned(t, c)
    BY <1>l, <1>t DEF Owned
  <2>. QED  BY <1>i, <1>n, <1>t, <2>1, <2>2, RecordedStep
<1>1. ASSUME NEW c \in Claims, Skips(c) PROVE RecordedInv'
  BY <1>1, <1>t DEF Skips, worldVars
<1>2. ASSUME NEW d \in Devices, Scrubs(d) PROVE RecordedInv'
  <2>1. \E t : t.claims = State.claims /\ Continues(t)
    BY <1>2 DEF Scrubs, Tame, Cleared
  <2>. QED  BY <1>2, <1>t, <2>1 DEF Scrubs, worldVars
<1>3. CASE Proceeds
  BY <1>3, <1>t DEF Proceeds, Working, worldVars
<1>4. CASE Spares
  <2>1. \E t : t.claims = State.claims /\ Continues(t)
    BY <1>4 DEF Spares, Tame
  <2>. QED  BY <1>4, <1>t, <2>1 DEF Spares, Written, worldVars
<1>5. CASE Releases \/ Ends
  <2>1. pc' = "idle" /\ UNCHANGED <<up, mem, cdi>> /\ (disk' = State \/ (disk' = disk /\ held' = held))
    BY <1>5 DEF Releases, Ends, Idle, Written, worldVars
  <2>. QED  BY <1>i, <2>1, RecordedEnd
<1>6. ASSUME NEW c \in Claims, Marks(c) PROVE RecordedInv'
  <2>1. PICK m : /\ Put(State, m, c, [State.claims[c] EXCEPT !.phase = "Releasing"])
                 /\ Continues(m) /\ disk' \in {disk, m}
    BY <1>6 DEF Marks, Written
  <2>2. Owned(State, c) /\ UNCHANGED <<up, held, cdi>> /\ pc' # "forget"
    BY <1>6 DEF Marks, worldVars
  <2>3. m.claims[c].phase = "Releasing"
    BY <1>v, <2>1 DEF Put, PersistedState, PreparedClaim
  <2>4. \A x \in Claims : (Owned(m, x) <=> Owned(State, x)) /\ (Active(m, x) => Active(State, x))
    BY <2>1, <2>2, <2>3 DEF Put, Owned, Active
  <2>5. Remembered(m, disk', held)
    BY <1>m, <2>1, <2>4 DEF Remembered, Owned, Active
  <2>6. AllUp => \A x \in cdi' : Owned(disk', x) /\ Owned(m, x)
    BY <1>d, <1>l, <2>1, <2>2, <2>4
  <2>. QED  BY <1>i, <1>n, <2>1, <2>2, <2>5, <2>6, RecordedStep
<1>7. CASE Forgets
  <2>1. PICK m : /\ Put(State, m, job.cur, NoClaim)
                 /\ \/ disk' = m /\ Continues(m)
                    \/ disk' \in {disk, m} /\ Continues(State)
    BY <1>7 DEF Forgets, Written
  <2>2. pc = "forget" /\ pc' = "unprepare" /\ job.cur \in Claims /\ UNCHANGED <<up, held, cdi>> /\ job.cur \notin cdi
    BY <1>7 DEF Forgets, worldVars, RecordedInv, FilesListed
  <2>3. job.cur \in held /\ ~Active(State, job.cur)
    BY <2>2 DEF MarkInv, CurrentTodo, JobInv, Batch, ReleaseCurrent, Active
  <2>4. \A x \in Claims \ {job.cur} : m.claims[x] = State.claims[x]
    BY <2>1 DEF Put
  <2>5. AllUp => \A x \in cdi' : Owned(disk', x) /\ Owned(State, x) /\ Owned(m, x)
    BY <1>d, <1>l, <2>1, <2>2, <2>4 DEF Owned
  <2>6. CASE disk' = m /\ Continues(m)
    <3>1. Remembered(m, disk', held)
      BY <2>6 DEF Remembered, Owned, Active
    <3>. QED  BY <1>i, <1>n, <2>2, <2>5, <2>6, <3>1, RecordedStep
  <2>7. CASE disk' \in {disk, m} /\ Continues(State)
    <3>1. Remembered(State, disk', held)
      BY <1>m, <2>3, <2>4, <2>7 DEF Remembered, Owned, Active
    <3>. QED  BY <1>i, <1>n, <2>2, <2>5, <2>7, <3>1, RecordedStep
  <2>. QED  BY <2>1, <2>6, <2>7
<1>. QED  BY <1>1, <1>2, <1>3, <1>4, <1>5, <1>6, <1>7 DEF UnprepareEffect

\* Steps of the janitor and of startup.
LEMMA OtherEffectRecorded ==
  ASSUME OneAgent, TypeInv, RecordedInv, OtherEffect PROVE RecordedInv'
<1>. USE DEF StartupSteps
<1>i. pc # "idle"
  BY DEF OtherEffect, Recovers, Ends, Reconciles, Sweeps, Serves, Dies
<1>v. State \in PersistedState /\ holder \in Agents /\ \A a \in Agents : a = holder
  BY <1>i, StateType DEF OneAgent, TypeInv, LockHeld
<1>n. IntentKnown'
  BY DEF OtherEffect, Recovers, Ends, Reconciles, Sweeps, Serves, Dies, Idle, IntentKnown, PrepareSteps, PreparingSteps
<1>1. ASSUME NEW d \in Devices, Recovers(d) PROVE RecordedInv'
  <2>1. PICK t : t.claims = State.claims /\ Continues(t)
    BY <1>1 DEF Recovers, Tame, Cleared, Awaits
  <2>2. pc = "monitor" /\ pc' = "monitor" /\ UNCHANGED <<disk, cdi, up, held>>
    BY <1>1 DEF Recovers, worldVars
  <2>3. Remembered(t, disk', held)
    BY <1>v, <2>1, <2>2 DEF RecordedInv, MemoryRecorded, State, Remembered, Owned, Active
  <2>4. AllUp => \A c \in cdi' : Owned(disk', c) /\ Owned(t, c)
    BY <1>i, <2>1, <2>2 DEF RecordedInv, FilesListed, Listed, Owned
  <2>. QED  BY <1>n, <2>1, <2>2, <2>3, <2>4, RecordedStep
<1>2. CASE Ends
  <2>1. pc \notin StartupSteps /\ pc' = "idle" /\ UNCHANGED <<up, mem, cdi, held>> /\ disk' \in {disk, State}
    BY <1>2 DEF Ends, Idle, Written, worldVars
  <2>. QED  BY <1>i, <2>1, RecordedEnd
<1>3. CASE Reconciles \/ Sweeps
  <2>1. pc \in StartupSteps /\ pc' \in {"orphans", "serve"} /\ UNCHANGED <<up, holder>>
    BY <1>3 DEF Reconciles, Sweeps, Continues, worldVars
  <2>2. ~AllUp'
    BY <1>v, <2>1 DEF RecordedInv, StartingDown, AllUp
  <2>3. pc' = "serve" => Listed(State)'
    BY <1>3 DEF Reconciles, Sweeps, Continues, Listed
  <2>4. StartingDown' /\ MemoryRecorded' /\ FilesListed'
    BY <2>1, <2>2, <2>3 DEF RecordedInv, StartingDown, MemoryRecorded, FilesListed
  <2>. QED  BY <1>n, <2>4 DEF RecordedInv
<1>4. CASE Serves
  <2>1. pc = "serve" /\ pc' = "idle" /\ disk' = State /\ UNCHANGED <<mem, cdi>>
    BY <1>4 DEF Serves, Idle
  <2>2. \A a \in Agents : mem'[a] = disk'
    BY <1>v, <2>1 DEF State
  <2>3. MemoryRecorded'
    BY <2>2 DEF MemoryRecorded, Remembered, Owned, Active
  <2>4. FilesListed'
    BY <2>1 DEF RecordedInv, FilesListed, Listed
  <2>. QED  BY <1>n, <2>1, <2>3, <2>4 DEF RecordedInv, StartingDown
<1>5. CASE Dies
  <2>1. pc' = "idle" /\ \A a \in Agents : mem'[a] = EmptyState /\ ~up'[a]
    BY <1>5, <1>v DEF Dies, Idle, Knows, TypeInv, TypeOK
  <2>2. MemoryRecorded'
    BY <2>1 DEF MemoryRecorded, Remembered, Owned, Active, EmptyState, NoClaim
  <2>3. FilesListed'
    BY <1>v, <2>1 DEF FilesListed, AllUp
  <2>. QED  BY <1>n, <2>1, <2>2, <2>3 DEF RecordedInv, StartingDown
<1>. QED  BY <1>1, <1>2, <1>3, <1>4, <1>5 DEF OtherEffect

\* What a reload adds to the file is remembered.
LEMMA MergedRemembered ==
  ASSUME TypeInv, RecordedInv, pc = "idle", NEW a \in Agents, NEW r, NEW m, Merged(mem[a], r), Tame(r, m)
  PROVE  /\ Remembered(m, disk, held)
         /\ \A c \in Claims : Owned(disk, c) => m.claims[c] = disk.claims[c]
         /\ AllUp => \A c \in cdi : Owned(disk, c) /\ Owned(m, c)
<1>1. Remembered(mem[a], disk, held)
  BY DEF RecordedInv, MemoryRecorded, StartupSteps
<1>2. \A c \in Claims : m.claims[c] = IF Owned(disk, c) THEN disk.claims[c] ELSE mem[a].claims[c]
  BY DEF Merged, Tame
<1>3. Remembered(m, disk, held)
  BY <1>1, <1>2 DEF Remembered, Owned, Active
<1>4. AllUp => \A c \in cdi : Owned(disk, c) /\ Owned(m, c)
  BY <1>2 DEF RecordedInv, FilesListed, Listed, Owned, TypeInv, TypeOK
<1>. QED  BY <1>2, <1>3, <1>4

\* Calls.
LEMMA CallEffectRecorded ==
  ASSUME OneAgent, TypeInv, RecordedInv, NEW a \in Agents, CallEffect(a) PROVE RecordedInv'
<1>. USE DEF StartupSteps, PrepareSteps, PreparingSteps
<1>k. ASSUME NEW m, Knows(a, m) PROVE \A b \in Agents : mem'[b] = m
  BY <1>k DEF OneAgent, Knows, TypeInv, TypeOK
<1>l. ASSUME NEW m, Locks(a, m), pc' \notin StartupSteps, pc' # "forget", UNCHANGED <<disk, cdi, up>>, held \subseteq held',
             IntentKnown'
      PROVE  RecordedInv'
  <2>1. /\ Remembered(m, disk, held)
        /\ AllUp => \A c \in cdi : Owned(disk, c) /\ Owned(m, c)
    BY <1>l, MergedRemembered DEF Locks
  <2>2. State' = m /\ \A b \in Agents : mem'[b] = m
    BY <1>k, <1>l DEF Locks
  <2>3. MemoryRecorded'
    BY <1>l, <2>1, <2>2 DEF MemoryRecorded, Remembered
  <2>4. FilesListed'
    BY <1>l, <2>1, <2>2 DEF FilesListed, Listed, AllUp
  <2>. QED  BY <1>l, <2>3, <2>4 DEF RecordedInv, StartingDown
<1>1. ASSUME NEW batch \in SUBSET Claims, CallsPrepare(a, batch) PROVE RecordedInv'
  <2>1. PICK m : Locks(a, m)
    BY <1>1 DEF CallsPrepare
  <2>2. ASSUME NEW c \in batch, m.claims[c].phase = "Preparing" PROVE disk.claims[c].phase = "Preparing"
    <3>1. /\ Remembered(m, disk, held)
          /\ \A x \in Claims : Owned(disk, x) => m.claims[x] = disk.claims[x]
      BY <2>1, MergedRemembered DEF Locks
    <3>. QED  BY <2>2, <3>1 DEF Remembered, Active
  <2>3. IntentKnown'
    BY <1>1, <2>1, <2>2 DEF CallsPrepare, Locks, IntentKnown
  <2>. QED  BY <1>1, <1>l, <2>1, <2>3 DEF CallsPrepare
<1>2. ASSUME NEW batch \in SUBSET Claims, CallsUnprepare(a, batch) PROVE RecordedInv'
  <2>1. IntentKnown'
    BY <1>2 DEF CallsUnprepare, IntentKnown
  <2>. QED  BY <1>2, <1>l, <2>1 DEF CallsUnprepare
<1>3. CASE CallsMonitor(a)
  <2>1. IntentKnown'
    BY <1>3 DEF CallsMonitor, IntentKnown
  <2>. QED  BY <1>3, <1>l, <2>1 DEF CallsMonitor, worldVars
<1>4. CASE Refreshes(a)
  <2>1. PICK r, m : Merged(mem[a], r) /\ Tame(r, m) /\ Knows(a, m) /\ disk' \in {disk, m}
    BY <1>4 DEF Refreshes, Written
  <2>2. pc = "idle" /\ pc' = "idle" /\ UNCHANGED <<cdi, up, held>>
    BY <1>4 DEF Refreshes, worldVars
  <2>3. /\ Remembered(m, disk, held)
        /\ AllUp => \A c \in cdi : Owned(disk, c) /\ Owned(m, c)
    BY <2>1, <2>2, MergedRemembered
  <2>4. MemoryRecorded'
    BY <1>k, <2>1, <2>2, <2>3 DEF MemoryRecorded, Remembered, Owned, Active
  <2>5. FilesListed'
    BY <2>1, <2>2, <2>3 DEF FilesListed, Listed, AllUp
  <2>. QED  BY <2>2, <2>4, <2>5 DEF RecordedInv, StartingDown, IntentKnown
<1>5. CASE Restarts(a)
  <2>1. ~up'[a] /\ holder' = a /\ pc' = "reconcile"
    BY <1>5 DEF Restarts, worldVars
  <2>. QED  BY <2>1 DEF RecordedInv, StartingDown, MemoryRecorded, FilesListed, IntentKnown, AllUp
<1>6. CASE Crashes(a)
  <2>1. pc' = "idle" /\ ~up'[a]
    BY <1>6 DEF Crashes, Idle, OneAgent, TypeInv, TypeOK, LockHeld
  <2>2. \A b \in Agents : mem'[b] = EmptyState
    BY <1>6, <1>k DEF Crashes
  <2>3. MemoryRecorded'
    BY <2>2 DEF MemoryRecorded, Remembered, Owned, Active, EmptyState, NoClaim
  <2>. QED  BY <2>1, <2>3 DEF RecordedInv, StartingDown, FilesListed, IntentKnown, AllUp
<1>7. CASE UNCHANGED <<coreVars, user, alloc, running>>
  BY <1>7 DEF coreVars, State, RecordedInv, StartingDown, MemoryRecorded, FilesListed, Listed, IntentKnown, AllUp
<1>. QED  BY <1>1, <1>2, <1>3, <1>4, <1>5, <1>6, <1>7 DEF CallEffect

Recorded == spent.corruptions = 0 => RecordedInv

\* Every step preserves the invariant.
LEMMA NextRecorded ==
  ASSUME OneAgent, TypeInv, MarkInv, Ownership, Jobs, Recorded, [Next]_vars PROVE Recorded'
<1>. SUFFICES ASSUME spent'.corruptions = 0 PROVE RecordedInv'
  BY DEF Recorded
<1>f. RecordedInv /\ UNCHANGED coreVars => RecordedInv'
  BY DEF coreVars, State, RecordedInv, StartingDown, MemoryRecorded, FilesListed, Listed, IntentKnown, AllUp
<1>1. CASE UNCHANGED vars
  BY <1>1, <1>f DEF vars, storeVars, agentVars, txnVars, podVars, coreVars, Recorded
<1>2. CASE Next
  <2>1. OwnInv /\ JobInv /\ RecordedInv /\ ~Corrupt /\ Clean
    BY <1>2, CorruptionCounted DEF Ownership, Jobs, Recorded, OwnInv
  <2>2. CASE Environment
    BY <1>f, <2>1, <2>2, EnvironmentEffects
  <2>3. CASE PrepareStep
    BY <2>1, <2>3, PrepareEffects, PrepareEffectRecorded
  <2>4. CASE UnprepareStep
    BY <2>1, <2>4, UnprepareEffects, UnprepareEffectRecorded
  <2>5. CASE MonitorRecover \/ MonitorPersist \/ StartupStep
    BY <2>1, <2>5, OtherEffects, OtherEffectRecorded
  <2>6. ASSUME NEW a \in Agents, Call(a) PROVE RecordedInv'
    BY <2>1, <2>6, CallEffects, CallEffectRecorded
  <2>. QED  BY <1>2, <2>2, <2>3, <2>4, <2>5, <2>6 DEF Next, Transaction
<1>. QED  BY <1>1, <1>2

\* Every initial state satisfies it.
LEMMA InitRecorded == Init => Recorded
BY DEF Init, Recorded, RecordedInv, StartingDown, MemoryRecorded, Remembered, FilesListed, Listed, IntentKnown, Owned,
       Active, EmptyState, NoClaim, StartupSteps, PrepareSteps, PreparingSteps

\* With one agent at a time and no corruption of claims.json: whenever the agent
\* serves and is inside no transaction, every CDI file has an ownership record.
\* No sequence of failed writes, crashes and restarts leaves an orphan behind.
THEOREM ExposedAlwaysOwned == ASSUME OneAgent PROVE Spec => []ExposedOwned
<1>1. SerialInv /\ Recorded => ExposedOwned
  BY DEF Recorded, RecordedInv, FilesListed, Listed, AllUp, ExposedOwned
<1>2. SerialInv /\ Recorded /\ [Next]_vars => (SerialInv /\ Recorded)'
  BY OneAgent, NextSerial, NextRecorded DEF SerialInv
<1>. QED  BY <1>1, <1>2, InitSerial, InitRecorded, PTL DEF Spec

\* With one agent at a time and no corruption of claims.json, prepare writes
\* ahead: while it resets the devices of a claim and writes its CDI file, the
\* state file says Preparing, also for a claim an earlier call left behind.
THEOREM IntentAlwaysRecorded == ASSUME OneAgent PROVE Spec => []IntentRecorded
<1>1. SerialInv /\ Recorded => IntentRecorded
  <2>. SUFFICES ASSUME SerialInv, Recorded, spent.corruptions = 0, pc \in PreparingSteps
                PROVE  disk.claims[job.cur].phase = "Preparing"
    BY DEF IntentRecorded
  <2>1. State.claims[job.cur].phase = "Preparing" /\ job.cur \in job.todo
    BY DEF SerialInv, Jobs, JobInv, PrepareCurrent, MarkInv, CurrentTodo
  <2>. QED  BY <2>1 DEF Recorded, RecordedInv, IntentKnown, PrepareSteps
<1>2. SerialInv /\ Recorded /\ [Next]_vars => (SerialInv /\ Recorded)'
  BY OneAgent, NextSerial, NextRecorded DEF SerialInv
<1>. QED  BY <1>1, <1>2, InitSerial, InitRecorded, PTL DEF Spec

\* A record new in the file is of a claim kubelet holds, or startup wrote it.
LEMMA FreshHeld ==
  ASSUME OneAgent, SerialInv, Recorded, Uncorrupted, Next, ~Corrupt, NEW c \in Claims, ~Owned(disk, c), Owned(disk', c)
  PROVE  c \in held \/ pc = "serve"
<1>1. TypeInv /\ MarkInv /\ OwnInv /\ JobInv /\ RecordedInv /\ Clean
  BY DEF SerialInv, Ownership, OwnInv, Jobs, Recorded, Uncorrupted
<1>m. pc # "idle" /\ pc \notin StartupSteps => Remembered(State, disk, held)
  BY <1>1 DEF RecordedInv, MemoryRecorded, State, TypeInv, LockHeld
<1>s. pc # "idle" => State \in PersistedState
  BY <1>1, StateType
<1>p. pc # "idle" /\ pc \notin StartupSteps /\ Owned(State, c) => c \in held
  BY <1>m DEF Remembered
<1>. USE DEF StartupSteps
<1>2. CASE PrepareEffect
  <2>1. pc # "idle" /\ pc \notin StartupSteps
    BY <1>2 DEF PrepareEffect, Fails, Repeats, Resumes, Intends, Sanitizes, Advances, Commits, CommitFails, Grants, Ends,
                PrepareSteps, PreparingSteps
  <2>2. ASSUME NEW x \in Claims, Intends(x) PROVE Owned(State, c) \/ c \in held
    <3>1. x \in held
      BY <1>1, <2>2 DEF Intends, JobInv, Batch, PrepareSteps
    <3>2. \E m : Put(State, m, x, Intent(x)) /\ disk' \in {disk, m}
      BY <2>2 DEF Intends, Written
    <3>. QED  BY <3>1, <3>2 DEF Put, Owned
  <2>3. ASSUME Commits \/ CommitFails PROVE Owned(State, c) \/ c \in held
    <3>1. job.cur \in held
      BY <1>1, <2>3 DEF Commits, CommitFails, MarkInv, CurrentTodo, JobInv, Batch, PrepareSteps, PreparingSteps
    <3>2. \E m, rec : Put(State, m, job.cur, rec) /\ disk' \in {disk, m}
      BY <2>3 DEF Commits, CommitFails, Written
    <3>. QED  BY <3>1, <3>2 DEF Put, Owned
  <2>4. ASSUME Grants \/ Ends PROVE Owned(State, c)
    BY <2>4 DEF Grants, Ends, Written
  <2>5. (\E x \in Claims : Fails(x) \/ Repeats(x) \/ Resumes(x)) \/ (\E d \in Devices : Sanitizes(d)) \/ Advances => disk' = disk
    BY DEF Fails, Repeats, Resumes, Sanitizes, Advances
  <2>. QED  BY <1>2, <1>p, <2>1, <2>2, <2>3, <2>4, <2>5 DEF PrepareEffect
<1>3. CASE UnprepareEffect
  <2>1. pc # "idle" /\ pc \notin StartupSteps
    BY <1>3 DEF UnprepareEffect, Skips, Marks, Scrubs, Proceeds, Spares, Forgets, Releases, Ends
  <2>2. ASSUME NEW x \in Claims, Marks(x) PROVE Owned(State, c)
    BY <2>2 DEF Marks, Written, Put, Owned
  <2>3. ASSUME Forgets PROVE Owned(State, c)
    BY <2>3 DEF Forgets, Written, Put, Owned, NoClaim
  <2>4. ASSUME Spares \/ Releases \/ Ends PROVE Owned(State, c)
    BY <2>4 DEF Spares, Releases, Ends, Written
  <2>5. (\E x \in Claims : Skips(x)) \/ (\E d \in Devices : Scrubs(d)) \/ Proceeds => disk' = disk
    BY DEF Skips, Scrubs, Proceeds
  <2>. QED  BY <1>3, <1>p, <2>1, <2>2, <2>3, <2>4, <2>5 DEF UnprepareEffect
<1>4. CASE OtherEffect
  <2>1. (\E d \in Devices : Recovers(d)) \/ Reconciles \/ Sweeps => disk' = disk
    BY DEF Recovers, Reconciles, Sweeps
  <2>2. ASSUME Ends PROVE c \in held
    BY <1>p, <2>2 DEF Ends, Written
  <2>3. Serves \/ Dies => pc = "serve" \/ disk' = disk
    BY DEF Serves, Dies
  <2>. QED  BY <1>4, <2>1, <2>2, <2>3 DEF OtherEffect
<1>5. ASSUME NEW a \in Agents, CallEffect(a) PROVE c \in held
  <2>1. Refreshes(a)
    BY <1>5 DEF CallEffect, CallsPrepare, CallsUnprepare, CallsMonitor, Restarts, Crashes, coreVars
  <2>2. PICK r, m : Merged(mem[a], r) /\ Tame(r, m) /\ disk' \in {disk, m} /\ pc = "idle"
    BY <2>1 DEF Refreshes, Written
  <2>. QED  BY <1>1, <2>2, MergedRemembered DEF Remembered
<1>6. CASE Environment
  BY <1>6, EnvironmentEffects DEF coreVars
<1>. QED  BY <1>1, <1>2, <1>3, <1>4, <1>5, <1>6, PrepareEffects, UnprepareEffects, OtherEffects, CallEffects
          DEF Next, Transaction

\* Corrupt needs a budget.
LEMMA NextUncorrupted ==
  ASSUME MaxCorruptions = 0, TypeInv, Uncorrupted, [Next]_vars PROVE Uncorrupted' /\ ~Corrupt
<1>1. ~Corrupt
  BY DEF Corrupt, Uncorrupted
<1>2. CASE Next
  BY <1>1, <1>2, OthersUncounted DEF Uncorrupted
<1>3. CASE UNCHANGED vars
  BY <1>1, <1>3 DEF vars, Uncorrupted
<1>. QED  BY <1>1, <1>2, <1>3

\* A claim kubelet drops has no record in the file the agent just wrote.
LEMMA DroppedForgotten ==
  ASSUME SerialInv, Uncorrupted, Next, ~Corrupt, NEW c \in held \ held' PROVE ~Owned(disk', c)
<1>1. TypeInv /\ MarkInv /\ OwnInv /\ JobInv /\ Clean
  BY DEF SerialInv, Ownership, OwnInv, Jobs, Uncorrupted
<1>2. PrepareEffect \/ OtherEffect => held' = held
  BY DEF PrepareEffect, Fails, Repeats, Resumes, Intends, Sanitizes, Advances, Commits, CommitFails, Grants, Ends,
         OtherEffect, Recovers, Reconciles, Sweeps, Serves, Dies, worldVars
<1>3. ASSUME NEW a \in Agents, CallEffect(a) PROVE held \subseteq held'
  BY <1>3 DEF CallEffect, CallsPrepare, CallsUnprepare, CallsMonitor, Refreshes, Restarts, Crashes, coreVars, worldVars
<1>4. CASE UnprepareEffect
  <2>1. Releases
    BY <1>4 DEF UnprepareEffect, Skips, Marks, Scrubs, Proceeds, Spares, Forgets, Ends, worldVars
  <2>. QED  BY <1>1, <2>1 DEF Releases, JobInv, ReleaseDone, ReleaseSteps
<1>5. CASE Environment
  BY <1>5, EnvironmentEffects DEF coreVars
<1>. QED  BY <1>1, <1>2, <1>3, <1>4, <1>5, PrepareEffects, UnprepareEffects, OtherEffects, CallEffects
          DEF Next, Transaction

\* With one agent at a time, as long as claims.json was never corrupted, a release
\* kubelet was told of is final: a claim it drops has no record, and only startup
\* records a claim kubelet does not hold.  What memory kept because a write failed
\* is a claim kubelet will release again.
THEOREM ReleasedStaysReleased == ASSUME OneAgent PROVE Spec => NoResurrection
<1>. DEFINE Final == \A c \in Claims :
                       /\ c \in held \ held' => ~Owned(disk', c)
                       /\ ~Owned(disk, c) /\ Owned(disk', c) => c \in held \/ pc = "serve"
<1>1. SerialInv /\ Recorded /\ [Next]_vars => (SerialInv /\ Recorded)'
  BY OneAgent, NextSerial, NextRecorded DEF SerialInv
<1>2. SerialInv /\ Recorded /\ [Next]_vars => [spent'.corruptions = 0 => Final]_vars
  <2>. SUFFICES ASSUME SerialInv, Recorded, Next, spent'.corruptions = 0 PROVE Final
    OBVIOUS
  <2>1. ~Corrupt /\ Uncorrupted
    BY CorruptionCounted DEF SerialInv, Uncorrupted
  <2>. QED  BY <2>1, OneAgent, FreshHeld, DroppedForgotten
<1>. QED  BY <1>1, <1>2, InitSerial, InitRecorded, PTL DEF Spec, NoResurrection
=============================================================================
