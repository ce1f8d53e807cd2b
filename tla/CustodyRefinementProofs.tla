---------------------- MODULE CustodyRefinementProofs -----------------------
(***************************************************************************)
(* With one agent at a time, no forced deletion and no corruption of       *)
(* claims.json, the lifecycle manager implements the custody of the        *)
(* devices, and the devices of running containers are left alone.          *)
(*                                                                         *)
(* What forced deletion would break is that records and allocations agree: *)
(* a claim that is prepared keeps its allocation until kubelet has         *)
(* unprepared it, so that no other record, recovered ones included, has    *)
(* its devices and no unprepare of another claim resets them.              *)
(***************************************************************************)
EXTENDS SerialProofs, LifecycleCustody

(***************************************************************************)
(* Records and allocations agree.                                          *)
(***************************************************************************)
AllocatedIn(s) ==
  \A c \in Claims : Active(s, c) => c \in held /\ alloc[c] = s.claims[c].devs /\ alloc[c] # {}

OwnedApart(s, t) ==
  \A c, x \in Claims : c # x /\ Live(s, c) /\ Owned(t, x) => Disjoint(s, c, t, x)

Allocated == \A s \in Views : AllocatedIn(s)

Apart == \A s, t \in Views : OwnedApart(s, t)

GrantAllocated == \A c \in Claims : grant[c] # {} => c \in held /\ alloc[c] = grant[c]

TodoAllocated == pc \in PrepareSteps => \A c \in job.todo : job.al[c] = alloc[c] /\ alloc[c] # {}

AgreeInv == Allocated /\ Apart /\ GrantAllocated /\ TodoAllocated

\* What m records was recorded in a view, with the same devices; what is active
\* in m was active in a view.
OwnedFrom(m) ==
  \A c \in Claims : Owned(m, c) => \E s \in Views : Owned(s, c) /\ s.claims[c].devs = m.claims[c].devs

ActiveFrom(m) ==
  \A c \in Claims : Active(m, c) => \E s \in Views : Active(s, c) /\ s.claims[c].devs = m.claims[c].devs

\* What is from the views.
LEMMA FromOwned == ASSUME NEW m, RecordsFrom(m) PROVE OwnedFrom(m) /\ ActiveFrom(m)
BY DEF RecordsFrom, OwnedFrom, ActiveFrom, Records, Active, Owned

\* Views whose claims come from the views before keep them apart.
LEMMA FromApart ==
  ASSUME Apart, \A v \in Views' : LiveFrom(v) /\ OwnedFrom(v) PROVE Apart'
BY DEF Apart, OwnedApart, LiveFrom, OwnedFrom, Disjoint, Owned

\* As long as allocations stay and kubelet drops nothing, they stay allocated.
LEMMA FromAllocated ==
  ASSUME Allocated, alloc' = alloc, held \subseteq held', \A v \in Views' : ActiveFrom(v) PROVE Allocated'
BY DEF Allocated, AllocatedIn, ActiveFrom, Active

\* A step that makes no record up.
LEMMA FromAgree ==
  ASSUME AgreeInv, alloc' = alloc, held \subseteq held', \A c \in Claims : grant'[c] \in {grant[c], {}},
         \A v \in Views' : RecordsFrom(v)
  PROVE  Allocated' /\ Apart' /\ GrantAllocated'
<1>1. \A v \in Views' : LiveFrom(v) /\ OwnedFrom(v) /\ ActiveFrom(v)
  BY FromLive, FromOwned
<1>2. Allocated' /\ Apart'
  BY <1>1, FromApart, FromAllocated DEF AgreeInv
<1>. QED  BY <1>2 DEF AgreeInv, GrantAllocated

\* The claims a prepare has left keep their allocation.
LEMMA TodoAgree ==
  ASSUME AgreeInv, pc \in PrepareSteps, job'.todo \subseteq job.todo, job'.al = job.al, alloc' = alloc PROVE TodoAllocated'
BY DEF AgreeInv, TodoAllocated

\* Steps of a prepare.
LEMMA PrepareEffectAgree ==
  ASSUME OneAgent, TypeInv, MarkInv, OwnInv, JobInv, ExclusiveInv, AgreeInv, PrepareEffect PROVE AgreeInv'
<1>. USE DEF PrepareSteps, PreparingSteps
<1>i. pc # "idle"
  BY DEF PrepareEffect, Fails, Repeats, Resumes, Intends, Sanitizes, Advances, Commits, CommitFails, Grants, Ends
<1>v. Views = {disk, State} /\ State \in PersistedState /\ State \in Views /\ disk \in Views
  BY <1>i, SerialViews, StateType
<1>k. PICK k : k = disk
  OBVIOUS
<1>f. ASSUME grant' = grant PROVE LiveFrom(k) /\ OwnedFrom(k) /\ ActiveFrom(k)
  BY <1>f, <1>k, <1>v, FromLive, FromOwned, FromView DEF From
<1>1. ASSUME PlainStep, UNCHANGED <<alloc, held, grant>>, TodoAllocated' PROVE AgreeInv'
  BY <1>1, PlainStepFrom, FromAgree DEF From, AgreeInv
<1>2. ASSUME NEW c \in Claims, Fails(c) \/ Repeats(c) \/ Resumes(c) PROVE AgreeInv'
  <2>1. PlainStep /\ UNCHANGED <<alloc, held, grant>>
    BY <1>2 DEF PlainStep, Fails, Repeats, Resumes, worldVars
  <2>2. TodoAllocated'
    BY <1>2, TodoAgree DEF Fails, Repeats, Resumes, Decided, Working, worldVars
  <2>. QED  BY <1>1, <2>1, <2>2
<1>3. ASSUME (\E d \in Devices : Sanitizes(d)) \/ Advances PROVE AgreeInv'
  <2>1. PlainStep /\ UNCHANGED <<alloc, held, grant>>
    BY <1>3 DEF PlainStep, Sanitizes, Advances, worldVars
  <2>2. TodoAllocated'
    BY <1>3, TodoAgree DEF Sanitizes, Advances, Working, worldVars
  <2>. QED  BY <1>1, <2>1, <2>2
<1>4. CASE Ends
  <2>1. PlainStep /\ UNCHANGED <<alloc, held, grant>> /\ pc' = "idle"
    BY <1>4 DEF PlainStep, Ends, Idle, worldVars
  <2>. QED  BY <1>1, <2>1 DEF TodoAllocated
<1>5. ASSUME NEW c \in Claims, Intends(c) PROVE AgreeInv'
  <2>1. PICK m : /\ Put(State, m, c, Intent(c))
                 /\ disk' \in {disk, m}
                 /\ Continues(State) \/ Continues(m)
                 /\ job'.todo \subseteq job.todo /\ job'.al = job.al
    BY <1>5 DEF Intends, Written, Working, Decided
  <2>2. pc = "prepare" /\ c \in job.todo /\ Valid(c) /\ ~Owned(State, c) /\ UNCHANGED <<alloc, held, grant>>
    BY <1>5 DEF Intends, worldVars
  <2>3. /\ m.claims[c].devs = job.al[c] /\ \A x \in Claims \ {c} : m.claims[x] = State.claims[x]
        /\ Owned(m, c)
    BY <2>1 DEF Put, Intent, Owned
  <2>4. Views' \subseteq {disk, State, m}
    BY <2>1, KnownViews DEF Continues
  <2>5. ASSUME NEW s \in {disk, State, m}, NEW t \in {disk, State, m}, NEW x \in Claims, NEW y \in Claims,
               x # y, Live(s, x), Owned(t, y)
        PROVE  Disjoint(s, x, t, y)
    <3>0. ASSUME NEW u \in {disk, State, m}, NEW z \in Claims, z # c \/ u # m
          PROVE  \E w \in Views : /\ w.claims[z] = u.claims[z]
                                  /\ (Live(u, z) => Live(w, z)) /\ (Owned(u, z) => Owned(w, z))
      <4>1. CASE u \in {disk, State}
        BY <1>v, <4>1
      <4>2. CASE u = m /\ z # c
        BY <1>v, <2>3, <4>2 DEF Live, Owned, Active
      <4>. QED  BY <3>0, <4>1, <4>2
    <3>u. ASSUME NEW z \in Claims \ {c}, NEW u \in {disk, State, m}, Owned(u, z)
          PROVE  job.al[c] \cap u.claims[z].devs = {}
      <4>1. CASE u \in {State, disk}
        BY <2>2, <3>u, <4>1, ValidUnheld
      <4>2. CASE u = m
        BY <2>2, <2>3, <3>u, <4>2, ValidUnheld DEF Owned
      <4>. QED  BY <4>1, <4>2
    <3>1. CASE (x # c \/ s # m) /\ (y # c \/ t # m)
      <4>1. PICK w \in Views : w.claims[x] = s.claims[x] /\ Live(w, x)
        BY <2>5, <3>0, <3>1
      <4>2. PICK u \in Views : u.claims[y] = t.claims[y] /\ Owned(u, y)
        BY <2>5, <3>0, <3>1
      <4>. QED  BY <2>5, <4>1, <4>2 DEF AgreeInv, Apart, OwnedApart, Disjoint
    <3>2. CASE x = c /\ s = m
      BY <2>3, <2>5, <3>2, <3>u DEF Disjoint
    <3>3. CASE y = c /\ t = m
      BY <2>3, <2>5, <3>3, <3>u DEF Disjoint, Live
    <3>. QED  BY <3>1, <3>2, <3>3
  <2>6. Apart'
    BY <2>2, <2>4, <2>5 DEF Apart, OwnedApart, Live, Active, Owned, Disjoint
  <2>7. c \in held /\ job.al[c] = alloc[c] /\ alloc[c] # {}
    BY <2>2 DEF JobInv, Batch, AgreeInv, TodoAllocated
  <2>8. AllocatedIn(disk) /\ AllocatedIn(State) /\ AllocatedIn(m)
    <3>1. AllocatedIn(disk) /\ AllocatedIn(State)
      BY <1>v DEF AgreeInv, Allocated
    <3>. QED  BY <2>3, <2>7, <3>1 DEF AllocatedIn, Active
  <2>9. Allocated'
    BY <2>2, <2>4, <2>8 DEF Allocated, AllocatedIn, Active
  <2>10. GrantAllocated' /\ TodoAllocated'
    BY <2>1, <2>2, TodoAgree DEF AgreeInv, GrantAllocated
  <2>. QED  BY <2>6, <2>9, <2>10 DEF AgreeInv
<1>c. pc = "commit" => /\ job.cur \in Claims /\ State.claims[job.cur] \in PreparedClaim
                       /\ State.claims[job.cur].phase = "Preparing"
  BY <1>v DEF TypeInv, CurrentClaim, JobInv, PrepareCurrent, PersistedState
<1>m. ASSUME NEW m, NEW p \in {"Preparing", "Prepared"}, pc = "commit", grant' = grant,
             Put(State, m, job.cur, [State.claims[job.cur] EXCEPT !.phase = p])
      PROVE  LiveFrom(m) /\ OwnedFrom(m) /\ ActiveFrom(m)
  <2>1. m.claims[job.cur].devs = State.claims[job.cur].devs /\ m.claims[job.cur].phase = p
    BY <1>c, <1>m DEF Put, PreparedClaim
  <2>2. ASSUME NEW c \in Claims
        PROVE  /\ m.claims[c].devs = State.claims[c].devs /\ (Owned(m, c) <=> Owned(State, c))
               /\ Active(m, c) <=> Active(State, c)
    BY <1>c, <1>m, <2>1 DEF Put, Owned, Active
  <2>3. OwnedFrom(m) /\ ActiveFrom(m)
    BY <1>v, <2>2 DEF OwnedFrom, ActiveFrom
  <2>4. LiveFrom(m)
    BY <1>m, <1>v, <2>2 DEF LiveFrom, Live, Owned, Active
  <2>. QED  BY <2>3, <2>4
<1>6. CASE Commits
  <2>1. PICK m : /\ Put(State, m, job.cur, [State.claims[job.cur] EXCEPT !.phase = "Prepared"])
                 /\ Continues(m) /\ disk' = m
    BY <1>6 DEF Commits
  <2>2. /\ pc = "commit" /\ UNCHANGED <<alloc, held, grant>>
        /\ job'.todo \subseteq job.todo /\ job'.al = job.al
    BY <1>6 DEF Commits, worldVars
  <2>3. Views' = {m}
    BY <2>1, KnownViews DEF Continues
  <2>4. Allocated' /\ Apart'
    BY <1>m, <2>1, <2>2, <2>3, FromApart, FromAllocated DEF AgreeInv
  <2>5. GrantAllocated' /\ TodoAllocated'
    BY <2>2, TodoAgree DEF AgreeInv, GrantAllocated
  <2>. QED  BY <2>4, <2>5 DEF AgreeInv
<1>7. CASE CommitFails
  <2>1. PICK m : Put(State, m, job.cur, [State.claims[job.cur] EXCEPT !.phase = "Prepared"]) /\ disk' \in {disk, m}
    BY <1>7 DEF CommitFails, Written
  <2>2. PICK t : /\ Tame(State, t) \/ Put(State, t, job.cur, [State.claims[job.cur] EXCEPT !.phase = "Preparing"])
                 /\ Continues(t)
    BY <1>7 DEF CommitFails
  <2>3. /\ pc = "commit" /\ UNCHANGED <<alloc, held, grant>>
        /\ job'.todo \subseteq job.todo /\ job'.al = job.al
    BY <1>7 DEF CommitFails, worldVars, Decided
  <2>4. Views' = {disk', t}
    BY <2>2, KnownViews DEF Continues
  <2>5. LiveFrom(t) /\ OwnedFrom(t) /\ ActiveFrom(t)
    <3>1. CASE Tame(State, t)
      BY <1>v, <2>3, <3>1, FromTame, FromView, FromLive, FromOwned DEF From
    <3>2. CASE Put(State, t, job.cur, [State.claims[job.cur] EXCEPT !.phase = "Preparing"])
      BY <1>m, <2>3, <3>2
    <3>. QED  BY <2>2, <3>1, <3>2
  <2>6. LiveFrom(m) /\ OwnedFrom(m) /\ ActiveFrom(m)
    BY <1>m, <2>1, <2>3
  <2>7. Allocated' /\ Apart'
    BY <1>f, <1>k, <2>1, <2>3, <2>4, <2>5, <2>6, FromApart, FromAllocated DEF AgreeInv
  <2>8. GrantAllocated' /\ TodoAllocated'
    BY <2>3, TodoAgree DEF AgreeInv, GrantAllocated
  <2>. QED  BY <2>7, <2>8 DEF AgreeInv
<1>8. CASE Grants
  <2>1. /\ pc = "prepare" /\ pc' = "idle" /\ disk' = State /\ UNCHANGED <<mem, alloc, held>>
        /\ \A c \in Claims : grant'[c] = IF c \in job.done THEN job.al[c] ELSE grant[c]
    BY <1>8 DEF Grants, Idle
  <2>2. PICK s : s = State
    OBVIOUS
  <2>3. Views' = {s}
    <3>1. holder \in Agents /\ \A a \in Agents : a = holder
      BY <1>i DEF OneAgent, TypeInv, LockHeld
    <3>. QED  BY <2>1, <2>2, <3>1 DEF Views, State
  <2>4. LiveFrom(s)
    <3>1. ASSUME NEW c \in Claims, Owned(s, c), Active(s, c) \/ grant'[c] # {} PROVE Live(s, c)
      BY <2>1, <2>2, <3>1 DEF JobInv, PrepareDone, Live, Active
    <3>. QED  BY <1>v, <2>2, <3>1 DEF LiveFrom, Live, Active, Owned
  <2>5. OwnedFrom(s) /\ ActiveFrom(s)
    BY <1>v, <2>2 DEF OwnedFrom, ActiveFrom
  <2>6. Allocated' /\ Apart'
    BY <2>1, <2>3, <2>4, <2>5, FromApart, FromAllocated DEF AgreeInv
  <2>7. ASSUME NEW c \in Claims, grant'[c] # {} PROVE c \in held /\ alloc[c] = grant'[c]
    <3>1. CASE c \in job.done
      <4>1. Active(State, c) /\ State.claims[c].devs = job.al[c]
        BY <2>1, <3>1 DEF JobInv, PrepareDone, Active, OwnInv, DoneRecorded, Records
      <4>. QED  BY <1>v, <2>1, <3>1, <4>1 DEF AgreeInv, Allocated, AllocatedIn
    <3>2. CASE c \notin job.done
      BY <2>1, <2>7, <3>2 DEF AgreeInv, GrantAllocated
    <3>. QED  BY <3>1, <3>2
  <2>8. GrantAllocated' /\ TodoAllocated'
    BY <2>1, <2>7 DEF GrantAllocated, TodoAllocated
  <2>. QED  BY <2>6, <2>8 DEF AgreeInv
<1>. QED  BY <1>2, <1>3, <1>4, <1>5, <1>6, <1>7, <1>8 DEF PrepareEffect

\* Steps of an unprepare.
LEMMA UnprepareEffectAgree ==
  ASSUME OneAgent, TypeInv, OwnInv, JobInv, AgreeInv, UnprepareEffect PROVE AgreeInv'
<1>1. PlainStep
  BY DEF UnprepareEffect, PlainStep
<1>2. UNCHANGED <<alloc, grant>> /\ pc' \notin PrepareSteps /\ pc # "idle"
  BY DEF UnprepareEffect, Skips, Marks, Scrubs, Proceeds, Spares, Forgets, Releases, Ends, Idle, worldVars,
         PrepareSteps, PreparingSteps
<1>3. CASE UNCHANGED held
  BY <1>1, <1>2, <1>3, PlainStepFrom, FromAgree DEF From, AgreeInv, TodoAllocated
<1>4. CASE Releases
  <2>1. /\ pc = "unprepare" /\ disk' = State /\ held' = held \ job.done /\ mem' = mem
        /\ holder \in Agents /\ \A a \in Agents : a = holder
    BY <1>2, <1>4 DEF Releases, OneAgent, TypeInv, LockHeld
  <2>2. PICK s : s = State
    OBVIOUS
  <2>3. Views' = {s} /\ s \in Views
    BY <2>1, <2>2 DEF Views, State
  <2>4. \A c \in job.done : ~Owned(s, c)
    BY <2>1, <2>2 DEF JobInv, ReleaseDone, ReleaseSteps
  <2>5. Allocated'
    BY <1>2, <2>1, <2>3, <2>4 DEF AgreeInv, Allocated, AllocatedIn, Active, Owned
  <2>6. GrantAllocated'
    BY <1>2, <2>1, <2>2, <2>4 DEF AgreeInv, GrantAllocated, OwnInv, GrantHeld, Keeps, Records
  <2>7. From(s)
    BY <2>3, FromView
  <2>8. Apart'
    BY <1>2, <2>3, <2>7, FromLive, FromOwned, FromApart DEF From, AgreeInv
  <2>. QED  BY <1>2, <2>5, <2>6, <2>8 DEF AgreeInv, TodoAllocated
<1>. QED  BY <1>3, <1>4 DEF UnprepareEffect, Skips, Marks, Scrubs, Proceeds, Spares, Forgets, Ends, worldVars

\* Steps of the janitor and of startup.  A claim startup recovers has the devices
\* of its allocation, which no claim in use has.
LEMMA OtherEffectAgree ==
  ASSUME OneAgent, TypeInv, OwnInv, ExclusiveInv, AgreeInv, OtherEffect PROVE AgreeInv'
<1>1. UNCHANGED <<alloc, grant, held>> /\ pc' \notin PrepareSteps /\ pc # "idle"
  BY DEF OtherEffect, Recovers, Reconciles, Sweeps, Serves, Dies, Ends, Idle, worldVars, PrepareSteps, PreparingSteps
<1>s. Views = {disk, State}
  BY <1>1, SerialViews
<1>k. PICK k : k = disk
  OBVIOUS
<1>d. From(k)
  BY <1>k, <1>s, FromView
<1>2. ASSUME \A v \in Views' : RecordsFrom(v) PROVE AgreeInv'
  BY <1>1, <1>2, FromAgree DEF AgreeInv, TodoAllocated
<1>3. CASE PlainStep
  BY <1>2, <1>3, PlainStepFrom DEF From
<1>4. ASSUME NEW d \in Devices, Recovers(d) PROVE AgreeInv'
  <2>1. PICK t : Continues(t) /\ t.claims = State.claims
    BY <1>4 DEF Recovers, Tame, Cleared, Awaits
  <2>2. RecordsFrom(t)
    BY <1>s, <2>1 DEF RecordsFrom, Records, Owned
  <2>3. Views' = {k, t}
    BY <1>4, <1>k, <2>1, KnownViews DEF Recovers, Continues
  <2>. QED  BY <1>2, <1>d, <2>2, <2>3 DEF From
<1>5. CASE Reconciles
  <2>1. PICK t : Continues(t) /\ Reconciled(State, t)
    BY <1>5 DEF Reconciles
  <2>2. Views' = {k, t}
    BY <1>5, <1>k, <2>1, KnownViews DEF Reconciles, Continues
  <2>3. ASSUME NEW c \in Claims, Live(t, c)
        PROVE  Live(State, c) /\ State.claims[c].devs = t.claims[c].devs /\ (Active(t, c) => Active(State, c))
    <3>1. Owned(State, c)
      BY <1>1, <2>1, <2>3 DEF OwnInv, GrantHeld, Keeps, Records, Reconciled, Live, Active, Owned
    <3>2. Active(t, c) => Active(State, c)
      BY <2>1, <3>1 DEF Reconciled, Active
    <3>. QED  BY <2>1, <2>3, <3>1, <3>2 DEF Live, Reconciled, Records
  <2>4. Allocated'
    <3>1. ActiveFrom(t)
      BY <1>s, <2>3 DEF ActiveFrom, Live, Active, Owned
    <3>. QED  BY <1>1, <1>d, <2>2, <3>1, FromOwned, FromAllocated DEF From, AgreeInv
  <2>5. ASSUME NEW s \in {k, t}, NEW u \in {k, t}, NEW c \in Claims, NEW x \in Claims,
               c # x, Live(s, c), Owned(u, x)
        PROVE  Disjoint(s, c, u, x)
    <3>1. PICK v \in {disk, State} : Live(v, c) /\ v.claims[c].devs = s.claims[c].devs
      BY <1>k, <2>3, <2>5
    <3>2. ASSUME NEW w \in {disk, State}, Owned(w, x), w.claims[x].devs = u.claims[x].devs PROVE Disjoint(s, c, u, x)
      BY <1>s, <2>5, <3>1, <3>2 DEF AgreeInv, Apart, OwnedApart, Disjoint
    <3>3. CASE u = k
      BY <1>k, <2>5, <3>2, <3>3
    <3>4. CASE u = t /\ Owned(State, x)
      BY <2>1, <3>2, <3>4 DEF Reconciled, Records
    <3>5. CASE u = t /\ ~Owned(State, x)
      <4>1. t.claims[x].devs = alloc[x]
        BY <2>1, <2>5, <3>5 DEF Reconciled
      <4>2. v.claims[c].devs = alloc[c]
        BY <1>1, <1>s, <3>1 DEF Live, AgreeInv, Allocated, AllocatedIn, GrantAllocated, OwnInv, GrantStored, GrantHeld,
                                Keeps, Records
      <4>. QED  BY <2>5, <3>1, <3>5, <4>1, <4>2 DEF ExclusiveInv, AllocDisjoint, Disjoint
    <3>. QED  BY <2>5, <3>3, <3>4, <3>5
  <2>6. Apart'
    BY <1>1, <2>2, <2>5 DEF Apart, OwnedApart, Live, Active, Owned, Disjoint
  <2>7. GrantAllocated' /\ TodoAllocated'
    BY <1>1 DEF AgreeInv, GrantAllocated, TodoAllocated
  <2>. QED  BY <2>4, <2>6, <2>7 DEF AgreeInv
<1>. QED  BY <1>3, <1>4, <1>5 DEF OtherEffect, PlainStep

\* Calls.
LEMMA CallEffectAgree ==
  ASSUME OneAgent, TypeInv, JobInv, AgreeInv, NEW a \in Agents, CallEffect(a) PROVE AgreeInv'
<1>. USE DEF PrepareSteps, PreparingSteps
<1>1. UNCHANGED alloc /\ held \subseteq held' /\ \A c \in Claims : grant'[c] \in {grant[c], {}}
  BY DEF CallEffect, CallsPrepare, CallsUnprepare, CallsMonitor, Refreshes, Restarts, Crashes, coreVars, worldVars
<1>2. Allocated' /\ Apart' /\ GrantAllocated'
  BY <1>1, CallFrom, FromAgree DEF From
<1>3. ASSUME NEW batch \in SUBSET Claims, CallsPrepare(a, batch) PROVE TodoAllocated'
  BY <1>3 DEF CallsPrepare, TodoAllocated
<1>4. ASSUME NEW batch \in SUBSET Claims, CallsUnprepare(a, batch) PROVE TodoAllocated'
  BY <1>4 DEF CallsUnprepare, TodoAllocated
<1>5. ASSUME CallsMonitor(a) \/ Restarts(a) \/ Refreshes(a) PROVE TodoAllocated'
  BY <1>5 DEF CallsMonitor, Restarts, Refreshes, TodoAllocated
<1>6. ASSUME Crashes(a) PROVE TodoAllocated'
  <2>1. pc' = "idle"
    BY <1>6 DEF Crashes, Idle, OneAgent, TypeInv, LockHeld
  <2>. QED  BY <2>1 DEF TodoAllocated
<1>7. ASSUME UNCHANGED <<coreVars, user, alloc, running>> PROVE TodoAllocated'
  BY <1>7 DEF AgreeInv, TodoAllocated, coreVars
<1>. QED  BY <1>2, <1>3, <1>4, <1>5, <1>6, <1>7 DEF CallEffect, AgreeInv

\* The environment.  Without forced deletion a claim kubelet holds keeps its
\* allocation.
LEMMA EnvironmentAgree ==
  ASSUME ForcedDeletion = FALSE, TypeInv, JobInv, AgreeInv, Environment, ~Corrupt PROVE AgreeInv'
<1>1. UNCHANGED coreVars /\ (UNCHANGED alloc \/ \E c \in Claims : Allocate(c) \/ Deallocate(c))
  BY EnvironmentEffects
<1>2. Views' = Views /\ Apart' /\ UNCHANGED <<held, grant, pc, job>>
  BY <1>1 DEF coreVars, AgreeInv, Apart, OwnedApart, Live, Views, Disjoint
<1>3. CASE UNCHANGED alloc
  BY <1>2, <1>3 DEF AgreeInv, Allocated, AllocatedIn, GrantAllocated, TodoAllocated
<1>4. ASSUME NEW c \in Claims, Allocate(c) \/ Deallocate(c) PROVE AgreeInv'
  <2>1. alloc[c] = {} \/ c \notin held
    BY <1>4 DEF Allocate, Deallocate
  <2>2. \A x \in Claims \ {c} : alloc'[x] = alloc[x]
    BY <1>4 DEF Allocate, Deallocate, TypeInv, TypeOK
  <2>3. Allocated' /\ GrantAllocated'
    BY <1>2, <2>1, <2>2 DEF AgreeInv, Allocated, AllocatedIn, GrantAllocated
  <2>4. TodoAllocated'
    BY <1>2, <2>1, <2>2 DEF AgreeInv, TodoAllocated, JobInv, Batch, TypeInv, TypeOK, Job
  <2>. QED  BY <1>2, <2>3, <2>4 DEF AgreeInv
<1>. QED  BY <1>1, <1>3, <1>4

Agreeing == spent.corruptions = 0 => AgreeInv

\* Every step preserves the invariant.
LEMMA NextAgree ==
  ASSUME OneAgent, ForcedDeletion = FALSE, SerialInv, Agreeing, [Next]_vars PROVE Agreeing'
<1>. SUFFICES ASSUME spent'.corruptions = 0 PROVE AgreeInv'
  BY DEF Agreeing
<1>. USE DEF SerialInv
<1>1. CASE UNCHANGED vars
  BY <1>1 DEF vars, storeVars, txnVars, podVars, Agreeing, AgreeInv, Allocated, AllocatedIn, Apart, OwnedApart, Live,
              Views, GrantAllocated, TodoAllocated, Disjoint
<1>2. CASE Next
  <2>1. OwnInv /\ JobInv /\ ExclusiveInv /\ AgreeInv /\ ~Corrupt /\ Clean
    BY <1>2, CorruptionCounted DEF Ownership, Jobs, Exclusive, Agreeing, OwnInv
  <2>2. CASE Environment
    BY <2>1, <2>2, EnvironmentAgree
  <2>3. CASE PrepareStep
    BY <2>1, <2>3, PrepareEffects, PrepareEffectAgree
  <2>4. CASE UnprepareStep
    BY <2>1, <2>4, UnprepareEffects, UnprepareEffectAgree
  <2>5. CASE MonitorRecover \/ MonitorPersist \/ StartupStep
    BY <2>1, <2>5, OtherEffects, OtherEffectAgree
  <2>6. ASSUME NEW a \in Agents, Call(a) PROVE AgreeInv'
    BY <2>1, <2>6, CallEffects, CallEffectAgree
  <2>. QED  BY <1>2, <2>2, <2>3, <2>4, <2>5, <2>6 DEF Next, Transaction
<1>. QED  BY <1>1, <1>2

\* Every initial state satisfies it.
LEMMA InitAgree == Init => Agreeing
<1>. SUFFICES ASSUME Init PROVE AgreeInv
  BY DEF Agreeing
<1>1. \A v \in Views : v = EmptyState
  BY DEF Init, Views
<1>2. Allocated /\ Apart
  BY <1>1 DEF Allocated, AllocatedIn, Apart, OwnedApart, Live, Active, Owned, EmptyState, NoClaim
<1>. QED  BY <1>2 DEF Init, AgreeInv, GrantAllocated, TodoAllocated, PrepareSteps, PreparingSteps

-----------------------------------------------------------------------------
(***************************************************************************)
(* What a step does to the devices: nothing, a reset of a device nobody    *)
(* has, a grant, the beginning of a release, or what containers do.        *)
(***************************************************************************)
Unleased(d) == \A c \in Claims : d \notin grant[c]

Resets(d) == user' = [user EXCEPT ![d] = NoOwner] /\ Unleased(d) /\ UNCHANGED <<disk, grant, running>>

CustodyEffect ==
  \/ UNCHANGED <<user, grant, running>>
  \/ \E d \in Devices : Resets(d)
  \/ Grants
  \/ \E a \in Agents, batch \in SUBSET Claims : CallsUnprepare(a, batch)
  \/ \E c \in Claims : (ContainerStart(c) \/ ContainerStop(c)) /\ UNCHANGED <<disk, grant>>

\* A granted claim is in use in the file, with the devices granted.
LEMMA GrantedLive ==
  ASSUME OwnInv, NEW c \in Claims, grant[c] # {}
  PROVE  disk \in Views /\ Live(disk, c) /\ disk.claims[c].devs = grant[c]
BY DEF Views, OwnInv, GrantStored, Keeps, Records, Live

\* The devices of a claim that is being prepared are nobody else's.
LEMMA PreparingUnleased ==
  ASSUME OneAgent, TypeInv, OwnInv, JobInv, ExclusiveInv, pc \in PreparingSteps, NEW d \in job.left PROVE Unleased(d)
<1>1. /\ job.cur \in Claims /\ State.claims[job.cur].phase = "Preparing"
      /\ State.claims[job.cur].devs = job.al[job.cur] /\ d \in job.al[job.cur]
  BY DEF TypeInv, CurrentClaim, JobInv, PrepareCurrent, OwnInv, CurrentRecorded, Records
<1>2. pc # "idle" /\ State \in Views /\ Live(State, job.cur)
  BY <1>1, SerialViews DEF PreparingSteps, Live, Owned, Active
<1>3. ASSUME NEW c \in Claims, d \in grant[c] PROVE FALSE
  <2>1. c # job.cur
    BY <1>1, <1>2, <1>3 DEF JobInv, GrantSettled, Settled
  <2>2. disk \in Views /\ Live(disk, c) /\ disk.claims[c].devs = grant[c]
    BY <1>3, GrantedLive
  <2>. QED  BY <1>1, <1>2, <1>3, <2>1, <2>2 DEF ExclusiveInv, Exclusion, LiveExclusive, Disjoint
<1>. QED  BY <1>3 DEF Unleased

\* The devices of a claim that is being released are nobody else's: this is where
\* records and allocations must agree.
LEMMA ReleasingUnleased ==
  ASSUME OneAgent, TypeInv, MarkInv, OwnInv, JobInv, AgreeInv, pc = "scrub", NEW d \in job.left PROVE Unleased(d)
<1>. USE DEF ReleaseSteps, ReleasingSteps
<1>1. /\ job.cur \in Claims /\ State.claims[job.cur].phase = "Releasing" /\ d \in State.claims[job.cur].devs
      /\ grant[job.cur] = {}
  BY DEF TypeInv, CurrentClaim, JobInv, ReleaseCurrent, MarkInv, CurrentTodo, OwnInv, ReleaseRevoked
<1>2. State \in Views /\ Owned(State, job.cur)
  BY <1>1, SerialViews DEF Owned
<1>3. ASSUME NEW c \in Claims, d \in grant[c] PROVE FALSE
  <2>1. disk \in Views /\ Live(disk, c) /\ disk.claims[c].devs = grant[c]
    BY <1>3, GrantedLive
  <2>. QED  BY <1>1, <1>2, <1>3, <2>1 DEF AgreeInv, Apart, OwnedApart, Disjoint
<1>. QED  BY <1>3 DEF Unleased

\* The devices the janitor recovers are nobody's.
LEMMA IdleUnleased ==
  ASSUME OwnInv, CleanInv, pc = "monitor", NEW d \in job.left PROVE Unleased(d)
BY DEF OwnInv, GrantHeld, Keeps, Records, CleanInv, RecoverIdle, Holders, Unleased

\* Every step has one of these effects.
LEMMA CustodyEffects ==
  ASSUME OneAgent, SerialInv, Agreeing, Uncorrupted, Next, ~Corrupt PROVE CustodyEffect
<1>0. TypeInv /\ MarkInv /\ OwnInv /\ JobInv /\ ExclusiveInv /\ CleanInv /\ AgreeInv /\ Clean
  BY DEF SerialInv, Agreeing, Uncorrupted, Ownership, Jobs, Exclusive, Cleanly, OwnInv
<1>j. job.left \subseteq Devices
  BY <1>0 DEF TypeInv, TypeOK, Job
<1>r. ASSUME NEW d \in job.left, Unleased(d), Wiped(d), UNCHANGED <<disk, grant, running>> PROVE CustodyEffect
  BY <1>j, <1>r DEF Wiped, CustodyEffect, Resets
<1>u. ASSUME UNCHANGED <<user, grant, running>> PROVE CustodyEffect
  BY <1>u DEF CustodyEffect
<1>1. CASE PrepareEffect
  <2>. USE DEF worldVars
  <2>1. ASSUME NEW c \in Claims, Fails(c) PROVE CustodyEffect
    <3>1. CASE UNCHANGED user
      BY <1>u, <2>1, <3>1 DEF Fails
    <3>2. CASE pc = "sanitize" /\ \E d \in job.left : Wiped(d)
      BY <1>0, <1>r, <2>1, <3>2, PreparingUnleased DEF Fails, PreparingSteps
    <3>. QED  BY <2>1, <3>1, <3>2 DEF Fails
  <2>2. ASSUME NEW d \in Devices, Sanitizes(d) PROVE CustodyEffect
    BY <1>0, <1>r, <2>2, PreparingUnleased DEF Sanitizes, PreparingSteps, Wiped
  <2>3. CASE Grants
    BY <2>3 DEF CustodyEffect
  <2>. QED  BY <1>1, <1>u, <2>1, <2>2, <2>3 DEF PrepareEffect, Repeats, Resumes, Intends, Advances, Commits, CommitFails, Ends
<1>2. CASE UnprepareEffect
  <2>1. ASSUME NEW d \in Devices, Scrubs(d) PROVE CustodyEffect
    BY <1>0, <1>r, <2>1, ReleasingUnleased DEF Scrubs, Wiped, worldVars
  <2>. QED  BY <1>2, <1>u, <2>1 DEF UnprepareEffect, Skips, Marks, Proceeds, Spares, Forgets, Releases, Ends, worldVars
<1>3. CASE OtherEffect
  <2>1. ASSUME NEW d \in Devices, Recovers(d) PROVE CustodyEffect
    BY <1>0, <1>r, <2>1, IdleUnleased DEF Recovers, Wiped, worldVars
  <2>. QED  BY <1>3, <1>u, <2>1 DEF OtherEffect, Reconciles, Sweeps, Serves, Dies, Ends, worldVars
<1>4. ASSUME NEW a \in Agents, CallEffect(a) PROVE CustodyEffect
  <2>1. ASSUME NEW batch \in SUBSET Claims, CallsUnprepare(a, batch) PROVE CustodyEffect
    BY <2>1 DEF CustodyEffect
  <2>. QED  BY <1>4, <1>u, <2>1 DEF CallEffect, CallsPrepare, CallsMonitor, Refreshes, Restarts, Crashes, coreVars, worldVars
<1>5. CASE Environment
  <2>1. UNCHANGED coreVars /\ (\/ UNCHANGED <<user, running>>
                               \/ \E c \in Claims : ContainerStart(c) \/ ContainerStop(c))
    BY <1>5, EnvironmentEffects
  <2>. QED  BY <1>u, <2>1 DEF coreVars, CustodyEffect
<1>. QED  BY <1>0, <1>1, <1>2, <1>3, <1>4, <1>5, PrepareEffects, UnprepareEffects, OtherEffects, CallEffects
          DEF Next, Transaction

-----------------------------------------------------------------------------
(***************************************************************************)
(* The devices of running containers.                                      *)
(***************************************************************************)
RunningGranted == \A c \in running : grant[c] # {}

RunInv == RunningGranted /\ RunningUndisturbed

\* Two granted claims share no device.
LEMMA GrantsDisjoint ==
  ASSUME OwnInv, ExclusiveInv, NEW c \in Claims, NEW x \in Claims, c # x PROVE grant[c] \cap grant[x] = {}
<1>. SUFFICES ASSUME grant[c] # {}, grant[x] # {} PROVE grant[c] \cap grant[x] = {}
  OBVIOUS
<1>1. disk \in Views /\ Live(disk, c) /\ disk.claims[c].devs = grant[c] /\ Live(disk, x) /\ disk.claims[x].devs = grant[x]
  BY GrantedLive
<1>. QED  BY <1>1 DEF ExclusiveInv, Exclusion, LiveExclusive, Disjoint

\* Each of the effects leaves running containers their devices.
LEMMA EffectRuns ==
  ASSUME TypeInv, OwnInv, ExclusiveInv, RunInv, CustodyEffect PROVE RunInv'
<1>. USE DEF RunInv, RunningGranted, RunningUndisturbed
<1>t. running \subseteq Claims /\ user \in [Devices -> Claims \cup {NoOwner}] /\ grant \in [Claims -> SUBSET Devices]
  BY DEF TypeInv, TypeOK
<1>1. CASE UNCHANGED <<user, grant, running>>
  BY <1>1
<1>2. ASSUME NEW d \in Devices, Resets(d) PROVE RunInv'
  BY <1>2, <1>t DEF Resets, Unleased
<1>3. CASE Grants
  <2>1. UNCHANGED <<user, running>> /\ pc = "prepare" /\ \A c \in Claims : grant'[c] = IF c \in job.done THEN job.al[c] ELSE grant[c]
    BY <1>3 DEF Grants
  <2>2. \A c \in running : grant'[c] = grant[c]
    BY <1>t, <2>1 DEF OwnInv, GrantHeld, DoneRecorded, Keeps, Records, PrepareSteps
  <2>. QED  BY <2>1, <2>2
<1>4. ASSUME NEW a \in Agents, NEW batch \in SUBSET Claims, CallsUnprepare(a, batch) PROVE RunInv'
  BY <1>4, <1>t DEF CallsUnprepare
<1>5. ASSUME NEW c \in Claims, ContainerStart(c), UNCHANGED grant PROVE RunInv'
  <2>1. /\ running' = running \cup {c} /\ grant[c] # {}
        /\ \A d \in Devices : user'[d] = IF d \in grant[c] THEN c ELSE user[d]
    BY <1>5 DEF ContainerStart
  <2>2. ASSUME NEW x \in running, NEW d \in grant[x], x # c PROVE user'[d] = x
    BY <1>t, <2>1, <2>2, GrantsDisjoint
  <2>3. \A d \in grant[c] : user'[d] = c
    BY <1>t, <2>1
  <2>. QED  BY <1>5, <2>1, <2>2, <2>3
<1>6. ASSUME NEW c \in Claims, ContainerStop(c), UNCHANGED grant PROVE RunInv'
  BY <1>6 DEF ContainerStop
<1>. QED  BY <1>1, <1>2, <1>3, <1>4, <1>5, <1>6 DEF CustodyEffect

Undisturbed == Uncorrupted => RunInv

CustodyInv == SerialInv /\ Agreeing /\ Undisturbed

\* Every initial state satisfies the invariants.
LEMMA InitCustody == Init => CustodyInv
BY InitSerial, InitAgree DEF CustodyInv, Undisturbed, RunInv, RunningGranted, RunningUndisturbed, Init

\* Every step preserves them.
LEMMA NextCustody ==
  ASSUME OneAgent, ForcedDeletion = FALSE, CustodyInv, [Next]_vars PROVE CustodyInv'
<1>1. SerialInv' /\ Agreeing'
  BY NextSerial, NextAgree DEF CustodyInv
<1>2. ASSUME Uncorrupted' PROVE RunInv'
  <2>1. CASE UNCHANGED vars
    BY <1>2, <2>1 DEF vars, podVars, CustodyInv, Undisturbed, Uncorrupted, RunInv, RunningGranted, RunningUndisturbed
  <2>2. CASE Next
    <3>1. TypeInv /\ Uncorrupted /\ ~Corrupt
      BY <1>2, <2>2, CorruptionCounted DEF Uncorrupted, CustodyInv, SerialInv
    <3>2. OwnInv /\ ExclusiveInv /\ RunInv
      BY <3>1 DEF CustodyInv, SerialInv, Ownership, Exclusive, Undisturbed, Uncorrupted
    <3>3. CustodyEffect
      BY <2>2, <3>1, CustodyEffects DEF CustodyInv
    <3>. QED  BY <3>1, <3>2, <3>3, EffectRuns
  <2>. QED  BY <2>1, <2>2
<1>. QED  BY <1>1, <1>2 DEF CustodyInv, Undisturbed

\* With one agent at a time and no forced deletion, as long as claims.json was
\* never corrupted, no device of a running claim is reset or used by another:
\* neither the janitor nor a prepare or unprepare of another claim nor anything
\* a restart does touches it.
THEOREM RunningAlwaysUndisturbed ==
  ASSUME OneAgent, ForcedDeletion = FALSE PROVE Spec => [](Uncorrupted => RunningUndisturbed)
<1>1. Init => CustodyInv
  BY InitCustody
<1>2. CustodyInv /\ [Next]_vars => CustodyInv'
  BY NextCustody
<1>3. CustodyInv => (Uncorrupted => RunningUndisturbed)
  BY DEF CustodyInv, Undisturbed, RunInv
<1>. QED  BY <1>1, <1>2, <1>3, PTL DEF Spec

-----------------------------------------------------------------------------
(***************************************************************************)
(* The refinement.                                                         *)
(***************************************************************************)

\* Devices granted or in use are on record in the file, and no two claims have one.
OnRecord ==
  /\ \A d \in Devices : user[d] # NoOwner => d \in Withheld
  /\ \A c \in Claims : grant[c] \subseteq Withheld
  /\ \A c, x \in Claims : c # x => grant[c] \cap grant[x] = {}

\* It follows from the invariants.
LEMMA AlwaysOnRecord == ASSUME TypeInv, OwnInv, ExclusiveInv, CleanInv PROVE OnRecord
<1>1. \A d \in Devices : user[d] # NoOwner => d \in Withheld
  BY DEF CleanInv, StoreFenced, Fenced, Withheld
<1>2. ASSUME NEW c \in Claims, NEW d \in grant[c] PROVE d \in Withheld
  BY <1>2 DEF OwnInv, GrantStored, Keeps, Records, Holders, Withheld, TypeInv, TypeOK
<1>. QED  BY <1>1, <1>2, GrantsDisjoint DEF OnRecord

\* Initially nothing is on record.
LEMMA InitImplements == Init => C!Init
<1>1. ASSUME Init PROVE Withheld = {}
  BY <1>1 DEF Init, Withheld, Holders, Owned, Quarantined, EmptyState, NoClaim
<1>. QED  BY <1>1 DEF Init, C!Init

\* What leaves the record was neither used nor granted, if neither is lost.
LEMMA OffRecord ==
  ASSUME OnRecord', TypeInv, user' = user, \A c \in Claims : grant[c] \subseteq Withheld' PROVE C!OffRecordFree
<1>1. Withheld \subseteq Devices /\ Withheld' \subseteq Devices
  BY DEF Withheld
<1>. QED  BY <1>1 DEF OnRecord, C!OffRecordFree, C!Leased

\* Every step is a step of the custody, or leaves it alone.
LEMMA StepImplements ==
  ASSUME TypeInv, OwnInv, OnRecord, TypeInv', CleanInv', OnRecord', CustodyEffect PROVE [C!Next]_(C!vars)
<1>t. user \in [Devices -> Claims \cup {NoOwner}] /\ grant' \in [Claims -> SUBSET Devices] /\ running \subseteq Claims
  BY DEF TypeInv, TypeOK
<1>1. CASE UNCHANGED <<user, grant, running>>
  <2>1. C!OffRecordFree
    BY <1>1, OffRecord DEF OnRecord
  <2>. QED  BY <1>1, <2>1 DEF C!Next, C!Record
<1>2. ASSUME NEW d \in Devices, Resets(d) PROVE [C!Next]_(C!vars)
  <2>1. Withheld' = Withheld /\ UNCHANGED <<grant, running>>
    BY <1>2 DEF Resets, Withheld
  <2>2. CASE user[d] = NoOwner
    <3>1. user' = user
      BY <1>2, <1>t, <2>2 DEF Resets
    <3>. QED  BY <2>1, <3>1 DEF C!vars
  <2>3. CASE user[d] # NoOwner
    <3>1. d \in Withheld \ C!Leased
      BY <1>2, <2>3 DEF OnRecord, Resets, Unleased, C!Leased
    <3>2. C!Reset(d)
      BY <1>2, <2>1, <3>1 DEF Resets, C!Reset
    <3>. QED  BY <3>2 DEF C!Next
  <2>. QED  BY <2>2, <2>3
<1>3. CASE Grants
  <2>1. UNCHANGED <<user, running>> /\ disk' = State /\ pc = "prepare"
    BY <1>3 DEF Grants
  <2>2. \A c \in Claims : grant[c] \subseteq Withheld'
    BY <2>1 DEF OwnInv, GrantHeld, Keeps, Records, Holders, Owned, Withheld, TypeInv, TypeOK
  <2>3. C!OffRecordFree
    BY <2>1, <2>2, OffRecord
  <2>4. grant' \in [Claims -> SUBSET Withheld']
    BY <1>t DEF OnRecord
  <2>5. \A c \in Claims : \A d \in grant'[c] : user[d] \in {NoOwner, c}
    BY <2>1 DEF CleanInv, GrantedClean
  <2>6. \A c, x \in Claims : c # x => grant'[c] \cap grant'[x] = {}
    BY DEF OnRecord
  <2>7. C!Acquire
    BY <2>1, <2>3, <2>4, <2>5, <2>6 DEF C!Acquire
  <2>. QED  BY <2>7 DEF C!Next
<1>4. ASSUME NEW a \in Agents, NEW batch \in SUBSET Claims, CallsUnprepare(a, batch) PROVE [C!Next]_(C!vars)
  <2>1. /\ batch \subseteq Claims \ running /\ UNCHANGED <<user, disk, running>>
        /\ grant' = [c \in Claims |-> IF c \in batch THEN {} ELSE grant[c]]
    BY <1>4 DEF CallsUnprepare
  <2>2. Withheld' = Withheld
    BY <2>1 DEF Withheld
  <2>3. C!Surrender
    BY <2>1, <2>2 DEF C!Surrender
  <2>. QED  BY <2>3 DEF C!Next
<1>5. ASSUME NEW c \in Claims, ContainerStart(c) \/ ContainerStop(c), UNCHANGED <<disk, grant>> PROVE [C!Next]_(C!vars)
  <2>1. Withheld' = Withheld
    BY <1>5 DEF Withheld
  <2>2. C!Start(c) \/ C!Stop(c)
    BY <1>5, <2>1 DEF ContainerStart, ContainerStop, C!Start, C!Stop
  <2>. QED  BY <2>2 DEF C!Next
<1>. QED  BY <1>1, <1>2, <1>3, <1>4, <1>5 DEF CustodyEffect

\* With one agent at a time, no forced deletion and nothing that corrupts
\* claims.json, the lifecycle manager with its transactions, write-ahead intents,
\* failed writes, audits and resets, crashes and restarts implements the custody
\* of the devices: they change hands only through a reset, stay on record from
\* before a grant until after that reset, and are left alone while containers run.
THEOREM LifecycleImplementsCustody ==
  ASSUME OneAgent, ForcedDeletion = FALSE, MaxCorruptions = 0 PROVE Spec => ImplementsCustody
<1>. DEFINE Inv == CustodyInv /\ Uncorrupted
<1>1. Init => Inv /\ C!Init
  BY InitCustody, InitImplements DEF Uncorrupted, Init
<1>2. Inv /\ [Next]_vars => Inv'
  <2>. SUFFICES ASSUME Inv, [Next]_vars PROVE Inv'
    OBVIOUS
  <2>1. CustodyInv'
    BY NextCustody
  <2>2. Uncorrupted'
    BY NextUncorrupted DEF CustodyInv, SerialInv
  <2>. QED  BY <2>1, <2>2
<1>3. Inv => OnRecord
  BY AlwaysOnRecord DEF CustodyInv, SerialInv, Ownership, Exclusive, Cleanly, Uncorrupted
<1>4. Inv /\ Inv' /\ OnRecord /\ OnRecord' /\ [Next]_vars => [C!Next]_(C!vars)
  <2>. SUFFICES ASSUME Inv, Inv', OnRecord, OnRecord', [Next]_vars PROVE [C!Next]_(C!vars)
    OBVIOUS
  <2>1. TypeInv /\ OwnInv /\ TypeInv' /\ CleanInv'
    BY DEF CustodyInv, SerialInv, Ownership, Cleanly, Uncorrupted
  <2>2. CASE UNCHANGED vars
    BY <2>2 DEF vars, storeVars, podVars, C!vars, Withheld
  <2>3. CASE Next
    <3>1. ~Corrupt
      BY NextUncorrupted DEF CustodyInv, SerialInv
    <3>2. CustodyEffect
      BY <2>3, <3>1, CustodyEffects DEF CustodyInv
    <3>. QED  BY <2>1, <3>2, StepImplements
  <2>. QED  BY <2>2, <2>3
<1>. HIDE DEF Inv
<1>. QED  BY <1>1, <1>2, <1>3, <1>4, PTL DEF Spec, ImplementsCustody, C!Spec
=============================================================================
