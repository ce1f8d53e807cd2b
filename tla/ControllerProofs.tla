-------------------------- MODULE ControllerProofs --------------------------
(***************************************************************************)
(* Theorems about Controller, for any workloads, devices, ranks, specs and *)
(* bounds.                                                                 *)
(***************************************************************************)
EXTENDS Controller, WellFoundedInduction, SequenceTheorems, FiniteSetTheorems, TLAPS

(***************************************************************************)
(* SolveContext: the lexicographic order of placements.                    *)
(***************************************************************************)

\* The placements that leave the devices of T alone, and the first of them.
Free(T) == {a \in [Ranks -> Devices \ T] : \A r, s \in Ranks : a[r] = a[s] => r = s}

First(a, T) == a \in Free(T) /\ \A b \in Free(T) \ {a} : Precedes(a, b)

\* Two placements that differ are ordered by the first rank they differ in.
LEMMA PlacementsOrdered ==
  ASSUME NEW a \in [Ranks -> Devices], NEW b \in [Ranks -> Devices], a # b
  PROVE  Precedes(a, b) \/ Precedes(b, a)
<1> DEFINE D == {r \in Ranks : a[r] # b[r]}
<1>1. D \subseteq Nat /\ D # {}
  BY RanksPositive DEF Ranks
<1>2. PICK r \in D : \A s \in D : ~(<<s, r>> \in OpToRel(<, Nat))
  BY <1>1, NatLessThanWellFounded, WFMin
<1>3. \A s \in D : ~(s < r)
  BY <1>1, <1>2 DEF OpToRel
<1>4. r \in Ranks /\ \A s \in 1..r - 1 : a[s] = b[s]
  <2> SUFFICES ASSUME NEW s \in 1..r - 1 PROVE a[s] = b[s]
    OBVIOUS
  <2>1. NumRanks \in Nat /\ r \in 1..NumRanks
    BY RanksPositive DEF Ranks
  <2>2. s \in Ranks /\ s < r
    BY <2>1 DEF Ranks
  <2> QED  BY <1>3, <2>2
<1>5. a[r] \in Nat /\ b[r] \in Nat /\ a[r] # b[r]
  BY <1>2, <1>4, DevicesOrdered
<1>6. a[r] < b[r] \/ b[r] < a[r]
  BY <1>5
<1> QED  BY <1>4, <1>6 DEF Precedes

\* The order has no cycle of two placements.
LEMMA PlacementsAsymmetric ==
  ASSUME NEW a \in [Ranks -> Devices], NEW b \in [Ranks -> Devices], Precedes(a, b)
  PROVE  ~Precedes(b, a)
<1> SUFFICES ASSUME Precedes(b, a) PROVE FALSE
  OBVIOUS
<1>1. PICK r \in Ranks : a[r] < b[r] /\ \A s \in 1..r - 1 : a[s] = b[s]
  BY DEF Precedes
<1>2. PICK q \in Ranks : b[q] < a[q] /\ \A s \in 1..q - 1 : b[s] = a[s]
  BY DEF Precedes
<1>3. /\ a[r] \in Nat /\ b[r] \in Nat /\ a[q] \in Nat /\ b[q] \in Nat
      /\ r \in Nat \ {0} /\ q \in Nat \ {0}
  <2>1. Ranks \subseteq Nat \ {0}
    BY RanksPositive DEF Ranks
  <2> QED  BY <2>1, DevicesOrdered
<1>4. CASE r < q
  <2>1. r \in 1..q - 1
    BY <1>3, <1>4
  <2> QED  BY <1>1, <1>2, <1>3, <2>1
<1>5. CASE q < r
  <2>1. q \in 1..r - 1
    BY <1>3, <1>5
  <2> QED  BY <1>1, <1>2, <1>3, <2>1
<1>6. CASE r = q
  BY <1>1, <1>2, <1>3, <1>6
<1> QED  BY <1>3, <1>4, <1>5, <1>6

\* If there is a placement there is a first one.
LEMMA FirstExists ==
  ASSUME NEW T, Free(T) # {}
  PROVE  \E a \in Free(T) : First(a, T)
<1> DEFINE R == LexProductOrdering(OpToRel(<, Nat), Nat, NumRanks)
<1>1. Free(T) \subseteq [1..NumRanks -> Nat] /\ Free(T) \subseteq [Ranks -> Devices]
  BY DevicesOrdered DEF Free, Ranks
<1>2. IsWellFoundedOn(R, [1..NumRanks -> Nat])
  BY RanksPositive, NatLessThanWellFounded, WFLexProductOrdering
<1>3. PICK a \in Free(T) : \A b \in Free(T) : ~(<<b, a>> \in R)
  BY <1>1, <1>2, WFMin
<1>4. \A b \in Free(T) : ~Precedes(b, a)
  <2> SUFFICES ASSUME NEW b \in Free(T), Precedes(b, a) PROVE FALSE
    OBVIOUS
  <2>1. PICK j \in 1..NumRanks : b[j] < a[j] /\ \A i \in 1..(j - 1) : b[i] = a[i]
    BY DEF Precedes, Ranks
  <2>2. <<b[j], a[j]>> \in OpToRel(<, Nat)
    BY <1>1, <2>1 DEF OpToRel
  <2>3. <<b, a>> \in R
    BY <1>1, <2>1, <2>2 DEF LexProductOrdering
  <2> QED  BY <1>3, <2>3
<1>5. \A b \in Free(T) \ {a} : Precedes(a, b)
  BY <1>1, <1>4, PlacementsOrdered
<1> QED  BY <1>5 DEF First

\* ... and only one.
LEMMA FirstUnique ==
  ASSUME NEW T, NEW a, NEW b, First(a, T), First(b, T)
  PROVE  a = b
BY PlacementsAsymmetric DEF First, Free

\* SolveContext returns the first placement, when there is one.
LEMMA SolvesFirst ==
  ASSUME NEW w, Solutions(w) # {}
  PROVE  First(SolveContext(w), reservations(w))
<1>1. Solutions(w) = Free(reservations(w))
  BY DEF Solutions, Free
<1> QED  BY <1>1, FirstExists DEF First, SolveContext

(***************************************************************************)
(* Type correctness.  The strengthening: children are only made for an     *)
(* assigned workload, and a fabric has one of two contents.                *)
(***************************************************************************)

PlainOp == {op \in Op : op[1] \notin {"ensureClaim", "ensurePod"}}

EnsureInv ==
  job # NoJob => job.st.assign # NoAssign \/ job.todo \in Seq(PlainOp)

TypeInv == TypeOK /\ topo.gen \in 1..2 /\ EnsureInv

\* The calls for every rank, one of each kind after the other.
LEMMA EachRankType ==
  ASSUME NEW S, NEW first, NEW second, {first, second} \X Ranks \subseteq S
  PROVE  EachRank(first, second) \in Seq(S) /\ EachRank(first, second) # <<>>
<1>1. 2 * NumRanks \in Nat \ {0}
  BY RanksPositive
<1>2. \A i \in 1..2 * NumRanks : (i + 1) \div 2 \in Ranks
  BY RanksPositive DEF Ranks
<1> DEFINE e(i) == <<IF i % 2 = 1 THEN first ELSE second, (i + 1) \div 2>>
<1>3. \A i \in 1..2 * NumRanks : e(i) \in S
  BY <1>2
<1> HIDE DEF e
<1>4. [i \in 1..2 * NumRanks |-> e(i)] \in Seq(S)
  BY <1>1, <1>3, IsASeq
<1>5. EachRank(first, second) = [i \in 1..2 * NumRanks |-> e(i)]
  BY DEF EachRank, e
<1>6. DOMAIN EachRank(first, second) = 1..2 * NumRanks
  BY DEF EachRank
<1> QED  BY <1>1, <1>4, <1>5, <1>6

\* What the branches of a reconciliation have to do.
LEMMA TodoTypes ==
  /\ updateStatus \in Seq(PlainOp) \ {<<>>}
  /\ dropPending \o deleteChildren \in Seq(PlainOp) \ {<<>>}
  /\ dropPending \o deleteChildren \o updateStatus \in Seq(PlainOp) \ {<<>>}
  /\ deleteChildren \o dropPending \o updateStatus \in Seq(PlainOp) \ {<<>>}
  /\ ensureChildren \o updateStatus \in Seq(Op) \ {<<>>}
  /\ updateStatus \o reserve \o ensureChildren \in Seq(Op) \ {<<>>}
<1>1. \A k \in {"status", "drop", "reserve"} : <<<<k, 0>>>> \in Seq(PlainOp) \ {<<>>} /\ <<<<k, 0>>>> \in Seq(Op)
  BY DEF PlainOp, Op, Calls
<1>2. deleteChildren \in Seq(PlainOp) \ {<<>>}
  <2>1. {"deletePod", "deleteClaim"} \X Ranks \subseteq PlainOp
    BY DEF PlainOp, Op, Calls
  <2> QED  BY <2>1, EachRankType DEF deleteChildren
<1>3. ensureChildren \in Seq(Op) \ {<<>>}
  <2>1. {"ensureClaim", "ensurePod"} \X Ranks \subseteq Op
    BY DEF Op, Calls
  <2> QED  BY <2>1, EachRankType DEF ensureChildren
<1>4. /\ updateStatus \in Seq(PlainOp) \ {<<>>} /\ updateStatus \in Seq(Op)
      /\ dropPending \in Seq(PlainOp) \ {<<>>} /\ reserve \in Seq(Op) \ {<<>>}
  BY <1>1 DEF updateStatus, dropPending, reserve
<1>5. ASSUME NEW S, NEW s \in Seq(S) \ {<<>>}, NEW u \in Seq(S) PROVE s \o u \in Seq(S) \ {<<>>}
  <2>1. s \o u \in Seq(S) /\ Len(s \o u) = Len(s) + Len(u) /\ Len(s) \in Nat /\ Len(u) \in Nat
    BY ConcatProperties, LenProperties
  <2>2. Len(s) # 0
    BY EmptySeq
  <2> QED  BY <2>1, <2>2, EmptySeq
<1> HIDE DEF updateStatus, dropPending, reserve, deleteChildren, ensureChildren
<1>6. dropPending \o deleteChildren \in Seq(PlainOp) \ {<<>>} /\ deleteChildren \o dropPending \in Seq(PlainOp) \ {<<>>}
  BY <1>2, <1>4, <1>5
<1>7. updateStatus \o reserve \in Seq(Op) \ {<<>>}
  BY <1>4, <1>5
<1> QED  BY <1>2, <1>3, <1>4, <1>5, <1>6, <1>7

\* The statuses the branches write.
LEMMA StatusTypes ==
  ASSUME TypeInv, NEW w \in Workloads
  PROVE  /\ cw[w] \in Workload /\ cw[w].status \in Status /\ cw[w].spec \in Specs
         /\ \A p \in Phases : /\ WithPhase(w, p) \in Status
                              /\ WithPhase(w, p).phase = p
                              /\ WithPhase(w, p).assign = cw[w].status.assign
                              /\ WithPhase(w, p).gen = cw[w].status.gen
                              /\ WithPhase(w, p).hash = cw[w].status.hash
         /\ \A st \in Status : /\ Hashed(w, st) \in Status
                               /\ Hashed(w, st).hash = cw[w].spec
                               /\ Hashed(w, st).assign = st.assign
                               /\ Hashed(w, st).gen = st.gen
                               /\ Hashed(w, st).phase = st.phase
         /\ Replanned(w) \in Status
<1>1. cw[w] \in Workload
  BY DEF TypeInv, TypeOK
<1>2. cw[w].status \in Status /\ cw[w].spec \in Specs
  BY <1>1 DEF Workload
<1>3. \A p \in Phases : WithPhase(w, p) \in Status
  BY <1>2 DEF WithPhase, Status
<1>4. \A st \in Status : Hashed(w, st) \in Status
  BY <1>2 DEF Hashed, Status
<1>5. \A p \in Phases : /\ WithPhase(w, p).phase = p
                        /\ WithPhase(w, p).assign = cw[w].status.assign
                        /\ WithPhase(w, p).gen = cw[w].status.gen
                        /\ WithPhase(w, p).hash = cw[w].status.hash
  BY <1>2 DEF WithPhase, Status
<1>6. \A st \in Status : /\ Hashed(w, st).hash = cw[w].spec
                         /\ Hashed(w, st).assign = st.assign
                         /\ Hashed(w, st).gen = st.gen
                         /\ Hashed(w, st).phase = st.phase
  BY <1>2 DEF Hashed, Status
<1>7. Replanned(w) \in Status
  <2>1. NoAssign \in Assignment /\ "Pending" \in Phases /\ 0 \in Gens
    BY DEF Assignment, Phases, Gens
  <2> QED  BY <1>2, <2>1 DEF Replanned, Status
<1> QED  BY <1>1, <1>2, <1>3, <1>4, <1>5, <1>6, <1>7

\* The phase a Pod cache shows.
LEMMA ObservedType ==
  ASSUME NEW w PROVE observedPhase(w) \in {"Assigned", "Failed", "Succeeded", "Running"}
BY DEF observedPhase

\* Spending keeps the counters natural numbers, and only adds to one of them.
LEMMA Spends ==
  ASSUME spent \in [Disturbances -> Nat], NEW k \in Disturbances, Spend(k)
  PROVE  /\ spent' \in [Disturbances -> Nat]
         /\ spent'[k] = spent[k] + 1
         /\ \A x \in Disturbances \ {k} : spent'[x] = spent[x]
BY DEF Spend

\* A placement is not the empty assignment.
LEMMA PlacementIsSome == \A a \in [Ranks -> Devices] : a # NoAssign /\ DOMAIN a = Ranks
<1>1. 1 \in Ranks
  BY RanksPositive DEF Ranks
<1> QED  BY <1>1 DEF NoAssign

LEMMA InitType == Init => TypeInv
<1> SUFFICES ASSUME Init PROVE TypeInv
  OBVIOUS
<1> DEFINE st0 == [phase |-> "", assign |-> NoAssign, gen |-> 0, hash |-> NoHash]
<1>1. st0 \in Status
  BY DEF Status, Phases, Assignment, Gens
<1>2. \A s \in Specs : [life |-> "new", spec |-> s, status |-> st0] \in Workload
  BY <1>1 DEF Workload
<1>3. wl \in [Workloads -> {[life |-> "new", spec |-> s, status |-> st0] : s \in Specs}]
  BY DEF Init
<1> HIDE DEF st0
<1>4. wl \in [Workloads -> Workload]
  BY <1>2, <1>3
<1>5. topo \in Topology /\ fabric \in Topology /\ topo.gen \in 1..2
  <2>1. topo = [gen |-> 1, valid |-> TRUE] /\ fabric = [gen |-> 0, valid |-> FALSE]
    BY DEF Init, ZeroFabric
  <2>2. 0 \in Gens /\ 1 \in Gens
    BY DEF Gens
  <2>3. topo.gen = 1
    BY <2>1
  <2> QED  BY <2>1, <2>2, <2>3 DEF Topology
<1>6. pending \in [Workloads -> Assignment]
  BY DEF Init, Assignment
<1>7. spent \in [Disturbances -> Nat]
  BY DEF Init
<1>8. /\ pods \in [Workloads -> [Ranks -> Pod \cup {NoPod}]] /\ cp = pods
      /\ claims \in [Workloads -> [Ranks -> Claim \cup {NoClaim}]] /\ cc = claims
  BY DEF Init
<1>9. /\ cw = wl /\ other = {} /\ co = {} /\ job = NoJob /\ queue = {FabricKey}
      /\ news = [wl |-> {}, pods |-> {}, claims |-> {}]
  BY DEF Init
<1> QED
  BY <1>4, <1>5, <1>6, <1>7, <1>8, <1>9 DEF TypeInv, TypeOK, EnsureInv

\* A branch starts its calls with a status of the right type.
LEMMA RunType ==
  ASSUME TypeInv, NEW w \in Workloads, NEW st \in Status, NEW todo \in Seq(Op) \ {<<>>},
         st.assign # NoAssign \/ todo \in Seq(PlainOp),
         job' = [w |-> w, spec |-> cw[w].spec, st |-> st, todo |-> todo],
         queue' = queue \ {w},
         UNCHANGED <<apiVars, cacheVars, pending, fabric>>,
         spent' \in [Disturbances -> Nat]
  PROVE  TypeInv'
<1>1. job' \in Job /\ job'.todo # <<>> /\ job'.st = st /\ job'.todo = todo
  BY StatusTypes DEF Job
<1> QED
  BY <1>1 DEF TypeInv, TypeOK, EnsureInv, apiVars, cacheVars, caches

\* A sequence of calls that makes no children is a sequence of calls.
LEMMA PlainIsOp == \A todo \in Seq(PlainOp) : todo \in Seq(Op)
BY DEF PlainOp

\* Every branch of reconcileWorkload keeps the types.
LEMMA ReconcileType == ASSUME TypeInv, NEW w \in Workloads, Reconcile(w) PROVE TypeInv'
<1>1. CASE NotFound(w)
  <2>1. pending' \in [Workloads -> Assignment]
    BY <1>1 DEF NotFound, TypeInv, TypeOK, Assignment
  <2> QED  BY <1>1, <2>1 DEF NotFound, Take, TypeInv, TypeOK, EnsureInv, apiVars, cacheVars, caches
<1>2. CASE PlacementError(w)
  <2>1. WithPhase(w, "Pending") \in Status
    BY StatusTypes DEF Phases
  <2>2. spent' \in [Disturbances -> Nat]
    BY <1>2, Spends DEF PlacementError, TypeInv, TypeOK, Disturbances
  <2> QED  BY <1>2, <2>1, <2>2, RunType, TodoTypes, PlainIsOp DEF PlacementError, Take
<1>3. ASSUME NEW todo \in Seq(PlainOp) \ {<<>>}, NEW st \in Status, Take(w), Run(w, todo, st)
      PROVE  TypeInv'
  <2>1. spent' \in [Disturbances -> Nat]
    BY <1>3 DEF Run, TypeInv, TypeOK
  <2> QED  BY <1>3, <2>1, RunType, PlainIsOp DEF Run, Take
<1>4. ASSUME NEW todo \in Seq(Op) \ {<<>>}, NEW st \in Status, st.assign # NoAssign, Take(w), Run(w, todo, st)
      PROVE  TypeInv'
  <2>1. spent' \in [Disturbances -> Nat]
    BY <1>4 DEF Run, TypeInv, TypeOK
  <2> QED  BY <1>4, <2>1, RunType DEF Run, Take
<1>5. \A p \in {"Pending", "Degraded", "Failed", "Assigned", "Running", "Succeeded"} :
        /\ WithPhase(w, p) \in Status /\ Hashed(w, WithPhase(w, p)) \in Status
        /\ Hashed(w, WithPhase(w, p)).assign = cw[w].status.assign
  <2>1. {"Pending", "Degraded", "Failed", "Assigned", "Running", "Succeeded"} \subseteq Phases
    BY DEF Phases
  <2> QED  BY <2>1, StatusTypes
<1> HIDE DEF TypeInv
<1>6. CASE ScaleExceeded(w)
  BY <1>3, <1>5, <1>6, TodoTypes DEF ScaleExceeded
<1>7. CASE InvalidSpec(w)
  BY <1>3, <1>5, <1>7, TodoTypes DEF InvalidSpec
<1>8. CASE TerminalCleanup(w)
  BY <1>3, <1>8, TodoTypes, StatusTypes DEF TerminalCleanup
<1>9. CASE ReservedDegraded(w)
  BY <1>3, <1>5, <1>9, TodoTypes DEF ReservedDegraded
<1>10. CASE ReservedReplan(w)
  BY <1>3, <1>10, TodoTypes, StatusTypes DEF ReservedReplan
<1>11. CASE UnschedulableReplan(w)
  BY <1>3, <1>11, TodoTypes, StatusTypes DEF UnschedulableReplan
<1>12. CASE Finished(w)
  BY <1>3, <1>5, <1>12, TodoTypes, ObservedType DEF Finished
<1>13. CASE ChangedDegraded(w)
  BY <1>3, <1>5, <1>13, TodoTypes DEF ChangedDegraded
<1>14. CASE ChangedReplan(w)
  BY <1>3, <1>14, TodoTypes, StatusTypes DEF ChangedReplan
<1>15. CASE Keep(w)
  BY <1>4, <1>5, <1>15, TodoTypes, ObservedType DEF Keep, Ongoing, Undisturbed, Live, Assigned
<1>16. CASE FabricInvalid(w)
  BY <1>3, <1>5, <1>16, TodoTypes DEF FabricInvalid
<1>17. CASE Unsatisfied(w)
  <2>1. [Hashed(w, WithPhase(w, "Pending")) EXCEPT !.gen = fabric.gen] \in Status
    BY <1>5 DEF TypeInv, TypeOK, Topology, Status
  <2> QED  BY <1>3, <1>17, <2>1, TodoTypes DEF Unsatisfied
<1>18. CASE Place(w)
  <2> DEFINE st == [phase |-> "Assigned", assign |-> SolveContext(w), gen |-> fabric.gen, hash |-> cw[w].spec]
  <2>1. SolveContext(w) \in [Ranks -> Devices]
    BY <1>18, SolvesFirst DEF Place, First, Free
  <2>2. st \in Status /\ st.assign # NoAssign
    BY <2>1, PlacementIsSome, StatusTypes DEF TypeInv, TypeOK, Topology, Status, Phases, Assignment
  <2> QED  BY <1>4, <1>18, <2>2, TodoTypes DEF Place
<1> QED
  BY <1>1, <1>2, <1>6, <1>7, <1>8, <1>9, <1>10, <1>11, <1>12, <1>13, <1>14, <1>15, <1>16, <1>17, <1>18
     DEF Reconcile

\* The call a reconciliation is at.
LEMMA AtCall ==
  ASSUME TypeInv, job.todo # <<>>
  PROVE  /\ job \in Job /\ job.w \in Workloads /\ job.spec \in Specs /\ job.st \in Status
         /\ job.todo \in Seq(Op) \ {<<>>}
         /\ \A k \in {"deletePod", "deleteClaim", "ensureClaim", "ensurePod"} : Doing(k) => Rank \in Ranks
         /\ Doing("ensureClaim") \/ Doing("ensurePod") =>
              job.st.assign \in [Ranks -> Devices] /\ job.st.assign[Rank] \in Devices
<1>1. job # NoJob
  BY DEF NoJob
<1>2. /\ job \in Job /\ job.w \in Workloads /\ job.spec \in Specs /\ job.st \in Status
      /\ job.todo \in Seq(Op) \ {<<>>}
  BY <1>1 DEF TypeInv, TypeOK, Job
<1>3. Head(job.todo) \in Op
  BY <1>2, HeadTailProperties
<1>4. \A k \in {"deletePod", "deleteClaim", "ensureClaim", "ensurePod"} : Doing(k) => Rank \in Ranks
  BY <1>3 DEF Doing, Rank, Op, Calls
<1>5. Doing("ensureClaim") \/ Doing("ensurePod") => job.st.assign # NoAssign
  <2>1. job.todo \in Seq(PlainOp) => Head(job.todo) \in PlainOp
    BY <1>2, HeadTailProperties
  <2> QED  BY <1>1, <2>1 DEF TypeInv, EnsureInv, Doing, PlainOp
<1>6. job.st.assign # NoAssign => job.st.assign \in [Ranks -> Devices]
  BY <1>2 DEF Status, Assignment
<1> QED  BY <1>2, <1>4, <1>5, <1>6

\* A call that is answered leads to the next one, or ends the reconciliation.
LEMMA Advances ==
  ASSUME TypeInv, job.todo # <<>>, Advance
  PROVE  /\ job' = NoJob \/ (job' \in Job /\ job'.todo # <<>>)
         /\ EnsureInv'
         /\ Len(job.todo) \in Nat \ {0}
         /\ Len(job.todo) = 1 => job' = NoJob
         /\ Len(job.todo) # 1 => /\ job' # NoJob /\ job'.w = job.w /\ job'.st = job.st /\ job'.spec = job.spec
                                 /\ Len(job'.todo) = Len(job.todo) - 1
                                 /\ \A i \in 1..Len(job'.todo) : job'.todo[i] = job.todo[i + 1]
<1>1. job \in Job /\ job.todo \in Seq(Op) \ {<<>>} /\ job # NoJob
  BY AtCall DEF NoJob
<1>2. /\ Tail(job.todo) \in Seq(Op) /\ Len(Tail(job.todo)) = Len(job.todo) - 1
      /\ \A i \in 1..Len(Tail(job.todo)) : Tail(job.todo)[i] = job.todo[i + 1]
      /\ job.todo \in Seq(PlainOp) => Tail(job.todo) \in Seq(PlainOp)
  BY <1>1, HeadTailProperties
<1>3. Len(job.todo) \in Nat \ {0}
  BY <1>1, EmptySeq, LenProperties
<1>4. CASE Len(job.todo) = 1
  BY <1>3, <1>4 DEF Advance, EnsureInv, NoJob
<1>5. CASE Len(job.todo) # 1
  <2>1. job' = [job EXCEPT !.todo = Tail(@)]
    BY <1>5 DEF Advance
  <2>2. /\ job' \in Job /\ job'.w = job.w /\ job'.st = job.st /\ job'.spec = job.spec
        /\ job'.todo = Tail(job.todo)
    BY <2>1, <1>1, <1>2 DEF Job
  <2>3. job'.todo # <<>>
    <3>1. Len(Tail(job.todo)) # 0 /\ Len(<<>>) = 0
      BY <1>2, <1>3, <1>5, EmptySeq
    <3> QED  BY <2>2, <3>1
  <2>4. job' # NoJob
    BY <2>3 DEF NoJob
  <2>5. EnsureInv'
    BY <1>1, <1>2, <2>2 DEF EnsureInv, TypeInv
  <2> QED  BY <1>2, <1>3, <1>5, <2>2, <2>3, <2>4, <2>5
<1> QED  BY <1>4, <1>5

\* What the end of a call does to the memory of the controller.
LEMMA EndsType ==
  ASSUME TypeInv, job.todo # <<>>,
         \/ Advance /\ UNCHANGED <<queue, spent>>
         \/ Abort /\ (Spend("faults") \/ UNCHANGED spent)
  PROVE  /\ job' = NoJob \/ (job' \in Job /\ job'.todo # <<>>)
         /\ EnsureInv'
         /\ queue' \subseteq Workloads \cup {FabricKey}
         /\ spent' \in [Disturbances -> Nat]
<1>1. CASE Advance /\ UNCHANGED <<queue, spent>>
  BY <1>1, Advances DEF TypeInv, TypeOK
<1>2. CASE Abort /\ (Spend("faults") \/ UNCHANGED spent)
  <2>1. spent' \in [Disturbances -> Nat]
    BY <1>2, Spends DEF TypeInv, TypeOK, Disturbances
  <2> QED  BY <1>2, <2>1, AtCall DEF Abort, EnsureInv, NoJob, TypeInv, TypeOK
<1> QED  BY <1>1, <1>2

\* Events name workloads.
LEMMA NotifyType ==
  ASSUME TypeInv, Notify
  PROVE  news' \in [wl : SUBSET Workloads, pods : SUBSET Workloads, claims : SUBSET Workloads]
BY DEF TypeInv, TypeOK, Notify

\* Deleting, releasing and deallocating leave Pods and claims, or nothing.
LEMMA ChildTypes ==
  /\ \A pod \in Pod \cup {NoPod} : Deleted(pod) \in Pod \cup {NoPod}
  /\ \A claim \in Claim \cup {NoClaim} :
       Released(claim) \in Claim \cup {NoClaim} /\ Deallocated(claim) \in Claim \cup {NoClaim}
  /\ NoPod \notin Pod /\ NoClaim \notin Claim
  /\ NoPod.phase = "none" /\ NoClaim.state = "none"
<1>1. \A pod \in Pod : Deleted(pod) \in Pod \cup {NoPod}
  BY DEF Deleted, Pod
<1>2. Deleted(NoPod) = NoPod
  BY DEF Deleted, NoPod
<1>3. \A claim \in Claim : Released(claim) \in Claim \cup {NoClaim} /\ Deallocated(claim) \in Claim \cup {NoClaim}
  BY DEF Released, Deallocated, Claim
<1>4. Released(NoClaim) = NoClaim /\ Deallocated(NoClaim) = NoClaim
  BY DEF Released, Deallocated, NoClaim
<1>5. NoPod.phase = "none" /\ NoClaim.state = "none"
  BY DEF NoPod, NoClaim
<1>6. \A pod \in Pod : pod.phase # "none"
  BY DEF Pod
<1>7. \A claim \in Claim : claim.state # "none"
  BY DEF Claim
<1> QED  BY <1>1, <1>2, <1>3, <1>4, <1>5, <1>6, <1>7

\* A new value for the Pods or the claims of one rank keeps the type.
LEMMA RankType ==
  ASSUME TypeInv, NEW w \in Workloads, NEW r \in Ranks
  PROVE  /\ pods[w][r] \in Pod \cup {NoPod} /\ claims[w][r] \in Claim \cup {NoClaim}
         /\ \A x \in Pod \cup {NoPod} : [pods EXCEPT ![w][r] = x] \in [Workloads -> [Ranks -> Pod \cup {NoPod}]]
         /\ \A x \in Claim \cup {NoClaim} : [claims EXCEPT ![w][r] = x] \in [Workloads -> [Ranks -> Claim \cup {NoClaim}]]
BY DEF TypeInv, TypeOK

\* Every call keeps the types.
LEMMA StepType == ASSUME TypeInv, Step PROVE TypeInv'
<1> DEFINE Typed == /\ job' = NoJob \/ (job' \in Job /\ job'.todo # <<>>)
                    /\ EnsureInv'
                    /\ queue' \subseteq Workloads \cup {FabricKey}
                    /\ spent' \in [Disturbances -> Nat]
<1>1. CASE DeletePod
  <2>1. Typed /\ job.w \in Workloads /\ Rank \in Ranks
    BY <1>1, EndsType, AtCall DEF DeletePod, Answer, Doing
  <2>2. pods' \in [Workloads -> [Ranks -> Pod \cup {NoPod}]]
    BY <1>1, <2>1, RankType, ChildTypes DEF DeletePod
  <2> QED  BY <1>1, <2>1, <2>2, NotifyType DEF DeletePod, TypeInv, TypeOK, caches
<1>2. CASE DeleteClaim
  <2>1. Typed /\ job.w \in Workloads /\ Rank \in Ranks
    BY <1>2, EndsType, AtCall DEF DeleteClaim, Answer, Doing
  <2>2. claims' \in [Workloads -> [Ranks -> Claim \cup {NoClaim}]]
    BY <1>2, <2>1, RankType, ChildTypes DEF DeleteClaim
  <2> QED  BY <1>2, <2>1, <2>2, NotifyType DEF DeleteClaim, TypeInv, TypeOK, caches
<1>3. CASE ensureClaim
  <2>1. job.w \in Workloads /\ Rank \in Ranks /\ job.spec \in Specs /\ job.st.assign[Rank] \in Devices
    BY <1>3, AtCall DEF ensureClaim, Doing
  <2>2. Typed
    <3>1. job.todo # <<>>
      BY <1>3 DEF ensureClaim, Doing
    <3>2. \/ Answer
          \/ Advance /\ UNCHANGED <<queue, spent>>
          \/ Abort /\ UNCHANGED spent
      BY <1>3, Zenon DEF ensureClaim
    <3> QED  BY <3>1, <3>2, EndsType DEF Answer
  <2>3. [state |-> "free", spec |-> job.spec, dev |-> job.st.assign[Rank], dying |-> FALSE] \in Claim
    BY <2>1 DEF Claim
  <2>4. claims' \in [Workloads -> [Ranks -> Claim \cup {NoClaim}]]
    <3>1. \/ claims' = claims
          \/ claims' = [claims EXCEPT ![job.w][Rank] = [state |-> "free", spec |-> job.spec, dev |-> job.st.assign[Rank], dying |-> FALSE]]
      BY <1>3, Zenon DEF ensureClaim
    <3>2. claims \in [Workloads -> [Ranks -> Claim \cup {NoClaim}]]
      BY DEF TypeInv, TypeOK
    <3>3. \A x \in Claim : [claims EXCEPT ![job.w][Rank] = x] \in [Workloads -> [Ranks -> Claim \cup {NoClaim}]]
      BY <2>1, RankType
    <3> QED  BY <2>3, <3>1, <3>2, <3>3
  <2> QED  BY <1>3, <2>2, <2>4, NotifyType DEF ensureClaim, TypeInv, TypeOK, caches
<1>4. CASE ensurePod
  <2>1. job.w \in Workloads /\ Rank \in Ranks /\ job.spec \in Specs /\ job.st.assign[Rank] \in Devices
    BY <1>4, AtCall DEF ensurePod, Doing
  <2>2. Typed
    <3>1. job.todo # <<>>
      BY <1>4 DEF ensurePod, Doing
    <3>2. \/ Answer
          \/ Advance /\ UNCHANGED <<queue, spent>>
          \/ Abort /\ UNCHANGED spent
      BY <1>4, Zenon DEF ensurePod
    <3> QED  BY <3>1, <3>2, EndsType DEF Answer
  <2>3. [phase |-> "pending", spec |-> job.spec, dev |-> job.st.assign[Rank], dying |-> FALSE] \in Pod
    BY <2>1 DEF Pod
  <2>4. pods' \in [Workloads -> [Ranks -> Pod \cup {NoPod}]]
    <3>1. \/ pods' = pods
          \/ pods' = [pods EXCEPT ![job.w][Rank] = [phase |-> "pending", spec |-> job.spec, dev |-> job.st.assign[Rank], dying |-> FALSE]]
      BY <1>4, Zenon DEF ensurePod
    <3>2. pods \in [Workloads -> [Ranks -> Pod \cup {NoPod}]]
      BY DEF TypeInv, TypeOK
    <3>3. \A x \in Pod : [pods EXCEPT ![job.w][Rank] = x] \in [Workloads -> [Ranks -> Pod \cup {NoPod}]]
      BY <2>1, RankType
    <3> QED  BY <2>3, <3>1, <3>2, <3>3
  <2> QED  BY <1>4, <2>2, <2>4, NotifyType DEF ensurePod, TypeInv, TypeOK, caches
<1>5. CASE updateWorkloadStatus
  <2>1. Typed /\ job.w \in Workloads /\ job.st \in Status
    BY <1>5, EndsType, AtCall DEF updateWorkloadStatus, Answer, Doing
  <2>2. wl' \in [Workloads -> Workload]
    <3>1. [wl EXCEPT ![job.w].status = job.st] \in [Workloads -> Workload]
      BY <2>1 DEF TypeInv, TypeOK, Workload
    <3> QED  BY <1>5, <3>1 DEF updateWorkloadStatus, TypeInv, TypeOK
  <2> QED  BY <1>5, <2>1, <2>2, NotifyType DEF updateWorkloadStatus, TypeInv, TypeOK, caches
<1>6. CASE SetPending
  <2>1. job.todo # <<>> /\ Advance /\ UNCHANGED <<apiVars, cacheVars, queue, fabric, spent>>
    BY <1>6 DEF SetPending, Doing
  <2>2. Typed /\ job.w \in Workloads /\ job.st \in Status
    BY <2>1, EndsType, AtCall
  <2>3. NoAssign \in Assignment /\ job.st.assign \in Assignment
    BY <2>2 DEF Assignment, Status
  <2>4. pending' \in [Workloads -> Assignment]
    BY <1>6, <2>2, <2>3 DEF SetPending, TypeInv, TypeOK
  <2> QED  BY <2>1, <2>2, <2>4 DEF TypeInv, TypeOK, apiVars, cacheVars, caches
<1> QED  BY <1>1, <1>2, <1>3, <1>4, <1>5, <1>6 DEF Step

\* A failed call ends the reconciliation.
LEMMA CallFailedType == ASSUME TypeInv, CallFailed PROVE TypeInv'
<1>1. job.todo # <<>> /\ Abort /\ Spend("faults")
  BY DEF CallFailed, Doing
<1> QED  BY <1>1, EndsType DEF CallFailed, TypeInv, TypeOK, apiVars, cacheVars, caches

\* The fabric reconciliation and its timer.
LEMMA FabricType == ASSUME TypeInv, ReconcileFabric \/ FabricTimer PROVE TypeInv'
<1>1. spent' \in [Disturbances -> Nat]
  BY Spends DEF ReconcileFabric, FabricTimer, TypeInv, TypeOK, Disturbances
<1>2. queue' \subseteq Workloads \cup {FabricKey}
  BY DEF ReconcileFabric, FabricTimer, Cached, TypeInv, TypeOK
<1>3. fabric' \in Topology
  BY DEF ReconcileFabric, FabricTimer, TypeInv, TypeOK
<1>4. UNCHANGED <<apiVars, cacheVars, pending, job>>
  BY DEF ReconcileFabric, FabricTimer
<1> QED  BY <1>1, <1>2, <1>3, <1>4 DEF TypeInv, TypeOK, EnsureInv, apiVars, cacheVars, caches

\* Watches deliver, leadership moves.
LEMMA EventsType == ASSUME TypeInv, Events \/ Restart PROVE TypeInv'
<1>1. CASE WorkloadEvents
  BY <1>1 DEF WorkloadEvents, TypeInv, TypeOK, EnsureInv, apiVars
<1>2. CASE PodEvents
  BY <1>2 DEF PodEvents, TypeInv, TypeOK, EnsureInv, apiVars
<1>3. CASE ClaimEvents
  BY <1>3 DEF ClaimEvents, TypeInv, TypeOK, EnsureInv, apiVars
<1>4. CASE Restart
  <2>1. spent' \in [Disturbances -> Nat]
    BY <1>4, Spends DEF Restart, TypeInv, TypeOK, Disturbances
  <2>2. fabric' \in Topology /\ pending' \in [Workloads -> Assignment]
    BY <1>4 DEF Restart, ZeroFabric, Topology, Gens, Assignment
  <2> QED  BY <1>4, <2>1, <2>2 DEF Restart, TypeInv, TypeOK, EnsureInv, apiVars
<1> QED  BY <1>1, <1>2, <1>3, <1>4 DEF Events

\* Users edit workloads.
LEMMA UserType ==
  ASSUME TypeInv, NEW w \in Workloads, CreateWorkload(w) \/ EditSpec(w) \/ DeleteWorkload(w)
  PROVE  TypeInv'
<1>1. spent' \in [Disturbances -> Nat]
  BY Spends DEF CreateWorkload, EditSpec, DeleteWorkload, memVars, TypeInv, TypeOK, Disturbances
<1>2. wl' \in [Workloads -> Workload]
  <2>1. wl[w] \in Workload
    BY DEF TypeInv, TypeOK
  <2>2. /\ [wl[w] EXCEPT !.life = "live"] \in Workload /\ [wl[w] EXCEPT !.life = "gone"] \in Workload
        /\ \A s \in Specs : [wl[w] EXCEPT !.spec = s] \in Workload
    BY <2>1 DEF Workload
  <2>3. \A x \in Workload : [wl EXCEPT ![w] = x] \in [Workloads -> Workload]
    BY DEF TypeInv, TypeOK
  <2>4. \/ wl' = [wl EXCEPT ![w] = [wl[w] EXCEPT !.life = "live"]]
        \/ wl' = [wl EXCEPT ![w] = [wl[w] EXCEPT !.life = "gone"]]
        \/ \E s \in Specs : wl' = [wl EXCEPT ![w] = [wl[w] EXCEPT !.spec = s]]
    BY DEF CreateWorkload, EditSpec, DeleteWorkload
  <2> QED  BY <2>2, <2>3, <2>4
<1>3. Notify /\ UNCHANGED <<pods, claims, other, topo, caches, memVars>>
  BY DEF CreateWorkload, EditSpec, DeleteWorkload
<1> QED
  BY <1>1, <1>2, <1>3, NotifyType DEF TypeInv, TypeOK, EnsureInv, caches, memVars

\* The scheduler, kubelet and the collectors move the children of one rank.
LEMMA ChildStepType ==
  ASSUME TypeInv, NEW w \in Workloads, NEW r \in Ranks,
         Collect(w, r) \/ Schedule(w, r) \/ ScheduleFails(w, r) \/ PodFinish(w, r) \/ PodGone(w, r)
  PROVE  TypeInv'
<1>1. spent' \in [Disturbances -> Nat]
  BY Spends DEF Collect, Schedule, ScheduleFails, PodFinish, PodGone, TypeInv, TypeOK, Disturbances
<1>2. pods[w][r] \in Pod \cup {NoPod} /\ claims[w][r] \in Claim \cup {NoClaim}
  BY RankType
<1>3. /\ pods[w][r].phase \in {"pending", "unschedulable", "running"} => pods[w][r] \in Pod
      /\ claims[w][r] # NoClaim => claims[w][r] \in Claim
  BY <1>2, ChildTypes
<1>4. \A pod \in Pod : \A p \in {"running", "unschedulable", "succeeded", "failed"} : [pod EXCEPT !.phase = p] \in Pod
  BY DEF Pod
<1>5. \A claim \in Claim : [claim EXCEPT !.state = "allocated"] \in Claim
  BY DEF Claim
<1>6. \A x \in Pod \cup {NoPod} : [pods EXCEPT ![w][r] = x] \in [Workloads -> [Ranks -> Pod \cup {NoPod}]]
  BY RankType
<1>7. \A x \in Claim \cup {NoClaim} : [claims EXCEPT ![w][r] = x] \in [Workloads -> [Ranks -> Claim \cup {NoClaim}]]
  BY RankType
<1>8. /\ \E x \in Pod \cup {NoPod} : pods' = [pods EXCEPT ![w][r] = x]
      /\ claims' = claims \/ \E x \in Claim \cup {NoClaim} : claims' = [claims EXCEPT ![w][r] = x]
      /\ Notify /\ UNCHANGED <<wl, other, topo, caches, memVars>>
  <2>1. CASE Collect(w, r)
    <3>1. pods' = [pods EXCEPT ![w][r] = Deleted(pods[w][r])] /\ claims' = [claims EXCEPT ![w][r] = Released(claims[w][r])]
      BY <2>1 DEF Collect
    <3> QED  BY <2>1, <3>1, <1>2, ChildTypes DEF Collect
  <2>2. CASE Schedule(w, r)
    <3>1. /\ pods' = [pods EXCEPT ![w][r] = [pods[w][r] EXCEPT !.phase = "running"]]
          /\ claims' = [claims EXCEPT ![w][r] = [claims[w][r] EXCEPT !.state = "allocated"]]
      BY <2>2 DEF Schedule
    <3>2. [pods[w][r] EXCEPT !.phase = "running"] \in Pod /\ [claims[w][r] EXCEPT !.state = "allocated"] \in Claim
      BY <2>2, <1>3, <1>4, <1>5 DEF Schedule
    <3> QED  BY <2>2, <3>1, <3>2 DEF Schedule
  <2>3. CASE ScheduleFails(w, r)
    <3>1. pods' = [pods EXCEPT ![w][r] = [pods[w][r] EXCEPT !.phase = "unschedulable"]]
      BY <2>3 DEF ScheduleFails
    <3>2. [pods[w][r] EXCEPT !.phase = "unschedulable"] \in Pod
      BY <2>3, <1>3, <1>4 DEF ScheduleFails
    <3> QED  BY <2>3, <3>1, <3>2 DEF ScheduleFails
  <2>4. CASE PodFinish(w, r)
    <3>1. PICK p \in {"succeeded", "failed"} : pods' = [pods EXCEPT ![w][r] = [pods[w][r] EXCEPT !.phase = p]]
      BY <2>4 DEF PodFinish
    <3>2. claims' = [claims EXCEPT ![w][r] = Deallocated(claims[w][r])]
      BY <2>4 DEF PodFinish
    <3>3. [pods[w][r] EXCEPT !.phase = p] \in Pod
      BY <2>4, <1>3, <1>4 DEF PodFinish
    <3> QED  BY <2>4, <3>1, <3>2, <3>3, <1>2, ChildTypes DEF PodFinish
  <2>5. CASE PodGone(w, r)
    <3>1. pods' = [pods EXCEPT ![w][r] = NoPod] /\ claims' = [claims EXCEPT ![w][r] = Deallocated(claims[w][r])]
      BY <2>5 DEF PodGone
    <3> QED  BY <2>5, <3>1, <1>2, ChildTypes DEF PodGone
  <2> QED  BY <2>1, <2>2, <2>3, <2>4, <2>5
<1>9. /\ pods' \in [Workloads -> [Ranks -> Pod \cup {NoPod}]]
      /\ claims' \in [Workloads -> [Ranks -> Claim \cup {NoClaim}]]
  <2>1. claims \in [Workloads -> [Ranks -> Claim \cup {NoClaim}]]
    BY DEF TypeInv, TypeOK
  <2> QED  BY <1>6, <1>7, <1>8, <2>1
<1> QED
  BY <1>1, <1>8, <1>9, NotifyType DEF TypeInv, TypeOK, EnsureInv, caches, memVars

\* Ordinary claims and the node topologies.
LEMMA OutsideType ==
  ASSUME TypeInv, (\E d \in Devices : OrdinaryClaim(d)) \/ FabricChange
  PROVE  TypeInv'
<1>1. spent' \in [Disturbances -> Nat]
  BY Spends DEF OrdinaryClaim, FabricChange, TypeInv, TypeOK, Disturbances
<1>2. CASE \E d \in Devices : OrdinaryClaim(d)
  BY <1>1, <1>2 DEF OrdinaryClaim, TypeInv, TypeOK, EnsureInv, cacheVars, caches, memVars
<1>3. CASE FabricChange
  <2>1. topo \in Topology /\ topo.gen \in 1..2
    BY DEF TypeInv, TypeOK
  <2>2. topo' \in Topology /\ topo'.gen \in 1..2
    <3>1. CASE topo' = [topo EXCEPT !.gen = 3 - @]
      BY <2>1, <3>1 DEF Topology, Gens
    <3>2. CASE topo' = [topo EXCEPT !.valid = ~@]
      BY <2>1, <3>2 DEF Topology
    <3> QED  BY <1>3, <3>1, <3>2 DEF FabricChange
  <2> QED  BY <1>1, <1>3, <2>2 DEF FabricChange, TypeInv, TypeOK, EnsureInv, cacheVars, caches
<1> QED  BY <1>2, <1>3

LEMMA NextType == ASSUME TypeInv, [Next]_vars PROVE TypeInv'
<1>1. CASE UNCHANGED vars
  BY <1>1 DEF vars, apiVars, cacheVars, caches, memVars, TypeInv, TypeOK, EnsureInv
<1> QED
  BY <1>1, ReconcileType, StepType, CallFailedType, FabricType, EventsType, UserType, ChildStepType, OutsideType
     DEF Next

LEMMA TypeAlways == Spec => []TypeInv
<1>1. TypeInv /\ [Next]_vars => TypeInv'
  BY NextType
<1> QED  BY <1>1, InitType, PTL DEF Spec

\* Every variable keeps its type: in particular a placement is made for every rank, from
\* the devices there are, and a child is only ever built for an assigned workload.
THEOREM ControllerTypeCorrect == Spec => []TypeOK
<1>1. TypeInv => TypeOK
  BY DEF TypeInv
<1> QED  BY <1>1, TypeAlways, PTL

(***************************************************************************)
(* Recorded terminal phases.                                               *)
(***************************************************************************)

\* A step changes the status of a workload only by the status update of the
\* reconciliation that is about it, which spares another terminal phase.
LEMMA TerminalKept ==
  ASSUME TypeInv, [Next]_vars, NEW w \in Workloads, terminalPhase(wl[w].status.phase)
  PROVE  wl'[w].status.phase = wl[w].status.phase
<1>1. CASE updateWorkloadStatus
  <2>1. job.w \in Workloads /\ job.st \in Status
    BY <1>1, AtCall DEF updateWorkloadStatus, Doing
  <2>2. CASE UNCHANGED wl
    BY <2>2
  <2>3. CASE wl' = [wl EXCEPT ![job.w].status = job.st]
             /\ ~(terminalPhase(wl[job.w].status.phase) /\ wl[job.w].status.phase # job.st.phase)
    <3>1. w # job.w => wl'[w] = wl[w]
      BY <2>3 DEF TypeInv, TypeOK
    <3>2. w = job.w => wl'[w].status = job.st
      BY <2>3, <2>1 DEF TypeInv, TypeOK, Workload
    <3> QED  BY <2>3, <3>1, <3>2
  <2> QED  BY <1>1, <2>2, <2>3, Zenon DEF updateWorkloadStatus
<1>2. CASE \E v \in Workloads : CreateWorkload(v) \/ EditSpec(v) \/ DeleteWorkload(v)
  <2>1. PICK v \in Workloads : \/ wl' = [wl EXCEPT ![v].life = "live"]
                               \/ wl' = [wl EXCEPT ![v].life = "gone"]
                               \/ \E s \in Specs : wl' = [wl EXCEPT ![v].spec = s]
    BY <1>2 DEF CreateWorkload, EditSpec, DeleteWorkload
  <2>2. wl[w] \in Workload /\ wl[v] \in Workload /\ wl \in [Workloads -> Workload]
    BY DEF TypeInv, TypeOK
  <2> QED  BY <2>1, <2>2 DEF Workload
<1>3. CASE UNCHANGED wl
  BY <1>3
<1> QED
  <2>1. UNCHANGED vars => UNCHANGED wl
    BY DEF vars, apiVars
  <2>2. \A v \in Workloads : Reconcile(v) => UNCHANGED wl
    BY DEF Reconcile, NotFound, ScaleExceeded, InvalidSpec, TerminalCleanup, ReservedDegraded, ReservedReplan,
           UnschedulableReplan, Finished, ChangedDegraded, ChangedReplan, Keep, FabricInvalid, PlacementError,
           Unsatisfied, Place, Run, apiVars
  <2>3. DeletePod \/ DeleteClaim \/ ensureClaim \/ ensurePod \/ SetPending \/ CallFailed => UNCHANGED wl
    BY DEF DeletePod, DeleteClaim, ensureClaim, ensurePod, SetPending, CallFailed, apiVars
  <2>4. ReconcileFabric \/ FabricTimer \/ Events \/ Restart \/ FabricChange => UNCHANGED wl
    BY DEF ReconcileFabric, FabricTimer, Events, WorkloadEvents, PodEvents, ClaimEvents, Restart, FabricChange, apiVars
  <2>5. \A v \in Workloads, r \in Ranks :
          Collect(v, r) \/ Schedule(v, r) \/ ScheduleFails(v, r) \/ PodFinish(v, r) \/ PodGone(v, r) => UNCHANGED wl
    BY DEF Collect, Schedule, ScheduleFails, PodFinish, PodGone
  <2>6. \A d \in Devices : OrdinaryClaim(d) => UNCHANGED wl
    BY DEF OrdinaryClaim
  <2> QED  BY <1>1, <1>2, <1>3, <2>1, <2>2, <2>3, <2>4, <2>5, <2>6 DEF Next, Step

\* A recorded terminal phase is irreversible: no update computed from an older cached
\* workload overwrites it (updateWorkloadStatus).
THEOREM TerminalAlwaysFinal == Spec => TerminalFinal
<1>1. TypeInv /\ [Next]_vars =>
        [\A w \in Workloads : terminalPhase(wl[w].status.phase) =>
           wl'[w].status.phase = wl[w].status.phase]_vars
  BY TerminalKept
<1> QED  BY <1>1, TypeAlways, PTL DEF Spec, TerminalFinal

(***************************************************************************)
(* The inductive invariant behind FirstPlacementsDisjoint.                 *)
(***************************************************************************)

\* The premise of FirstPlacementsDisjoint.
Calm ==
  /\ spent.rivals + spent.unscheduled + spent.fabric + spent.restarts + spent.edits = 0
  /\ spent.starts = 0 \/ spent.faults = 0
  /\ \A w \in Workloads : ~terminalPhase(wl[w].status.phase)

\* The reconciliation under way is about w.
On(w) == job # NoJob /\ job.w = w

\* What is reserved for w: what c.pending has, or what a workload that finishes
\* gave back there and will record together with its terminal phase.
Solid(w) ==
  IF pending[w] = NoAssign /\ On(w) /\ terminalPhase(job.st.phase) THEN job.st.assign ELSE pending[w]

SolidOthers(w) == UNION {Used(Solid(v)) : v \in Workloads \ {w}}

\* Nothing but the controller's own calls has happened.
WorldInv ==
  /\ topo = [gen |-> 1, valid |-> TRUE]
  /\ fabric \in {ZeroFabric, topo}
  /\ other = {} /\ co = {}
  /\ \A w \in Workloads :
       /\ wl[w].life \in {"new", "live"} /\ cw[w].life \in {"new", "live"}
       /\ cw[w].life = "live" => wl[w].life = "live"
       /\ cw[w].spec = wl[w].spec
       /\ ~terminalPhase(cw[w].status.phase)
       /\ cw[w].life = "new" => pending[w] = NoAssign /\ ~On(w)

\* No rank is unschedulable, and none has started before one was scheduled.
PodInv ==
  \A w \in Workloads, r \in Ranks : \A pod \in {pods[w][r], cp[w][r]} :
    /\ pod.phase # "unschedulable"
    /\ spent.starts = 0 => pod.phase \in {"none", "pending"}

\* An assignment is recorded with the spec and the fabric it was made for.
Stamped(w, st) ==
  st.assign # NoAssign => st.gen = 1 /\ st.hash = wl[w].spec /\ fabric = topo

StampInv ==
  /\ \A w \in Workloads : Stamped(w, wl[w].status) /\ Stamped(w, cw[w].status)
  /\ job # NoJob => Stamped(job.w, job.st)

\* What the API server and the cache have recorded is what is reserved, or the
\* placement about to be reserved.
RecordInv ==
  \A w \in Workloads : \A st \in {wl[w].status, cw[w].status} :
    \/ st.assign \in {NoAssign, Solid(w)}
    \/ On(w) /\ Head(job.todo)[1] = "reserve" /\ st.assign = job.st.assign

\* What is reserved is the first placement that leaves the others' alone.
FirstInv ==
  /\ \A w \in Workloads : Solid(w) # NoAssign => First(Solid(w), SolidOthers(w))
  /\ job # NoJob /\ job.st.assign # NoAssign => First(job.st.assign, SolidOthers(job.w))

\* Children stand on reserved devices.
ChildInv ==
  \A w \in Workloads, r \in Ranks :
    /\ claims[w][r] # NoClaim => claims[w][r].dev \in Used(Solid(w))
    /\ cc[w][r] # NoClaim => cc[w][r].dev \in Used(Solid(w))

Kind(todo, i) == todo[i][1]

\* What is left of a reconciliation that does not replan.
TodoFits(w, st, todo) ==
  /\ \A i \in 1..Len(todo) :
       /\ Kind(todo, i) = "drop" => /\ i = 1 /\ terminalPhase(st.phase)
                                    /\ pending[w] = st.assign /\ spent.starts # 0
       /\ Kind(todo, i) = "reserve" => i = 1 \/ (i = 2 /\ Kind(todo, 1) = "status")
       /\ Kind(todo, i) \in {"reserve", "ensureClaim", "ensurePod"} =>
            st.assign # NoAssign /\ ~terminalPhase(st.phase)
  /\ st.assign # NoAssign =>
       \/ Solid(w) = st.assign
       \/ Solid(w) = NoAssign /\ \E i \in 1..Len(todo) : Kind(todo, i) = "reserve"
  /\ terminalPhase(st.phase) =>
       /\ Kind(todo, Len(todo)) = "status"
       /\ pending[w] = NoAssign /\ st.assign # NoAssign => spent.starts # 0

TodoInv == job # NoJob => TodoFits(job.w, job.st, job.todo)

PlanBody == WorldInv /\ PodInv /\ StampInv /\ RecordInv /\ FirstInv /\ ChildInv /\ TodoInv

PlanInv == Calm => PlanBody

\* What the first placement uses it does not share with the devices to leave alone.
LEMMA FirstAvoids ==
  ASSUME NEW a, NEW T, First(a, T)
  PROVE  Used(a) \cap T = {} /\ a \in [Ranks -> Devices] /\ a # NoAssign
BY PlacementIsSome DEF First, Free, Used

\* A first placement stays first when more devices are taken, if it uses none of them.
LEMMA FirstNarrows ==
  ASSUME NEW a, NEW T, NEW U, First(a, T), T \subseteq U, Used(a) \cap U = {}
  PROVE  First(a, U)
<1>1. a \in Free(U)
  <2>1. a \in [Ranks -> Devices] /\ DOMAIN a = Ranks
    BY DEF First, Free
  <2>2. \A r \in Ranks : a[r] \notin U
    BY <2>1 DEF Used
  <2> QED  BY <2>1, <2>2 DEF First, Free
<1>2. Free(U) \subseteq Free(T)
  BY DEF Free
<1> QED  BY <1>1, <1>2 DEF First

LEMMA NothingUsed == Used(NoAssign) = {}
BY DEF Used, NoAssign

\* The bounds are only ever used up.
LEMMA SpentGrows ==
  ASSUME TypeInv, [Next]_vars
  PROVE  /\ spent \in [Disturbances -> Nat] /\ spent' \in [Disturbances -> Nat]
         /\ \A k \in Disturbances : spent[k] <= spent'[k]
<1>1. UNCHANGED spent \/ \E k \in Disturbances : Spend(k)
  <2>1. UNCHANGED vars => UNCHANGED spent
    BY DEF vars
  <2>2. \A v \in Workloads : Reconcile(v) => UNCHANGED spent \/ Spend("faults")
    BY DEF Reconcile, NotFound, ScaleExceeded, InvalidSpec, TerminalCleanup, ReservedDegraded, ReservedReplan,
           UnschedulableReplan, Finished, ChangedDegraded, ChangedReplan, Keep, FabricInvalid, PlacementError,
           Unsatisfied, Place, Run
  <2>3. Step \/ CallFailed => UNCHANGED spent \/ Spend("faults")
    BY DEF Step, DeletePod, DeleteClaim, ensureClaim, ensurePod, updateWorkloadStatus, SetPending, CallFailed, Answer
  <2>4. ReconcileFabric \/ FabricTimer => UNCHANGED spent \/ Spend("faults")
    BY DEF ReconcileFabric, FabricTimer
  <2>5. Events => UNCHANGED spent
    BY DEF Events, WorkloadEvents, PodEvents, ClaimEvents
  <2>6. Restart \/ FabricChange => Spend("restarts") \/ Spend("fabric")
    BY DEF Restart, FabricChange
  <2>7. \A v \in Workloads, r \in Ranks :
          /\ CreateWorkload(v) \/ EditSpec(v) \/ DeleteWorkload(v) => UNCHANGED spent \/ Spend("edits")
          /\ Collect(v, r) \/ PodFinish(v, r) \/ PodGone(v, r) => UNCHANGED spent
          /\ Schedule(v, r) \/ ScheduleFails(v, r) => Spend("starts") \/ Spend("unscheduled")
    BY DEF CreateWorkload, EditSpec, DeleteWorkload, Collect, Schedule, ScheduleFails, PodFinish, PodGone
  <2>8. \A v \in Workloads : CreateWorkload(v) \/ EditSpec(v) \/ DeleteWorkload(v) => UNCHANGED spent \/ Spend("edits")
    BY DEF CreateWorkload, EditSpec, DeleteWorkload
  <2>9. \A d \in Devices : OrdinaryClaim(d) => UNCHANGED spent \/ Spend("rivals")
    BY DEF OrdinaryClaim
  <2>10. {"faults", "restarts", "fabric", "rivals", "unscheduled", "starts", "edits"} = Disturbances
    BY DEF Disturbances
  <2> QED  BY <2>1, <2>2, <2>3, <2>4, <2>5, <2>6, <2>7, <2>8, <2>9, <2>10 DEF Next
<1>2. spent \in [Disturbances -> Nat]
  BY DEF TypeInv, TypeOK
<1> QED  BY <1>1, <1>2, Spends

\* Calm is lost for good; while it lasts only calls fail, or only Pods start.
LEMMA CalmBefore ==
  ASSUME TypeInv, [Next]_vars, Calm'
  PROVE  /\ Calm
         /\ \A k \in {"rivals", "unscheduled", "fabric", "restarts", "edits"} : ~Spend(k)
         /\ spent' \in [Disturbances -> Nat]
         /\ spent.starts # 0 => spent'.starts # 0
         /\ Spend("faults") => spent.starts = 0 /\ spent'.starts = 0
         /\ \A w \in Workloads : ~terminalPhase(wl'[w].status.phase)
<1>1. /\ spent \in [Disturbances -> Nat] /\ spent' \in [Disturbances -> Nat]
      /\ \A k \in Disturbances : spent[k] <= spent'[k]
  BY SpentGrows
<1>2. /\ spent'.rivals + spent'.unscheduled + spent'.fabric + spent'.restarts + spent'.edits = 0
      /\ spent'.starts = 0 \/ spent'.faults = 0
      /\ \A w \in Workloads : ~terminalPhase(wl'[w].status.phase)
  BY DEF Calm
<1>3. \A k \in {"rivals", "unscheduled", "fabric", "restarts", "edits"} : spent'[k] = 0 /\ spent[k] = 0
  <2>1. /\ spent'["rivals"] \in Nat /\ spent'["unscheduled"] \in Nat /\ spent'["fabric"] \in Nat
        /\ spent'["restarts"] \in Nat /\ spent'["edits"] \in Nat
    BY <1>1 DEF Disturbances
  <2>2. \A a, b, c, d, e \in Nat : a + b + c + d + e = 0 => a = 0 /\ b = 0 /\ c = 0 /\ d = 0 /\ e = 0
    OBVIOUS
  <2>3. /\ spent'["rivals"] = 0 /\ spent'["unscheduled"] = 0 /\ spent'["fabric"] = 0
        /\ spent'["restarts"] = 0 /\ spent'["edits"] = 0
    <3>1. PICK a, b, c, d, e \in Nat : /\ a = spent'["rivals"] /\ b = spent'["unscheduled"]
                                        /\ c = spent'["fabric"] /\ d = spent'["restarts"] /\ e = spent'["edits"]
      BY <2>1
    <3>2. a + b + c + d + e = 0
      BY <1>2, <3>1
    <3>3. a = 0 /\ b = 0 /\ c = 0 /\ d = 0 /\ e = 0
      BY <2>2, <3>2
    <3> QED  BY <3>1, <3>3
  <2>4. \A k \in {"rivals", "unscheduled", "fabric", "restarts", "edits"} : spent'[k] = 0
    BY <2>3
  <2>5. \A k \in {"rivals", "unscheduled", "fabric", "restarts", "edits"} : spent[k] \in Nat /\ spent[k] <= spent'[k]
    BY <1>1 DEF Disturbances
  <2> QED  BY <2>4, <2>5
<1>4. /\ spent["starts"] \in Nat /\ spent["faults"] \in Nat /\ spent'["starts"] \in Nat /\ spent'["faults"] \in Nat
      /\ spent["starts"] <= spent'["starts"] /\ spent["faults"] <= spent'["faults"]
  BY <1>1 DEF Disturbances
<1>5. \A w \in Workloads : ~terminalPhase(wl[w].status.phase)
  BY <1>2, TerminalKept
<1>6. Calm
  BY <1>2, <1>3, <1>4, <1>5 DEF Calm
<1>7. \A k \in {"rivals", "unscheduled", "fabric", "restarts", "edits"} : ~Spend(k)
  <2> SUFFICES ASSUME NEW k \in {"rivals", "unscheduled", "fabric", "restarts", "edits"}, Spend(k) PROVE FALSE
    OBVIOUS
  <2>1. spent'[k] = spent[k] + 1 /\ k \in Disturbances
    BY <1>1, Spends DEF Disturbances
  <2> QED  BY <1>1, <1>3, <2>1
<1>8. Spend("faults") => spent["starts"] = 0 /\ spent'["starts"] = 0
  <2> SUFFICES ASSUME Spend("faults") PROVE spent["starts"] = 0 /\ spent'["starts"] = 0
    OBVIOUS
  <2>1. spent'["faults"] = spent["faults"] + 1
    BY <1>1, Spends DEF Disturbances
  <2> QED  BY <1>2, <1>4, <2>1
<1> QED  BY <1>1, <1>2, <1>4, <1>6, <1>7, <1>8

\* Between two reconciliations the recorded assignments are the reserved ones.
LEMMA RecordedReserved ==
  ASSUME PlanBody, NEW w \in Workloads, ~(On(w) /\ Head(job.todo)[1] = "reserve")
  PROVE  /\ wl[w].status.assign \in {NoAssign, Solid(w)}
         /\ cw[w].status.assign \in {NoAssign, Solid(w)}
BY DEF PlanBody, RecordInv

\* What a placement must avoid is what is reserved for the others.
LEMMA ReservationsSolid ==
  ASSUME TypeInv, PlanBody, job = NoJob, NEW w \in Workloads
  PROVE  reservations(w) = SolidOthers(w)
<1>1. \A v \in Workloads : Solid(v) = pending[v] /\ cw[v].status.assign \in {NoAssign, Solid(v)}
  BY RecordedReserved DEF Solid, On
<1>2. \A v \in Workloads : Used(cw[v].status.assign) \subseteq Used(Solid(v))
  BY <1>1, NothingUsed
<1>3. \A v \in Workloads : Held(cc[v]) \subseteq Used(Solid(v))
  <2> SUFFICES ASSUME NEW v \in Workloads, NEW r \in Ranks, cc[v][r].state = "allocated"
               PROVE  cc[v][r].dev \in Used(Solid(v))
    BY DEF Held
  <2>1. cc[v][r] # NoClaim
    BY ChildTypes
  <2> QED  BY <2>1 DEF PlanBody, ChildInv
<1>4. co = {}
  BY DEF PlanBody, WorldInv
<1>5. reservations(w) \subseteq SolidOthers(w)
  <2>1. UNION {Used(pending[v]) : v \in Workloads \ {w}} \subseteq SolidOthers(w)
    BY <1>1 DEF SolidOthers
  <2>2. UNION {Used(cw[v].status.assign) : v \in {x \in Cached \ {w} : ~terminalPhase(cw[x].status.phase)}}
          \subseteq SolidOthers(w)
    BY <1>2 DEF SolidOthers, Cached
  <2>3. UNION {Held(cc[v]) : v \in Workloads \ {w}} \subseteq SolidOthers(w)
    BY <1>3 DEF SolidOthers
  <2> QED  BY <1>4, <2>1, <2>2, <2>3 DEF reservations
<1>6. SolidOthers(w) \subseteq reservations(w)
  BY <1>1 DEF reservations, SolidOthers
<1> QED  BY <1>5, <1>6

\* ... so no recorded assignment meets another reservation.
LEMMA NotReserved ==
  ASSUME TypeInv, PlanBody, job = NoJob, NEW w \in Workloads
  PROVE  ~assignmentsReserved(w)
<1>1. cw[w].status.assign \in {NoAssign, Solid(w)}
  BY RecordedReserved DEF On
<1>2. Solid(w) # NoAssign => Used(Solid(w)) \cap SolidOthers(w) = {}
  BY FirstAvoids DEF PlanBody, FirstInv
<1> QED  BY <1>1, <1>2, ReservationsSolid, NothingUsed DEF assignmentsReserved

\* The reservations of the others are the same as long as those are.
LEMMA OthersSame ==
  ASSUME \A v \in Workloads : Solid(v)' = Solid(v)
  PROVE  \A w : SolidOthers(w)' = SolidOthers(w)
BY DEF SolidOthers

\* A branch of reconcileWorkload that neither replans nor places elsewhere.
LEMMA PlanRun ==
  ASSUME TypeInv, PlanBody, job = NoJob,
         NEW w \in Workloads, w \in Cached, NEW st \in Status, NEW todo \in Seq(Op) \ {<<>>},
         job' = [w |-> w, spec |-> cw[w].spec, st |-> st, todo |-> todo],
         UNCHANGED <<apiVars, cacheVars, pending, fabric>>,
         spent.starts # 0 => spent'.starts # 0,
         Stamped(w, st),
         st.assign # NoAssign => First(st.assign, SolidOthers(w)),
         \/ st.assign \in {NoAssign, pending[w]}
         \/ pending[w] = NoAssign /\ ~terminalPhase(st.phase) /\ \E i \in 1..Len(todo) : Kind(todo, i) = "reserve",
         \A i \in 1..Len(todo) :
           /\ Kind(todo, i) = "drop" => /\ i = 1 /\ terminalPhase(st.phase)
                                        /\ pending[w] = st.assign /\ spent.starts # 0
           /\ Kind(todo, i) = "reserve" => i = 1 \/ (i = 2 /\ Kind(todo, 1) = "status")
           /\ Kind(todo, i) \in {"reserve", "ensureClaim", "ensurePod"} =>
                st.assign # NoAssign /\ ~terminalPhase(st.phase),
         terminalPhase(st.phase) => Kind(todo, Len(todo)) = "status"
  PROVE  PlanBody'
<1>1. job' # NoJob /\ job'.w = w /\ job'.st = st /\ job'.todo = todo
  BY DEF NoJob
<1>2. \A v \in Workloads : On(v)' <=> v = w
  BY <1>1 DEF On
<1>3. \A v \in Workloads : Solid(v) = pending[v] /\ Solid(v)' = Solid(v)
  <2>1. \A v \in Workloads : Solid(v) = pending[v]
    BY DEF Solid, On
  <2>2. \A v \in Workloads \ {w} : Solid(v)' = pending[v]
    BY <1>2 DEF Solid
  <2>3. Solid(w)' = pending[w]
    BY <1>1, <1>2 DEF Solid
  <2> QED  BY <2>1, <2>2, <2>3
<1>4. \A v \in Workloads : SolidOthers(v)' = SolidOthers(v)
  BY <1>3, OthersSame
<1>5. WorldInv'
  BY <1>2 DEF PlanBody, WorldInv, apiVars, cacheVars, caches, Cached
<1>6. PodInv'
  BY DEF PlanBody, PodInv, apiVars, cacheVars, caches
<1>7. StampInv'
  BY <1>1 DEF PlanBody, StampInv, Stamped, apiVars, cacheVars, caches
<1>8. RecordInv'
  <2>1. \A v \in Workloads : /\ wl[v].status.assign \in {NoAssign, Solid(v)}
                             /\ cw[v].status.assign \in {NoAssign, Solid(v)}
    BY RecordedReserved DEF On
  <2>2. UNCHANGED <<wl, cw>>
    BY DEF apiVars, cacheVars, caches
  <2> QED  BY <1>3, <2>1, <2>2 DEF RecordInv
<1>9. FirstInv'
  BY <1>1, <1>3, <1>4 DEF PlanBody, FirstInv
<1>10. ChildInv'
  BY <1>3 DEF PlanBody, ChildInv, apiVars, cacheVars, caches
<1>11. TodoInv'
  <2>1. pending'[w] = pending[w]
    OBVIOUS
  <2>2. Solid(w)' = pending[w]
    BY <1>3
  <2>3. terminalPhase(st.phase) => (pending[w] = NoAssign => st.assign = NoAssign)
    OBVIOUS
  <2>4. TodoFits(w, st, todo)'
    BY <2>1, <2>2, <2>3 DEF TodoFits
  <2> QED  BY <1>1, <2>4 DEF TodoInv
<1> QED  BY <1>5, <1>6, <1>7, <1>8, <1>9, <1>10, <1>11 DEF PlanBody

\* The kinds of the calls of the branches that are taken while nothing is replanned.
LEMMA TodoKinds ==
  /\ Len(updateStatus) = 1 /\ Kind(updateStatus, 1) = "status"
  /\ LET todo == dropPending \o deleteChildren \o updateStatus
     IN  /\ Kind(todo, Len(todo)) = "status"
         /\ \A i \in 1..Len(todo) : /\ Kind(todo, i) \in {"drop", "deletePod", "deleteClaim", "status"}
                                    /\ Kind(todo, i) = "drop" => i = 1
  /\ LET todo == ensureChildren \o updateStatus
     IN  \A i \in 1..Len(todo) : Kind(todo, i) \in {"ensureClaim", "ensurePod", "status"}
  /\ LET todo == updateStatus \o reserve \o ensureChildren
     IN  /\ Len(todo) >= 2 /\ Kind(todo, 1) = "status" /\ Kind(todo, 2) = "reserve"
         /\ \A i \in 1..Len(todo) : /\ Kind(todo, i) \in {"status", "reserve", "ensureClaim", "ensurePod"}
                                    /\ Kind(todo, i) = "reserve" => i = 2
<1> DEFINE K(kinds) == kinds \X (Ranks \cup {0})
<1>1. /\ updateStatus \in Seq(K({"status"})) /\ Len(updateStatus) = 1 /\ updateStatus[1] = <<"status", 0>>
      /\ dropPending \in Seq(K({"drop"})) /\ Len(dropPending) = 1 /\ dropPending[1] = <<"drop", 0>>
      /\ reserve \in Seq(K({"reserve"})) /\ Len(reserve) = 1 /\ reserve[1] = <<"reserve", 0>>
  BY DEF updateStatus, dropPending, reserve
<1>2. /\ deleteChildren \in Seq(K({"deletePod", "deleteClaim"}))
      /\ ensureChildren \in Seq(K({"ensureClaim", "ensurePod"}))
  BY EachRankType DEF deleteChildren, ensureChildren
<1>3. \A S, T : \A u \in Seq(S), v \in Seq(T) :
        /\ u \o v \in Seq(S \cup T) /\ Len(u \o v) = Len(u) + Len(v) /\ Len(u) \in Nat /\ Len(v) \in Nat
        /\ \A i \in 1..Len(u) : (u \o v)[i] = u[i]
        /\ \A i \in 1..Len(v) : (u \o v)[Len(u) + i] = v[i]
        /\ \A i \in 1..Len(u \o v) : (u \o v)[i] = IF i <= Len(u) THEN u[i] ELSE v[i - Len(u)]
  <2> SUFFICES ASSUME NEW S, NEW T, NEW u \in Seq(S), NEW v \in Seq(T)
               PROVE  /\ u \o v \in Seq(S \cup T) /\ Len(u \o v) = Len(u) + Len(v) /\ Len(u) \in Nat /\ Len(v) \in Nat
                      /\ \A i \in 1..Len(u) : (u \o v)[i] = u[i]
                      /\ \A i \in 1..Len(v) : (u \o v)[Len(u) + i] = v[i]
                      /\ \A i \in 1..Len(u \o v) : (u \o v)[i] = IF i <= Len(u) THEN u[i] ELSE v[i - Len(u)]
    OBVIOUS
  <2>1. u \in Seq(S \cup T) /\ v \in Seq(S \cup T)
    OBVIOUS
  <2> QED  BY <2>1, ConcatProperties, LenProperties
<1>4. \A S : \A u \in Seq(S) : \A i \in 1..Len(u) : u[i] \in S
  BY ElementOfSeq
<1>5. \A kinds : \A op \in K(kinds) : op[1] \in kinds
  OBVIOUS
<1> HIDE DEF K, updateStatus, dropPending, reserve, deleteChildren, ensureChildren
<1>a. updateStatus[1][1] = "status" /\ dropPending[1][1] = "drop" /\ reserve[1][1] = "reserve"
  BY <1>1
<1>6. ASSUME NEW u \in Seq(K({"deletePod", "deleteClaim"})), u = deleteChildren
      PROVE  LET todo == dropPending \o u \o updateStatus
             IN  /\ Kind(todo, Len(todo)) = "status"
                 /\ \A i \in 1..Len(todo) : /\ Kind(todo, i) \in {"drop", "deletePod", "deleteClaim", "status"}
                                            /\ Kind(todo, i) = "drop" => i = 1
  <2> DEFINE d == dropPending \o u
             todo == d \o updateStatus
  <2>a. dropPending \in Seq(K({"drop"})) /\ Len(dropPending) = 1
    BY <1>1
  <2>b. d \in Seq(K({"drop"}) \cup K({"deletePod", "deleteClaim"})) /\ Len(d) = Len(dropPending) + Len(u)
    <3>1. Len(d) = Len(dropPending) + Len(u)
      BY <1>3, <2>a
    <3>2. d \in Seq(K({"drop"}) \cup K({"deletePod", "deleteClaim"}))
      BY <1>3, <2>a
    <3> QED  BY <3>1, <3>2
  <2>c. Len(u) \in Nat
    BY LenProperties
  <2>1. d \in Seq(K({"drop"}) \cup K({"deletePod", "deleteClaim"})) /\ Len(d) = 1 + Len(u) /\ Len(u) \in Nat
    BY <2>a, <2>b, <2>c
  <2>2. \A i \in 1..Len(d) : d[i] = IF i <= 1 THEN dropPending[i] ELSE u[i - 1]
    <3>1. \A i \in 1..Len(d) : d[i] = IF i <= Len(dropPending) THEN dropPending[i] ELSE u[i - Len(dropPending)]
      BY <1>3, <2>a
    <3> QED  BY <2>a, <3>1
  <2>3. /\ Len(todo) = Len(d) + 1
        /\ \A i \in 1..Len(todo) : todo[i] = IF i <= Len(d) THEN d[i] ELSE updateStatus[i - Len(d)]
    BY <1>1, <1>3, <2>1
  <2>4. \A i \in 1..Len(todo) : \/ i = 1 /\ todo[i] = dropPending[1]
                                \/ i \in 2..Len(d) /\ i - 1 \in 1..Len(u) /\ todo[i] = u[i - 1]
                                \/ i = Len(todo) /\ todo[i] = updateStatus[1]
    BY <2>1, <2>2, <2>3
  <2>5. Len(todo) \in 1..Len(todo) /\ todo[Len(todo)] = updateStatus[1]
    BY <2>1, <2>3
  <2>6. \A j \in 1..Len(u) : u[j][1] \in {"deletePod", "deleteClaim"}
    BY <1>4, <1>5
  <2> HIDE DEF todo, d
  <2>7. Kind(todo, Len(todo)) = "status"
    BY <1>a, <2>5 DEF Kind
  <2>8. \A i \in 1..Len(todo) : /\ Kind(todo, i) \in {"drop", "deletePod", "deleteClaim", "status"}
                                /\ Kind(todo, i) = "drop" => i = 1
    BY <1>a, <2>4, <2>6 DEF Kind
  <2> QED  BY <2>7, <2>8 DEF todo, d
<1>7. ASSUME NEW u \in Seq(K({"ensureClaim", "ensurePod"})), u = ensureChildren
      PROVE  LET todo == u \o updateStatus
             IN  \A i \in 1..Len(todo) : Kind(todo, i) \in {"ensureClaim", "ensurePod", "status"}
  <2> DEFINE todo == u \o updateStatus
  <2>1. todo \in Seq(K({"ensureClaim", "ensurePod"}) \cup K({"status"}))
    BY <1>1, <1>3
  <2> HIDE DEF todo
  <2>2. \A i \in 1..Len(todo) : todo[i] \in K({"ensureClaim", "ensurePod"}) \cup K({"status"})
    BY <1>4, <2>1
  <2>3. \A i \in 1..Len(todo) : Kind(todo, i) \in {"ensureClaim", "ensurePod", "status"}
    BY <1>5, <2>2 DEF Kind
  <2> QED  BY <2>3 DEF todo
<1>8. ASSUME NEW u \in Seq(K({"ensureClaim", "ensurePod"})), u = ensureChildren
      PROVE  LET todo == updateStatus \o reserve \o u
             IN  /\ Len(todo) >= 2 /\ Kind(todo, 1) = "status" /\ Kind(todo, 2) = "reserve"
                 /\ \A i \in 1..Len(todo) : /\ Kind(todo, i) \in {"status", "reserve", "ensureClaim", "ensurePod"}
                                            /\ Kind(todo, i) = "reserve" => i = 2
  <2> DEFINE h == updateStatus \o reserve
             todo == h \o u
  <2>1. /\ h \in Seq(K({"status"}) \cup K({"reserve"})) /\ Len(h) = 2
        /\ \A i \in 1..Len(h) : h[i] = IF i <= 1 THEN updateStatus[i] ELSE reserve[i - 1]
    BY <1>1, <1>3
  <2>2. h[1] = updateStatus[1] /\ h[2] = reserve[1]
    BY <2>1
  <2>3. /\ Len(todo) = 2 + Len(u) /\ Len(u) \in Nat
        /\ \A i \in 1..Len(todo) : todo[i] = IF i <= 2 THEN h[i] ELSE u[i - 2]
    BY <2>1, <1>3
  <2>4. \A i \in 1..Len(todo) : \/ i = 1 /\ todo[i] = updateStatus[1]
                                \/ i = 2 /\ todo[i] = reserve[1]
                                \/ i - 2 \in 1..Len(u) /\ todo[i] = u[i - 2]
    BY <2>2, <2>3
  <2>5. todo[1] = updateStatus[1] /\ todo[2] = reserve[1] /\ Len(todo) >= 2
    BY <2>2, <2>3
  <2>6. \A j \in 1..Len(u) : u[j][1] \in {"ensureClaim", "ensurePod"}
    BY <1>4, <1>5
  <2> HIDE DEF todo, h
  <2>7. \A i \in 1..Len(todo) : /\ Kind(todo, i) \in {"status", "reserve", "ensureClaim", "ensurePod"}
                                /\ Kind(todo, i) = "reserve" => i = 2
    BY <1>a, <2>4, <2>6 DEF Kind
  <2>8. Kind(todo, 1) = "status" /\ Kind(todo, 2) = "reserve"
    BY <1>a, <2>5 DEF Kind
  <2> QED  BY <2>5, <2>7, <2>8 DEF todo, h
<1>9. Len(updateStatus) = 1 /\ Kind(updateStatus, 1) = "status"
  BY <1>1 DEF Kind
<1> QED  BY <1>2, <1>6, <1>7, <1>8, <1>9

\* A step that changes nothing but the queue.
LEMMA PlanSame ==
  ASSUME PlanBody, UNCHANGED <<wl, pods, claims, other, topo, caches, pending, fabric, job>>,
         spent.starts # 0 => spent'.starts # 0
  PROVE  PlanBody'
<1>1. \A w \in Workloads : (On(w)' <=> On(w)) /\ Solid(w)' = Solid(w)
  BY DEF Solid, On
<1>2. \A w : SolidOthers(w)' = SolidOthers(w)
  BY <1>1, OthersSame
<1>3. WorldInv' /\ PodInv' /\ StampInv' /\ ChildInv'
  <2>1. WorldInv'
    BY <1>1 DEF PlanBody, WorldInv, caches
  <2>2. PodInv'
    BY DEF PlanBody, PodInv, caches
  <2>3. StampInv'
    BY DEF PlanBody, StampInv, Stamped, caches
  <2>4. ChildInv'
    BY <1>1 DEF PlanBody, ChildInv, caches
  <2> QED  BY <2>1, <2>2, <2>3, <2>4
<1>4. RecordInv'
  BY <1>1 DEF PlanBody, RecordInv, caches
<1>5. FirstInv'
  BY <1>1, <1>2 DEF PlanBody, FirstInv
<1>6. TodoInv'
  BY DEF PlanBody, TodoInv, TodoFits, Solid, On
<1> QED  BY <1>3, <1>4, <1>5, <1>6 DEF PlanBody

\* What a reconciliation reads of its workload while nothing was replanned.
LEMMA PlanRead ==
  ASSUME TypeInv, Calm, PlanBody, job = NoJob, NEW w \in Workloads
  PROVE  /\ cw[w].status.assign \in {NoAssign, pending[w]}
         /\ Solid(w) = pending[w]
         /\ pending[w] # NoAssign => First(pending[w], SolidOthers(w))
         /\ ~terminalPhase(cw[w].status.phase)
         /\ Stamped(w, cw[w].status) /\ cw[w].spec = wl[w].spec
         /\ ~Unschedulable(w)
         /\ terminalPhase(observedPhase(w)) => spent.starts # 0
<1>1. Solid(w) = pending[w]
  BY DEF Solid, On
<1>2. cw[w].status.assign \in {NoAssign, pending[w]}
  BY <1>1, RecordedReserved DEF On
<1>3. /\ pending[w] # NoAssign => First(pending[w], SolidOthers(w))
      /\ ~terminalPhase(cw[w].status.phase)
      /\ Stamped(w, cw[w].status) /\ cw[w].spec = wl[w].spec
  BY <1>1 DEF PlanBody, FirstInv, WorldInv, StampInv
<1>4. \A r \in Ranks : /\ cp[w][r].phase # "unschedulable"
                       /\ spent.starts = 0 => cp[w][r].phase \in {"none", "pending"}
  BY DEF PlanBody, PodInv
<1>5. ~Unschedulable(w)
  BY <1>4 DEF Unschedulable, Stopping
<1>6. ASSUME spent.starts = 0 PROVE ~terminalPhase(observedPhase(w))
  <2>1. Stopping(w) = {}
    BY <1>4, <1>6 DEF Stopping
  <2>2. ~(\A r \in Ranks : cp[w][r].phase = "succeeded")
    <3>1. 1 \in Ranks
      BY RanksPositive DEF Ranks
    <3> QED  BY <1>4, <1>6, <3>1
  <2>3. observedPhase(w) \in {"Running", "Assigned"}
    BY <2>1, <2>2, <1>5 DEF observedPhase
  <2> QED  BY <2>3 DEF terminalPhase
<1> QED  BY <1>1, <1>2, <1>3, <1>5, <1>6

\* Every branch of reconcileWorkload that is taken while nothing is replanned.
LEMMA PlanReconcile ==
  ASSUME TypeInv, Calm, PlanBody, NEW w \in Workloads, Reconcile(w),
         spent.starts # 0 => spent'.starts # 0
  PROVE  PlanBody'
<1> DEFINE read == cw[w].status
<1>1. job = NoJob
  BY DEF Reconcile, NotFound, ScaleExceeded, InvalidSpec, TerminalCleanup, ReservedDegraded, ReservedReplan,
         UnschedulableReplan, Finished, ChangedDegraded, ChangedReplan, Keep, FabricInvalid, PlacementError,
         Unsatisfied, Place, Take
<1>2. /\ read.assign \in {NoAssign, pending[w]}
      /\ read.assign # NoAssign => First(read.assign, SolidOthers(w))
      /\ ~terminalPhase(read.phase)
      /\ Stamped(w, read) /\ cw[w].spec = wl[w].spec
      /\ ~Unschedulable(w)
      /\ terminalPhase(observedPhase(w)) => spent.starts # 0
  BY <1>1, PlanRead
<1>3. ~assignmentsReserved(w)
  BY <1>1, NotReserved
<1>4. read.assign # NoAssign => ~specChanged(w) /\ ~fabricChanged(w)
  <2>1. ASSUME read.assign # NoAssign PROVE read.hash = cw[w].spec /\ read.gen = 1 /\ fabric.gen = 1
    <3>1. read.gen = 1 /\ read.hash = cw[w].spec /\ fabric = topo
      BY <1>2, <2>1 DEF Stamped
    <3>2. topo.gen = 1
      BY DEF PlanBody, WorldInv
    <3> QED  BY <3>1, <3>2
  <2> QED  BY <2>1 DEF specChanged, fabricChanged
<1>5. CASE NotFound(w)
  <2>1. cw[w].life # "live"
    BY <1>5 DEF NotFound, Cached
  <2>2. pending[w] = NoAssign
    BY <2>1 DEF PlanBody, WorldInv
  <2>3. pending \in [Workloads -> Assignment]
    BY DEF TypeInv, TypeOK
  <2>4. pending' = pending
    BY <1>5, <2>2, <2>3 DEF NotFound
  <2>5. UNCHANGED <<wl, pods, claims, other, topo, caches, pending, fabric, job>>
    BY <1>5, <2>4 DEF NotFound, apiVars, cacheVars, caches
  <2> QED  BY <2>5, PlanSame
<1>6. CASE TerminalCleanup(w) \/ ReservedDegraded(w) \/ ReservedReplan(w) \/ UnschedulableReplan(w)
  BY <1>2, <1>3, <1>6 DEF TerminalCleanup, ReservedDegraded, ReservedReplan, UnschedulableReplan
<1>7. CASE ChangedDegraded(w) \/ ChangedReplan(w)
  BY <1>4, <1>7 DEF ChangedDegraded, ChangedReplan, Ongoing, Undisturbed, Live, Assigned
<1>8. ASSUME NEW st \in Status, NEW todo \in Seq(Op) \ {<<>>}, Take(w), w \in Cached,
             job' = [w |-> w, spec |-> cw[w].spec, st |-> st, todo |-> todo],
             UNCHANGED <<apiVars, cacheVars, pending, fabric>>,
             st.assign = read.assign, Stamped(w, st),
             \A i \in 1..Len(todo) :
               /\ Kind(todo, i) = "drop" => /\ i = 1 /\ terminalPhase(st.phase)
                                            /\ pending[w] = st.assign /\ spent.starts # 0
               /\ Kind(todo, i) # "reserve"
               /\ Kind(todo, i) \in {"ensureClaim", "ensurePod"} =>
                    st.assign # NoAssign /\ ~terminalPhase(st.phase),
             terminalPhase(st.phase) => Kind(todo, Len(todo)) = "status"
      PROVE  PlanBody'
  <2>1. st.assign \in {NoAssign, pending[w]} /\ (st.assign # NoAssign => First(st.assign, SolidOthers(w)))
    BY <1>2, <1>8
  <2> QED  BY <1>1, <1>8, <2>1, PlanRun
<1>9. ASSUME NEW st \in Status, Take(w), w \in Cached,
             job' = [w |-> w, spec |-> cw[w].spec, st |-> st, todo |-> updateStatus],
             UNCHANGED <<apiVars, cacheVars, pending, fabric>>,
             st.assign = read.assign, Stamped(w, st)
      PROVE  PlanBody'
  <2>1. updateStatus \in Seq(Op) \ {<<>>}
    BY TodoTypes, PlainIsOp
  <2>2. Len(updateStatus) = 1 /\ Kind(updateStatus, 1) = "status"
    BY TodoKinds
  <2>3. \A i \in 1..Len(updateStatus) : Kind(updateStatus, i) = "status"
    BY <2>2
  <2>4. Kind(updateStatus, Len(updateStatus)) = "status"
    BY <2>2
  <2> HIDE DEF Kind, updateStatus
  <2> QED  BY <1>8, <1>9, <2>1, <2>3, <2>4
<1>10. \A p \in Phases : /\ WithPhase(w, p) \in Status /\ Hashed(w, WithPhase(w, p)) \in Status
                         /\ WithPhase(w, p).assign = read.assign /\ Hashed(w, WithPhase(w, p)).assign = read.assign
                         /\ WithPhase(w, p).phase = p /\ Hashed(w, WithPhase(w, p)).phase = p
                         /\ Stamped(w, WithPhase(w, p)) /\ Stamped(w, Hashed(w, WithPhase(w, p)))
  <2> SUFFICES ASSUME NEW p \in Phases
               PROVE  /\ WithPhase(w, p) \in Status /\ Hashed(w, WithPhase(w, p)) \in Status
                      /\ WithPhase(w, p).assign = read.assign /\ Hashed(w, WithPhase(w, p)).assign = read.assign
                      /\ WithPhase(w, p).phase = p /\ Hashed(w, WithPhase(w, p)).phase = p
                      /\ Stamped(w, WithPhase(w, p)) /\ Stamped(w, Hashed(w, WithPhase(w, p)))
    OBVIOUS
  <2>1. /\ WithPhase(w, p) \in Status
        /\ WithPhase(w, p).phase = p /\ WithPhase(w, p).assign = read.assign
        /\ WithPhase(w, p).gen = read.gen /\ WithPhase(w, p).hash = read.hash
    BY StatusTypes
  <2>2. /\ Hashed(w, WithPhase(w, p)) \in Status
        /\ Hashed(w, WithPhase(w, p)).phase = p /\ Hashed(w, WithPhase(w, p)).assign = read.assign
        /\ Hashed(w, WithPhase(w, p)).gen = read.gen /\ Hashed(w, WithPhase(w, p)).hash = cw[w].spec
    BY <2>1, StatusTypes
  <2> QED  BY <1>2, <2>1, <2>2 DEF Stamped
<1>11. {"Pending", "Degraded", "Failed", "Assigned", "Running", "Succeeded"} \subseteq Phases
  BY DEF Phases
<1>12. CASE ScaleExceeded(w)
  BY <1>9, <1>10, <1>11, <1>12 DEF ScaleExceeded, Run
<1>13. CASE InvalidSpec(w)
  BY <1>9, <1>10, <1>11, <1>13 DEF InvalidSpec, InScale, Run
<1>14. CASE FabricInvalid(w)
  BY <1>9, <1>10, <1>11, <1>14 DEF FabricInvalid, Unassigned, InScale, Run
<1>15. CASE PlacementError(w)
  BY <1>9, <1>10, <1>11, <1>15 DEF PlacementError, Unassigned, InScale
<1>16. CASE Unsatisfied(w)
  <2> DEFINE st == [Hashed(w, WithPhase(w, "Pending")) EXCEPT !.gen = fabric.gen]
  <2>1. st \in Status /\ st.assign = NoAssign /\ read.assign = NoAssign
    <3>1. Hashed(w, WithPhase(w, "Pending")) \in Status /\ Hashed(w, WithPhase(w, "Pending")).assign = read.assign
      BY <1>10, <1>11
    <3>2. read.assign = NoAssign
      BY <1>16 DEF Unsatisfied, Unassigned
    <3>3. fabric.gen \in Gens
      BY DEF TypeInv, TypeOK, Topology
    <3> QED  BY <3>1, <3>2, <3>3 DEF Status
  <2>2. Stamped(w, st)
    BY <2>1 DEF Stamped
  <2>3. w \in Cached /\ Take(w) /\ Run(w, updateStatus, st)
    BY <1>16 DEF Unsatisfied, Unassigned, InScale
  <2> HIDE DEF st
  <2> QED  BY <1>9, <2>1, <2>2, <2>3 DEF Run
<1>17. CASE Finished(w)
  <2> DEFINE todo == dropPending \o deleteChildren \o updateStatus
             st == WithPhase(w, observedPhase(w))
  <2>1. todo \in Seq(Op) \ {<<>>}
    BY TodoTypes, PlainIsOp
  <2>2. /\ Kind(todo, Len(todo)) = "status"
        /\ \A i \in 1..Len(todo) : /\ Kind(todo, i) \in {"drop", "deletePod", "deleteClaim", "status"}
                                   /\ Kind(todo, i) = "drop" => i = 1
    BY TodoKinds
  <2>3. st \in Status /\ st.assign = read.assign /\ Stamped(w, st) /\ terminalPhase(st.phase)
    BY <1>10, <1>11, <1>17, ObservedType DEF Finished
  <2>4. Take(w) /\ w \in Cached /\ read.assign # NoAssign /\ Run(w, todo, st) /\ terminalPhase(observedPhase(w))
    BY <1>17 DEF Finished, Undisturbed, Live, Assigned, InScale
  <2>5. spent.starts # 0 /\ pending[w] = st.assign
    BY <1>2, <2>3, <2>4
  <2> HIDE DEF todo, st, Kind
  <2> QED  BY <1>8, <2>1, <2>2, <2>3, <2>4, <2>5 DEF Run
<1>18. CASE Keep(w)
  <2> DEFINE todo == ensureChildren \o updateStatus
             st == Hashed(w, WithPhase(w, observedPhase(w)))
  <2>1. todo \in Seq(Op) \ {<<>>}
    BY TodoTypes
  <2>2. \A i \in 1..Len(todo) : Kind(todo, i) \in {"ensureClaim", "ensurePod", "status"}
    BY TodoKinds
  <2>3. st \in Status /\ st.assign = read.assign /\ Stamped(w, st) /\ ~terminalPhase(st.phase)
    BY <1>10, <1>11, <1>18, ObservedType DEF Keep, Ongoing
  <2>4. Take(w) /\ w \in Cached /\ read.assign # NoAssign /\ Run(w, todo, st)
    BY <1>18 DEF Keep, Ongoing, Undisturbed, Live, Assigned, InScale
  <2> HIDE DEF todo, st, Kind
  <2> QED  BY <1>8, <2>1, <2>2, <2>3, <2>4 DEF Run
<1>19. CASE Place(w)
  <2> DEFINE todo == updateStatus \o reserve \o ensureChildren
             st == [phase |-> "Assigned", assign |-> SolveContext(w), gen |-> fabric.gen, hash |-> cw[w].spec]
  <2>1. todo \in Seq(Op) \ {<<>>}
    BY TodoTypes
  <2>2. /\ Len(todo) >= 2 /\ Kind(todo, 1) = "status" /\ Kind(todo, 2) = "reserve"
        /\ \A i \in 1..Len(todo) : /\ Kind(todo, i) \in {"status", "reserve", "ensureClaim", "ensurePod"}
                                   /\ Kind(todo, i) = "reserve" => i = 2
    BY TodoKinds
  <2>3. Take(w) /\ w \in Cached /\ Solutions(w) # {} /\ fabric.valid /\ Run(w, todo, st)
    BY <1>19 DEF Place, Unassigned, InScale
  <2>4. First(SolveContext(w), SolidOthers(w))
    BY <1>1, <2>3, SolvesFirst, ReservationsSolid
  <2>5. SolveContext(w) \in [Ranks -> Devices] /\ SolveContext(w) # NoAssign
    BY <2>4, FirstAvoids
  <2>6. st \in Status
    BY <2>5, StatusTypes DEF TypeInv, TypeOK, Topology, Status, Phases, Assignment
  <2>7. st.assign = SolveContext(w) /\ ~terminalPhase(st.phase)
    BY DEF terminalPhase
  <2>8. fabric = topo /\ topo.gen = 1
    BY <2>3 DEF PlanBody, WorldInv, ZeroFabric
  <2>9. Stamped(w, st)
    BY <1>2, <2>8 DEF Stamped
  <2>10. pending[w] # NoAssign => pending[w] = SolveContext(w)
    BY <1>1, <2>4, PlanRead, FirstUnique
  <2>11. 2 \in 1..Len(todo)
    <3>1. Len(todo) \in Nat
      BY <2>1, LenProperties
    <3> QED  BY <2>2, <3>1
  <2> HIDE DEF todo, st, Kind
  <2>12. \/ st.assign \in {NoAssign, pending[w]}
         \/ pending[w] = NoAssign /\ ~terminalPhase(st.phase) /\ \E i \in 1..Len(todo) : Kind(todo, i) = "reserve"
    BY <2>2, <2>7, <2>10, <2>11
  <2>13. \A i \in 1..Len(todo) :
           /\ Kind(todo, i) = "drop" => /\ i = 1 /\ terminalPhase(st.phase)
                                        /\ pending[w] = st.assign /\ spent.starts # 0
           /\ Kind(todo, i) = "reserve" => i = 1 \/ (i = 2 /\ Kind(todo, 1) = "status")
           /\ Kind(todo, i) \in {"reserve", "ensureClaim", "ensurePod"} =>
                st.assign # NoAssign /\ ~terminalPhase(st.phase)
    BY <2>2, <2>5, <2>7
  <2> QED  BY <1>1, <2>1, <2>3, <2>4, <2>6, <2>7, <2>9, <2>12, <2>13, PlanRun DEF Run
<1> QED
  BY <1>5, <1>6, <1>7, <1>12, <1>13, <1>14, <1>15, <1>16, <1>17, <1>18, <1>19 DEF Reconcile

\* The first call of a reconciliation.
LEMMA AtKind ==
  ASSUME TypeInv, job.todo # <<>>
  PROVE  /\ job # NoJob /\ On(job.w) /\ job.w \in Workloads
         /\ Len(job.todo) \in Nat \ {0} /\ 1 \in 1..Len(job.todo) /\ Len(job.todo) \in 1..Len(job.todo)
         /\ Head(job.todo)[1] = Kind(job.todo, 1)
<1>1. job # NoJob /\ job.w \in Workloads /\ job.todo \in Seq(Op) \ {<<>>}
  BY AtCall DEF NoJob
<1>2. Len(job.todo) \in Nat \ {0}
  BY <1>1, EmptySeq, LenProperties
<1>3. Head(job.todo) = job.todo[1]
  BY <1>1
<1> QED  BY <1>1, <1>2, <1>3 DEF On, Kind

\* A call that leaves c.pending alone and is answered, or fails without undoing a reservation.
LEMMA AfterCall ==
  ASSUME TypeInv, PlanBody, job.todo # <<>>, UNCHANGED pending,
         spent.starts # 0 => spent'.starts # 0,
         Kind(job.todo, 1) \notin {"drop", "reserve"},
         \/ Advance /\ (Kind(job.todo, 1) = "status" =>
                          /\ ~terminalPhase(job.st.phase))
         \/ job' = NoJob /\ (terminalPhase(job.st.phase) => spent.starts = 0)
  PROVE  /\ \A v \in Workloads : Solid(v)' = Solid(v)
         /\ \A v \in Workloads : On(v)' => On(v)
         /\ job' # NoJob => job'.st = job.st /\ job'.w = job.w
         /\ TodoInv'
<1>1. /\ job # NoJob /\ On(job.w) /\ job.w \in Workloads
      /\ Len(job.todo) \in Nat \ {0} /\ 1 \in 1..Len(job.todo) /\ Len(job.todo) \in 1..Len(job.todo)
  BY AtKind
<1>2. TodoFits(job.w, job.st, job.todo)
  BY <1>1 DEF PlanBody, TodoInv
<1>3. CASE job' = NoJob /\ (terminalPhase(job.st.phase) /\ pending[job.w] = NoAssign => job.st.assign = NoAssign)
  <2>1. \A v \in Workloads : ~On(v)'
    BY <1>3 DEF On
  <2>2. \A v \in Workloads : Solid(v)' = pending[v]
    BY <2>1 DEF Solid
  <2>3. \A v \in Workloads : Solid(v) = pending[v]
    BY <1>3 DEF Solid, On
  <2> QED  BY <1>3, <2>1, <2>2, <2>3 DEF TodoInv
<1>4. CASE job' = NoJob /\ (terminalPhase(job.st.phase) => spent.starts = 0)
  BY <1>2, <1>3, <1>4 DEF TodoFits
<1>5. CASE Advance /\ (Kind(job.todo, 1) = "status" => ~terminalPhase(job.st.phase))
  <2>1. CASE Len(job.todo) = 1
    <3>1. job' = NoJob
      BY <1>5, <2>1, Advances
    <3>2. ~terminalPhase(job.st.phase)
      BY <1>2, <1>5, <2>1 DEF TodoFits
    <3> QED  BY <1>3, <3>1, <3>2
  <2>2. CASE Len(job.todo) # 1
    <3>1. /\ job' # NoJob /\ job'.w = job.w /\ job'.st = job.st
          /\ Len(job'.todo) = Len(job.todo) - 1
          /\ \A i \in 1..Len(job'.todo) : job'.todo[i] = job.todo[i + 1]
      BY <1>5, <2>2, Advances
    <3>2. \A v \in Workloads : (On(v)' <=> On(v)) /\ Solid(v)' = Solid(v)
      <4>1. \A v \in Workloads : On(v)' <=> On(v)
        BY <1>1, <3>1 DEF On
      <4> QED  BY <3>1, <4>1 DEF Solid
    <3>3. /\ \A i \in 1..Len(job'.todo) : i + 1 \in 1..Len(job.todo) /\ Kind(job'.todo, i) = Kind(job.todo, i + 1)
          /\ \A i \in 2..Len(job.todo) : i - 1 \in 1..Len(job'.todo) /\ Kind(job'.todo, i - 1) = Kind(job.todo, i)
          /\ Kind(job'.todo, Len(job'.todo)) = Kind(job.todo, Len(job.todo))
      <4>1. \A i \in 1..Len(job'.todo) : i + 1 \in 1..Len(job.todo) /\ Kind(job'.todo, i) = Kind(job.todo, i + 1)
        BY <1>1, <3>1 DEF Kind
      <4>2. \A i \in 2..Len(job.todo) : i - 1 \in 1..Len(job'.todo) /\ (i - 1) + 1 = i
        BY <1>1, <3>1
      <4>3. \A i \in 2..Len(job.todo) : Kind(job'.todo, i - 1) = Kind(job.todo, i)
        BY <4>1, <4>2
      <4>4. Len(job.todo) \in 2..Len(job.todo)
        <5>1. \A n \in Nat \ {0} : n # 1 => n \in 2..n
          OBVIOUS
        <5> QED  BY <1>1, <2>2, <5>1
      <4>5. Kind(job'.todo, Len(job'.todo)) = Kind(job.todo, Len(job.todo))
        BY <3>1, <4>3, <4>4
      <4> QED  BY <4>1, <4>2, <4>3, <4>5
    <3>4. \A i \in 1..Len(job'.todo) :
            /\ Kind(job'.todo, i) # "drop"
            /\ Kind(job'.todo, i) = "reserve" => i = 1
            /\ Kind(job'.todo, i) \in {"reserve", "ensureClaim", "ensurePod"} =>
                 job.st.assign # NoAssign /\ ~terminalPhase(job.st.phase)
      <4> SUFFICES ASSUME NEW i \in 1..Len(job'.todo)
                   PROVE  /\ Kind(job'.todo, i) # "drop"
                          /\ Kind(job'.todo, i) = "reserve" => i = 1
                          /\ Kind(job'.todo, i) \in {"reserve", "ensureClaim", "ensurePod"} =>
                               job.st.assign # NoAssign /\ ~terminalPhase(job.st.phase)
        OBVIOUS
      <4>1. i + 1 \in 1..Len(job.todo) /\ Kind(job'.todo, i) = Kind(job.todo, i + 1) /\ i + 1 # 1 /\ (i + 1 = 2 => i = 1)
        BY <3>3
      <4>2. /\ Kind(job.todo, i + 1) = "drop" => i + 1 = 1
            /\ Kind(job.todo, i + 1) = "reserve" => i + 1 = 1 \/ i + 1 = 2
            /\ Kind(job.todo, i + 1) \in {"reserve", "ensureClaim", "ensurePod"} =>
                 job.st.assign # NoAssign /\ ~terminalPhase(job.st.phase)
        BY <1>2, <4>1 DEF TodoFits
      <4> QED  BY <4>1, <4>2
    <3>5. job.st.assign # NoAssign =>
            \/ Solid(job.w) = job.st.assign
            \/ Solid(job.w) = NoAssign /\ \E i \in 1..Len(job'.todo) : Kind(job'.todo, i) = "reserve"
      <4> SUFFICES ASSUME NEW i \in 1..Len(job.todo), Kind(job.todo, i) = "reserve"
                   PROVE  \E j \in 1..Len(job'.todo) : Kind(job'.todo, j) = "reserve"
        BY <1>2 DEF TodoFits
      <4>1. i \in 2..Len(job.todo)
        BY <1>1
      <4> QED  BY <3>3, <4>1
    <3>6. terminalPhase(job.st.phase) =>
            /\ Kind(job'.todo, Len(job'.todo)) = "status"
            /\ pending[job.w] = NoAssign /\ job.st.assign # NoAssign => spent'.starts # 0
      BY <1>2, <3>3 DEF TodoFits
    <3>7. PICK w \in Workloads : w = job.w
      BY <1>1
    <3>8. Solid(w)' = Solid(w) /\ pending'[w] = pending[w] /\ job'.w = w /\ job.w = w
      BY <3>1, <3>2, <3>7
    <3>9. TodoInv'
      BY <3>1, <3>4, <3>5, <3>6, <3>8 DEF TodoInv, TodoFits
    <3> QED  BY <3>1, <3>2, <3>9
  <2> QED  BY <2>1, <2>2
<1> QED  BY <1>4, <1>5

\* What such a call leaves true of everything but the children.
LEMMA PlanCall ==
  ASSUME TypeInv, PlanBody, job.todo # <<>>, UNCHANGED <<wl, other, topo, caches, pending, fabric>>,
         spent.starts # 0 => spent'.starts # 0,
         Kind(job.todo, 1) \notin {"drop", "reserve"},
         \/ Advance /\ (Kind(job.todo, 1) = "status" => ~terminalPhase(job.st.phase))
         \/ job' = NoJob /\ (terminalPhase(job.st.phase) => spent.starts = 0)
  PROVE  /\ \A v \in Workloads : Solid(v)' = Solid(v)
         /\ WorldInv' /\ StampInv' /\ RecordInv' /\ FirstInv' /\ TodoInv'
<1>1. /\ \A v \in Workloads : Solid(v)' = Solid(v)
      /\ \A v \in Workloads : On(v)' => On(v)
      /\ job' # NoJob => job'.st = job.st /\ job'.w = job.w
      /\ TodoInv'
  BY AfterCall
<1>2. \A v : SolidOthers(v)' = SolidOthers(v)
  BY <1>1, OthersSame
<1>3. job # NoJob /\ Head(job.todo)[1] # "reserve"
  BY AtKind
<1>4. WorldInv'
  BY <1>1 DEF PlanBody, WorldInv, caches
<1>5. StampInv'
  BY <1>1, <1>3 DEF PlanBody, StampInv, Stamped, caches
<1>6. RecordInv'
  <2>1. \A v \in Workloads : /\ wl[v].status.assign \in {NoAssign, Solid(v)}
                             /\ cw[v].status.assign \in {NoAssign, Solid(v)}
    BY <1>3, RecordedReserved
  <2> QED  BY <1>1, <2>1 DEF RecordInv, caches
<1>7. FirstInv'
  <2>1. \A v \in Workloads : Solid(v)' # NoAssign => First(Solid(v), SolidOthers(v))'
    BY <1>1, <1>2 DEF PlanBody, FirstInv
  <2>2. job' # NoJob /\ job'.st.assign # NoAssign => First(job.st.assign, SolidOthers(job.w))'
    BY <1>1, <1>2, <1>3 DEF PlanBody, FirstInv
  <2> QED  BY <2>1, <2>2 DEF FirstInv
<1> QED  BY <1>1, <1>4, <1>5, <1>6, <1>7

\* Pods that are made, deleted or left alone.
LEMMA PodsPlain ==
  ASSUME PlanBody, UNCHANGED cp, spent.starts # 0 => spent'.starts # 0,
         \A w \in Workloads, r \in Ranks : pods'[w][r].phase \in {"none", "pending", pods[w][r].phase}
  PROVE  PodInv'
BY DEF PlanBody, PodInv

\* Claims that are made for reserved devices, released or left alone.
LEMMA ClaimsPlain ==
  ASSUME PlanBody, UNCHANGED cc, \A w \in Workloads : Solid(w)' = Solid(w),
         \A w \in Workloads, r \in Ranks :
           claims'[w][r] # NoClaim =>
             \/ claims[w][r] # NoClaim /\ claims'[w][r].dev = claims[w][r].dev
             \/ claims'[w][r].dev \in Used(Solid(w))
  PROVE  ChildInv'
BY DEF PlanBody, ChildInv

\* Deleting and deallocating keep the device of a claim and start no Pod.
LEMMA ChildrenPlain ==
  /\ \A pod \in Pod \cup {NoPod} : Deleted(pod).phase \in {"none", pod.phase}
  /\ \A claim \in Claim \cup {NoClaim} :
       /\ Released(claim) # NoClaim => claim # NoClaim /\ Released(claim).dev = claim.dev
       /\ Deallocated(claim) # NoClaim => claim # NoClaim /\ Deallocated(claim).dev = claim.dev
<1>1. \A pod \in Pod : Deleted(pod).phase \in {"none", pod.phase}
  BY DEF Deleted, Pod, NoPod
<1>2. Deleted(NoPod).phase = "none"
  BY DEF Deleted, NoPod
<1>3. \A claim \in Claim : /\ Released(claim) # NoClaim => claim # NoClaim /\ Released(claim).dev = claim.dev
                           /\ Deallocated(claim) # NoClaim => claim # NoClaim /\ Deallocated(claim).dev = claim.dev
  <2> SUFFICES ASSUME NEW claim \in Claim
               PROVE  /\ Released(claim) # NoClaim => Released(claim).dev = claim.dev
                      /\ Deallocated(claim) # NoClaim => Deallocated(claim).dev = claim.dev
    BY ChildTypes
  <2> QED  BY DEF Released, Deallocated, Claim
<1>4. Released(NoClaim) = NoClaim /\ Deallocated(NoClaim) = NoClaim
  BY DEF Released, Deallocated, NoClaim
<1> QED  BY <1>1, <1>2, <1>3, <1>4, ChildTypes DEF NoPod

\* One rank's entry is replaced, the others stay.
LEMMA OneRank ==
  ASSUME TypeInv, NEW w \in Workloads, NEW r \in Ranks, NEW x
  PROVE  /\ \A v \in Workloads, q \in Ranks :
              /\ [pods EXCEPT ![w][r] = x][v][q] = IF v = w /\ q = r THEN x ELSE pods[v][q]
              /\ [claims EXCEPT ![w][r] = x][v][q] = IF v = w /\ q = r THEN x ELSE claims[v][q]
BY DEF TypeInv, TypeOK

\* The calls that delete children.
LEMMA PlanDelete ==
  ASSUME ~LostReplies, TypeInv, PlanBody, DeletePod \/ DeleteClaim
  PROVE  PlanBody'
<1>1. /\ job.todo # <<>> /\ Advance /\ UNCHANGED <<wl, other, topo, caches, pending, fabric, spent>>
      /\ Head(job.todo)[1] \in {"deletePod", "deleteClaim"}
  BY DEF DeletePod, DeleteClaim, Answer, Doing
<1>2. Kind(job.todo, 1) \in {"deletePod", "deleteClaim"}
  BY <1>1, AtKind
<1>3. /\ \A v \in Workloads : Solid(v)' = Solid(v)
      /\ WorldInv' /\ StampInv' /\ RecordInv' /\ FirstInv' /\ TodoInv'
  BY <1>1, <1>2, PlanCall
<1>4. job.w \in Workloads /\ Rank \in Ranks
  BY AtCall DEF DeletePod, DeleteClaim, Doing
<1>5. CASE DeletePod
  <2>1. pods' = [pods EXCEPT ![job.w][Rank] = Deleted(pods[job.w][Rank])] /\ claims' = claims
    BY <1>5 DEF DeletePod
  <2>2. Deleted(pods[job.w][Rank]).phase \in {"none", pods[job.w][Rank].phase}
    BY <1>4, RankType, ChildrenPlain
  <2>3. \A w \in Workloads, r \in Ranks : pods'[w][r].phase \in {"none", "pending", pods[w][r].phase}
    BY <1>4, <2>1, <2>2, OneRank
  <2>4. PodInv' /\ ChildInv'
    BY <1>1, <1>3, <2>1, <2>3, PodsPlain, ClaimsPlain DEF caches
  <2> QED  BY <1>3, <2>4 DEF PlanBody
<1>6. CASE DeleteClaim
  <2>1. claims' = [claims EXCEPT ![job.w][Rank] = Released(claims[job.w][Rank])] /\ pods' = pods
    BY <1>6 DEF DeleteClaim
  <2>2. Released(claims[job.w][Rank]) # NoClaim =>
          /\ claims[job.w][Rank] # NoClaim
          /\ Released(claims[job.w][Rank]).dev = claims[job.w][Rank].dev
    BY <1>4, RankType, ChildrenPlain
  <2>3. \A w \in Workloads, r \in Ranks :
          claims'[w][r] # NoClaim => claims[w][r] # NoClaim /\ claims'[w][r].dev = claims[w][r].dev
    BY <1>4, <2>1, <2>2, OneRank
  <2>4. PodInv' /\ ChildInv'
    BY <1>1, <1>3, <2>1, <2>3, PodsPlain, ClaimsPlain DEF caches
  <2> QED  BY <1>3, <2>4 DEF PlanBody
<1> QED  BY <1>5, <1>6

\* The calls that make children: the assignment they stand on is reserved.
LEMMA PlanEnsure ==
  ASSUME ~LostReplies, TypeInv, PlanBody, ensureClaim \/ ensurePod
  PROVE  PlanBody'
<1>1. /\ job.todo # <<>> /\ (Advance \/ Abort)
      /\ UNCHANGED <<wl, other, topo, caches, pending, fabric, spent>>
      /\ Head(job.todo)[1] \in {"ensureClaim", "ensurePod"}
  <2>1. Answer => Advance /\ UNCHANGED spent
    BY DEF Answer
  <2>2. CASE ensureClaim
    <3>1. Doing("ensureClaim") /\ UNCHANGED <<wl, other, topo, caches, pending, fabric>>
      BY <2>2 DEF ensureClaim
    <3>2. \/ Answer
          \/ Advance /\ UNCHANGED <<queue, spent>>
          \/ Abort /\ UNCHANGED spent
      BY <2>2, Zenon DEF ensureClaim
    <3> QED  BY <2>1, <3>1, <3>2 DEF Doing
  <2>3. CASE ensurePod
    <3>1. Doing("ensurePod") /\ UNCHANGED <<wl, other, topo, caches, pending, fabric>>
      BY <2>3 DEF ensurePod
    <3>2. \/ Answer
          \/ Advance /\ UNCHANGED <<queue, spent>>
          \/ Abort /\ UNCHANGED spent
      BY <2>3, Zenon DEF ensurePod
    <3> QED  BY <2>1, <3>1, <3>2 DEF Doing
  <2> QED  BY <2>2, <2>3
<1>2. Kind(job.todo, 1) \in {"ensureClaim", "ensurePod"} /\ job # NoJob /\ 1 \in 1..Len(job.todo)
  BY <1>1, AtKind
<1>3. TodoFits(job.w, job.st, job.todo)
  BY <1>2 DEF PlanBody, TodoInv
<1>4. job.st.assign # NoAssign /\ ~terminalPhase(job.st.phase)
  BY <1>2, <1>3 DEF TodoFits
<1>5. Solid(job.w) = job.st.assign
  BY <1>2, <1>3, <1>4 DEF TodoFits
<1>6. /\ \A v \in Workloads : Solid(v)' = Solid(v)
      /\ WorldInv' /\ StampInv' /\ RecordInv' /\ FirstInv' /\ TodoInv'
  <2>1. Abort => job' = NoJob
    BY DEF Abort
  <2> QED  BY <1>1, <1>2, <1>4, <2>1, PlanCall
<1>7. /\ job.w \in Workloads /\ Rank \in Ranks /\ job.st.assign \in [Ranks -> Devices]
      /\ job.st.assign[Rank] \in Used(Solid(job.w))
  <2>1. job.w \in Workloads /\ Rank \in Ranks /\ job.st.assign \in [Ranks -> Devices]
    BY AtCall DEF ensureClaim, ensurePod, Doing
  <2> QED  BY <1>5, <2>1 DEF Used
<1>8. CASE ensureClaim
  <2> DEFINE new == [state |-> "free", spec |-> job.spec, dev |-> job.st.assign[Rank], dying |-> FALSE]
  <2>1. pods' = pods /\ (claims' = claims \/ claims' = [claims EXCEPT ![job.w][Rank] = new])
    <3>1. claims' = claims \/ claims' = [claims EXCEPT ![job.w][Rank] = new]
      BY <1>8, Zenon DEF ensureClaim
    <3> QED  BY <1>8, <3>1 DEF ensureClaim
  <2>2. new.dev = job.st.assign[Rank]
    OBVIOUS
  <2> HIDE DEF new
  <2>3. \A w \in Workloads, r \in Ranks :
          claims'[w][r] # NoClaim =>
            \/ claims[w][r] # NoClaim /\ claims'[w][r].dev = claims[w][r].dev
            \/ claims'[w][r].dev \in Used(Solid(w))
    <3>1. \A w \in Workloads, r \in Ranks :
            claims'[w][r] = claims[w][r] \/ (w = job.w /\ claims'[w][r] = new)
      <4>1. CASE claims' = claims
        BY <4>1
      <4>2. CASE claims' = [claims EXCEPT ![job.w][Rank] = new]
        BY <1>7, <4>2, OneRank
      <4> QED  BY <2>1, <4>1, <4>2
    <3>2. new.dev \in Used(Solid(job.w))
      BY <1>7, <2>2
    <3> QED  BY <3>1, <3>2
  <2>4. PodInv' /\ ChildInv'
    BY <1>1, <1>6, <2>1, <2>3, PodsPlain, ClaimsPlain DEF caches
  <2> QED  BY <1>6, <2>4 DEF PlanBody
<1>9. CASE ensurePod
  <2> DEFINE new == [phase |-> "pending", spec |-> job.spec, dev |-> job.st.assign[Rank], dying |-> FALSE]
  <2>1. claims' = claims /\ (pods' = pods \/ pods' = [pods EXCEPT ![job.w][Rank] = new])
    <3>1. pods' = pods \/ pods' = [pods EXCEPT ![job.w][Rank] = new]
      BY <1>9, Zenon DEF ensurePod
    <3> QED  BY <1>9, <3>1 DEF ensurePod
  <2>2. new.phase = "pending"
    OBVIOUS
  <2> HIDE DEF new
  <2>3. \A w \in Workloads, r \in Ranks : pods'[w][r].phase \in {"none", "pending", pods[w][r].phase}
    <3>1. \A w \in Workloads, r \in Ranks : pods'[w][r] \in {pods[w][r], new}
      <4>1. CASE pods' = pods
        BY <4>1
      <4>2. CASE pods' = [pods EXCEPT ![job.w][Rank] = new]
        BY <1>7, <4>2, OneRank
      <4> QED  BY <2>1, <4>1, <4>2
    <3> QED  BY <2>2, <3>1
  <2>4. PodInv' /\ ChildInv'
    BY <1>1, <1>6, <2>1, <2>3, PodsPlain, ClaimsPlain DEF caches
  <2> QED  BY <1>6, <2>4 DEF PlanBody
<1> QED  BY <1>8, <1>9

\* A call that fails while no Pod has started leaves the reservations as they were.
LEMMA PlanCallFailed ==
  ASSUME TypeInv, PlanBody, CallFailed, spent.starts = 0, spent'.starts = 0
  PROVE  PlanBody'
<1>1. job.todo # <<>> /\ Head(job.todo)[1] \in Calls /\ Abort /\ UNCHANGED <<apiVars, cacheVars, pending, fabric>>
  BY DEF CallFailed, Doing
<1>2. Kind(job.todo, 1) \notin {"drop", "reserve"} /\ job' = NoJob
  BY <1>1, AtKind DEF Calls, Abort
<1>3. UNCHANGED <<wl, pods, claims, other, topo, caches, pending, fabric>>
  BY <1>1 DEF apiVars, cacheVars
<1>4. /\ \A v \in Workloads : Solid(v)' = Solid(v)
      /\ WorldInv' /\ StampInv' /\ RecordInv' /\ FirstInv' /\ TodoInv'
  BY <1>1, <1>2, <1>3, PlanCall
<1>5. PodInv' /\ ChildInv'
  BY <1>3, <1>4, PodsPlain, ClaimsPlain DEF caches
<1> QED  BY <1>4, <1>5 DEF PlanBody

\* The status update records a placement whose reservation is the next step, or one that
\* is reserved already; a terminal phase it records ends the calm.
LEMMA PlanStatus ==
  ASSUME ~LostReplies, TypeInv, Calm, PlanBody, updateWorkloadStatus,
         \A w \in Workloads : ~terminalPhase(wl'[w].status.phase)
  PROVE  PlanBody'
<1>1. /\ job.todo # <<>> /\ Head(job.todo)[1] = "status"
      /\ UNCHANGED <<pods, claims, other, topo, caches, pending, fabric>>
  BY DEF updateWorkloadStatus, Doing
<1>2. /\ Kind(job.todo, 1) = "status" /\ job # NoJob /\ On(job.w) /\ job.w \in Workloads
      /\ Len(job.todo) \in Nat \ {0} /\ 1 \in 1..Len(job.todo)
  BY <1>1, AtKind
<1>3. job.st \in Status /\ job.todo \in Seq(Op)
  BY <1>1, AtCall
<1>4. wl[job.w].life = "live"
  BY <1>2 DEF PlanBody, WorldInv
<1>5. /\ Advance /\ UNCHANGED spent
      /\ \/ wl' = [wl EXCEPT ![job.w].status = job.st]
         \/ wl' = wl /\ (terminalPhase(job.st.phase) => FALSE)
  <2> DEFINE keep == terminalPhase(wl[job.w].status.phase) /\ wl[job.w].status.phase # job.st.phase
  <2>1. ~terminalPhase(wl[job.w].status.phase)
    BY <1>2 DEF Calm
  <2>2. ~keep
    BY <2>1
  <2>3. \/ wl' = [wl EXCEPT ![job.w].status = job.st] /\ Answer
        \/ wl' = wl /\ Advance /\ UNCHANGED spent /\ (keep \/ wl[job.w].status = job.st)
    BY <1>4, Zenon DEF updateWorkloadStatus
  <2>4. wl[job.w].status = job.st => ~terminalPhase(job.st.phase)
    BY <2>1
  <2>5. Answer => Advance /\ UNCHANGED spent
    BY DEF Answer
  <2> QED  BY <2>2, <2>3, <2>4, <2>5
<1>6. \A v \in Workloads :
        /\ wl'[v].life = wl[v].life /\ wl'[v].spec = wl[v].spec
        /\ v # job.w => wl'[v].status = wl[v].status
        /\ v = job.w => wl'[v].status \in {wl[v].status, job.st}
  <2>1. wl \in [Workloads -> Workload]
    BY DEF TypeInv, TypeOK
  <2>2. CASE wl' = wl
    BY <2>2
  <2>3. CASE wl' = [wl EXCEPT ![job.w].status = job.st]
    BY <1>2, <2>1, <2>3 DEF Workload
  <2> QED  BY <1>5, <2>2, <2>3
<1>7. ~terminalPhase(job.st.phase)
  <2>1. CASE wl' = [wl EXCEPT ![job.w].status = job.st]
    <3>1. wl \in [Workloads -> Workload] /\ wl[job.w] \in Workload
      BY <1>2 DEF TypeInv, TypeOK
    <3>2. wl'[job.w].status = job.st
      BY <1>2, <2>1, <3>1 DEF Workload
    <3> QED  BY <1>2, <3>2
  <2> QED  BY <1>5, <2>1
<1>8. /\ \A v \in Workloads : Solid(v)' = Solid(v)
      /\ \A v \in Workloads : On(v)' => On(v)
      /\ job' # NoJob => job'.st = job.st /\ job'.w = job.w
      /\ TodoInv'
  BY <1>1, <1>2, <1>5, <1>7, AfterCall
<1>9. \A v : SolidOthers(v)' = SolidOthers(v)
  BY <1>8, OthersSame
<1>10. WorldInv'
  BY <1>1, <1>6, <1>8 DEF PlanBody, WorldInv, caches
<1>11. StampInv'
  BY <1>1, <1>2, <1>6, <1>8 DEF PlanBody, StampInv, Stamped, caches
<1>12. FirstInv'
  <2>1. \A v \in Workloads : Solid(v)' # NoAssign => First(Solid(v), SolidOthers(v))'
    BY <1>8, <1>9 DEF PlanBody, FirstInv
  <2>2. job' # NoJob /\ job'.st.assign # NoAssign => First(job.st.assign, SolidOthers(job.w))'
    BY <1>2, <1>8, <1>9 DEF PlanBody, FirstInv
  <2> QED  BY <2>1, <2>2 DEF FirstInv
<1>13. RecordInv'
  <2>1. \A v \in Workloads : /\ wl[v].status.assign \in {NoAssign, Solid(v)}
                             /\ cw[v].status.assign \in {NoAssign, Solid(v)}
    BY <1>1, RecordedReserved
  <2>2. \/ job.st.assign \in {NoAssign, Solid(job.w)}
        \/ job' # NoJob /\ Head(job'.todo)[1] = "reserve"
    <3>1. TodoFits(job.w, job.st, job.todo)
      BY <1>2 DEF PlanBody, TodoInv
    <3> SUFFICES ASSUME NEW i \in 1..Len(job.todo), Kind(job.todo, i) = "reserve"
                 PROVE  job' # NoJob /\ Head(job'.todo)[1] = "reserve"
      BY <3>1 DEF TodoFits
    <3>2. i = 2 /\ Kind(job.todo, 2) = "reserve"
      BY <1>2, <3>1 DEF TodoFits
    <3>3. Len(job.todo) # 1
      <4>1. \A n \in Nat : 2 \in 1..n => n # 1
        OBVIOUS
      <4> QED  BY <1>2, <3>2, <4>1
    <3>4. /\ job' # NoJob /\ Len(job'.todo) = Len(job.todo) - 1
          /\ \A j \in 1..Len(job'.todo) : job'.todo[j] = job.todo[j + 1]
          /\ job' = NoJob \/ (job' \in Job /\ job'.todo # <<>>)
      BY <1>1, <1>5, <3>3, Advances
    <3>5. 1 \in 1..Len(job'.todo) /\ 1 + 1 = 2
      BY <1>2, <3>3, <3>4
    <3>6. job'.todo[1] = job.todo[2]
      BY <3>4, <3>5
    <3>7. job'.todo \in Seq(Op) /\ Head(job'.todo) = job'.todo[1]
      BY <3>4 DEF Job
    <3> QED  BY <3>2, <3>4, <3>6, <3>7 DEF Kind
  <2>3. cw' = cw
    BY <1>1 DEF caches
  <2>4. \A v \in Workloads : cw'[v].status.assign \in {NoAssign, Solid(v)'}
    BY <1>8, <2>1, <2>3
  <2>5. \A v \in Workloads : \/ wl'[v].status.assign \in {NoAssign, Solid(v)'}
                             \/ On(v)' /\ Head(job'.todo)[1] = "reserve" /\ wl'[v].status.assign = job'.st.assign
    <3> SUFFICES ASSUME NEW v \in Workloads
                 PROVE  \/ wl'[v].status.assign \in {NoAssign, Solid(v)'}
                        \/ On(v)' /\ Head(job'.todo)[1] = "reserve" /\ wl'[v].status.assign = job'.st.assign
      OBVIOUS
    <3>1. CASE wl'[v].status = wl[v].status
      BY <1>8, <2>1, <3>1
    <3>2. CASE v = job.w /\ wl'[v].status = job.st
      <4>1. job' # NoJob => On(v)'
        BY <1>8, <3>2 DEF On
      <4> QED  BY <1>8, <2>2, <3>2, <4>1
    <3> QED  BY <1>6, <3>1, <3>2
  <2> QED  BY <2>4, <2>5 DEF RecordInv
<1>14. PodInv' /\ ChildInv'
  BY <1>1, <1>5, <1>8, PodsPlain, ClaimsPlain DEF caches
<1> QED  BY <1>8, <1>10, <1>11, <1>12, <1>13, <1>14 DEF PlanBody

\* Dropping and recording an assignment in c.pending.
LEMMA PlanPending ==
  ASSUME TypeInv, PlanBody, SetPending
  PROVE  PlanBody'
<1>1. job.todo # <<>> /\ Advance /\ UNCHANGED <<apiVars, cacheVars, queue, fabric, spent>>
  BY DEF SetPending, Doing
<1>2. /\ job # NoJob /\ On(job.w) /\ job.w \in Workloads
      /\ Len(job.todo) \in Nat \ {0} /\ 1 \in 1..Len(job.todo)
      /\ Head(job.todo)[1] = Kind(job.todo, 1)
  BY <1>1, AtKind
<1>3. TodoFits(job.w, job.st, job.todo)
  BY <1>2 DEF PlanBody, TodoInv
<1>4. pending \in [Workloads -> Assignment]
  BY DEF TypeInv, TypeOK
<1>5. /\ job' # NoJob => job'.st = job.st /\ job'.w = job.w
      /\ \A v \in Workloads : On(v)' => On(v)
  BY <1>1, <1>2, Advances DEF On
<1>6. UNCHANGED <<wl, pods, claims, other, topo, cw, cp, cc, co, fabric, spent>>
  BY <1>1 DEF apiVars, cacheVars, caches
<1>7. Len(job.todo) # 1 =>
        /\ job' # NoJob
        /\ \A i \in 1..Len(job'.todo) : i + 1 \in 1..Len(job.todo) /\ Kind(job'.todo, i) = Kind(job.todo, i + 1)
        /\ Kind(job'.todo, Len(job'.todo)) = Kind(job.todo, Len(job.todo))
        /\ Len(job'.todo) \in 1..Len(job'.todo)
  <2> SUFFICES ASSUME Len(job.todo) # 1
               PROVE  /\ job' # NoJob
                      /\ \A i \in 1..Len(job'.todo) : i + 1 \in 1..Len(job.todo) /\ Kind(job'.todo, i) = Kind(job.todo, i + 1)
                      /\ Kind(job'.todo, Len(job'.todo)) = Kind(job.todo, Len(job.todo))
                      /\ Len(job'.todo) \in 1..Len(job'.todo)
    OBVIOUS
  <2>1. /\ job' # NoJob /\ Len(job'.todo) = Len(job.todo) - 1
        /\ \A i \in 1..Len(job'.todo) : job'.todo[i] = job.todo[i + 1]
    BY <1>1, Advances
  <2>2. \A i \in 1..Len(job'.todo) : i + 1 \in 1..Len(job.todo)
    BY <1>2, <2>1
  <2>3. \A n \in Nat \ {0} : n # 1 => n - 1 \in 1..n - 1 /\ (n - 1) + 1 = n
    OBVIOUS
  <2>4. Len(job'.todo) \in 1..Len(job'.todo) /\ Len(job'.todo) + 1 = Len(job.todo)
    BY <1>2, <2>1, <2>3
  <2>5. job'.todo[Len(job'.todo)] = job.todo[Len(job.todo)]
    BY <2>1, <2>4
  <2> QED  BY <2>1, <2>2, <2>4, <2>5 DEF Kind
<1>8. PodInv' /\ StampInv'
  <2>1. PodInv'
    BY <1>6 DEF PlanBody, PodInv
  <2>2. StampInv'
    BY <1>2, <1>5, <1>6 DEF PlanBody, StampInv, Stamped
  <2> QED  BY <2>1, <2>2
<1>9. Len(job.todo) = 1 => job' = NoJob
  BY <1>1, Advances
<1>10. CASE Doing("drop")
  <2>1. /\ pending' = [pending EXCEPT ![job.w] = NoAssign]
        /\ Kind(job.todo, 1) = "drop"
    BY <1>2, <1>10 DEF SetPending, Doing
  <2>2. /\ terminalPhase(job.st.phase) /\ pending[job.w] = job.st.assign /\ spent.starts # 0
        /\ Kind(job.todo, Len(job.todo)) = "status"
    BY <1>2, <1>3, <2>1 DEF TodoFits
  <2>3. Len(job.todo) # 1
    BY <2>1, <2>2
  <2>4. job' # NoJob /\ job'.st = job.st /\ job'.w = job.w
    BY <1>5, <1>7, <2>3
  <2>5. \A v \in Workloads : On(v)' <=> On(v)
    BY <1>2, <2>4 DEF On
  <2>6. \A v \in Workloads : Solid(v)' = Solid(v)
    <3>1. \A v \in Workloads \ {job.w} : Solid(v)' = Solid(v)
      BY <1>2, <1>4, <2>1, <2>5 DEF Solid, On
    <3>2. \A v \in Workloads : v = job.w => Solid(v)' = job.st.assign /\ Solid(v) = job.st.assign
      BY <1>2, <1>4, <2>1, <2>2, <2>4, <2>5 DEF Solid
    <3> QED  BY <3>1, <3>2
  <2>7. \A v : SolidOthers(v)' = SolidOthers(v)
    BY <2>6, OthersSame
  <2>8. WorldInv'
    BY <1>4, <1>6, <2>1, <2>5 DEF PlanBody, WorldInv
  <2>9. RecordInv'
    <3>1. \A v \in Workloads : /\ wl[v].status.assign \in {NoAssign, Solid(v)}
                               /\ cw[v].status.assign \in {NoAssign, Solid(v)}
      BY <1>2, <2>1, RecordedReserved
    <3> QED  BY <1>6, <2>6, <3>1 DEF RecordInv
  <2>10. FirstInv'
    <3>1. \A v \in Workloads : Solid(v)' # NoAssign => First(Solid(v), SolidOthers(v))'
      BY <2>6, <2>7 DEF PlanBody, FirstInv
    <3>2. job'.st.assign # NoAssign => First(job.st.assign, SolidOthers(job.w))'
      BY <1>2, <2>4, <2>7 DEF PlanBody, FirstInv
    <3> QED  BY <3>1, <3>2 DEF FirstInv
  <2>11. ChildInv'
    BY <1>6, <2>6 DEF PlanBody, ChildInv
  <2>12. TodoInv'
    <3>1. \A i \in 1..Len(job'.todo) : Kind(job'.todo, i) \notin {"drop", "reserve", "ensureClaim", "ensurePod"}
      <4> SUFFICES ASSUME NEW i \in 1..Len(job'.todo),
                          Kind(job'.todo, i) \in {"drop", "reserve", "ensureClaim", "ensurePod"}
                   PROVE  FALSE
        OBVIOUS
      <4>1. i + 1 \in 1..Len(job.todo) /\ Kind(job'.todo, i) = Kind(job.todo, i + 1) /\ i + 1 # 1
        BY <1>7, <2>3
      <4> QED  BY <1>3, <2>2, <4>1 DEF TodoFits
    <3>2. Kind(job'.todo, Len(job'.todo)) = "status"
      BY <1>7, <2>2, <2>3
    <3>3. PICK w \in Workloads : w = job.w
      BY <1>2
    <3>4. Solid(w)' = job.st.assign /\ job'.w = w
      BY <1>2, <2>2, <2>4, <2>6, <3>3 DEF Solid
    <3> QED  BY <1>6, <2>2, <2>4, <3>1, <3>2, <3>4 DEF TodoInv, TodoFits
  <2> QED  BY <1>8, <2>8, <2>9, <2>10, <2>11, <2>12 DEF PlanBody
<1>11. CASE Doing("reserve")
  <2>1. /\ pending' = [pending EXCEPT ![job.w] = job.st.assign]
        /\ Kind(job.todo, 1) = "reserve"
    BY <1>2, <1>11 DEF SetPending, Doing
  <2>2. /\ job.st.assign # NoAssign /\ ~terminalPhase(job.st.phase)
        /\ Solid(job.w) \in {NoAssign, job.st.assign}
    BY <1>2, <1>3, <2>1 DEF TodoFits
  <2>3. PICK w \in Workloads : w = job.w
    BY <1>2
  <2>4. \A v \in Workloads \ {w} : ~On(v) /\ ~On(v)' /\ pending'[v] = pending[v] /\ Solid(v)' = Solid(v)
    BY <1>4, <1>5, <2>1, <2>3 DEF Solid, On
  <2>5. Solid(w)' = job.st.assign /\ Solid(w) \in {NoAssign, job.st.assign}
    <3>1. pending'[w] = job.st.assign
      BY <1>4, <2>1, <2>3
    <3> QED  BY <2>2, <2>3, <3>1 DEF Solid
  <2>6. SolidOthers(w)' = SolidOthers(w)
    BY <2>4 DEF SolidOthers
  <2>7. First(job.st.assign, SolidOthers(w)) /\ Used(job.st.assign) \cap SolidOthers(w) = {}
    BY <1>2, <2>2, <2>3, FirstAvoids DEF PlanBody, FirstInv
  <2>8. ASSUME NEW v \in Workloads \ {w}
        PROVE  /\ SolidOthers(v) \subseteq SolidOthers(v)'
               /\ SolidOthers(v)' \subseteq SolidOthers(v) \cup Used(job.st.assign)
               /\ Used(Solid(v)) \subseteq SolidOthers(w)
    <3>1. \A x \in Workloads : /\ Used(Solid(x)) \subseteq Used(Solid(x)')
                               /\ Used(Solid(x)') \subseteq Used(Solid(x)) \cup Used(job.st.assign)
      BY <2>4, <2>5, NothingUsed
    <3>2. SolidOthers(v)' = UNION {Used(Solid(x)') : x \in Workloads \ {v}}
      BY DEF SolidOthers, Used
    <3> HIDE DEF Used
    <3> QED  BY <3>1, <3>2 DEF SolidOthers
  <2>9. WorldInv'
    <3>1. \A v \in Workloads : cw[v].life = "new" => v # w /\ pending[v] = NoAssign
      BY <1>2, <2>3 DEF PlanBody, WorldInv
    <3>2. \A v \in Workloads : cw[v].life = "new" => pending'[v] = NoAssign /\ ~On(v)'
      BY <2>4, <3>1
    <3> QED  BY <1>6, <3>2 DEF PlanBody, WorldInv
  <2>10. RecordInv'
    <3>1. \A v \in Workloads \ {w} : /\ wl[v].status.assign \in {NoAssign, Solid(v)}
                                     /\ cw[v].status.assign \in {NoAssign, Solid(v)}
      BY <2>4, RecordedReserved
    <3>2. wl[w].status.assign \in {NoAssign, job.st.assign} /\ cw[w].status.assign \in {NoAssign, job.st.assign}
      BY <2>5 DEF PlanBody, RecordInv
    <3>3. \A v \in Workloads : /\ wl[v].status.assign \in {NoAssign, Solid(v)'}
                               /\ cw[v].status.assign \in {NoAssign, Solid(v)'}
      BY <2>4, <2>5, <3>1, <3>2
    <3> QED  BY <1>6, <3>3 DEF RecordInv
  <2>11. FirstInv'
    <3>1. First(Solid(w), SolidOthers(w))'
      BY <2>5, <2>6, <2>7
    <3>2. ASSUME NEW v \in Workloads \ {w}, Solid(v)' # NoAssign PROVE First(Solid(v), SolidOthers(v))'
      <4>1. First(Solid(v), SolidOthers(v)) /\ Solid(v)' = Solid(v)
        BY <2>4, <3>2 DEF PlanBody, FirstInv
      <4>2. Used(Solid(v)) \cap SolidOthers(v) = {}
        BY <4>1, FirstAvoids
      <4>3. Used(Solid(v)) \cap SolidOthers(v)' = {}
        BY <2>7, <2>8, <4>2
      <4>4. First(Solid(v), SolidOthers(v)')
        BY <2>8, <4>1, <4>3, FirstNarrows
      <4> QED  BY <4>1, <4>4
    <3>3. job' # NoJob /\ job'.st.assign # NoAssign => First(job.st.assign, SolidOthers(job.w))'
      BY <1>5, <2>3, <2>6, <2>7
    <3> QED  BY <3>1, <3>2, <3>3 DEF FirstInv
  <2>12. ChildInv'
    <3>1. \A v \in Workloads : Used(Solid(v)) \subseteq Used(Solid(v)')
      BY <2>4, <2>5, NothingUsed
    <3> QED  BY <1>6, <3>1 DEF PlanBody, ChildInv, Used
  <2>13. TodoInv'
    <3> SUFFICES ASSUME job' # NoJob PROVE TodoFits(job.w, job.st, job.todo)'
      BY DEF TodoInv
    <3>1. Len(job.todo) # 1 /\ job'.st = job.st /\ job'.w = w
      BY <1>5, <1>9, <2>3
    <3>2. \A i \in 1..Len(job'.todo) :
            /\ Kind(job'.todo, i) \notin {"drop", "reserve"}
            /\ Kind(job'.todo, i) \in {"ensureClaim", "ensurePod"} =>
                 job.st.assign # NoAssign /\ ~terminalPhase(job.st.phase)
      <4> SUFFICES ASSUME NEW i \in 1..Len(job'.todo) PROVE Kind(job'.todo, i) \notin {"drop", "reserve"}
        BY <2>2
      <4>1. i + 1 \in 1..Len(job.todo) /\ Kind(job'.todo, i) = Kind(job.todo, i + 1) /\ i + 1 # 1
        BY <1>7, <3>1
      <4> QED  BY <1>3, <2>1, <4>1 DEF TodoFits
    <3> QED  BY <2>2, <2>5, <3>1, <3>2 DEF TodoFits
  <2> QED  BY <1>8, <2>9, <2>10, <2>11, <2>12, <2>13 DEF PlanBody
<1> QED  BY <1>10, <1>11 DEF SetPending

\* The other steps leave c.pending and the reconciliation alone.
LEMMA OthersStay ==
  ASSUME UNCHANGED <<pending, job>>
  PROVE  /\ \A v : (On(v)' <=> On(v)) /\ Solid(v)' = Solid(v)
         /\ \A v : SolidOthers(v)' = SolidOthers(v)
BY DEF On, Solid, SolidOthers

\* The fabric reconciliation, its timer, and the delivery of events.
LEMMA PlanEvents ==
  ASSUME TypeInv, Calm, PlanBody, ReconcileFabric \/ FabricTimer \/ Events,
         spent.starts # 0 => spent'.starts # 0
  PROVE  PlanBody'
<1>1. CASE FabricTimer
  <2>1. UNCHANGED <<wl, pods, claims, other, topo, caches, pending, fabric, job, spent>>
    BY <1>1 DEF FabricTimer, apiVars, cacheVars
  <2> QED  BY <2>1, PlanSame
<1>2. UNCHANGED <<pending, job>>
  BY DEF ReconcileFabric, FabricTimer, Events, WorkloadEvents, PodEvents, ClaimEvents
<1>3. /\ \A v : (On(v)' <=> On(v)) /\ Solid(v)' = Solid(v)
      /\ \A v : SolidOthers(v)' = SolidOthers(v)
  BY <1>2, OthersStay
<1>4. FirstInv'
  <2>1. \A v \in Workloads : Solid(v)' # NoAssign => First(Solid(v), SolidOthers(v))'
    BY <1>3 DEF PlanBody, FirstInv
  <2>2. job' # NoJob /\ job'.st.assign # NoAssign => First(job.st.assign, SolidOthers(job.w))'
    BY <1>2, <1>3 DEF PlanBody, FirstInv
  <2> QED  BY <2>1, <2>2 DEF FirstInv
<1>5. TodoInv'
  BY <1>2 DEF PlanBody, TodoInv, TodoFits, Solid, On
<1>6. CASE ReconcileFabric
  <2>1. UNCHANGED <<wl, pods, claims, other, topo, cw, cp, cc, co>> /\ fabric' = topo
    BY <1>6 DEF ReconcileFabric, apiVars, cacheVars, caches
  <2>2. WorldInv'
    BY <1>2, <1>3, <2>1 DEF PlanBody, WorldInv
  <2>3. PodInv' /\ ChildInv'
    BY <1>3, <2>1, PodsPlain, ClaimsPlain
  <2>4. StampInv'
    BY <1>2, <2>1 DEF PlanBody, StampInv, Stamped
  <2>5. RecordInv'
    BY <1>2, <1>3, <2>1 DEF PlanBody, RecordInv
  <2> QED  BY <1>4, <1>5, <2>2, <2>3, <2>4, <2>5 DEF PlanBody
<1>7. CASE WorkloadEvents
  <2>1. UNCHANGED <<wl, pods, claims, other, topo, cp, cc, co, fabric>> /\ cw' = wl
    BY <1>7 DEF WorkloadEvents, apiVars
  <2>2. WorldInv'
    BY <1>2, <1>3, <2>1 DEF PlanBody, WorldInv, Calm
  <2>3. PodInv' /\ ChildInv'
    BY <1>3, <2>1, PodsPlain, ClaimsPlain
  <2>4. StampInv'
    BY <1>2, <2>1 DEF PlanBody, StampInv, Stamped
  <2>5. RecordInv'
    BY <1>2, <1>3, <2>1 DEF PlanBody, RecordInv
  <2> QED  BY <1>4, <1>5, <2>2, <2>3, <2>4, <2>5 DEF PlanBody
<1>8. CASE PodEvents
  <2>1. UNCHANGED <<wl, pods, claims, other, topo, cw, cc, co, fabric>> /\ cp' = pods
    BY <1>8 DEF PodEvents, apiVars
  <2>2. WorldInv'
    BY <1>2, <1>3, <2>1 DEF PlanBody, WorldInv
  <2>3. PodInv'
    BY <2>1 DEF PlanBody, PodInv
  <2>4. StampInv'
    BY <1>2, <2>1 DEF PlanBody, StampInv, Stamped
  <2>5. RecordInv'
    BY <1>2, <1>3, <2>1 DEF PlanBody, RecordInv
  <2>6. ChildInv'
    BY <1>3, <2>1, ClaimsPlain
  <2> QED  BY <1>4, <1>5, <2>2, <2>3, <2>4, <2>5, <2>6 DEF PlanBody
<1>9. CASE ClaimEvents
  <2>1. UNCHANGED <<wl, pods, claims, other, topo, cw, cp, fabric>> /\ cc' = claims /\ co' = other
    BY <1>9 DEF ClaimEvents, apiVars
  <2>2. WorldInv'
    BY <1>2, <1>3, <2>1 DEF PlanBody, WorldInv
  <2>3. PodInv'
    BY <2>1, PodsPlain
  <2>4. StampInv'
    BY <1>2, <2>1 DEF PlanBody, StampInv, Stamped
  <2>5. RecordInv'
    BY <1>2, <1>3, <2>1 DEF PlanBody, RecordInv
  <2>6. ChildInv'
    BY <1>3, <2>1 DEF PlanBody, ChildInv
  <2> QED  BY <1>4, <1>5, <2>2, <2>3, <2>4, <2>5, <2>6 DEF PlanBody
<1> QED  BY <1>1, <1>6, <1>7, <1>8, <1>9 DEF Events

\* Creating a workload.
LEMMA PlanCreate ==
  ASSUME TypeInv, PlanBody, NEW w \in Workloads, CreateWorkload(w)
  PROVE  PlanBody'
<1>1. /\ wl' = [wl EXCEPT ![w].life = "live"]
      /\ UNCHANGED <<pods, claims, other, topo, cw, cp, cc, co, queue, pending, fabric, job, spent>>
  BY DEF CreateWorkload, caches, memVars
<1>2. /\ \A v : (On(v)' <=> On(v)) /\ Solid(v)' = Solid(v)
      /\ \A v : SolidOthers(v)' = SolidOthers(v)
  BY <1>1, OthersStay
<1>3. \A v \in Workloads : /\ wl'[v].spec = wl[v].spec /\ wl'[v].status = wl[v].status
                           /\ wl'[v].life \in {wl[v].life, "live"}
                           /\ wl[v].life = "live" => wl'[v].life = "live"
  <2>1. wl \in [Workloads -> Workload]
    BY DEF TypeInv, TypeOK
  <2> QED  BY <1>1, <2>1 DEF Workload
<1>4. WorldInv'
  BY <1>1, <1>2, <1>3 DEF PlanBody, WorldInv
<1>5. PodInv' /\ ChildInv'
  BY <1>1, <1>2, PodsPlain, ClaimsPlain
<1>6. StampInv'
  <2>1. \A v \in Workloads : Stamped(v, wl[v].status)' /\ Stamped(v, cw[v].status)'
    BY <1>1, <1>3 DEF PlanBody, StampInv, Stamped
  <2>2. job' # NoJob => Stamped(job.w, job.st)'
    <3>1. job # NoJob => job.w \in Workloads
      BY DEF TypeInv, TypeOK, Job
    <3> QED  BY <1>1, <1>3, <3>1 DEF PlanBody, StampInv, Stamped
  <2> QED  BY <2>1, <2>2 DEF StampInv
<1>7. RecordInv'
  BY <1>1, <1>2, <1>3 DEF PlanBody, RecordInv
<1>8. FirstInv'
  <2>1. \A v \in Workloads : Solid(v)' # NoAssign => First(Solid(v), SolidOthers(v))'
    BY <1>2 DEF PlanBody, FirstInv
  <2>2. job' # NoJob /\ job'.st.assign # NoAssign => First(job.st.assign, SolidOthers(job.w))'
    BY <1>1, <1>2 DEF PlanBody, FirstInv
  <2> QED  BY <2>1, <2>2 DEF FirstInv
<1>9. TodoInv'
  BY <1>1 DEF PlanBody, TodoInv, TodoFits, Solid, On
<1> QED  BY <1>4, <1>5, <1>6, <1>7, <1>8, <1>9 DEF PlanBody

\* Scheduling, running and ending Pods.
LEMMA PlanChildren ==
  ASSUME TypeInv, PlanBody, NEW w \in Workloads, NEW r \in Ranks,
         Schedule(w, r) \/ PodFinish(w, r) \/ PodGone(w, r),
         spent \in [Disturbances -> Nat]
  PROVE  PlanBody'
<1>1. UNCHANGED <<wl, other, topo, cw, cp, cc, co, queue, pending, fabric, job>>
  BY DEF Schedule, PodFinish, PodGone, caches, memVars
<1>2. /\ \A v : (On(v)' <=> On(v)) /\ Solid(v)' = Solid(v)
      /\ \A v : SolidOthers(v)' = SolidOthers(v)
  BY <1>1, OthersStay
<1>3. /\ spent.starts # 0 => spent'.starts # 0
      /\ Schedule(w, r) => spent'.starts # 0
      /\ ~Schedule(w, r) => spent' = spent
  <2>1. CASE Schedule(w, r)
    <3>1. spent'["starts"] = spent["starts"] + 1 /\ spent["starts"] \in Nat
      BY <2>1, Spends DEF Schedule, Disturbances
    <3> QED  BY <2>1, <3>1
  <2>2. CASE ~Schedule(w, r)
    <3>1. UNCHANGED spent
      BY <2>2 DEF PodFinish, PodGone
    <3> QED  BY <2>2, <3>1
  <2> QED  BY <2>1, <2>2
<1>4. \A v \in Workloads, q \in Ranks :
        /\ pods'[v][q].phase # "unschedulable"
        /\ spent'.starts = 0 => pods'[v][q].phase \in {"none", "pending"}
  <2>1. pods[w][r] \in Pod \cup {NoPod}
    BY RankType
  <2>2. CASE Schedule(w, r)
    <3>1. pods' = [pods EXCEPT ![w][r] = [pods[w][r] EXCEPT !.phase = "running"]] /\ pods[w][r] # NoPod
      BY <2>2, ChildTypes DEF Schedule
    <3>2. [pods[w][r] EXCEPT !.phase = "running"].phase = "running"
      BY <2>1, <3>1 DEF Pod
    <3>3. \A v \in Workloads, q \in Ranks : pods'[v][q].phase \in {"running", pods[v][q].phase}
      BY <3>1, <3>2, OneRank
    <3> QED  BY <1>3, <2>2, <3>3 DEF PlanBody, PodInv
  <2>3. CASE PodFinish(w, r)
    <3>1. PICK p \in {"succeeded", "failed"} : pods' = [pods EXCEPT ![w][r] = [pods[w][r] EXCEPT !.phase = p]]
      BY <2>3 DEF PodFinish
    <3>2. pods[w][r] # NoPod /\ pods[w][r].phase = "running"
      BY <2>3, ChildTypes DEF PodFinish
    <3>3. [pods[w][r] EXCEPT !.phase = p].phase = p
      BY <2>1, <3>2 DEF Pod
    <3>4. spent.starts # 0
      BY <3>2 DEF PlanBody, PodInv
    <3>5. \A v \in Workloads, q \in Ranks : pods'[v][q].phase \in {p, pods[v][q].phase}
      BY <3>1, <3>3, OneRank
    <3> QED  BY <1>3, <3>4, <3>5 DEF PlanBody, PodInv
  <2>4. CASE PodGone(w, r)
    <3>1. pods' = [pods EXCEPT ![w][r] = NoPod]
      BY <2>4 DEF PodGone
    <3>2. \A v \in Workloads, q \in Ranks : pods'[v][q].phase \in {"none", pods[v][q].phase}
      BY <3>1, OneRank, ChildTypes
    <3> QED  BY <1>3, <3>2 DEF PlanBody, PodInv
  <2> QED  BY <2>2, <2>3, <2>4
<1>5. PodInv'
  BY <1>1, <1>3, <1>4 DEF PlanBody, PodInv
<1>6. ChildInv'
  <2>1. claims[w][r] \in Claim \cup {NoClaim}
    BY RankType
  <2>2. PICK x : /\ claims' = [claims EXCEPT ![w][r] = x]
                 /\ x # NoClaim => claims[w][r] # NoClaim /\ x.dev = claims[w][r].dev
    <3>1. CASE Schedule(w, r)
      <4>1. /\ claims' = [claims EXCEPT ![w][r] = [claims[w][r] EXCEPT !.state = "allocated"]]
            /\ claims[w][r] # NoClaim
        BY <3>1 DEF Schedule
      <4>2. [claims[w][r] EXCEPT !.state = "allocated"].dev = claims[w][r].dev
        BY <2>1, <4>1 DEF Claim
      <4> QED  BY <4>1, <4>2
    <3>2. CASE PodFinish(w, r) \/ PodGone(w, r)
      <4>1. claims' = [claims EXCEPT ![w][r] = Deallocated(claims[w][r])]
        BY <3>2 DEF PodFinish, PodGone
      <4> QED  BY <2>1, <4>1, ChildrenPlain
    <3> QED  BY <3>1, <3>2
  <2>3. \A v \in Workloads, q \in Ranks :
          claims'[v][q] # NoClaim => claims[v][q] # NoClaim /\ claims'[v][q].dev = claims[v][q].dev
    BY <2>2, OneRank
  <2> QED  BY <1>1, <1>2, <2>3, ClaimsPlain
<1>7. WorldInv'
  BY <1>1, <1>2 DEF PlanBody, WorldInv
<1>8. StampInv'
  BY <1>1 DEF PlanBody, StampInv, Stamped
<1>9. RecordInv'
  BY <1>1, <1>2 DEF PlanBody, RecordInv
<1>10. FirstInv'
  <2>1. \A v \in Workloads : Solid(v)' # NoAssign => First(Solid(v), SolidOthers(v))'
    BY <1>2 DEF PlanBody, FirstInv
  <2>2. job' # NoJob /\ job'.st.assign # NoAssign => First(job.st.assign, SolidOthers(job.w))'
    BY <1>1, <1>2 DEF PlanBody, FirstInv
  <2> QED  BY <2>1, <2>2 DEF FirstInv
<1>11. TodoInv'
  BY <1>1, <1>3 DEF PlanBody, TodoInv, TodoFits, Solid, On
<1> QED  BY <1>5, <1>6, <1>7, <1>8, <1>9, <1>10, <1>11 DEF PlanBody

LEMMA PlanInit == Init => PlanInv
<1> SUFFICES ASSUME Init PROVE PlanBody
  BY DEF PlanInv
<1> DEFINE st0 == [phase |-> "", assign |-> NoAssign, gen |-> 0, hash |-> NoHash]
<1>1. /\ job = NoJob /\ cw = wl /\ other = {} /\ co = {} /\ fabric = ZeroFabric
      /\ topo = [gen |-> 1, valid |-> TRUE]
      /\ wl \in [Workloads -> {[life |-> "new", spec |-> s, status |-> st0] : s \in Specs}]
      /\ pods = [w \in Workloads |-> [r \in Ranks |-> NoPod]] /\ cp = pods
      /\ claims = [w \in Workloads |-> [r \in Ranks |-> NoClaim]] /\ cc = claims
      /\ pending = [w \in Workloads |-> NoAssign]
  BY DEF Init
<1>2. \A w \in Workloads : wl[w].life = "new" /\ wl[w].status = st0 /\ pending[w] = NoAssign
  <2> SUFFICES ASSUME NEW w \in Workloads
               PROVE  wl[w].life = "new" /\ wl[w].status = st0 /\ pending[w] = NoAssign
    OBVIOUS
  <2> HIDE DEF st0
  <2>1. wl[w] \in {[life |-> "new", spec |-> s, status |-> st0] : s \in Specs}
    BY <1>1
  <2> QED  BY <1>1, <2>1
<1>3. \A w \in Workloads : ~On(w) /\ Solid(w) = NoAssign
  BY <1>1, <1>2 DEF On, Solid
<1>4. st0.phase = "" /\ st0.assign = NoAssign
  OBVIOUS
<1> HIDE DEF st0
<1>5. WorldInv
  BY <1>1, <1>2, <1>3, <1>4 DEF WorldInv, terminalPhase
<1>6. PodInv /\ ChildInv
  <2>1. \A w \in Workloads, r \in Ranks : /\ pods[w][r] = NoPod /\ cp[w][r] = NoPod
                                          /\ claims[w][r] = NoClaim /\ cc[w][r] = NoClaim
    BY <1>1
  <2> QED  BY <2>1, ChildTypes DEF PodInv, ChildInv
<1>7. StampInv
  BY <1>1, <1>2, <1>4 DEF StampInv, Stamped
<1>8. RecordInv
  BY <1>1, <1>2, <1>4 DEF RecordInv
<1>9. FirstInv
  BY <1>1, <1>3 DEF FirstInv
<1>10. TodoInv
  BY <1>1 DEF TodoInv
<1> QED  BY <1>5, <1>6, <1>7, <1>8, <1>9, <1>10 DEF PlanBody

LEMMA PlanNext == ASSUME ~LostReplies, TypeInv, PlanInv, [Next]_vars PROVE PlanInv'
<1> SUFFICES ASSUME Calm' PROVE PlanBody'
  BY DEF PlanInv
<1>1. /\ Calm
      /\ \A k \in {"rivals", "unscheduled", "fabric", "restarts", "edits"} : ~Spend(k)
      /\ spent.starts # 0 => spent'.starts # 0
      /\ Spend("faults") => spent.starts = 0 /\ spent'.starts = 0
      /\ \A w \in Workloads : ~terminalPhase(wl'[w].status.phase)
  BY CalmBefore
<1>2. PlanBody
  BY <1>1 DEF PlanInv
<1>3. spent \in [Disturbances -> Nat]
  BY DEF TypeInv, TypeOK
<1>4. CASE UNCHANGED vars
  BY <1>1, <1>2, <1>4, PlanSame DEF vars, apiVars, cacheVars, memVars
<1>5. CASE \E w \in Workloads : Reconcile(w)
  BY <1>1, <1>2, <1>5, PlanReconcile
<1>6. CASE ReconcileFabric \/ FabricTimer \/ Events
  BY <1>1, <1>2, <1>6, PlanEvents
<1>7. CASE Step
  BY <1>1, <1>2, <1>7, PlanDelete, PlanEnsure, PlanStatus, PlanPending DEF Step
<1>8. CASE CallFailed
  <2>1. Spend("faults")
    BY <1>8 DEF CallFailed
  <2> QED  BY <1>1, <1>2, <1>8, <2>1, PlanCallFailed
<1>9. CASE \E w \in Workloads : CreateWorkload(w) \/ EditSpec(w) \/ DeleteWorkload(w)
  <2>1. PICK w \in Workloads : CreateWorkload(w)
    BY <1>1, <1>9 DEF EditSpec, DeleteWorkload
  <2> QED  BY <1>2, <2>1, PlanCreate
<1>10. CASE \E w \in Workloads, r \in Ranks :
              \/ Collect(w, r) \/ Schedule(w, r) \/ ScheduleFails(w, r)
              \/ PodFinish(w, r) \/ PodGone(w, r)
  <2>1. PICK w \in Workloads, r \in Ranks :
              \/ Collect(w, r) \/ Schedule(w, r) \/ ScheduleFails(w, r)
              \/ PodFinish(w, r) \/ PodGone(w, r)
    BY <1>10
  <2>2. ~Collect(w, r)
    BY <1>2 DEF Collect, PlanBody, WorldInv
  <2>3. ~ScheduleFails(w, r)
    BY <1>1 DEF ScheduleFails
  <2> QED  BY <1>2, <1>3, <2>1, <2>2, <2>3, PlanChildren
<1>11. ~(\E d \in Devices : OrdinaryClaim(d)) /\ ~FabricChange /\ ~Restart
  BY <1>1, <1>2 DEF OrdinaryClaim, FabricChange, Restart, PlanBody, WorldInv
<1> QED  BY <1>4, <1>5, <1>6, <1>7, <1>8, <1>9, <1>10, <1>11 DEF Next

\* Reservations that share no device keep the recorded assignments apart.
LEMMA PlanDisjoint == ASSUME PlanBody PROVE DisjointAssignments
<1> SUFFICES ASSUME NEW v \in Workloads, NEW w \in Workloads, v # w
             PROVE  Used(wl[v].status.assign) \cap Used(wl[w].status.assign) = {}
  BY DEF DisjointAssignments
<1>1. ASSUME NEW x \in Workloads, NEW y \in Workloads, x # y, ~On(y)
      PROVE  Used(wl[x].status.assign) \cap Used(wl[y].status.assign) = {}
  <2>1. wl[y].status.assign \in {NoAssign, Solid(y)}
    BY <1>1, RecordedReserved
  <2>2. Used(wl[y].status.assign) \subseteq SolidOthers(x)
    <3>1. Used(Solid(y)) \subseteq SolidOthers(x)
      BY <1>1 DEF SolidOthers
    <3> QED  BY <2>1, <3>1, NothingUsed
  <2>3. wl[x].status.assign # NoAssign => First(wl[x].status.assign, SolidOthers(x))
    <3>1. \/ wl[x].status.assign \in {NoAssign, Solid(x)}
          \/ On(x) /\ wl[x].status.assign = job.st.assign
      BY DEF PlanBody, RecordInv
    <3> QED  BY <3>1 DEF PlanBody, FirstInv, On
  <2> QED  BY <2>2, <2>3, FirstAvoids, NothingUsed
<1>2. ~On(v) \/ ~On(w)
  BY DEF On
<1> QED  BY <1>1, <1>2

\* As long as nothing was replanned and no finished workload gave its devices back, the
\* assignments two workloads have recorded share no device: a placement avoids what
\* c.pending and the caches show for the others, and what is placed twice because the
\* cache lags is placed on the same devices (reservations, controller.go:297).  A lost
\* reply loses the reservation that goes with a recorded assignment (:431).
THEOREM FirstPlacementsAlwaysDisjoint ==
  ASSUME ~LostReplies PROVE Spec => []FirstPlacementsDisjoint
<1>1. TypeInv /\ PlanInv /\ [Next]_vars => PlanInv'
  BY PlanNext
<1>2. PlanInv => FirstPlacementsDisjoint
  BY PlanDisjoint DEF PlanInv, FirstPlacementsDisjoint, Calm
<1> QED  BY <1>1, <1>2, PlanInit, TypeAlways, PTL DEF Spec

(***************************************************************************)
(* The inductive invariant behind SettledConsistent.                       *)
(***************************************************************************)

\* Something will still put w into the queue, or has.
Covered(w) == w \in queue \cup news.wl \cup news.pods \cup news.claims

Has(todo, op) == \E i \in 1..Len(todo) : todo[i] = op

\* The reconciliation under way is about w and has op still to do.
Left(w, op) == On(w) /\ Has(job.todo, op)

\* A cache is behind the API server only for objects with outstanding events.
SeenInv ==
  \A w \in Workloads : /\ w \notin news.wl => cw[w] = wl[w]
                       /\ w \notin news.pods => cp[w] = pods[w]

HasPod(w, r) == pods[w][r] # NoPod /\ pods[w][r].dev = wl[w].status.assign[r]

HasClaim(w, r) == claims[w][r] # NoClaim /\ claims[w][r].dev = wl[w].status.assign[r]

\* The status the reconciliation will write is news to the API server.
Rewrites(w) == Left(w, <<"status", 0>>) /\ job.st # wl[w].status

\* Every child is there or will be ensured for the recorded assignment.
Served(w) ==
  \/ Rewrites(w)
  \/ /\ On(w) => job.st.assign = wl[w].status.assign
     /\ \A r \in Ranks : /\ Left(w, <<"ensureClaim", r>>) \/ HasClaim(w, r)
                         /\ Left(w, <<"ensurePod", r>>) \/ HasPod(w, r)

\* Every child is being deleted or will be, and nothing is reserved again.
Cleaned(w) ==
  /\ ~Left(w, <<"reserve", 0>>)
  /\ Left(w, <<"drop", 0>>) \/ pending[w] = NoAssign
  /\ \A r \in Ranks : /\ Left(w, <<"deletePod", r>>) \/ (pods[w][r] # NoPod => pods[w][r].dying)
                      /\ Left(w, <<"deleteClaim", r>>) \/ (claims[w][r] # NoClaim => claims[w][r].dying)

\* A workload nobody will look at again is as its status says, once the
\* reconciliation under way is through.
Rest(w) ==
  ~Covered(w) /\ wl[w].life = "live" /\ wl[w].status.assign # NoAssign =>
    /\ wl[w].status.phase \in {"Assigned", "Running"} => Served(w)
    /\ terminalPhase(wl[w].status.phase) => Cleaned(w)

SettleInv == SeenInv /\ \A w \in Workloads : Rest(w)

\* A call for every rank, of both kinds.
LEMMA EachRankHas ==
  ASSUME NEW first, NEW second, NEW r \in Ranks
  PROVE  Has(EachRank(first, second), <<first, r>>) /\ Has(EachRank(first, second), <<second, r>>)
<1>1. r \in Nat /\ NumRanks \in Nat /\ 1 <= r /\ r <= NumRanks
  BY RanksPositive DEF Ranks
<1>2. Len(EachRank(first, second)) = 2 * NumRanks
  <2>1. 2 * NumRanks \in Nat /\ DOMAIN EachRank(first, second) = 1..2 * NumRanks
    BY <1>1 DEF EachRank
  <2>2. EachRank(first, second) \in Seq({first, second} \X Ranks)
    BY EachRankType
  <2> QED  BY <2>1, <2>2, LenProperties
<1>3. 2 * r \in 1..2 * NumRanks /\ 2 * r - 1 \in 1..2 * NumRanks
  BY <1>1
<1>4. (2 * r) % 2 = 0 /\ (2 * r - 1) % 2 = 1 /\ (2 * r + 1) \div 2 = r /\ (2 * r - 1 + 1) \div 2 = r
  BY <1>1
<1>5. EachRank(first, second)[2 * r] = <<second, r>>
  BY <1>3, <1>4 DEF EachRank
<1>6. EachRank(first, second)[2 * r - 1] = <<first, r>>
  BY <1>3, <1>4 DEF EachRank
<1> QED  BY <1>2, <1>3, <1>5, <1>6 DEF Has

\* The calls of two lists are those of the one and those of the other.
LEMMA ConcatHas ==
  ASSUME NEW S, NEW u \in Seq(S), NEW v \in Seq(S), NEW op
  PROVE  Has(u \o v, op) <=> Has(u, op) \/ Has(v, op)
<1>1. /\ Len(u) \in Nat /\ Len(v) \in Nat /\ Len(u \o v) = Len(u) + Len(v)
      /\ \A i \in 1..Len(u) : (u \o v)[i] = u[i]
      /\ \A i \in 1..Len(v) : (u \o v)[Len(u) + i] = v[i]
  BY ConcatProperties, LenProperties
<1>2. ASSUME Has(u, op) PROVE Has(u \o v, op)
  BY <1>1, <1>2 DEF Has
<1>3. ASSUME Has(v, op) PROVE Has(u \o v, op)
  <2>1. PICK i \in 1..Len(v) : v[i] = op
    BY <1>3 DEF Has
  <2>2. Len(u) + i \in 1..Len(u \o v)
    BY <1>1
  <2> QED  BY <1>1, <2>1, <2>2 DEF Has
<1>4. ASSUME Has(u \o v, op) PROVE Has(u, op) \/ Has(v, op)
  <2>1. PICK i \in 1..Len(u) + Len(v) : (u \o v)[i] = op
    BY <1>1, <1>4 DEF Has
  <2>2. CASE i <= Len(u)
    BY <1>1, <2>1, <2>2 DEF Has
  <2>3. CASE i > Len(u)
    <3>1. i - Len(u) \in 1..Len(v) /\ Len(u) + (i - Len(u)) = i
      BY <1>1, <2>3
    <3> QED  BY <1>1, <2>1, <3>1 DEF Has
  <2> QED  BY <1>1, <2>2, <2>3
<1> QED  BY <1>2, <1>3, <1>4

\* What the branches have to do.
LEMMA TodoHas ==
  /\ Has(updateStatus, <<"status", 0>>)
  /\ Has(dropPending \o deleteChildren \o updateStatus, <<"status", 0>>)
  /\ Has(deleteChildren \o dropPending \o updateStatus, <<"status", 0>>)
  /\ Has(dropPending \o deleteChildren, <<"drop", 0>>)
  /\ ~Has(dropPending \o deleteChildren, <<"reserve", 0>>)
  /\ \A r \in Ranks : /\ Has(dropPending \o deleteChildren, <<"deletePod", r>>)
                      /\ Has(dropPending \o deleteChildren, <<"deleteClaim", r>>)
                      /\ Has(ensureChildren \o updateStatus, <<"ensureClaim", r>>)
                      /\ Has(ensureChildren \o updateStatus, <<"ensurePod", r>>)
<1>1. /\ updateStatus \in Seq(Op) /\ Len(updateStatus) = 1 /\ updateStatus[1] = <<"status", 0>>
      /\ dropPending \in Seq(Op) /\ Len(dropPending) = 1 /\ dropPending[1] = <<"drop", 0>>
  BY DEF updateStatus, dropPending, Op
<1>2. Has(updateStatus, <<"status", 0>>) /\ Has(dropPending, <<"drop", 0>>) /\ ~Has(dropPending, <<"reserve", 0>>)
  BY <1>1 DEF Has
<1>3. deleteChildren \in Seq(Op) /\ ensureChildren \in Seq(Op)
  <2>1. {"deletePod", "deleteClaim"} \X Ranks \subseteq Op /\ {"ensureClaim", "ensurePod"} \X Ranks \subseteq Op
    BY DEF Op, Calls
  <2> QED  BY <2>1, EachRankType DEF deleteChildren, ensureChildren
<1>4. ~Has(deleteChildren, <<"reserve", 0>>)
  <2>1. deleteChildren \in Seq({"deletePod", "deleteClaim"} \X Ranks)
    BY EachRankType DEF deleteChildren
  <2>2. \A i \in 1..Len(deleteChildren) : deleteChildren[i] \in {"deletePod", "deleteClaim"} \X Ranks
    BY <2>1, ElementOfSeq
  <2>3. <<"reserve", 0>> \notin {"deletePod", "deleteClaim"} \X Ranks
    OBVIOUS
  <2> QED  BY <2>2, <2>3 DEF Has
<1>5. \A r \in Ranks : /\ Has(deleteChildren, <<"deletePod", r>>) /\ Has(deleteChildren, <<"deleteClaim", r>>)
                       /\ Has(ensureChildren, <<"ensureClaim", r>>) /\ Has(ensureChildren, <<"ensurePod", r>>)
  BY EachRankHas DEF deleteChildren, ensureChildren
<1> HIDE DEF updateStatus, dropPending, deleteChildren, ensureChildren
<1>6. dropPending \o deleteChildren \in Seq(Op) /\ deleteChildren \o dropPending \in Seq(Op)
  BY <1>1, <1>3, ConcatProperties
<1> QED  BY <1>1, <1>2, <1>3, <1>4, <1>5, <1>6, ConcatHas

\* What a call leaves to do: everything but itself.
LEMMA LeftAfter ==
  ASSUME TypeInv, job.todo # <<>>, Advance, NEW w, w = job.w
  PROVE  /\ \A op : Left(w, op)' => Left(w, op)
         /\ \A op : Left(w, op) /\ op # Head(job.todo) => Left(w, op)'
         /\ On(w)' => job'.st = job.st
<1>1. /\ Len(job.todo) \in Nat \ {0}
      /\ Len(job.todo) = 1 => job' = NoJob
      /\ Len(job.todo) # 1 => /\ job' # NoJob /\ job'.w = job.w /\ job'.st = job.st
                              /\ Len(job'.todo) = Len(job.todo) - 1
                              /\ \A i \in 1..Len(job'.todo) : job'.todo[i] = job.todo[i + 1]
  BY Advances
<1>2. job # NoJob /\ Head(job.todo) = job.todo[1]
  BY AtCall DEF NoJob
<1>3. ASSUME NEW op, Left(w, op)' PROVE Left(w, op)
  <2>1. job' # NoJob
    BY <1>3 DEF Left, On
  <2>2. PICK i \in 1..Len(job'.todo) : job'.todo[i] = op
    BY <1>3 DEF Left, Has
  <2>3. i + 1 \in 1..Len(job.todo) /\ job.todo[i + 1] = op
    BY <1>1, <2>1, <2>2
  <2> QED  BY <1>2, <2>3 DEF Left, On, Has
<1>4. ASSUME NEW op, Left(w, op), op # Head(job.todo) PROVE Left(w, op)'
  <2>1. PICK i \in 1..Len(job.todo) : job.todo[i] = op
    BY <1>4 DEF Left, Has
  <2>2. i # 1
    BY <1>2, <1>4, <2>1
  <2>3. Len(job.todo) # 1 /\ i - 1 \in 1..Len(job.todo) - 1 /\ (i - 1) + 1 = i
    BY <1>1, <2>1, <2>2
  <2>4. job'.todo[i - 1] = op /\ i - 1 \in 1..Len(job'.todo) /\ job' # NoJob /\ job'.w = w
    BY <1>1, <2>1, <2>3
  <2> QED  BY <2>4 DEF Left, On, Has
<1>5. On(w)' => job'.st = job.st
  BY <1>1 DEF On
<1> QED  BY <1>3, <1>4, <1>5

\* Rest(w) only speaks of w's objects, w's reservation and the reconciliation of w.
LEMMA RestFramed ==
  ASSUME NEW w \in Workloads, Rest(w), ~Covered(w)' => ~Covered(w),
         wl'[w] = wl[w], pods'[w] = pods[w], claims'[w] = claims[w], pending'[w] = pending[w],
         job' = job \/ (~On(w) /\ ~On(w)')
  PROVE  Rest(w)'
<1>1. (On(w)' <=> On(w)) /\ (\A op : Left(w, op)' <=> Left(w, op))
  BY DEF On, Left
<1>2. On(w) => job'.st = job.st
  OBVIOUS
<1>3. Rewrites(w)' <=> Rewrites(w)
  BY <1>1, <1>2 DEF Rewrites, Left
<1>4. Served(w) => Served(w)'
  BY <1>1, <1>2, <1>3 DEF Served, HasPod, HasClaim
<1>5. Cleaned(w) => Cleaned(w)'
  BY <1>1 DEF Cleaned
<1> QED  BY <1>4, <1>5 DEF Rest

\* An object that changes has its event outstanding.
LEMMA Silent ==
  ASSUME TypeInv, Notify, NEW w \in Workloads, w \in queue => w \in queue', ~Covered(w)'
  PROVE  ~Covered(w) /\ wl'[w] = wl[w] /\ pods'[w] = pods[w] /\ claims'[w] = claims[w]
<1>1. /\ news'.wl = news.wl \cup {x \in Workloads : wl'[x] # wl[x]}
      /\ news'.pods = news.pods \cup {x \in Workloads : pods'[x] # pods[x]}
      /\ news'.claims = news.claims \cup {x \in Workloads : claims'[x] # claims[x]}
  BY DEF Notify
<1> QED  BY <1>1 DEF Covered

\* ... and the caches lag only behind such objects.
LEMMA SeenKept ==
  ASSUME TypeInv, SeenInv, Notify, UNCHANGED <<cw, cp>>
  PROVE  SeenInv'
<1>1. /\ news'.wl = news.wl \cup {x \in Workloads : wl'[x] # wl[x]}
      /\ news'.pods = news.pods \cup {x \in Workloads : pods'[x] # pods[x]}
  BY DEF Notify
<1> QED  BY <1>1 DEF SeenInv

\* Users, the scheduler, kubelet and the collectors.
LEMMA OutsideSettle ==
  ASSUME TypeInv, SettleInv, Notify, UNCHANGED <<cw, cp, queue, pending, job>>
  PROVE  SettleInv'
<1>1. ASSUME NEW w \in Workloads, ~Covered(w)' PROVE Rest(w)'
  BY <1>1, Silent, RestFramed DEF SettleInv
<1>2. ASSUME NEW w \in Workloads PROVE Rest(w)'
  BY <1>1 DEF Rest
<1>3. SeenInv'
  BY SeenKept DEF SettleInv
<1> QED  BY <1>2, <1>3 DEF SettleInv

\* Watches, the fabric key, ordinary claims and a restart.
LEMMA QueueSettle ==
  ASSUME TypeInv, SettleInv,
         \/ ReconcileFabric \/ FabricTimer \/ Events \/ FabricChange
         \/ \E d \in Devices : OrdinaryClaim(d)
         \/ UNCHANGED vars
  PROVE  SettleInv'
<1>1. UNCHANGED <<wl, pods, claims, pending, job>>
  BY DEF ReconcileFabric, FabricTimer, Events, WorkloadEvents, PodEvents, ClaimEvents, FabricChange,
         OrdinaryClaim, vars, apiVars, cacheVars, caches, memVars
<1>2. \A w \in Workloads : Covered(w) => Covered(w)'
  <2>1. CASE UNCHANGED news /\ queue \ {FabricKey} \subseteq queue'
    BY <2>1, KeysDiffer DEF Covered
  <2>2. CASE Events
    BY <2>2 DEF Events, WorkloadEvents, PodEvents, ClaimEvents, Covered, TypeInv, TypeOK
  <2> QED
    BY <2>1, <2>2 DEF ReconcileFabric, FabricTimer, FabricChange, OrdinaryClaim,
                      vars, apiVars, cacheVars, caches, memVars
<1>3. SeenInv'
  <2>1. CASE UNCHANGED <<news, cw, cp>>
    BY <1>1, <2>1 DEF SettleInv, SeenInv
  <2>2. CASE Events
    BY <1>1, <2>2 DEF Events, WorkloadEvents, PodEvents, ClaimEvents, SettleInv, SeenInv, TypeInv, TypeOK
  <2> QED
    BY <2>1, <2>2 DEF ReconcileFabric, FabricTimer, FabricChange, OrdinaryClaim,
                      vars, apiVars, cacheVars, caches, memVars
<1>4. ASSUME NEW w \in Workloads PROVE Rest(w)'
  BY <1>1, <1>2, RestFramed DEF SettleInv
<1> QED  BY <1>3, <1>4 DEF SettleInv

LEMMA RestartSettle == ASSUME TypeInv, Restart PROVE SettleInv'
<1>1. /\ cw' = wl' /\ cp' = pods'
      /\ \A w \in Workloads : wl'[w].life = "live" => w \in queue'
  BY DEF Restart, apiVars
<1> QED  BY <1>1 DEF SettleInv, SeenInv, Rest, Covered

\* The call that is next, by its kind.
LEMMA HeadOp ==
  ASSUME TypeInv, job.todo # <<>>
  PROVE  /\ \A k \in {"deletePod", "deleteClaim", "ensureClaim", "ensurePod"} :
              Doing(k) => Rank \in Ranks /\ Head(job.todo) = <<k, Rank>>
         /\ \A k \in {"status", "drop", "reserve"} : Doing(k) => Head(job.todo) = <<k, 0>>
         /\ Left(job.w, Head(job.todo))
<1>1. job.todo \in Seq(Op) \ {<<>>} /\ job # NoJob
  BY AtCall DEF NoJob
<1>2. Head(job.todo) \in Op /\ Head(job.todo) = job.todo[1] /\ 1 \in 1..Len(job.todo)
  BY <1>1, HeadTailProperties, AtKind
<1>3. \A op \in Op : /\ op = <<op[1], op[2]>>
                     /\ op[1] \in {"status", "drop", "reserve"} => op[2] = 0
                     /\ op[1] \in {"deletePod", "deleteClaim", "ensureClaim", "ensurePod"} => op[2] \in Ranks
  BY DEF Op, Calls
<1> QED  BY <1>1, <1>2, <1>3 DEF Doing, Rank, Left, On, Has

\* A call that is answered and has changed nothing found what it was to bring about.
LEMMA CallRest ==
  ASSUME TypeInv, job.todo # <<>>, Advance, NEW w \in Workloads, w = job.w, Rest(w), ~Covered(w),
         wl'[w] = wl[w], pods'[w] = pods[w], claims'[w] = claims[w],
         pending'[w] = pending[w] \/ Head(job.todo) \in {<<"drop", 0>>, <<"reserve", 0>>},
         Head(job.todo) = <<"drop", 0>> => pending'[w] = NoAssign,
         Head(job.todo) = <<"status", 0>> =>
           job.st = wl[w].status \/ terminalPhase(wl[w].status.phase) \/ wl[w].life # "live",
         \A r \in Ranks :
           /\ Head(job.todo) = <<"deletePod", r>> => (pods[w][r] # NoPod => pods[w][r].dying)
           /\ Head(job.todo) = <<"deleteClaim", r>> => (claims[w][r] # NoClaim => claims[w][r].dying)
           /\ Head(job.todo) = <<"ensurePod", r>> /\ job.st.assign = wl[w].status.assign => HasPod(w, r)
           /\ Head(job.todo) = <<"ensureClaim", r>> /\ job.st.assign = wl[w].status.assign => HasClaim(w, r)
  PROVE  Rest(w)'
<1>1. /\ \A op : Left(w, op)' => Left(w, op)
      /\ \A op : Left(w, op) /\ op # Head(job.todo) => Left(w, op)'
      /\ On(w)' => job'.st = job.st
      /\ On(w)
  BY LeftAfter, AtKind
<1>2. ASSUME wl[w].life = "live", wl[w].status.phase \in {"Assigned", "Running"}, Served(w)
      PROVE  Served(w)'
  <2>1. CASE Rewrites(w)
    <3>1. Head(job.todo) # <<"status", 0>>
      BY <1>2, <2>1 DEF Rewrites, terminalPhase
    <3>2. Left(w, <<"status", 0>>)'
      BY <1>1, <2>1, <3>1 DEF Rewrites
    <3>3. On(w)'
      BY <3>2 DEF Left
    <3> QED  BY <1>1, <2>1, <3>2, <3>3 DEF Served, Rewrites
  <2>2. CASE ~Rewrites(w)
    <3>1. /\ job.st.assign = wl[w].status.assign
          /\ \A r \in Ranks : /\ Left(w, <<"ensureClaim", r>>) \/ HasClaim(w, r)
                              /\ Left(w, <<"ensurePod", r>>) \/ HasPod(w, r)
      BY <1>1, <1>2, <2>2 DEF Served
    <3>2. \A r \in Ranks : (HasPod(w, r) => HasPod(w, r)') /\ (HasClaim(w, r) => HasClaim(w, r)')
      BY DEF HasPod, HasClaim
    <3>3. \A r \in Ranks : /\ Left(w, <<"ensureClaim", r>>)' \/ HasClaim(w, r)'
                           /\ Left(w, <<"ensurePod", r>>)' \/ HasPod(w, r)'
      BY <1>1, <3>1, <3>2
    <3>4. On(w)' => job'.st.assign = wl'[w].status.assign
      BY <1>1, <3>1
    <3> QED  BY <3>3, <3>4 DEF Served
  <2> QED  BY <2>1, <2>2
<1>3. ASSUME Cleaned(w) PROVE Cleaned(w)'
  <2>1. Head(job.todo) # <<"reserve", 0>> /\ ~Left(w, <<"reserve", 0>>)'
    BY <1>1, <1>3, HeadOp DEF Cleaned
  <2>2. Left(w, <<"drop", 0>>)' \/ pending'[w] = NoAssign
    BY <1>1, <1>3, <2>1 DEF Cleaned
  <2>3. \A r \in Ranks : /\ Left(w, <<"deletePod", r>>)' \/ (pods'[w][r] # NoPod => pods'[w][r].dying)
                         /\ Left(w, <<"deleteClaim", r>>)' \/ (claims'[w][r] # NoClaim => claims'[w][r].dying)
    BY <1>1, <1>3 DEF Cleaned
  <2> QED  BY <2>1, <2>2, <2>3 DEF Cleaned
<1> QED  BY <1>2, <1>3 DEF Rest

\* The workloads a call is not about.
LEMMA CallOthers ==
  ASSUME TypeInv, job.todo # <<>>, job' = NoJob \/ Advance, NEW w \in Workloads, w # job.w
  PROVE  ~On(w) /\ ~On(w)'
<1>1. Len(job.todo) = 1 => job' = NoJob
  BY DEF Advance, NoJob
<1> QED  BY Advances DEF On

\* A call that changes something, or fails, leaves its workload covered.
LEMMA StepSettle == ASSUME TypeInv, SettleInv, Step PROVE SettleInv'
<1>1. job.todo # <<>> /\ job.w \in Workloads
  <2>1. job.todo # <<>>
    BY DEF Step, DeletePod, DeleteClaim, ensureClaim, ensurePod, updateWorkloadStatus, SetPending, Doing
  <2> QED  BY <2>1, AtCall
<1>2. /\ UNCHANGED <<cw, cp>> /\ Notify
      /\ \A w \in Workloads \ {job.w} : pending'[w] = pending[w]
      /\ Advance \/ Abort
      /\ queue \subseteq queue'
  <2>1. CASE SetPending
    <3>1. news' = news /\ wl' = wl /\ pods' = pods /\ claims' = claims
      BY <2>1 DEF SetPending, apiVars, cacheVars
    <3>2. Notify
      <4>1. news = [wl |-> news.wl, pods |-> news.pods, claims |-> news.claims]
        BY DEF TypeInv, TypeOK
      <4> QED  BY <3>1, <4>1 DEF Notify
    <3>3. \A w \in Workloads \ {job.w} : pending'[w] = pending[w]
      BY <2>1 DEF SetPending, TypeInv, TypeOK
    <3> QED  BY <2>1, <3>2, <3>3 DEF SetPending, cacheVars, caches
  <2>2. CASE ~SetPending
    BY <2>2 DEF Step, DeletePod, DeleteClaim, ensureClaim, ensurePod, updateWorkloadStatus, Answer, Abort, caches
  <2> QED  BY <2>1, <2>2
<1>3. SeenInv'
  BY <1>2, SeenKept DEF SettleInv
<1>4. ASSUME NEW w \in Workloads, w # job.w, ~Covered(w)' PROVE Rest(w)'
  <2>1. ~On(w) /\ ~On(w)'
    BY <1>1, <1>2, <1>4, CallOthers DEF Abort
  <2> QED  BY <1>2, <1>4, <2>1, Silent, RestFramed DEF SettleInv
<1>5. ASSUME NEW w \in Workloads, w = job.w, ~Covered(w)' PROVE Rest(w)'
  <2>1. ~Covered(w) /\ wl'[w] = wl[w] /\ pods'[w] = pods[w] /\ claims'[w] = claims[w]
    BY <1>2, <1>5, Silent
  <2>2. Advance
    BY <1>2, <1>5 DEF Abort, Covered
  <2>3. Rest(w)
    BY DEF SettleInv
  <2>4. CASE DeletePod
    <3>1. Head(job.todo) = <<"deletePod", Rank>> /\ Rank \in Ranks
      BY <1>1, <2>4, HeadOp DEF DeletePod
    <3>2. Deleted(pods[w][Rank]) = pods[w][Rank]
      <4>1. pods' = [pods EXCEPT ![w][Rank] = Deleted(pods[w][Rank])]
        BY <1>5, <2>4 DEF DeletePod
      <4>2. pods'[w][Rank] = Deleted(pods[w][Rank])
        BY <3>1, <4>1 DEF TypeInv, TypeOK
      <4> QED  BY <2>1, <4>2
    <3>3. pods[w][Rank] # NoPod => pods[w][Rank].dying
      <4>1. pods[w][Rank] \in Pod \cup {NoPod}
        BY <3>1, RankType
      <4>2. \A pod \in Pod : [pod EXCEPT !.dying = TRUE].dying = TRUE
        BY DEF Pod
      <4> QED  BY <3>2, <4>1, <4>2 DEF Deleted
    <3>4. pending' = pending
      BY <2>4 DEF DeletePod
    <3> QED  BY <1>1, <1>5, <2>1, <2>2, <2>3, <3>1, <3>3, <3>4, CallRest
  <2>5. CASE DeleteClaim
    <3>1. Head(job.todo) = <<"deleteClaim", Rank>> /\ Rank \in Ranks
      BY <1>1, <2>5, HeadOp DEF DeleteClaim
    <3>2. Released(claims[w][Rank]) = claims[w][Rank]
      <4>1. claims' = [claims EXCEPT ![w][Rank] = Released(claims[w][Rank])]
        BY <1>5, <2>5 DEF DeleteClaim
      <4>2. claims'[w][Rank] = Released(claims[w][Rank])
        BY <3>1, <4>1 DEF TypeInv, TypeOK
      <4> QED  BY <2>1, <4>2
    <3>3. claims[w][Rank] # NoClaim => claims[w][Rank].dying
      <4>1. claims[w][Rank] \in Claim \cup {NoClaim}
        BY <3>1, RankType
      <4>2. \A claim \in Claim : [claim EXCEPT !.dying = TRUE].dying = TRUE
        BY DEF Claim
      <4> QED  BY <3>2, <4>1, <4>2 DEF Released
    <3>4. pending' = pending
      BY <2>5 DEF DeleteClaim
    <3> QED  BY <1>1, <1>5, <2>1, <2>2, <2>3, <3>1, <3>3, <3>4, CallRest
  <2>6. CASE ensureClaim
    <3>1. Head(job.todo) = <<"ensureClaim", Rank>> /\ Rank \in Ranks
      BY <1>1, <2>6, HeadOp DEF ensureClaim
    <3>2. claims[w][Rank] # NoClaim
      <4> SUFFICES ASSUME claims[w][Rank] = NoClaim PROVE FALSE
        OBVIOUS
      <4>1. claims' = [claims EXCEPT ![w][Rank] =
                         [state |-> "free", spec |-> job.spec, dev |-> job.st.assign[Rank], dying |-> FALSE]]
        BY <1>5, <2>6 DEF ensureClaim
      <4>2. claims'[w][Rank].state = "free"
        BY <3>1, <4>1 DEF TypeInv, TypeOK
      <4> QED  BY <2>1, <4>2, ChildTypes
    <3>3. Same(claims[w][Rank])
      <4>1. Abort => FALSE
        BY <1>5 DEF Abort, Covered
      <4> QED  BY <1>5, <2>6, <3>2, <4>1 DEF ensureClaim
    <3>4. job.st.assign = wl[w].status.assign => HasClaim(w, Rank)
      BY <3>2, <3>3 DEF Same, HasClaim
    <3>5. pending' = pending
      BY <2>6 DEF ensureClaim
    <3> QED  BY <1>1, <1>5, <2>1, <2>2, <2>3, <3>1, <3>4, <3>5, CallRest
  <2>7. CASE ensurePod
    <3>1. Head(job.todo) = <<"ensurePod", Rank>> /\ Rank \in Ranks
      BY <1>1, <2>7, HeadOp DEF ensurePod
    <3>2. pods[w][Rank] # NoPod
      <4> SUFFICES ASSUME pods[w][Rank] = NoPod PROVE FALSE
        OBVIOUS
      <4>1. pods' = [pods EXCEPT ![w][Rank] =
                       [phase |-> "pending", spec |-> job.spec, dev |-> job.st.assign[Rank], dying |-> FALSE]]
        BY <1>5, <2>7 DEF ensurePod
      <4>2. pods'[w][Rank].phase = "pending"
        BY <3>1, <4>1 DEF TypeInv, TypeOK
      <4> QED  BY <2>1, <4>2, ChildTypes
    <3>3. Same(pods[w][Rank])
      <4>1. Abort => FALSE
        BY <1>5 DEF Abort, Covered
      <4> QED  BY <1>5, <2>7, <3>2, <4>1 DEF ensurePod
    <3>4. job.st.assign = wl[w].status.assign => HasPod(w, Rank)
      BY <3>2, <3>3 DEF Same, HasPod
    <3>5. pending' = pending
      BY <2>7 DEF ensurePod
    <3> QED  BY <1>1, <1>5, <2>1, <2>2, <2>3, <3>1, <3>4, <3>5, CallRest
  <2>8. CASE updateWorkloadStatus
    <3>1. Head(job.todo) = <<"status", 0>> /\ pending' = pending
      BY <1>1, <2>8, HeadOp DEF updateWorkloadStatus
    <3>2. job.st = wl[w].status \/ terminalPhase(wl[w].status.phase) \/ wl[w].life # "live"
      <4> SUFFICES ASSUME job.st # wl[w].status, ~terminalPhase(wl[w].status.phase), wl[w].life = "live"
                   PROVE  FALSE
        OBVIOUS
      <4>1. wl' = [wl EXCEPT ![w].status = job.st]
        BY <1>5, <2>8 DEF updateWorkloadStatus
      <4>2. wl'[w].status = job.st
        BY <4>1 DEF TypeInv, TypeOK, Workload
      <4> QED  BY <2>1, <4>2
    <3> QED  BY <1>1, <1>5, <2>1, <2>2, <2>3, <3>1, <3>2, CallRest
  <2>9. CASE SetPending
    <3>1. \/ Head(job.todo) = <<"drop", 0>> /\ pending'[w] = NoAssign
          \/ Head(job.todo) = <<"reserve", 0>>
      BY <1>1, <1>5, <2>9, HeadOp DEF SetPending, TypeInv, TypeOK
    <3>2. /\ Head(job.todo) \in {<<"drop", 0>>, <<"reserve", 0>>}
          /\ Head(job.todo) = <<"drop", 0>> => pending'[w] = NoAssign
      BY <3>1
    <3>3. /\ Head(job.todo) # <<"status", 0>>
          /\ \A r \in Ranks : Head(job.todo) \notin {<<"deletePod", r>>, <<"deleteClaim", r>>, <<"ensurePod", r>>, <<"ensureClaim", r>>}
      BY <3>2
    <3> QED  BY <1>1, <1>5, <2>1, <2>2, <2>3, <3>2, <3>3, CallRest
  <2> QED  BY <2>4, <2>5, <2>6, <2>7, <2>8, <2>9 DEF Step
<1>6. ASSUME NEW w \in Workloads PROVE Rest(w)'
  BY <1>4, <1>5 DEF Rest
<1> QED  BY <1>3, <1>6 DEF SettleInv

LEMMA CallFailedSettle == ASSUME TypeInv, SettleInv, CallFailed PROVE SettleInv'
<1>1. /\ job.todo # <<>> /\ job' = NoJob /\ queue' = queue \cup {job.w}
      /\ UNCHANGED <<wl, pods, claims, cw, cp, news, pending>>
  BY DEF CallFailed, Doing, Abort, apiVars, cacheVars, caches
<1>2. ASSUME NEW w \in Workloads, ~Covered(w)' PROVE Rest(w)'
  <2>1. ~Covered(w) /\ w # job.w
    BY <1>1, <1>2 DEF Covered
  <2>2. ~On(w) /\ ~On(w)'
    BY <1>1, <2>1 DEF On
  <2> QED  BY <1>1, <2>1, <2>2, RestFramed DEF SettleInv
<1>3. SeenInv'
  BY <1>1 DEF SettleInv, SeenInv
<1>4. \A w \in Workloads : Rest(w)'
  BY <1>2 DEF Rest
<1> QED  BY <1>3, <1>4 DEF SettleInv

\* A branch that leaves its workload uncovered was taken on its present state, and
\* starts what that state needs.
LEMMA RunRest ==
  ASSUME TypeInv, NEW w \in Workloads, NEW todo \in Seq(Op) \ {<<>>}, NEW st \in Status,
         Run(w, todo, st),
         wl[w].status.phase \in {"Assigned", "Running"} =>
           \/ Has(todo, <<"status", 0>>) /\ st # wl[w].status
           \/ /\ st.assign = wl[w].status.assign
              /\ \A r \in Ranks : Has(todo, <<"ensureClaim", r>>) /\ Has(todo, <<"ensurePod", r>>),
         terminalPhase(wl[w].status.phase) =>
           /\ ~Has(todo, <<"reserve", 0>>) /\ Has(todo, <<"drop", 0>>)
           /\ \A r \in Ranks : Has(todo, <<"deletePod", r>>) /\ Has(todo, <<"deleteClaim", r>>)
  PROVE  Rest(w)'
<1>1. job'.w = w /\ job'.st = st /\ job'.todo = todo /\ job' # NoJob /\ UNCHANGED <<wl, pods, claims, pending>>
  BY DEF Run, NoJob, apiVars
<1>2. On(w)' /\ \A op : Left(w, op)' <=> Has(todo, op)
  BY <1>1 DEF On, Left, Has
<1>3. ASSUME wl[w].status.phase \in {"Assigned", "Running"} PROVE Served(w)'
  <2>1. CASE Has(todo, <<"status", 0>>) /\ st # wl[w].status
    BY <1>1, <1>2, <2>1 DEF Served, Rewrites
  <2>2. CASE /\ st.assign = wl[w].status.assign
             /\ \A r \in Ranks : Has(todo, <<"ensureClaim", r>>) /\ Has(todo, <<"ensurePod", r>>)
    BY <1>1, <1>2, <2>2 DEF Served
  <2> QED  BY <1>3, <2>1, <2>2
<1>4. ASSUME terminalPhase(wl[w].status.phase) PROVE Cleaned(w)'
  BY <1>2, <1>4 DEF Cleaned
<1> QED  BY <1>1, <1>3, <1>4 DEF Rest

\* Within the limit, and with specs that are valid, an assigned workload that is
\* looked at is brought into line.
LEMMA ReconcileRest ==
  ASSUME IsFiniteSet(Workloads), Cardinality(Workloads) <= MaxWorkloads, Specs \subseteq ValidSpecs,
         TypeInv, SettleInv, NEW w \in Workloads, Reconcile(w),
         ~Covered(w)', wl[w].life = "live", wl[w].status.assign # NoAssign
  PROVE  Rest(w)'
<1>1. UNCHANGED <<wl, pods, claims, cw, cp, news>>
  BY DEF Reconcile, NotFound, ScaleExceeded, InvalidSpec, TerminalCleanup, ReservedDegraded, ReservedReplan,
         UnschedulableReplan, Finished, ChangedDegraded, ChangedReplan, Keep, FabricInvalid, PlacementError,
         Unsatisfied, Place, Run, apiVars, cacheVars, caches
<1>2. cw[w] = wl[w]
  BY <1>1 DEF Covered, SettleInv, SeenInv
<1>3. Assigned(w) /\ w \in Cached
  <2>1. Cardinality(Cached) <= MaxWorkloads
    <3>1. Cached \subseteq Workloads
      BY DEF Cached
    <3>2. /\ Cardinality(Cached) \in Nat /\ Cardinality(Workloads) \in Nat
          /\ Cardinality(Cached) <= Cardinality(Workloads)
      BY <3>1, FS_Subset, FS_CardinalityType
    <3> QED  BY <3>2, MaxWorkloadsIsNatural
  <2>2. w \in Cached
    BY <1>2 DEF Cached
  <2>3. validateWorkload(w)
    BY StatusTypes DEF validateWorkload
  <2> QED  BY <1>2, <2>1, <2>2, <2>3 DEF Assigned, InScale
<1>4. /\ ~NotFound(w) /\ ~ScaleExceeded(w) /\ ~InvalidSpec(w) /\ ~FabricInvalid(w)
      /\ ~PlacementError(w) /\ ~Unsatisfied(w) /\ ~Place(w)
  BY <1>3 DEF NotFound, ScaleExceeded, InvalidSpec, FabricInvalid, PlacementError, Unsatisfied, Place,
              Assigned, Unassigned
<1>5. /\ \A p \in Phases : /\ WithPhase(w, p) \in Status /\ WithPhase(w, p).phase = p
                           /\ Hashed(w, WithPhase(w, p)) \in Status
                           /\ Hashed(w, WithPhase(w, p)).assign = wl[w].status.assign
      /\ Replanned(w) \in Status /\ Replanned(w) # wl[w].status /\ cw[w].status \in Status
  <2>1. Replanned(w).assign = NoAssign
    BY DEF Replanned
  <2> QED  BY <1>2, <2>1, StatusTypes
<1>6. observedPhase(w) \in Phases /\ "Degraded" \in Phases
  BY ObservedType DEF Phases
<1>7. /\ updateStatus \in Seq(Op) \ {<<>>}
      /\ dropPending \o deleteChildren \in Seq(Op) \ {<<>>}
      /\ dropPending \o deleteChildren \o updateStatus \in Seq(Op) \ {<<>>}
      /\ deleteChildren \o dropPending \o updateStatus \in Seq(Op) \ {<<>>}
      /\ ensureChildren \o updateStatus \in Seq(Op) \ {<<>>}
  BY TodoTypes, PlainIsOp
<1>8. CASE TerminalCleanup(w)
  <2>1. terminalPhase(wl[w].status.phase) /\ wl[w].status.phase \notin {"Assigned", "Running"}
    BY <1>2, <1>8 DEF TerminalCleanup, terminalPhase
  <2> QED  BY <1>5, <1>7, <1>8, <2>1, TodoHas, RunRest DEF TerminalCleanup
<1>9. ASSUME NEW todo \in Seq(Op) \ {<<>>}, NEW st \in Status, Run(w, todo, st),
             ~terminalPhase(wl[w].status.phase), Has(todo, <<"status", 0>>),
             wl[w].status.phase \in {"Assigned", "Running"} => st # wl[w].status
      PROVE  Rest(w)'
  BY <1>9, RunRest
<1>10. CASE ReservedDegraded(w) \/ ChangedDegraded(w)
  <2>1. ~terminalPhase(wl[w].status.phase) /\ Run(w, updateStatus, WithPhase(w, "Degraded"))
    BY <1>2, <1>10 DEF ReservedDegraded, ChangedDegraded, Ongoing, Undisturbed, Live
  <2>2. wl[w].status.phase \in {"Assigned", "Running"} => WithPhase(w, "Degraded") # wl[w].status
    BY <1>5, <1>6
  <2> QED  BY <1>5, <1>6, <1>7, <1>9, <2>1, <2>2, TodoHas
<1>11. CASE ReservedReplan(w) \/ UnschedulableReplan(w) \/ ChangedReplan(w)
  <2>1. /\ ~terminalPhase(wl[w].status.phase)
        /\ \/ Run(w, dropPending \o deleteChildren \o updateStatus, Replanned(w))
           \/ Run(w, deleteChildren \o dropPending \o updateStatus, Replanned(w))
    BY <1>2, <1>11 DEF ReservedReplan, UnschedulableReplan, ChangedReplan, Ongoing, Undisturbed, Live
  <2> QED  BY <1>5, <1>7, <1>9, <2>1, TodoHas
<1>12. CASE Finished(w)
  <2>1. /\ ~terminalPhase(wl[w].status.phase) /\ terminalPhase(observedPhase(w))
        /\ Run(w, dropPending \o deleteChildren \o updateStatus, WithPhase(w, observedPhase(w)))
    BY <1>2, <1>12 DEF Finished, Undisturbed, Live
  <2>2. WithPhase(w, observedPhase(w)) # wl[w].status
    BY <1>5, <1>6, <2>1
  <2> QED  BY <1>5, <1>6, <1>7, <1>9, <2>1, <2>2, TodoHas
<1>13. CASE Keep(w)
  <2>1. /\ ~terminalPhase(wl[w].status.phase)
        /\ Run(w, ensureChildren \o updateStatus, Hashed(w, WithPhase(w, observedPhase(w))))
    BY <1>2, <1>13 DEF Keep, Ongoing, Undisturbed, Live
  <2> QED  BY <1>5, <1>6, <1>7, <2>1, TodoHas, RunRest
<1> QED  BY <1>4, <1>8, <1>10, <1>11, <1>12, <1>13 DEF Reconcile

LEMMA ReconcileSettle ==
  ASSUME IsFiniteSet(Workloads), Cardinality(Workloads) <= MaxWorkloads, Specs \subseteq ValidSpecs,
         TypeInv, SettleInv, NEW w \in Workloads, Reconcile(w)
  PROVE  SettleInv'
<1>1. /\ UNCHANGED <<wl, pods, claims, cw, cp, news>> /\ queue' = queue \ {w}
      /\ \A v \in Workloads \ {w} : pending'[v] = pending[v]
      /\ job = NoJob /\ (job' = NoJob \/ job'.w = w)
  <2>1. CASE NotFound(w)
    BY <2>1 DEF NotFound, Take, TypeInv, TypeOK, apiVars, cacheVars, caches
  <2>2. CASE PlacementError(w)
    BY <2>2 DEF PlacementError, Take, apiVars, cacheVars, caches
  <2>3. ASSUME NEW todo, NEW st, Take(w), Run(w, todo, st)
        PROVE  /\ UNCHANGED <<wl, pods, claims, cw, cp, news, pending>> /\ queue' = queue \ {w}
               /\ job = NoJob /\ job'.w = w
    BY <2>3 DEF Take, Run, apiVars, cacheVars, caches
  <2>4. CASE ~NotFound(w) /\ ~PlacementError(w)
    BY <2>3, <2>4 DEF Reconcile, ScaleExceeded, InvalidSpec, TerminalCleanup, ReservedDegraded, ReservedReplan,
         UnschedulableReplan, Finished, ChangedDegraded, ChangedReplan, Keep, FabricInvalid, Unsatisfied, Place
  <2> QED  BY <2>1, <2>2, <2>4
<1>2. SeenInv'
  BY <1>1 DEF SettleInv, SeenInv
<1>3. ASSUME NEW v \in Workloads, v # w PROVE Rest(v)'
  <2>1. ~On(v) /\ ~On(v)' /\ (Covered(v) => Covered(v)')
    BY <1>1, <1>3 DEF On, Covered
  <2> QED  BY <1>1, <1>3, <2>1, RestFramed DEF SettleInv
<1>4. Rest(w)'
  <2>1. ASSUME ~(~Covered(w)' /\ wl[w].life = "live" /\ wl[w].status.assign # NoAssign) PROVE Rest(w)'
    BY <1>1, <2>1 DEF Rest
  <2> QED  BY <2>1, ReconcileRest
<1> QED  BY <1>2, <1>3, <1>4 DEF SettleInv

LEMMA SettleNext ==
  ASSUME IsFiniteSet(Workloads), Cardinality(Workloads) <= MaxWorkloads, Specs \subseteq ValidSpecs,
         TypeInv, SettleInv, [Next]_vars
  PROVE  SettleInv'
<1>1. CASE \E w \in Workloads : Reconcile(w)
  BY <1>1, ReconcileSettle
<1>2. CASE \/ \E w \in Workloads : CreateWorkload(w) \/ EditSpec(w) \/ DeleteWorkload(w)
           \/ \E w \in Workloads, r \in Ranks :
                Collect(w, r) \/ Schedule(w, r) \/ ScheduleFails(w, r) \/ PodFinish(w, r) \/ PodGone(w, r)
  <2>1. Notify /\ UNCHANGED <<cw, cp, queue, pending, job>>
    BY <1>2 DEF CreateWorkload, EditSpec, DeleteWorkload, Collect, Schedule, ScheduleFails, PodFinish, PodGone,
                caches, memVars
  <2> QED  BY <2>1, OutsideSettle
<1>3. CASE \/ ReconcileFabric \/ FabricTimer \/ Events \/ FabricChange
           \/ \E d \in Devices : OrdinaryClaim(d)
           \/ UNCHANGED vars
  BY <1>3, QueueSettle
<1>4. CASE Step \/ CallFailed \/ Restart
  BY <1>4, StepSettle, CallFailedSettle, RestartSettle
<1> QED  BY <1>1, <1>2, <1>3, <1>4 DEF Next

LEMMA SettleInit == Init => SettleInv
<1> SUFFICES ASSUME Init PROVE SettleInv
  OBVIOUS
<1>1. cw = wl /\ cp = pods
  BY DEF Init
<1>2. \A w \in Workloads : wl[w].life # "live"
  <2> DEFINE st0 == [phase |-> "", assign |-> NoAssign, gen |-> 0, hash |-> NoHash]
  <2>1. wl \in [Workloads -> {[life |-> "new", spec |-> s, status |-> st0] : s \in Specs}]
    BY DEF Init
  <2> HIDE DEF st0
  <2> QED  BY <2>1
<1> QED  BY <1>1, <1>2 DEF SettleInv, SeenInv, Rest

\* When nothing is queued, nothing outstanding and nothing under way, every assigned
\* workload that is not degraded has its children, and every finished one has none and
\* reserves nothing, whatever calls failed or lost their replies, whichever caches
\* lagged and however often leadership moved (reconcileWorkload).  It takes a limit no
\* number of workloads exceeds (controller.go:285) and specs that stay valid (:333): in
\* either case the code returns before it looks at the children.
THEOREM SettledAlwaysConsistent ==
  ASSUME IsFiniteSet(Workloads), Cardinality(Workloads) <= MaxWorkloads, Specs \subseteq ValidSpecs
  PROVE  Spec => []SettledConsistent
<1>1. TypeInv /\ SettleInv /\ [Next]_vars => SettleInv'
  BY SettleNext
<1>2. SettleInv => SettledConsistent
  <2> SUFFICES ASSUME SettleInv, Settled, NEW w \in Workloads,
                      wl[w].life = "live", wl[w].status.assign # NoAssign
               PROVE  /\ wl[w].status.phase \in {"Assigned", "Running"} =>
                           \A r \in Ranks : HasPod(w, r) /\ HasClaim(w, r)
                      /\ terminalPhase(wl[w].status.phase) => Quiet(w)
    BY DEF SettledConsistent, HasPod, HasClaim
  <2>1. ~Covered(w) /\ ~On(w) /\ \A op : ~Left(w, op)
    BY DEF Settled, Covered, On, Left
  <2>2. Rest(w)
    BY DEF SettleInv
  <2> QED  BY <2>1, <2>2 DEF Rest, Served, Rewrites, Cleaned, Quiet
<1> QED  BY <1>1, <1>2, SettleInit, TypeAlways, PTL DEF Spec

(***************************************************************************)
(* The limit on workloads.                                                 *)
(***************************************************************************)

\* The reconciliation under way records an assignment for w.
Granting(w) == job # NoJob /\ job.w = w /\ job.st.assign # NoAssign

\* Recorded, still cached, or about to be recorded.
Charged(w) ==
  wl[w].life # "gone" /\ (wl[w].status.assign # NoAssign \/ cw[w].status.assign # NoAssign \/ Granting(w))

AllCharged == {w \in Workloads : Charged(w)}

\* Every existing workload with an assignment anywhere is in the cache the limit is
\* tested on, and stays there until it is deleted: so a placement that passes the test
\* leaves no more of them than the limit allows.
ScaleInv ==
  /\ AllCharged \subseteq Cached
  /\ Cardinality(AllCharged) <= MaxWorkloads
  /\ \A w \in Workloads : cw[w].life = "live" => wl[w].life # "new"

\* A step that charges no further workload keeps the number of them.
LEMMA ChargedKept ==
  ASSUME IsFiniteSet(Workloads), ScaleInv, AllCharged' \subseteq AllCharged
  PROVE  Cardinality(AllCharged') <= MaxWorkloads
<1>1. IsFiniteSet(AllCharged)
  BY FS_Subset DEF AllCharged
<1>2. /\ IsFiniteSet(AllCharged') /\ Cardinality(AllCharged') <= Cardinality(AllCharged)
  BY <1>1, FS_Subset
<1>3. Cardinality(AllCharged) \in Nat /\ Cardinality(AllCharged') \in Nat
  BY <1>1, <1>2, FS_CardinalityType
<1>. QED  BY <1>2, <1>3, MaxWorkloadsIsNatural DEF ScaleInv

\* ... and with the cache as it is and no workload created anew, the invariant.
LEMMA ScaleFrame ==
  ASSUME IsFiniteSet(Workloads), ScaleInv, cw' = cw,
         \A w \in Workloads : Charged(w)' => Charged(w),
         \A w \in Workloads : wl'[w].life = "new" => wl[w].life = "new"
  PROVE  ScaleInv'
<1>1. AllCharged' \subseteq AllCharged
  BY DEF AllCharged
<1>2. Cached' = Cached
  BY DEF Cached
<1>. QED  BY <1>1, <1>2, ChargedKept DEF ScaleInv

\* The workload cache catches up, or a new leader reads it afresh.
LEMMA ScaleCatchUp ==
  ASSUME IsFiniteSet(Workloads), TypeInv, ScaleInv, wl' = wl, cw' = wl, job' = job \/ job' = NoJob
  PROVE  ScaleInv'
<1>1. ASSUME NEW w \in Workloads, Charged(w)' PROVE Charged(w)
  BY <1>1 DEF Charged, Granting
<1>2. AllCharged' \subseteq AllCharged
  BY <1>1 DEF AllCharged
<1>3. ASSUME NEW w \in AllCharged' PROVE w \in Cached'
  <2>1. w \in Workloads /\ w \in Cached /\ wl[w].life # "gone"
    BY <1>2, <1>3 DEF ScaleInv, AllCharged, Charged
  <2>2. wl[w].life # "new"
    BY <2>1 DEF ScaleInv, Cached
  <2>3. wl[w].life = "live"
    BY <2>1, <2>2 DEF TypeInv, TypeOK, Workload
  <2>. QED  BY <2>1, <2>3 DEF Cached
<1>4. \A w \in Workloads : cw'[w].life = "live" => wl'[w].life # "new"
  OBVIOUS
<1>. QED  BY <1>2, <1>3, <1>4, ChargedKept DEF ScaleInv

\* A branch of reconcileWorkload records an assignment the cache shows, or places a
\* workload after the limit was tested.
LEMMA ScaleReconcile ==
  ASSUME IsFiniteSet(Workloads), TypeInv, ScaleInv, NEW w \in Workloads, Reconcile(w)
  PROVE  ScaleInv'
<1>1. job = NoJob /\ wl' = wl /\ cw' = cw
  BY DEF Reconcile, NotFound, ScaleExceeded, InvalidSpec, TerminalCleanup, ReservedDegraded, ReservedReplan,
         UnschedulableReplan, Finished, ChangedDegraded, ChangedReplan, Keep, FabricInvalid, PlacementError,
         Unsatisfied, Place, Run, Take, apiVars, cacheVars, caches
<1>2. \A v \in Workloads : wl'[v].life = "new" => wl[v].life = "new"
  BY <1>1
<1>3. CASE Place(w)
  <2>1. w \in Cached /\ Cardinality(Cached) <= MaxWorkloads /\ job'.w = w
    BY <1>3 DEF Place, Unassigned, InScale, Run
  <2>2. \A v \in Workloads \ {w} : Charged(v)' => Charged(v)
    BY <1>1, <2>1 DEF Charged, Granting
  <2>3. AllCharged' \subseteq Cached /\ Cached' = Cached
    BY <1>1, <2>1, <2>2 DEF AllCharged, ScaleInv, Cached
  <2>4. IsFiniteSet(Cached)
    BY FS_Subset DEF Cached
  <2>5. IsFiniteSet(AllCharged') /\ Cardinality(AllCharged') <= Cardinality(Cached)
    BY <2>3, <2>4, FS_Subset
  <2>6. Cardinality(AllCharged') \in Nat /\ Cardinality(Cached) \in Nat
    BY <2>4, <2>5, FS_CardinalityType
  <2>7. Cardinality(AllCharged') <= MaxWorkloads
    BY <2>1, <2>5, <2>6, MaxWorkloadsIsNatural
  <2>. QED  BY <1>1, <1>2, <2>3, <2>7 DEF ScaleInv
<1>4. CASE ~Place(w)
  <2>1. \/ job' = NoJob
        \/ job'.w = w /\ (job'.st.assign = NoAssign \/ job'.st.assign = cw[w].status.assign)
    <3>1. CASE NotFound(w)
      BY <1>1, <3>1 DEF NotFound
    <3>2. \A p \in Phases : /\ WithPhase(w, p).assign = cw[w].status.assign
                            /\ Hashed(w, WithPhase(w, p)).assign = cw[w].status.assign
      BY StatusTypes
    <3>3. Replanned(w).assign = NoAssign
      BY DEF Replanned
    <3>4. "Pending" \in Phases /\ "Degraded" \in Phases /\ "Failed" \in Phases /\ observedPhase(w) \in Phases
      BY ObservedType DEF Phases
    <3>5. [Hashed(w, WithPhase(w, "Pending")) EXCEPT !.gen = fabric.gen].assign
            = Hashed(w, WithPhase(w, "Pending")).assign
      BY DEF Hashed, WithPhase
    <3>6. CASE PlacementError(w)
      BY <3>2, <3>4, <3>6 DEF PlacementError
    <3>7. ASSUME NEW todo, NEW st, Run(w, todo, st), st.assign \in {NoAssign, cw[w].status.assign}
          PROVE  job'.w = w /\ (job'.st.assign = NoAssign \/ job'.st.assign = cw[w].status.assign)
      BY <3>7 DEF Run
    <3>8. CASE ScaleExceeded(w) \/ InvalidSpec(w) \/ TerminalCleanup(w) \/ ReservedDegraded(w)
      BY <3>2, <3>4, <3>7, <3>8 DEF ScaleExceeded, InvalidSpec, TerminalCleanup, ReservedDegraded
    <3>9. CASE ReservedReplan(w) \/ UnschedulableReplan(w) \/ ChangedReplan(w)
      BY <3>3, <3>7, <3>9 DEF ReservedReplan, UnschedulableReplan, ChangedReplan
    <3>10. CASE Finished(w) \/ ChangedDegraded(w) \/ Keep(w) \/ FabricInvalid(w)
      BY <3>2, <3>4, <3>7, <3>10 DEF Finished, ChangedDegraded, Keep, FabricInvalid
    <3>11. CASE Unsatisfied(w)
      BY <3>2, <3>4, <3>5, <3>7, <3>11 DEF Unsatisfied
    <3>. QED  BY <1>4, <3>1, <3>6, <3>8, <3>9, <3>10, <3>11 DEF Reconcile
  <2>2. \A v \in Workloads : Charged(v)' => Charged(v)
    BY <1>1, <2>1 DEF Charged, Granting
  <2>. QED  BY <1>1, <1>2, <2>2, ScaleFrame
<1>. QED  BY <1>3, <1>4

\* A call of a reconciliation records nothing its status does not hold.
LEMMA ScaleStep ==
  ASSUME IsFiniteSet(Workloads), TypeInv, ScaleInv, Step \/ CallFailed
  PROVE  ScaleInv'
<1>1. job # NoJob /\ job.w \in Workloads /\ job.todo # <<>>
  <2>1. job.todo # <<>>
    BY DEF Step, CallFailed, Doing, DeletePod, DeleteClaim, ensureClaim, ensurePod, updateWorkloadStatus, SetPending
  <2>. QED  BY <2>1 DEF TypeInv, TypeOK, Job, NoJob
<1>2. cw' = cw
  BY DEF Step, CallFailed, DeletePod, DeleteClaim, ensureClaim, ensurePod, updateWorkloadStatus, SetPending,
         Notify, caches, cacheVars
<1>3. job' = NoJob \/ (job'.w = job.w /\ job'.st = job.st)
  <2>1. CASE Abort
    BY <2>1 DEF Abort
  <2>2. CASE Advance
    BY <1>1, <2>2 DEF Advance, TypeInv, TypeOK, Job
  <2>. QED
    BY <2>1, <2>2 DEF Step, CallFailed, DeletePod, DeleteClaim, ensureClaim, ensurePod, updateWorkloadStatus,
         SetPending, Answer
<1>4. wl' = wl \/ wl' = [wl EXCEPT ![job.w].status = job.st]
  BY DEF Step, CallFailed, DeletePod, DeleteClaim, ensureClaim, ensurePod, updateWorkloadStatus, SetPending, apiVars
<1>5. \A v \in Workloads : /\ wl'[v].life = wl[v].life
                           /\ wl'[v].status = wl[v].status \/ (v = job.w /\ wl'[v].status = job.st)
  <2>1. CASE wl' = [wl EXCEPT ![job.w].status = job.st]
    <3>1. wl'[job.w] = [wl[job.w] EXCEPT !.status = job.st] /\ \A v \in Workloads \ {job.w} : wl'[v] = wl[v]
      BY <1>1, <2>1 DEF TypeInv, TypeOK
    <3>2. wl[job.w] \in Workload
      BY <1>1 DEF TypeInv, TypeOK
    <3>3. wl'[job.w].life = wl[job.w].life /\ wl'[job.w].status = job.st
      BY <3>1, <3>2 DEF Workload
    <3>. QED  BY <3>1, <3>3
  <2>. QED  BY <1>4, <2>1
<1>6. \A v \in Workloads : Charged(v)' => Charged(v)
  BY <1>1, <1>2, <1>3, <1>5 DEF Charged, Granting
<1>. QED  BY <1>2, <1>5, <1>6, ScaleFrame

\* Users create, edit and delete workloads; the other components leave them alone.
LEMMA ScaleOutside ==
  ASSUME IsFiniteSet(Workloads), TypeInv, ScaleInv,
         \/ \E w \in Workloads : CreateWorkload(w) \/ EditSpec(w) \/ DeleteWorkload(w)
         \/ UNCHANGED <<wl, cw, job>>
  PROVE  ScaleInv'
<1>1. UNCHANGED <<cw, job>>
  BY DEF CreateWorkload, EditSpec, DeleteWorkload, caches, memVars
<1>2. \A v \in Workloads : /\ wl'[v].status = wl[v].status
                           /\ wl'[v].life = "new" => wl[v].life = "new"
                           /\ wl[v].life = "gone" => wl'[v].life = "gone"
  <2>1. ASSUME NEW w \in Workloads, NEW x, wl' = [wl EXCEPT ![w] = x], x.status = wl[w].status,
               x.life # "new", wl[w].life # "gone"
        PROVE  \A v \in Workloads : /\ wl'[v].status = wl[v].status
                                    /\ wl'[v].life = "new" => wl[v].life = "new"
                                    /\ wl[v].life = "gone" => wl'[v].life = "gone"
    BY <2>1 DEF TypeInv, TypeOK
  <2>2. ASSUME NEW w \in Workloads
        PROVE  /\ wl[w] \in Workload
               /\ \A life : /\ [wl[w] EXCEPT !.life = life].status = wl[w].status
                            /\ [wl[w] EXCEPT !.life = life].life = life
               /\ \A s : /\ [wl[w] EXCEPT !.spec = s].status = wl[w].status
                         /\ [wl[w] EXCEPT !.spec = s].life = wl[w].life
    BY DEF TypeInv, TypeOK, Workload
  <2>3. ASSUME NEW w \in Workloads, CreateWorkload(w)
        PROVE  wl[w].life = "new" /\ wl' = [wl EXCEPT ![w] = [wl[w] EXCEPT !.life = "live"]]
    BY <2>3 DEF CreateWorkload
  <2>4. ASSUME NEW w \in Workloads, EditSpec(w)
        PROVE  wl[w].life = "live" /\ \E s \in Specs : wl' = [wl EXCEPT ![w] = [wl[w] EXCEPT !.spec = s]]
    BY <2>4 DEF EditSpec
  <2>5. ASSUME NEW w \in Workloads, DeleteWorkload(w)
        PROVE  wl[w].life = "live" /\ wl' = [wl EXCEPT ![w] = [wl[w] EXCEPT !.life = "gone"]]
    BY <2>5 DEF DeleteWorkload
  <2>6. CASE \E w \in Workloads : CreateWorkload(w) \/ EditSpec(w) \/ DeleteWorkload(w)
    <3>1. PICK w \in Workloads : CreateWorkload(w) \/ EditSpec(w) \/ DeleteWorkload(w)
      BY <2>6
    <3>2. CASE CreateWorkload(w)
      <4>1. wl[w].life = "new" /\ wl' = [wl EXCEPT ![w] = [wl[w] EXCEPT !.life = "live"]]
        BY <2>3, <3>2
      <4>. QED  BY <2>1, <2>2, <4>1
    <3>3. CASE EditSpec(w)
      <4>1. PICK s \in Specs : wl[w].life = "live" /\ wl' = [wl EXCEPT ![w] = [wl[w] EXCEPT !.spec = s]]
        BY <2>4, <3>3
      <4>. QED  BY <2>1, <2>2, <4>1
    <3>4. CASE DeleteWorkload(w)
      <4>1. wl[w].life = "live" /\ wl' = [wl EXCEPT ![w] = [wl[w] EXCEPT !.life = "gone"]]
        BY <2>5, <3>4
      <4>. QED  BY <2>1, <2>2, <4>1
    <3>. QED  BY <3>1, <3>2, <3>3, <3>4
  <2>. QED  BY <2>6
<1>3. \A v \in Workloads : Charged(v)' => Charged(v)
  BY <1>1, <1>2 DEF Charged, Granting
<1>. QED  BY <1>1, <1>2, <1>3, ScaleFrame

LEMMA ScaleNext ==
  ASSUME IsFiniteSet(Workloads), TypeInv, ScaleInv, [Next]_vars
  PROVE  ScaleInv'
<1>1. CASE \E w \in Workloads : Reconcile(w)
  BY <1>1, ScaleReconcile
<1>2. CASE Step \/ CallFailed
  BY <1>2, ScaleStep
<1>3. CASE WorkloadEvents \/ Restart
  BY <1>3, ScaleCatchUp DEF WorkloadEvents, Restart, apiVars
<1>4. CASE \E w \in Workloads : CreateWorkload(w) \/ EditSpec(w) \/ DeleteWorkload(w)
  BY <1>4, ScaleOutside
<1>5. CASE \/ ReconcileFabric \/ FabricTimer \/ PodEvents \/ ClaimEvents \/ FabricChange \/ UNCHANGED vars
           \/ \E w \in Workloads, r \in Ranks :
                Collect(w, r) \/ Schedule(w, r) \/ ScheduleFails(w, r) \/ PodFinish(w, r) \/ PodGone(w, r)
           \/ \E d \in Devices : OrdinaryClaim(d)
  <2>1. UNCHANGED <<wl, cw, job>>
    BY <1>5 DEF ReconcileFabric, FabricTimer, PodEvents, ClaimEvents, FabricChange, Collect, Schedule, ScheduleFails,
         PodFinish, PodGone, OrdinaryClaim, vars, apiVars, cacheVars, caches, memVars
  <2>. QED  BY <2>1, ScaleOutside
<1>. QED  BY <1>1, <1>2, <1>3, <1>4, <1>5 DEF Next, Events

LEMMA ScaleInit == Init => ScaleInv
<1>. SUFFICES ASSUME Init PROVE ScaleInv
  OBVIOUS
<1>1. cw = wl /\ job = NoJob
  BY DEF Init
<1>2. \A w \in Workloads : wl[w].life = "new" /\ wl[w].status.assign = NoAssign
  <2> DEFINE st0 == [phase |-> "", assign |-> NoAssign, gen |-> 0, hash |-> NoHash]
  <2>1. wl \in [Workloads -> {[life |-> "new", spec |-> s, status |-> st0] : s \in Specs}]
    BY DEF Init
  <2>2. st0.assign = NoAssign
    OBVIOUS
  <2> HIDE DEF st0
  <2>. QED  BY <2>1, <2>2
<1>3. AllCharged = {}
  BY <1>1, <1>2 DEF AllCharged, Charged, Granting
<1>. QED  BY <1>1, <1>2, <1>3, FS_EmptySet, MaxWorkloadsIsNatural DEF ScaleInv

\* However far the caches lag, whatever calls fail, however often leadership moves and
\* workloads are created, edited and deleted, no more than MaxWorkloads existing
\* workloads have an assignment recorded (reconcileWorkloadKey).
THEOREM ScaleAlwaysKept ==
  ASSUME IsFiniteSet(Workloads)
  PROVE  Spec => []ScaleKept
<1>1. TypeInv /\ ScaleInv /\ [Next]_vars => ScaleInv'
  BY ScaleNext
<1>2. ScaleInv => ScaleKept
  <2> SUFFICES ASSUME ScaleInv PROVE ScaleKept
    OBVIOUS
  <2> DEFINE granted == {w \in Workloads : wl[w].life = "live" /\ wl[w].status.assign # NoAssign}
  <2>1. IsFiniteSet(AllCharged) /\ granted \subseteq AllCharged
    BY FS_Subset DEF AllCharged, Charged
  <2>2. IsFiniteSet(granted) /\ Cardinality(granted) <= Cardinality(AllCharged)
    BY <2>1, FS_Subset
  <2>3. Cardinality(granted) \in Nat /\ Cardinality(AllCharged) \in Nat
    BY <2>1, <2>2, FS_CardinalityType
  <2>4. Cardinality(granted) <= MaxWorkloads
    BY <2>2, <2>3, MaxWorkloadsIsNatural DEF ScaleInv
  <2>. QED  BY <2>4 DEF ScaleKept
<1>. QED  BY <1>1, <1>2, ScaleInit, TypeAlways, PTL DEF Spec
=============================================================================
