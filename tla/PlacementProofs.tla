--------------------------- MODULE PlacementProofs --------------------------
(***************************************************************************)
(* Proofs about Inventory, Fabric and Placement: everything the run        *)
(* placement checks, for any nodes, observations, workloads, reservations  *)
(* and limits.                                                             *)
(*                                                                         *)
(* The invariant has three parts.  What is stored of a node is what its    *)
(* agent published (ReportsInv); the fabric in memory has every endpoint   *)
(* once, and is reciprocal and named if it is valid (FabricInv); and the   *)
(* search loses no assignment (SearchInv): each one is still to come or is *)
(* what has been chosen.                                                   *)
(***************************************************************************)
EXTENDS Placement, FiniteSetTheorems, TLAPS

-----------------------------------------------------------------------------
(***************************************************************************)
(* Snapshots.                                                              *)
(***************************************************************************)

\* A device's identity is a number.
LEMMA IdentityIsNumber ==
  ASSUME NEW n \in Nodes, NEW raws \in Observations[n], NEW i \in DOMAIN raws
  PROVE  StableID(raws[i]) \in Int /\ raws[i].ep \in Nat
<1>1. raws[i].uuid \in Nat /\ raws[i].slot \in Nat /\ raws[i].ep \in Nat
  BY ObservationsAreLists
<1> QED BY <1>1 DEF StableID

\* In a sorted snapshot devices with one identity are neighbours, so that marking
\* neighbours marks all of them.
LEMMA SharedIdentityAdjacent ==
  ASSUME NEW n \in Nodes, NEW raws \in Observations[n], NEW order \in SortedOrders(raws),
         NEW i \in DOMAIN raws, NEW k \in DOMAIN raws, i # k,
         StableID(raws[order[i]]) = StableID(raws[order[k]])
  PROVE  \E j \in {i - 1, i + 1} \cap DOMAIN raws :
            StableID(raws[order[j]]) = StableID(raws[order[i]])
<1> DEFINE N == Len(raws)
           ID(x) == StableID(raws[order[x]])
<1>1. N \in Nat /\ DOMAIN raws = 1..N
  BY ObservationsAreLists
<1>2. order \in [DOMAIN raws -> DOMAIN raws]
  BY DEF SortedOrders, Bijection, Injection
<1>3. \A x \in 1..N : ID(x) \in Int
  BY <1>1, <1>2, IdentityIsNumber
<1>4. \A x, y \in 1..N : x < y => ID(x) <= ID(y)
  BY <1>1 DEF SortedOrders
<1>5. ID(i) = ID(k)
  OBVIOUS
<1> HIDE DEF ID
<1>6. CASE i < k
  <2>1. i + 1 \in 1..N /\ (i + 1 = k \/ i + 1 < k) /\ i < i + 1
    BY <1>1, <1>6
  <2>2. ID(i + 1) = ID(i)
    BY <2>1, <1>1, <1>3, <1>4, <1>5
  <2> QED BY <2>1, <2>2, <1>1 DEF ID
<1>7. CASE k < i
  <2>1. i - 1 \in 1..N /\ (i - 1 = k \/ k < i - 1) /\ i - 1 < i
    BY <1>1, <1>7
  <2>2. ID(i - 1) = ID(i)
    BY <2>1, <1>1, <1>3, <1>4, <1>5
  <2> QED BY <2>1, <2>2, <1>1 DEF ID
<1> QED BY <1>1, <1>6, <1>7

\* No other device of the observation has the identity of device k.
Sole(raws, k) == \A j \in DOMAIN raws \ {k} : StableID(raws[j]) # StableID(raws[k])

\* A node's report has its eligible devices of an identity of their own, at their
\* places in the snapshot.
LEMMA PublishedDevices ==
  ASSUME NEW n \in Nodes, NEW raws \in Observations[n], NEW order \in SortedOrders(raws)
  PROVE  /\ DOMAIN PublishNode(n, raws, order) =
               {i \in DOMAIN raws : eligibility(raws[order[i]]) /\ Sole(raws, order[i])}
         /\ \A i \in DOMAIN PublishNode(n, raws, order) :
              /\ PublishNode(n, raws, order)[i].dev = StableID(raws[order[i]])
              /\ PublishNode(n, raws, order)[i].ep = raws[order[i]].ep
              /\ PublishNode(n, raws, order)[i].node = n
<1> DEFINE normal == [i \in DOMAIN raws |-> normalize(raws[order[i]])]
           snapshot == BuildSnapshot(raws, order)
           P == PublishNode(n, raws, order)
<1>1. order \in [DOMAIN raws -> DOMAIN raws] /\ order \in Injection(DOMAIN raws, DOMAIN raws)
      /\ \A j \in DOMAIN raws : \E k \in DOMAIN raws : order[k] = j
  BY DEF SortedOrders, Bijection, Injection, Surjection
<1>2. \A i, k \in DOMAIN raws : i # k => order[i] # order[k]
  BY <1>1 DEF Injection, IsInjective
<1>3. DOMAIN raws \subseteq Int /\ \A i \in DOMAIN raws : i - 1 # i /\ i + 1 # i
  BY ObservationsAreLists
<1>4. ASSUME NEW i \in DOMAIN raws
      PROVE  /\ snapshot[i].id = StableID(raws[order[i]])
             /\ snapshot[i].raw = raws[order[i]]
             /\ snapshot[i].eligible \in BOOLEAN
             /\ snapshot[i].eligible <=> eligibility(raws[order[i]]) /\ Sole(raws, order[i])
  <2>1. normal[i] = [id |-> StableID(raws[order[i]]), eligible |-> eligibility(raws[order[i]]),
                     raw |-> raws[order[i]]]
    BY DEF normalize
  <2>2. \A j \in DOMAIN raws : normal[j].id = StableID(raws[order[j]])
    BY DEF normalize
  <2> DEFINE Twin == \E j \in {i - 1, i + 1} \cap DOMAIN raws : normal[j].id = normal[i].id
  <2>3. snapshot[i] = IF Twin THEN [normal[i] EXCEPT !.eligible = FALSE] ELSE normal[i]
    BY DEF BuildSnapshot, markDuplicateIdentities
  <2>4. Twin <=> ~Sole(raws, order[i])
    <3>1. ASSUME Twin PROVE ~Sole(raws, order[i])
      <4>1. PICK j \in {i - 1, i + 1} \cap DOMAIN raws : normal[j].id = normal[i].id
        BY <3>1
      <4>2. order[j] # order[i] /\ order[j] \in DOMAIN raws
        BY <4>1, <1>1, <1>2, <1>3
      <4> QED BY <4>1, <4>2, <2>2 DEF Sole
    <3>2. ASSUME ~Sole(raws, order[i]) PROVE Twin
      <4>1. PICK m \in DOMAIN raws : m # order[i] /\ StableID(raws[m]) = StableID(raws[order[i]])
        BY <3>2 DEF Sole
      <4>2. PICK k \in DOMAIN raws : order[k] = m
        BY <1>1
      <4>3. k # i
        BY <4>1, <4>2
      <4>4. \E j \in {i - 1, i + 1} \cap DOMAIN raws :
               StableID(raws[order[j]]) = StableID(raws[order[i]])
        BY <4>1, <4>2, <4>3, SharedIdentityAdjacent
      <4> QED BY <4>4, <2>2
    <3> QED BY <3>1, <3>2
  <2> HIDE DEF Twin, normal, snapshot
  <2>5. PICK b : normal[i] = [id |-> StableID(raws[order[i]]), eligible |-> b, raw |-> raws[order[i]]]
                 /\ b = eligibility(raws[order[i]])
    BY <2>1, Zenon
  <2>6. b \in BOOLEAN
    BY <2>5, Zenon DEF eligibility
  <2>7. CASE Twin
    <3>1. normal[i] = [id |-> StableID(raws[order[i]]), eligible |-> b, raw |-> raws[order[i]]]
      BY <2>5, Zenon
    <3>2. snapshot[i] = [normal[i] EXCEPT !.eligible = FALSE]
      BY <2>3, <2>7, Zenon
    <3>3. snapshot[i].id = StableID(raws[order[i]]) /\ snapshot[i].raw = raws[order[i]]
      BY <3>1, <3>2
    <3>4. snapshot[i].eligible = FALSE
      BY <3>1, <3>2
    <3> QED BY <3>3, <3>4, <2>4, <2>7
  <2>8. CASE ~Twin
    <3>1. snapshot[i] = [id |-> StableID(raws[order[i]]), eligible |-> b, raw |-> raws[order[i]]]
      BY <2>3, <2>5, <2>8
    <3>2. snapshot[i].eligible = b /\ snapshot[i].id = StableID(raws[order[i]])
          /\ snapshot[i].raw = raws[order[i]]
      BY <3>1
    <3> QED BY <3>2, <2>4, <2>5, <2>6, <2>8, Zenon
  <2> QED BY <2>7, <2>8
<1>5. DOMAIN snapshot = DOMAIN raws
  BY DEF BuildSnapshot, markDuplicateIdentities
<1>6. DOMAIN P = {i \in DOMAIN raws : snapshot[i].eligible}
  BY <1>5 DEF PublishNode
<1>7. ASSUME NEW i \in DOMAIN P
      PROVE  P[i].dev = snapshot[i].id /\ P[i].ep = snapshot[i].raw.ep /\ P[i].node = n
  BY <1>5 DEF PublishNode
<1> HIDE DEF snapshot, P
<1>8. DOMAIN P = {i \in DOMAIN raws : eligibility(raws[order[i]]) /\ Sole(raws, order[i])}
  BY <1>4, <1>6
<1>9. \A i \in DOMAIN P : P[i].dev = StableID(raws[order[i]]) /\ P[i].ep = raws[order[i]].ep /\ P[i].node = n
  BY <1>4, <1>6, <1>7
<1> QED BY <1>8, <1>9 DEF P

-----------------------------------------------------------------------------
(***************************************************************************)
(* What the API server stores of a node is what its agent published.       *)
(***************************************************************************)

ReportOf(n, r) ==
  /\ r.state \in {"fresh", "stale"}
  /\ \E raws \in Observations[n] : \E order \in SortedOrders(raws) :
       r.raws = raws /\ r.devices = PublishNode(n, raws, order)

ReportsInv ==
  /\ DOMAIN report = Nodes
  /\ \A n \in Nodes : report[n] = Absent \/ ReportOf(n, report[n])

LEMMA ReportsArePublished ==
  ASSUME NEW n \in Nodes, NEW r \in Reports(n)
  PROVE  ReportOf(n, r)
BY DEF Reports, Report, ReportOf

LEMMA ReportsInit == Init => ReportsInv
BY ReportsArePublished DEF Init, ReportsInv

\* Only NodeReports changes a report; the other steps are the controller's.
LEMMA ReportsStep == ReportsInv /\ [Next]_vars => ReportsInv'
<1> SUFFICES ASSUME ReportsInv, [Next]_vars PROVE ReportsInv'
  OBVIOUS
<1>1. ASSUME NEW n \in Nodes, NodeReports(n) PROVE ReportsInv'
  <2>1. CASE \E r \in Reports(n) : report' = [report EXCEPT ![n] = r]
    BY <2>1, ReportsArePublished DEF ReportsInv
  <2>2. CASE report[n].state = "fresh" /\ report' = [report EXCEPT ![n].state = "stale"]
    <3>1. report[n] # Absent
      BY <2>2 DEF Absent
    <3>2. ReportOf(n, report[n])
      BY <3>1 DEF ReportsInv
    <3>3. report'[n] = [report[n] EXCEPT !.state = "stale"] /\ DOMAIN report' = Nodes
          /\ \A m \in Nodes \ {n} : report'[m] = report[m]
      BY <2>2 DEF ReportsInv
    <3>4. ReportOf(n, report'[n])
      <4>1. report'[n].state = "stale" /\ report'[n].raws = report[n].raws
            /\ report'[n].devices = report[n].devices
        BY <3>3
      <4> QED BY <4>1, <3>2 DEF ReportOf
    <3> QED BY <3>3, <3>4 DEF ReportsInv
  <2>3. CASE report' = [report EXCEPT ![n] = Absent]
    BY <2>3 DEF ReportsInv
  <2> QED BY <1>1, <2>1, <2>2, <2>3 DEF NodeReports
<1>2. CASE UNCHANGED report
  BY <1>2 DEF ReportsInv
<1>3. (\E n \in Nodes : NodeReports(n)) \/ UNCHANGED report
  BY DEF Next, reconcileFabric, SolveContext, Cancel, chooseRank, visit, exhausted,
         backtrack, notFound, leavePending, record, vars
<1> QED BY <1>1, <1>2, <1>3

\* A node's name for a device stands for one card, for every observation and every
\* order in which sort.Slice may leave devices that share an identity.
THEOREM ReportedAlwaysSole == Spec => []ReportedIsSole
<1>1. ReportsInv => ReportedIsSole
  <2> SUFFICES ASSUME ReportsInv, NEW n \in Nodes
               PROVE  LET raws == report[n].raws
                      IN  {d.dev : d \in Range(report[n].devices)} =
                          {StableID(raws[i]) : i \in {k \in DOMAIN raws :
                               /\ eligibility(raws[k])
                               /\ \A j \in DOMAIN raws \ {k} : StableID(raws[j]) # StableID(raws[k])}}
    BY DEF ReportedIsSole
  <2>1. CASE report[n] = Absent
    BY <2>1 DEF Absent, Range
  <2>2. CASE ReportOf(n, report[n])
    <3>0. PICK raws \in Observations[n] : \E order \in SortedOrders(raws) :
             report[n].raws = raws /\ report[n].devices = PublishNode(n, raws, order)
      BY <2>2 DEF ReportOf
    <3>1. PICK order \in SortedOrders(raws) :
             report[n].raws = raws /\ report[n].devices = PublishNode(n, raws, order)
      BY <3>0
    <3> DEFINE P == PublishNode(n, raws, order)
               sole == {k \in DOMAIN raws : eligibility(raws[k]) /\ Sole(raws, k)}
    <3>2. /\ DOMAIN P = {i \in DOMAIN raws : order[i] \in sole}
          /\ \A i \in DOMAIN P : P[i].dev = StableID(raws[order[i]])
      <4>1. order \in [DOMAIN raws -> DOMAIN raws]
        BY DEF SortedOrders, Bijection, Injection
      <4>2. /\ DOMAIN P = {i \in DOMAIN raws : eligibility(raws[order[i]]) /\ Sole(raws, order[i])}
            /\ \A i \in DOMAIN P : /\ P[i].dev = StableID(raws[order[i]])
                                   /\ P[i].ep = raws[order[i]].ep
                                   /\ P[i].node = n
        BY PublishedDevices, Zenon
      <4> HIDE DEF P
      <4> QED BY <4>1, <4>2
    <3>3. \A j \in DOMAIN raws : \E k \in DOMAIN raws : order[k] = j
      BY DEF SortedOrders, Bijection, Surjection
    <3> HIDE DEF P
    <3>4. {d.dev : d \in Range(P)} = {StableID(raws[i]) : i \in sole}
      <4>1. {d.dev : d \in Range(P)} \subseteq {StableID(raws[i]) : i \in sole}
        BY <3>2 DEF Range
      <4>2. ASSUME NEW k \in sole PROVE StableID(raws[k]) \in {d.dev : d \in Range(P)}
        <5>1. PICK i \in DOMAIN raws : order[i] = k
          BY <3>3
        <5>2. i \in DOMAIN P /\ P[i].dev = StableID(raws[k])
          BY <5>1, <3>2
        <5> QED BY <5>2 DEF Range
      <4> QED BY <4>1, <4>2
    <3>5. sole = {k \in DOMAIN raws :
             /\ eligibility(raws[k])
             /\ \A j \in DOMAIN raws \ {k} : StableID(raws[j]) # StableID(raws[k])}
      BY DEF Sole
    <3>6. {d.dev : d \in Range(report[n].devices)} = {StableID(raws[i]) : i \in sole}
      BY <3>1, <3>4 DEF P
    <3> QED BY <3>1, <3>5, <3>6, Zenon
  <2> QED BY <2>1, <2>2 DEF ReportsInv
<1> QED BY <1>1, ReportsInit, ReportsStep, PTL DEF Spec

-----------------------------------------------------------------------------
(***************************************************************************)
(* BuildFabric.                                                            *)
(***************************************************************************)

\* What the informer store lists.
Listed(nodes) ==
  DOMAIN nodes \subseteq Int /\ \A i \in DOMAIN nodes : \E n \in Nodes : ReportOf(n, nodes[i])

LEMMA StoreListed ==
  ASSUME ReportsInv, NEW nodes \in StoreLists
  PROVE  Listed(nodes)
<1> DEFINE present == {n \in Nodes : report[n] # Absent}
           places == 1..Cardinality(present)
<1>1. PICK order \in Bijection(places, present) : nodes = [i \in places |-> report[order[i]]]
  BY DEF StoreLists
<1>2. order \in [places -> present] /\ places \subseteq Int
  BY DEF Bijection, Injection
<1> QED BY <1>1, <1>2 DEF ReportsInv, Listed

\* An offered device is at a pair of numbers and was reported.
LEMMA OfferedDevice ==
  ASSUME NEW nodes, Listed(nodes), NEW p \in Offered(nodes)
  PROVE  /\ p = <<p[1], p[2]>> /\ p[1] \in Int /\ p[2] \in Int
         /\ p[1] \in Fresh(nodes) /\ p[2] \in DOMAIN nodes[p[1]].devices
         /\ DeviceAt(nodes, p) \in Endpoint
         /\ DeviceAt(nodes, p).ep \in Nat
         /\ DeviceAt(nodes, p).ep # NoEndpoint
<1>0. PICK i \in Fresh(nodes) : \E k \in DOMAIN nodes[i].devices :
         p = <<i, k>> /\ nodes[i].devices[k].ep # NoEndpoint
  BY DEF Offered
<1>1. PICK k \in DOMAIN nodes[i].devices : p = <<i, k>> /\ nodes[i].devices[k].ep # NoEndpoint
  BY <1>0
<1>2. i \in DOMAIN nodes /\ i \in Int
  BY DEF Fresh, Listed
<1>3. PICK n \in Nodes : ReportOf(n, nodes[i])
  BY <1>2 DEF Listed
<1>4. PICK raws \in Observations[n] : \E order \in SortedOrders(raws) :
         nodes[i].devices = PublishNode(n, raws, order)
  BY <1>3 DEF ReportOf
<1>12. PICK order \in SortedOrders(raws) : nodes[i].devices = PublishNode(n, raws, order)
  BY <1>4
<1> DEFINE P == PublishNode(n, raws, order)
<1>5. DOMAIN P \subseteq DOMAIN raws /\ \A x \in DOMAIN P : P[x].ep = raws[order[x]].ep
  <2>1. /\ DOMAIN P = {x \in DOMAIN raws : eligibility(raws[order[x]]) /\ Sole(raws, order[x])}
        /\ \A x \in DOMAIN P : /\ P[x].dev = StableID(raws[order[x]])
                               /\ P[x].ep = raws[order[x]].ep
                               /\ P[x].node = n
    BY PublishedDevices, Zenon
  <2> HIDE DEF P
  <2> QED BY <2>1
<1>6. DOMAIN raws \subseteq Int
  BY ObservationsAreLists
<1>7. order \in [DOMAIN raws -> DOMAIN raws]
  BY DEF SortedOrders, Bijection, Injection
<1>8. P[k].ep \in Nat
  <2>1. k \in DOMAIN P
    BY <1>1, <1>12
  <2>2. order[k] \in DOMAIN raws
    BY <2>1, <1>5, <1>7
  <2> HIDE DEF P
  <2> QED BY <2>1, <2>2, <1>5, IdentityIsNumber
<1>9. P[k] \in Endpoint
  <2>1. Report(n, raws, order) \in Reports(n)
    BY DEF Reports
  <2>2. Report(n, raws, order).devices = P
    BY DEF Report
  <2>3. P[k] \in Range(P)
    BY <1>1, <1>12 DEF Range
  <2> HIDE DEF P
  <2>4. P[k] \in UNION {Range(r.devices) : r \in Reports(n)}
    BY <2>1, <2>2, <2>3
  <2> QED BY <2>4 DEF Endpoint
<1>10. DeviceAt(nodes, p) = P[k]
  BY <1>1, <1>12 DEF DeviceAt
<1>11. k \in Int
  BY <1>1, <1>12, <1>5, <1>6
<1> HIDE DEF P
<1>13. p[1] = i /\ p[2] = k
  BY <1>1
<1>14. DeviceAt(nodes, p).ep # NoEndpoint
  BY <1>1, <1>13 DEF DeviceAt
<1> QED BY <1>1, <1>2, <1>8, <1>9, <1>10, <1>11, <1>13, <1>14

\* The two loops meet one place before the other.
LEMMA EarlierTotal ==
  ASSUME NEW nodes, Listed(nodes), NEW p \in Offered(nodes), NEW q \in Offered(nodes), p # q
  PROVE  Earlier(p, q) \/ Earlier(q, p)
<1>1. p = <<p[1], p[2]>> /\ p[1] \in Int /\ p[2] \in Int
  BY OfferedDevice
<1>2. q = <<q[1], q[2]>> /\ q[1] \in Int /\ q[2] \in Int
  BY OfferedDevice
<1>3. p[1] # q[1] \/ p[2] # q[2]
  BY <1>1, <1>2
<1> QED BY <1>1, <1>2, <1>3 DEF Earlier

Unique(E) == \A e, f \in E : e.ep = f.ep => e = f

\* Of the devices with one endpoint at most one is kept.
LEMMA KeptUnique ==
  ASSUME NEW nodes, Listed(nodes)
  PROVE  /\ \A p, q \in Kept(nodes) : DeviceAt(nodes, p).ep = DeviceAt(nodes, q).ep => p = q
         /\ Unique(BuildFabric(nodes).endpoints)
<1>1. ASSUME NEW p \in Kept(nodes), NEW q \in Kept(nodes),
             DeviceAt(nodes, p).ep = DeviceAt(nodes, q).ep, p # q
      PROVE  FALSE
  <2>1. p \in Offered(nodes) /\ q \in Offered(nodes)
    BY DEF Kept
  <2>2. CASE Earlier(p, q)
    BY <1>1, <2>1, <2>2 DEF Kept, SeenBefore
  <2>3. CASE Earlier(q, p)
    BY <1>1, <2>1, <2>3 DEF Kept, SeenBefore
  <2> QED BY <1>1, <2>1, <2>2, <2>3, EarlierTotal
<1>2. BuildFabric(nodes).endpoints = {DeviceAt(nodes, p) : p \in Kept(nodes)}
  BY DEF BuildFabric
<1> QED BY <1>1, <1>2 DEF Unique

LEMMA KeptReported ==
  ASSUME NEW nodes, Listed(nodes)
  PROVE  \A e \in BuildFabric(nodes).endpoints : e \in Endpoint /\ e.ep \in Nat
<1>1. BuildFabric(nodes).endpoints = {DeviceAt(nodes, p) : p \in Kept(nodes)}
  BY DEF BuildFabric
<1>2. Kept(nodes) \subseteq Offered(nodes)
  BY DEF Kept
<1> QED BY <1>1, <1>2, OfferedDevice

\* Every link of a validated graph is reported from both ends.
Reciprocal(E) == \A e, f \in E : f.ep \in e.links => e.ep \in f.links

\* BuildFabric calls a graph valid only if its links are reciprocal and every
\* endpoint has a fabric and a ring.
LEMMA ValidReciprocal ==
  ASSUME NEW nodes, Listed(nodes), BuildFabric(nodes).valid
  PROVE  /\ Reciprocal(BuildFabric(nodes).endpoints)
         /\ \A e \in BuildFabric(nodes).endpoints : e.fabric # "" /\ e.ring # ""
<1> DEFINE E == BuildFabric(nodes).endpoints
<1>1. ValidGraph(E)
  BY DEF BuildFabric
<1>2. Unique(E)
  BY KeptUnique
<1> HIDE DEF E
<1>3. ASSUME NEW e \in E, NEW f \in E, f.ep \in e.links
      PROVE  e.ep \in f.links
  <2>1. PICK peer \in E : peer.ep = f.ep /\ e.ep \in peer.links
    BY <1>1, <1>3 DEF ValidGraph, LinkValid
  <2>2. peer = f
    BY <2>1, <1>2 DEF Unique
  <2> QED BY <2>1, <2>2
<1>4. \A e \in E : e.fabric # "" /\ e.ring # ""
  BY <1>1 DEF ValidGraph
<1> QED BY <1>3, <1>4 DEF Reciprocal, E

-----------------------------------------------------------------------------
(***************************************************************************)
(* The order of the store's list.                                          *)
(***************************************************************************)

LEMMA LeastNumber ==
  ASSUME NEW S \in SUBSET Nat, S # {}
  PROVE  \E m \in S : \A x \in S : m <= x
<1>1. PICK m \in S : \A y \in S : ~(<<y, m>> \in OpToRel(<, Nat))
  BY WFMin, NatLessThanWellFounded, Zenon
<1>2. \A y \in S : ~(y < m)
  BY <1>1 DEF OpToRel
<1> QED BY <1>2

LEMMA GreatestNumber ==
  ASSUME NEW S \in SUBSET Int, S # {}, NEW n \in Int, \A x \in S : x <= n
  PROVE  \E m \in S : \A x \in S : x <= m
<1> DEFINE T == {n - x : x \in S}
<1>1. T \in SUBSET Nat /\ T # {}
  <2>1. \A x \in S : x \in Int /\ n - x \in Nat
    OBVIOUS
  <2>2. PICK x \in S : TRUE
    OBVIOUS
  <2>3. n - x \in T
    OBVIOUS
  <2>4. \A t \in T : t \in Nat
    BY <2>1
  <2> HIDE DEF T
  <2> QED BY <2>3, <2>4
<1> HIDE DEF T
<1>2. PICK t \in T : \A x \in T : t <= x
  BY <1>1, LeastNumber
<1>3. PICK m \in S : t = n - m
  BY DEF T
<1>4. \A x \in S : n - x \in T
  BY DEF T
<1> QED BY <1>2, <1>3, <1>4

\* How far the places of a list reach.
LEMMA PlacesBounded ==
  ASSUME ReportsInv, NEW nodes \in StoreLists
  PROVE  \E n \in Nat :
           /\ DOMAIN nodes = 1..n
           /\ \A i \in DOMAIN nodes : \E m \in Nat : DOMAIN nodes[i].devices \subseteq 1..m
<1> DEFINE present == {n \in Nodes : report[n] # Absent}
           places == 1..Cardinality(present)
<1>1. PICK order \in Bijection(places, present) : nodes = [i \in places |-> report[order[i]]]
  BY DEF StoreLists
<1>2. Cardinality(present) \in Nat
  <2>1. IsFiniteSet(present)
    BY FS_Subset, NodesOrdered
  <2> QED BY <2>1, FS_CardinalityType
<1>3. ASSUME NEW i \in DOMAIN nodes
      PROVE  \E m \in Nat : DOMAIN nodes[i].devices \subseteq 1..m
  <2>1. PICK n \in Nodes : ReportOf(n, nodes[i])
    BY StoreListed DEF Listed
  <2>2. PICK raws \in Observations[n] : \E order1 \in SortedOrders(raws) :
           nodes[i].devices = PublishNode(n, raws, order1)
    BY <2>1 DEF ReportOf
  <2>3. PICK order1 \in SortedOrders(raws) : nodes[i].devices = PublishNode(n, raws, order1)
    BY <2>2
  <2>4. DOMAIN PublishNode(n, raws, order1) =
          {x \in DOMAIN raws : eligibility(raws[order1[x]]) /\ Sole(raws, order1[x])}
    BY PublishedDevices, Zenon
  <2>5. Len(raws) \in Nat /\ DOMAIN raws = 1..Len(raws)
    BY ObservationsAreLists
  <2> QED BY <2>3, <2>4, <2>5
<1> QED BY <1>1, <1>2, <1>3

LEMMA OfferedFinite ==
  ASSUME ReportsInv, NEW nodes \in StoreLists
  PROVE  IsFiniteSet(Offered(nodes))
<1> DEFINE At(i) == {<<i, k>> : k \in {k \in DOMAIN nodes[i].devices : nodes[i].devices[k].ep # NoEndpoint}}
           Parts == {At(i) : i \in Fresh(nodes)}
<1>1. PICK n \in Nat : /\ DOMAIN nodes = 1..n
                       /\ \A i \in DOMAIN nodes : \E m \in Nat : DOMAIN nodes[i].devices \subseteq 1..m
  BY PlacesBounded
<1>2. IsFiniteSet(Fresh(nodes))
  <2>1. IsFiniteSet(1..n)
    BY FS_Interval
  <2> QED BY <1>1, <2>1, FS_Subset DEF Fresh
<1>3. IsFiniteSet(Parts)
  <2> DEFINE f == [i \in Fresh(nodes) |-> At(i)]
  <2>1. f \in Surjection(Fresh(nodes), Parts)
    BY DEF Surjection
  <2> HIDE DEF f, Parts
  <2> QED BY <1>2, <2>1, FS_Surjection
<1>4. ASSUME NEW i \in Fresh(nodes) PROVE IsFiniteSet(At(i))
  <2> DEFINE K == {k \in DOMAIN nodes[i].devices : nodes[i].devices[k].ep # NoEndpoint}
             g == [k \in K |-> <<i, k>>]
  <2>1. PICK m \in Nat : DOMAIN nodes[i].devices \subseteq 1..m
    BY <1>1 DEF Fresh
  <2>2. IsFiniteSet(K)
    <3>1. IsFiniteSet(1..m)
      BY FS_Interval
    <3> QED BY <2>1, <3>1, FS_Subset
  <2>3. g \in Surjection(K, At(i))
    BY DEF Surjection
  <2> HIDE DEF g, K, At
  <2> QED BY <2>2, <2>3, FS_Surjection
<1>5. \A T \in Parts : IsFiniteSet(T)
  BY <1>4
<1>6. Offered(nodes) = UNION Parts
  BY DEF Offered
<1> HIDE DEF Parts
<1> QED BY <1>3, <1>5, <1>6, FS_UNION

\* The place the two loops reach last.
LEMMA LastOffered ==
  ASSUME ReportsInv, NEW nodes \in StoreLists, Offered(nodes) # {}
  PROVE  \E l \in Offered(nodes) : \A q \in Offered(nodes) : q = l \/ Earlier(q, l)
<1> DEFINE O == Offered(nodes)
<1>1. \A p \in O : p = <<p[1], p[2]>> /\ p[1] \in Int /\ p[2] \in Int
                   /\ p[1] \in Fresh(nodes) /\ p[2] \in DOMAIN nodes[p[1]].devices
  BY StoreListed, OfferedDevice
<1>2. PICK n \in Nat : /\ DOMAIN nodes = 1..n
                       /\ \A i \in DOMAIN nodes : \E m \in Nat : DOMAIN nodes[i].devices \subseteq 1..m
  BY PlacesBounded
<1> HIDE DEF O
<1> DEFINE I == {p[1] : p \in O}
<1>3. PICK i \in I : \A x \in I : x <= i
  <2>1. \A x \in I : x <= n
    BY <1>1, <1>2 DEF Fresh
  <2>2. I \in SUBSET Int /\ I # {}
    BY <1>1 DEF O
  <2>3. n \in Int
    OBVIOUS
  <2> HIDE DEF I
  <2> QED BY <2>1, <2>2, <2>3, GreatestNumber
<1> DEFINE K == {p[2] : p \in {p \in O : p[1] = i}}
<1>4. PICK k \in K : \A x \in K : x <= k
  <2>1. i \in DOMAIN nodes
    BY <1>1, <1>3 DEF Fresh
  <2>2. PICK m \in Nat : DOMAIN nodes[i].devices \subseteq 1..m
    BY <1>2, <2>1
  <2>3. K \in SUBSET Int /\ K # {} /\ \A x \in K : x <= m
    BY <1>1, <1>3, <2>2
  <2>4. m \in Int
    OBVIOUS
  <2> HIDE DEF K
  <2> QED BY <2>3, <2>4, GreatestNumber
<1>5. PICK l \in O : l[1] = i /\ l[2] = k
  BY <1>4
<1>6. ASSUME NEW q \in O PROVE q = l \/ Earlier(q, l)
  <2>1. q[1] <= i /\ (q[1] = i => q[2] <= k)
    BY <1>3, <1>4
  <2> QED BY <2>1, <1>1, <1>5 DEF Earlier
<1> QED BY <1>5, <1>6 DEF O

\* Two lists of one store hold the same reports at different places.
LEMMA SameReports ==
  ASSUME ReportsInv, NEW a \in StoreLists, NEW b \in StoreLists
  PROVE  /\ DOMAIN a = DOMAIN b
         /\ \E tau \in Bijection(DOMAIN b, DOMAIN a) : \A i \in DOMAIN b : b[i] = a[tau[i]]
<1> DEFINE present == {n \in Nodes : report[n] # Absent}
           places == 1..Cardinality(present)
<1>1. PICK oa \in Bijection(places, present) : a = [i \in places |-> report[oa[i]]]
  BY DEF StoreLists
<1>2. PICK ob \in Bijection(places, present) : b = [i \in places |-> report[ob[i]]]
  BY DEF StoreLists
<1> HIDE DEF places, present
<1>3. /\ oa \in [places -> present] /\ \A i, j \in places : oa[i] = oa[j] => i = j
      /\ \A n \in present : \E i \in places : oa[i] = n
  BY DEF Bijection, Injection, Surjection, IsInjective
<1>4. /\ ob \in [places -> present] /\ \A i, j \in places : ob[i] = ob[j] => i = j
      /\ \A n \in present : \E i \in places : ob[i] = n
  BY DEF Bijection, Injection, Surjection, IsInjective
<1> DEFINE tau == [i \in places |-> CHOOSE j \in places : oa[j] = ob[i]]
<1>5. \A i \in places : tau[i] \in places /\ oa[tau[i]] = ob[i]
  BY <1>3, <1>4
<1>6. tau \in [places -> places]
  BY <1>5
<1> HIDE DEF tau
<1>7. \A i, j \in places : tau[i] = tau[j] => i = j
  BY <1>4, <1>5
<1>8. \A j \in places : \E i \in places : tau[i] = j
  <2> SUFFICES ASSUME NEW j \in places PROVE \E i \in places : tau[i] = j
    OBVIOUS
  <2>1. PICK i \in places : ob[i] = oa[j]
    BY <1>3, <1>4
  <2> QED BY <2>1, <1>3, <1>5
<1>9. tau \in Bijection(places, places)
  BY <1>6, <1>7, <1>8 DEF Bijection, Injection, Surjection, IsInjective
<1>10. DOMAIN a = places /\ DOMAIN b = places /\ \A i \in places : b[i] = a[tau[i]]
  BY <1>1, <1>2, <1>5
<1> QED BY <1>9, <1>10

\* No more endpoints than MaxEndpoints are offered if the last one is kept.
LEMMA ValidWithinLimit ==
  ASSUME ReportsInv, NEW nodes \in StoreLists, NoneRefused(nodes)
  PROVE  LET T == {DeviceAt(nodes, p).ep : p \in Offered(nodes)}
         IN  IsFiniteSet(T) /\ (T # {} => Cardinality(T) <= MaxEndpoints)
<1> DEFINE O == Offered(nodes)
           T == {DeviceAt(nodes, p).ep : p \in O}
           f == [p \in O |-> DeviceAt(nodes, p).ep]
<1>1. IsFiniteSet(T)
  <2>1. f \in Surjection(O, T)
    BY DEF Surjection
  <2>2. IsFiniteSet(O)
    BY OfferedFinite
  <2> HIDE DEF f, O, T
  <2> QED BY <2>1, <2>2, FS_Surjection
<1>2. ASSUME T # {} PROVE Cardinality(T) <= MaxEndpoints
  <2>1. PICK l \in O : \A q \in O : q = l \/ Earlier(q, l)
    BY <1>2, LastOffered
  <2> DEFINE e == DeviceAt(nodes, l).ep
  <2>2. e \notin SeenBefore(nodes, l) /\ Cardinality(SeenBefore(nodes, l)) < MaxEndpoints
    BY DEF NoneRefused, Kept
  <2>3. SeenBefore(nodes, l) = T \ {e}
    <3>1. SeenBefore(nodes, l) \subseteq T
      BY DEF SeenBefore
    <3>2. T \ {e} \subseteq SeenBefore(nodes, l)
      BY <2>1 DEF SeenBefore
    <3> HIDE DEF T, e
    <3> QED BY <3>1, <3>2, <2>2
  <2>4. e \in T
    OBVIOUS
  <2> HIDE DEF T, e
  <2>5. Cardinality(T \ {e}) = Cardinality(T) - 1 /\ Cardinality(T) \in Nat
    BY <1>1, <2>4, FS_RemoveElement, FS_CardinalityType
  <2> QED BY <2>2, <2>3, <2>5, FabricLimits
<1> QED BY <1>1, <1>2

\* A fabric that is valid in one order of the list is the same in every other.
LEMMA OrderIrrelevant ==
  ASSUME ReportsInv, NEW a \in StoreLists, NEW b \in StoreLists, BuildFabric(a).valid
  PROVE  BuildFabric(b) = BuildFabric(a)
<1>1. Fresh(a) = DOMAIN a /\ NoneRefused(a) /\ ValidGraph(BuildFabric(a).endpoints)
  BY DEF BuildFabric
<1>2. PICK tau \in Bijection(DOMAIN b, DOMAIN a) : \A i \in DOMAIN b : b[i] = a[tau[i]]
  BY SameReports
<1>3. /\ tau \in [DOMAIN b -> DOMAIN a] /\ \A i, j \in DOMAIN b : tau[i] = tau[j] => i = j
      /\ \A j \in DOMAIN a : \E i \in DOMAIN b : tau[i] = j
  BY DEF Bijection, Injection, Surjection, IsInjective
<1>4. Fresh(b) = DOMAIN b
  <2>1. DOMAIN a = DOMAIN b
    BY SameReports
  <2>2. \A i \in DOMAIN a : i <= MaxNodes /\ a[i].state = "fresh"
    BY <1>1 DEF Fresh
  <2>3. \A i \in DOMAIN b : i <= MaxNodes /\ b[i].state = "fresh"
    BY <2>1, <2>2, <1>2, <1>3
  <2> QED BY <2>3 DEF Fresh
<1> DEFINE move(p) == <<tau[p[1]], p[2]>>
<1>5. ASSUME NEW p \in Offered(b)
      PROVE  move(p) \in Offered(a) /\ DeviceAt(a, move(p)) = DeviceAt(b, p)
  <2>1. PICK i \in Fresh(b) : \E k \in DOMAIN b[i].devices :
           p = <<i, k>> /\ b[i].devices[k].ep # NoEndpoint
    BY DEF Offered
  <2>2. PICK k \in DOMAIN b[i].devices : p = <<i, k>> /\ b[i].devices[k].ep # NoEndpoint
    BY <2>1
  <2>3. i \in DOMAIN b /\ tau[i] \in Fresh(a) /\ b[i] = a[tau[i]]
    BY <1>1, <1>2, <1>3, <1>4
  <2> QED BY <2>2, <2>3 DEF Offered, DeviceAt
<1>6. ASSUME NEW q \in Offered(a)
      PROVE  \E p \in Offered(b) : move(p) = q
  <2>1. PICK i \in Fresh(a) : \E k \in DOMAIN a[i].devices :
           q = <<i, k>> /\ a[i].devices[k].ep # NoEndpoint
    BY DEF Offered
  <2>2. PICK k \in DOMAIN a[i].devices : q = <<i, k>> /\ a[i].devices[k].ep # NoEndpoint
    BY <2>1
  <2>3. PICK j \in DOMAIN b : tau[j] = i
    BY <1>1, <1>3
  <2>4. b[j] = a[i]
    BY <1>2, <2>3
  <2>5. <<j, k>> \in Offered(b)
    BY <1>4, <2>2, <2>4 DEF Offered
  <2> QED BY <2>2, <2>3, <2>5
<1>7. ASSUME NEW p \in Offered(b), NEW q \in Offered(b), DeviceAt(b, p).ep = DeviceAt(b, q).ep
      PROVE  p = q
  <2>1. Listed(a) /\ Listed(b) /\ Kept(a) = Offered(a)
    BY <1>1, StoreListed DEF NoneRefused
  <2>2. move(p) = move(q)
    <3>1. move(p) \in Kept(a) /\ move(q) \in Kept(a)
          /\ DeviceAt(a, move(p)).ep = DeviceAt(a, move(q)).ep
      BY <1>5, <1>7, <2>1
    <3> HIDE DEF move
    <3> QED BY <3>1, <2>1, KeptUnique
  <2>3. p = <<p[1], p[2]>> /\ q = <<q[1], q[2]>> /\ p[1] \in DOMAIN b /\ q[1] \in DOMAIN b
    BY <2>1, <1>4, OfferedDevice
  <2>4. tau[p[1]] = tau[q[1]] /\ p[2] = q[2]
    BY <2>2
  <2> HIDE DEF move
  <2> QED BY <2>3, <2>4, <1>3
<1> DEFINE T == {DeviceAt(a, q).ep : q \in Offered(a)}
<1>8. \A p \in Offered(b) : DeviceAt(b, p).ep \in T
  BY <1>5
<1>9. IsFiniteSet(T) /\ (T # {} => Cardinality(T) <= MaxEndpoints)
  BY <1>1, ValidWithinLimit
<1> HIDE DEF move, T
<1>10. ASSUME NEW p \in Offered(b) PROVE p \in Kept(b)
  <2> DEFINE e == DeviceAt(b, p).ep
  <2>1. p[1] \in Int /\ p[2] \in Int
    BY StoreListed, OfferedDevice
  <2>2. ~Earlier(p, p)
    BY <2>1 DEF Earlier
  <2>3. e \notin SeenBefore(b, p)
    BY <1>7, <2>2 DEF SeenBefore
  <2>4. SeenBefore(b, p) \subseteq T \ {e}
    <3>1. SeenBefore(b, p) \subseteq T
      BY <1>8 DEF SeenBefore
    <3> HIDE DEF e
    <3> QED BY <3>1, <2>3
  <2>5. e \in T
    BY <1>8
  <2> HIDE DEF e
  <2>6. Cardinality(T \ {e}) = Cardinality(T) - 1 /\ Cardinality(T) \in Nat /\ IsFiniteSet(T \ {e})
    BY <1>9, <2>5, FS_RemoveElement, FS_CardinalityType
  <2>7. Cardinality(SeenBefore(b, p)) <= Cardinality(T \ {e}) /\ Cardinality(SeenBefore(b, p)) \in Nat
    BY <2>4, <2>6, FS_Subset, FS_CardinalityType
  <2>8. Cardinality(T) <= MaxEndpoints
    BY <1>9, <2>5
  <2> QED BY <2>3, <2>6, <2>7, <2>8, FabricLimits DEF Kept, e
<1>11. NoneRefused(b)
  BY <1>10 DEF NoneRefused, Kept
<1> DEFINE E == {DeviceAt(a, q) : q \in Kept(a)}
           F == {DeviceAt(b, p) : p \in Kept(b)}
<1>12. E = F
  <2>1. Kept(a) = Offered(a) /\ Kept(b) = Offered(b)
    BY <1>1, <1>11 DEF NoneRefused
  <2>2. \A p \in Offered(b) : DeviceAt(b, p) \in E
    BY <2>1, <1>5
  <2>3. \A q \in Offered(a) : DeviceAt(a, q) \in F
    BY <2>1, <1>5, <1>6
  <2> QED BY <2>1, <2>2, <2>3
<1>13. BuildFabric(a).endpoints = E /\ ValidGraph(E)
  BY <1>1 DEF BuildFabric
<1> HIDE DEF E, F
<1>14. BuildFabric(a) = [valid |-> TRUE, endpoints |-> E]
  BY <1>1, <1>13 DEF BuildFabric, E
<1>15. BuildFabric(b) = [valid |-> TRUE, endpoints |-> E]
  BY <1>4, <1>11, <1>12, <1>13 DEF BuildFabric, F
<1> QED BY <1>14, <1>15

\* Whatever the observations and limits, a valid fabric does not depend on the order
\* of the informer store's list.
THEOREM ValidFabricAlwaysUnordered == Spec => []ValidFabricUnordered
<1>1. ReportsInv => ValidFabricUnordered
  BY OrderIrrelevant DEF ValidFabricUnordered
<1> QED BY <1>1, ReportsInit, ReportsStep, PTL DEF Spec

-----------------------------------------------------------------------------
(***************************************************************************)
(* The fabric in memory.                                                   *)
(***************************************************************************)

FabricInv ==
  /\ fabric.valid \in BOOLEAN
  /\ \A e \in fabric.endpoints : e \in Endpoint /\ e.ep \in Nat
  /\ Unique(fabric.endpoints)
  /\ fabric.valid => /\ Reciprocal(fabric.endpoints)
                     /\ \A e \in fabric.endpoints : e.fabric # "" /\ e.ring # ""

LEMMA FabricInit == Init => FabricInv
BY DEF Init, FabricInv, Unique

LEMMA FabricStep == ReportsInv /\ FabricInv /\ [Next]_vars => FabricInv'
<1> SUFFICES ASSUME ReportsInv, FabricInv, [Next]_vars PROVE FabricInv'
  OBVIOUS
<1>1. CASE reconcileFabric
  <2>1. PICK nodes \in StoreLists : fabric' = BuildFabric(nodes)
    BY <1>1 DEF reconcileFabric
  <2>2. Listed(nodes)
    BY StoreListed
  <2>3. BuildFabric(nodes).valid \in BOOLEAN
    BY DEF BuildFabric
  <2>4. \A e \in fabric'.endpoints : e \in Endpoint /\ e.ep \in Nat
    BY <2>1, <2>2, KeptReported
  <2>5. Unique(fabric'.endpoints)
    BY <2>1, <2>2, KeptUnique
  <2>6. fabric'.valid => /\ Reciprocal(fabric'.endpoints)
                         /\ \A e \in fabric'.endpoints : e.fabric # "" /\ e.ring # ""
    BY <2>1, <2>2, ValidReciprocal
  <2>7. Endpoint' = Endpoint
    BY DEF Endpoint
  <2> QED BY <2>1, <2>3, <2>4, <2>5, <2>6, <2>7 DEF FabricInv
<1>2. CASE UNCHANGED fabric
  BY <1>2 DEF FabricInv, Endpoint
<1>3. reconcileFabric \/ UNCHANGED fabric
  BY DEF Next, NodeReports, SolveContext, Cancel, chooseRank, visit, exhausted,
         backtrack, notFound, leavePending, record, vars
<1> QED BY <1>1, <1>2, <1>3

\* With reciprocal links, a part of a selection that no link leaves is one that no
\* link enters, so the rest is closed as well.
LEMMA ComplementClosed ==
  ASSUME NEW E, Reciprocal(E), NEW S \in SUBSET E, NEW T \in SUBSET S, Closed(T, S)
  PROVE  Closed(S \ T, S)
<1> SUFFICES ASSUME NEW e \in S \ T, NEW f \in S, f.ep \in e.links, f \in T
             PROVE  FALSE
  BY DEF Closed
<1>1. e.ep \in f.links
  BY DEF Reciprocal
<1>2. e \in T
  BY <1>1 DEF Closed
<1> QED BY <1>2

\* The search visits the whole selection from any start exactly if the selection
\* cannot be divided.
LEMMA SeenUndivided ==
  ASSUME NEW E, Reciprocal(E), NEW S \in SUBSET E, NEW a \in S
  PROVE  Seen(a, S) = S <=> ~Divided(S)
<1>1. ASSUME Seen(a, S) = S, NEW T \in (SUBSET S) \ {{}, S},
             \A e \in T, f \in S \ T : f.ep \notin e.links /\ e.ep \notin f.links
      PROVE  FALSE
  <2>1. Closed(T, S) /\ Closed(S \ T, S)
    BY <1>1 DEF Closed
  <2>2. CASE a \in T
    BY <1>1, <2>1, <2>2 DEF Seen
  <2>3. CASE a \notin T
    <3>1. \A e \in S : e \in S \ T
      BY <1>1, <2>1, <2>3 DEF Seen
    <3> QED BY <3>1
  <2> QED BY <2>2, <2>3
<1>2. ASSUME ~Divided(S), NEW T \in SUBSET S, a \in T, Closed(T, S)
      PROVE  T = S
  <2> SUFFICES ASSUME T # S PROVE FALSE
    OBVIOUS
  <2>1. Closed(S \ T, S)
    BY <1>2, ComplementClosed
  <2>2. \A e \in T, f \in S \ T : f.ep \notin e.links /\ e.ep \notin f.links
    BY <1>2, <2>1 DEF Closed
  <2>3. T \in (SUBSET S) \ {{}, S}
    BY <1>2
  <2> QED BY <1>2, <2>2, <2>3 DEF Divided
<1>3. (\A T \in SUBSET S : a \in T /\ Closed(T, S) => T = S) => Seen(a, S) = S
  BY DEF Seen
<1> QED BY <1>1, <1>2, <1>3 DEF Divided

\* Whichever endpoint connected starts from, its answer is the same, for every
\* set of reports and every graph BuildFabric calls valid.
THEOREM SearchStartIrrelevant == Spec => []StartIrrelevant
<1>1. FabricInv => StartIrrelevant
  <2> SUFFICES ASSUME FabricInv, fabric.valid,
                      NEW S \in SUBSET fabric.endpoints, NEW a \in S, NEW b \in S,
                      connected(S, a)
               PROVE  connected(S, b)
    BY DEF StartIrrelevant
  <2>1. Seen(b, S) = S
    BY SeenUndivided DEF FabricInv, connected
  <2> QED BY <2>1 DEF connected
<1> QED BY <1>1, ReportsInit, ReportsStep, FabricInit, FabricStep, PTL DEF Spec

-----------------------------------------------------------------------------
(***************************************************************************)
(* The search.  t are the combinations not yet visited of every rank being *)
(* chosen, a the choices made, x their devices, and K the choices that     *)
(* suit each rank.                                                         *)
(***************************************************************************)

\* The choices made suit their ranks and share no device; of every rank only
\* choices that come later in the order, and that share no device with the
\* ranks before it, are left.
Prefix(K, t, a, x) ==
  /\ \A i \in DOMAIN t : t[i] \subseteq K[i]
  /\ \A i \in DOMAIN a : a[i] \in K[i]
  /\ x = UNION {ChoiceIDs(a[i]) : i \in DOMAIN a}
  /\ \A i, j \in DOMAIN a : i < j => ChoiceIDs(a[i]) \cap ChoiceIDs(a[j]) = {}
  /\ \A i \in DOMAIN a, j \in DOMAIN t : i < j => \A c \in t[j] : ChoiceIDs(a[i]) \cap ChoiceIDs(c) = {}
  /\ \A i \in DOMAIN t \cap DOMAIN a : \A c \in t[i] : Before(a[i], c)

\* The first i ranks of the assignment s are chosen.
Agrees(s, a, i) == \A j \in 1..i : a[j] = s[j]

\* The assignment s is still to come: at some rank it goes on with a combination not
\* yet visited.
Diverges(s, t, a) == \E i \in DOMAIN t : Agrees(s, a, i - 1) /\ s[i] \in t[i]

LEMMA FrontOf ==
  ASSUME NEW X, NEW s \in Seq(X), s # <<>>
  PROVE  /\ Front(s) \in Seq(X) /\ Len(Front(s)) = Len(s) - 1 /\ Len(s) \in Nat /\ Len(s) > 0
         /\ DOMAIN s = 1..Len(s) /\ DOMAIN Front(s) = 1..(Len(s) - 1)
         /\ \A i \in DOMAIN Front(s) : Front(s)[i] = s[i]
         /\ Last(s) = s[Len(s)] /\ Last(s) \in X
<1>1. Len(s) \in Nat /\ DOMAIN s = 1..Len(s) /\ Len(s) > 0 /\ \A i \in 1..Len(s) : s[i] \in X
  OBVIOUS
<1>2. Front(s) = [i \in 1..(Len(s) - 1) |-> s[i]]
  BY <1>1 DEF Front
<1>3. Front(s) \in Seq(X) /\ Len(Front(s)) = Len(s) - 1
  BY <1>1 DEF Front
<1>4. Last(s) = s[Len(s)] /\ Last(s) \in X
  BY <1>1 DEF Last
<1> QED BY <1>1, <1>2, <1>3, <1>4

LEMMA AppendTo ==
  ASSUME NEW X, NEW s \in Seq(X), NEW v \in X
  PROVE  /\ Append(s, v) \in Seq(X) /\ Len(Append(s, v)) = Len(s) + 1 /\ Len(s) \in Nat
         /\ DOMAIN s = 1..Len(s) /\ DOMAIN Append(s, v) = 1..(Len(s) + 1)
         /\ \A i \in DOMAIN s : Append(s, v)[i] = s[i]
         /\ Append(s, v)[Len(s) + 1] = v
OBVIOUS

\* chooseRank reaches the next rank.
LEMMA OpenRank ==
  ASSUME NEW K, NEW t \in Seq(SUBSET Choice), NEW a \in Seq(Choice), NEW x,
         Prefix(K, t, a, x), Len(a) = Len(t),
         NEW C \in SUBSET Choice, C \subseteq K[Len(t) + 1],
         \A c \in C : ChoiceIDs(c) \cap x = {}
  PROVE  Prefix(K, Append(t, C), a, x)
<1> DEFINE u == Append(t, C)
<1>1. /\ Len(t) \in Nat /\ DOMAIN t = 1..Len(t) /\ DOMAIN u = 1..(Len(t) + 1) /\ DOMAIN a = 1..Len(t)
      /\ \A i \in DOMAIN t : u[i] = t[i]
      /\ u[Len(t) + 1] = C
  BY AppendTo
<1>2. \A i \in DOMAIN a : ChoiceIDs(a[i]) \subseteq x
  BY DEF Prefix
<1> HIDE DEF u
<1>3. \A i \in DOMAIN u : i \in DOMAIN t \/ i = Len(t) + 1
  BY <1>1
<1>4. \A i \in DOMAIN u : u[i] \subseteq K[i]
  BY <1>1, <1>3 DEF Prefix
<1>5. \A i \in DOMAIN a, j \in DOMAIN u : i < j => \A c \in u[j] : ChoiceIDs(a[i]) \cap ChoiceIDs(c) = {}
  BY <1>1, <1>2, <1>3 DEF Prefix
<1>6. \A i \in DOMAIN u \cap DOMAIN a : \A c \in u[i] : Before(a[i], c)
  BY <1>1, <1>3 DEF Prefix
<1> QED BY <1>4, <1>5, <1>6 DEF Prefix, u

\* A combination is handed to visit.
LEMMA TakeChoice ==
  ASSUME NEW K, NEW t \in Seq(SUBSET Choice), NEW a \in Seq(Choice), NEW x,
         Prefix(K, t, a, x), t # <<>>, Len(a) = Len(t) - 1,
         NEW c \in t[Len(t)], \A d \in t[Len(t)] \ {c} : Before(c, d)
  PROVE  Prefix(K, [t EXCEPT ![Len(t)] = @ \ {c}], Append(a, c), x \cup ChoiceIDs(c))
<1> DEFINE k == Len(t)
           u == [t EXCEPT ![Len(t)] = @ \ {c}]
           b == Append(a, c)
<1>1. k \in Nat /\ k > 0 /\ DOMAIN t = 1..k /\ c \in Choice
  BY FrontOf
<1>2. /\ DOMAIN u = 1..k /\ u[k] = t[k] \ {c}
      /\ \A i \in DOMAIN t : u[i] \subseteq t[i] /\ (i # k => u[i] = t[i])
  BY <1>1
<1>3. /\ DOMAIN a = 1..(k - 1) /\ DOMAIN b = 1..k /\ b[k] = c
      /\ \A i \in DOMAIN a : b[i] = a[i]
  BY <1>1, AppendTo
<1> HIDE DEF k, u, b
<1>4. /\ c \in t[k] /\ \A d \in u[k] : Before(c, d)
      /\ \A i \in DOMAIN b : (i \in DOMAIN a /\ i < k) \/ i = k
  BY <1>1, <1>2, <1>3 DEF k
<1>5. \A i \in DOMAIN u : u[i] \subseteq K[i]
  BY <1>1, <1>2 DEF Prefix
<1>6. \A i \in DOMAIN b : b[i] \in K[i]
  BY <1>1, <1>3, <1>4 DEF Prefix
<1>7. x \cup ChoiceIDs(c) = UNION {ChoiceIDs(b[i]) : i \in DOMAIN b}
  <2>1. x = UNION {ChoiceIDs(a[i]) : i \in DOMAIN a}
    BY DEF Prefix
  <2>2. k \in DOMAIN b /\ DOMAIN a \subseteq DOMAIN b
    BY <1>1, <1>3
  <2> QED BY <2>1, <2>2, <1>3, <1>4
<1>8. \A i, j \in DOMAIN b : i < j => ChoiceIDs(b[i]) \cap ChoiceIDs(b[j]) = {}
  <2> SUFFICES ASSUME NEW i \in DOMAIN b, NEW j \in DOMAIN b, i < j
               PROVE  ChoiceIDs(b[i]) \cap ChoiceIDs(b[j]) = {}
    OBVIOUS
  <2>1. i \in DOMAIN a /\ b[i] = a[i]
    BY <1>1, <1>3
  <2>2. CASE j = k
    <3>1. k \in DOMAIN t
      BY <1>1
    <3> QED BY <2>1, <2>2, <3>1, <1>3, <1>4 DEF Prefix
  <2>3. CASE j \in DOMAIN a
    BY <2>1, <2>3, <1>3 DEF Prefix
  <2> QED BY <1>4, <2>2, <2>3
<1>9. \A i \in DOMAIN b, j \in DOMAIN u : i < j => \A d \in u[j] : ChoiceIDs(b[i]) \cap ChoiceIDs(d) = {}
  <2> SUFFICES ASSUME NEW i \in DOMAIN b, NEW j \in DOMAIN u, i < j, NEW d \in u[j]
               PROVE  ChoiceIDs(b[i]) \cap ChoiceIDs(d) = {}
    OBVIOUS
  <2>1. i \in DOMAIN a /\ b[i] = a[i] /\ j \in DOMAIN t /\ d \in t[j]
    BY <1>1, <1>2, <1>3
  <2> QED BY <2>1 DEF Prefix
<1>10. \A i \in DOMAIN u \cap DOMAIN b : \A d \in u[i] : Before(b[i], d)
  BY <1>1, <1>2, <1>3, <1>4 DEF Prefix
<1> QED BY <1>5, <1>6, <1>7, <1>8, <1>9, <1>10 DEF Prefix, u, b

\* chooseRank returns from a rank.
LEMMA CloseRank ==
  ASSUME NEW K, NEW t \in Seq(SUBSET Choice), NEW a \in Seq(Choice), NEW x,
         Prefix(K, t, a, x), t # <<>>
  PROVE  Prefix(K, Front(t), a, x)
<1> DEFINE u == Front(t)
<1>1. DOMAIN u \subseteq DOMAIN t /\ \A i \in DOMAIN u : u[i] = t[i]
  BY FrontOf
<1> HIDE DEF u
<1> QED BY <1>1 DEF Prefix, u

\* A combination is given back.
LEMMA GiveBack ==
  ASSUME NEW K, NEW t \in Seq(SUBSET Choice), NEW a \in Seq(Choice), NEW x,
         Prefix(K, t, a, x), a # <<>>
  PROVE  Prefix(K, t, Front(a), x \ ChoiceIDs(Last(a)))
<1> DEFINE b == Front(a)
           k == Len(a)
<1>1. /\ k \in Nat /\ k > 0 /\ DOMAIN a = 1..k /\ DOMAIN b = 1..(k - 1)
      /\ \A i \in DOMAIN b : b[i] = a[i]
      /\ Last(a) = a[k]
  BY FrontOf
<1> HIDE DEF b, k
<1>2. x \ ChoiceIDs(Last(a)) = UNION {ChoiceIDs(b[i]) : i \in DOMAIN b}
  <2>1. x = UNION {ChoiceIDs(a[i]) : i \in DOMAIN a}
    BY DEF Prefix
  <2>2. \A i \in DOMAIN b : ChoiceIDs(b[i]) \cap ChoiceIDs(a[k]) = {}
    <3> SUFFICES ASSUME NEW i \in DOMAIN b PROVE ChoiceIDs(b[i]) \cap ChoiceIDs(a[k]) = {}
      OBVIOUS
    <3>1. i \in DOMAIN a /\ k \in DOMAIN a /\ i < k /\ b[i] = a[i]
      BY <1>1
    <3> QED BY <3>1 DEF Prefix
  <2>3. \A i \in DOMAIN a : i \in DOMAIN b \/ i = k
    BY <1>1
  <2>4. DOMAIN b \subseteq DOMAIN a
    BY <1>1
  <2> QED BY <2>1, <2>2, <2>3, <2>4, <1>1
<1>3. DOMAIN b \subseteq DOMAIN a
  BY <1>1
<1> QED BY <1>1, <1>2, <1>3 DEF Prefix, b

\* The same steps, for an assignment that is still to come.
LEMMA OpenRankCovers ==
  ASSUME NEW t \in Seq(SUBSET Choice), NEW a \in Seq(Choice), Len(a) = Len(t),
         NEW C \in SUBSET Choice, NEW s,
         Diverges(s, t, a) \/ (Agrees(s, a, Len(a)) /\ s[Len(t) + 1] \in C)
  PROVE  Diverges(s, Append(t, C), a)
<1> DEFINE u == Append(t, C)
<1>1. /\ Len(t) \in Nat /\ DOMAIN t = 1..Len(t) /\ DOMAIN u = 1..(Len(t) + 1)
      /\ \A i \in DOMAIN t : u[i] = t[i]
      /\ u[Len(t) + 1] = C
  BY AppendTo
<1> HIDE DEF u
<1>2. CASE Diverges(s, t, a)
  BY <1>1, <1>2 DEF Diverges, u
<1>3. CASE Agrees(s, a, Len(a)) /\ s[Len(t) + 1] \in C
  <2>1. Len(t) + 1 \in DOMAIN u /\ (Len(t) + 1) - 1 = Len(a)
    BY <1>1
  <2> QED BY <1>1, <1>3, <2>1 DEF Diverges, u
<1> QED BY <1>2, <1>3

LEMMA TakeChoiceCovers ==
  ASSUME NEW t \in Seq(SUBSET Choice), NEW a \in Seq(Choice), t # <<>>, Len(a) = Len(t) - 1,
         NEW c \in t[Len(t)], NEW s, Diverges(s, t, a)
  PROVE  \/ Diverges(s, [t EXCEPT ![Len(t)] = @ \ {c}], Append(a, c))
         \/ Agrees(s, Append(a, c), Len(t))
<1> DEFINE k == Len(t)
           u == [t EXCEPT ![Len(t)] = @ \ {c}]
           b == Append(a, c)
<1>1. k \in Nat /\ k > 0 /\ DOMAIN t = 1..k /\ c \in Choice
  BY FrontOf
<1>2. DOMAIN u = 1..k /\ u[k] = t[k] \ {c} /\ \A i \in DOMAIN t : i # k => u[i] = t[i]
  BY <1>1
<1>3. DOMAIN a = 1..(k - 1) /\ DOMAIN b = 1..k /\ b[k] = c /\ \A i \in DOMAIN a : b[i] = a[i]
  BY <1>1, AppendTo
<1> HIDE DEF k, u, b
<1>4. PICK i \in DOMAIN t : Agrees(s, a, i - 1) /\ s[i] \in t[i]
  BY DEF Diverges
<1>5. Agrees(s, b, i - 1)
  BY <1>1, <1>3, <1>4 DEF Agrees
<1>6. CASE s[i] \in u[i]
  BY <1>1, <1>2, <1>5, <1>6 DEF Diverges, u, b
<1>7. CASE s[i] \notin u[i]
  <2>1. i = k /\ s[k] = c
    BY <1>2, <1>4, <1>7
  <2>2. Agrees(s, b, k)
    BY <1>1, <1>3, <1>5, <2>1 DEF Agrees
  <2> QED BY <2>2 DEF b, k
<1> QED BY <1>6, <1>7

LEMMA CloseRankCovers ==
  ASSUME NEW t \in Seq(SUBSET Choice), NEW a, t # <<>>, Last(t) = {}, NEW s, Diverges(s, t, a)
  PROVE  Diverges(s, Front(t), a)
<1> DEFINE u == Front(t)
<1>1. /\ Len(t) \in Nat /\ Len(t) > 0 /\ DOMAIN t = 1..Len(t) /\ DOMAIN u = 1..(Len(t) - 1)
      /\ \A i \in DOMAIN u : u[i] = t[i]
      /\ t[Len(t)] = {}
  BY FrontOf
<1>2. PICK i \in DOMAIN t : Agrees(s, a, i - 1) /\ s[i] \in t[i]
  BY DEF Diverges
<1> HIDE DEF u
<1>3. i \in DOMAIN u
  BY <1>1, <1>2
<1> QED BY <1>1, <1>2, <1>3 DEF Diverges, u

LEMMA GiveBackCovers ==
  ASSUME NEW t \in Seq(SUBSET Choice), NEW a \in Seq(Choice), a # <<>>, Len(a) = Len(t),
         NEW s, Diverges(s, t, a)
  PROVE  Diverges(s, t, Front(a))
<1> DEFINE b == Front(a)
<1>1. /\ Len(t) \in Nat /\ DOMAIN t = 1..Len(t) /\ DOMAIN b = 1..(Len(t) - 1)
      /\ \A i \in DOMAIN b : b[i] = a[i]
  BY FrontOf
<1>2. PICK i \in DOMAIN t : Agrees(s, a, i - 1) /\ s[i] \in t[i]
  BY DEF Diverges
<1> HIDE DEF b
<1>3. Agrees(s, b, i - 1)
  BY <1>1, <1>2 DEF Agrees
<1> QED BY <1>2, <1>3 DEF Diverges, b

-----------------------------------------------------------------------------
(***************************************************************************)
(* What the ranks of the workload are given.                               *)
(***************************************************************************)

SuitsAt == [i \in DOMAIN work.ranks |-> Suits(work.ranks[i])]

LEMMA SuitsAreChoices ==
  ASSUME FabricInv, NEW rank
  PROVE  Suits(rank) \subseteq Choice
<1>1. fabric.endpoints \subseteq Endpoint
  BY DEF FabricInv
<1> QED BY <1>1 DEF Suits, Choice

\* The combinations of a rank are the choices that suit it and avoid the devices of
\* the ranks before it.
LEMMA CombinationsAreSuits ==
  ASSUME NEW rank, rank.count \in Int
  PROVE  Combinations(work, rank, reserved \cup selected) =
           {c \in Suits(rank) : ChoiceIDs(c) \cap selected = {}}
<1> DEFINE C == Combinations(work, rank, reserved \cup selected)
<1>1. rankCount(rank) = (IF rank.count > 0 THEN rank.count ELSE 1) /\ rankCount(rank) # 0
  BY DEF rankCount
<1>2. ASSUME NEW c \in C PROVE c \in Suits(rank) /\ ChoiceIDs(c) \cap selected = {}
  <2>1. /\ c \in [node : Nodes, devs : SUBSET candidates(work, rank, reserved \cup selected)]
        /\ Cardinality(c.devs) = rankCount(rank) /\ \A e \in c.devs : e.node = c.node
    BY DEF Combinations
  <2>2. \A e \in c.devs : /\ e \in fabric.endpoints /\ DeviceID(e) \notin reserved
                          /\ DeviceID(e) \notin selected
                          /\ matches(rank, e) /\ matchesTopology(work, e)
    BY <2>1 DEF candidates
  <2>3. c.devs # {}
    BY <2>1, <1>1, FS_EmptySet
  <2>4. {e.node : e \in c.devs} = {c.node}
    BY <2>1, <2>3
  <2>5. c \in [node : Nodes, devs : SUBSET {e \in fabric.endpoints : DeviceID(e) \notin reserved}]
    BY <2>1, <2>2
  <2> QED BY <1>1, <2>1, <2>2, <2>4, <2>5 DEF Suits, ChoiceIDs
<1>3. ASSUME NEW c \in Suits(rank), ChoiceIDs(c) \cap selected = {} PROVE c \in C
  <2>1. /\ c \in [node : Nodes, devs : SUBSET {e \in fabric.endpoints : DeviceID(e) \notin reserved}]
        /\ Cardinality(c.devs) = rankCount(rank) /\ {e.node : e \in c.devs} = {c.node}
        /\ \A e \in c.devs : matches(rank, e) /\ matchesTopology(work, e)
    BY <1>1 DEF Suits
  <2>2. \A e \in c.devs : e \in candidates(work, rank, reserved \cup selected)
    BY <2>1, <1>3 DEF candidates, ChoiceIDs
  <2>3. \A e \in c.devs : e.node = c.node
    BY <2>1
  <2>4. c \in [node : Nodes, devs : SUBSET candidates(work, rank, reserved \cup selected)]
    BY <2>1, <2>2
  <2> QED BY <2>1, <2>3, <2>4 DEF Combinations
<1> QED BY <1>2, <1>3

\* When every rank is chosen, the assignment is a solution exactly if connected says
\* so, from any start.
LEMMA ConnectedSolves ==
  ASSUME FabricInv, fabric.valid, work \in Workloads, assign \in Seq(Choice),
         Prefix(SuitsAt, todo, assign, selected), Len(assign) = Len(work.ranks)
  PROVE  /\ \A start \in Picked(assign) : connected(Picked(assign), start) <=> assign \in Solutions
         /\ assign \in Solutions => Picked(assign) # {}
<1> DEFINE S == Picked(assign)
<1>1. DOMAIN assign = DOMAIN work.ranks /\ Len(assign) \in Nat /\ DOMAIN assign = 1..Len(assign)
  BY RanksAreLists
<1>2. \A i \in DOMAIN assign : assign[i] \in Suits(work.ranks[i])
  BY <1>1 DEF Prefix, SuitsAt
<1>3. S \in SUBSET fabric.endpoints
  BY <1>2 DEF Picked, Suits
<1>4. \A i, j \in DOMAIN assign : i # j => ChoiceIDs(assign[i]) \cap ChoiceIDs(assign[j]) = {}
  <2> SUFFICES ASSUME NEW i \in DOMAIN assign, NEW j \in DOMAIN assign, i # j
               PROVE  ChoiceIDs(assign[i]) \cap ChoiceIDs(assign[j]) = {}
    OBVIOUS
  <2>1. \A k, l \in DOMAIN assign : k < l => ChoiceIDs(assign[k]) \cap ChoiceIDs(assign[l]) = {}
    BY DEF Prefix
  <2>2. i < j \/ j < i
    BY <1>1
  <2> QED BY <2>1, <2>2
<1>5. assign \in [DOMAIN work.ranks -> UNION {Suits(work.ranks[i]) : i \in DOMAIN work.ranks}]
  BY <1>1, <1>2
<1>6. assign \in Solutions <=>
        /\ \E e \in S : \A f \in S : f.fabric = e.fabric /\ f.ring = e.ring
        /\ ~Divided(S)
  BY <1>1, <1>2, <1>4, <1>5 DEF Solutions
<1> HIDE DEF S
<1>7. ASSUME NEW start \in S PROVE connected(S, start) <=> assign \in Solutions
  <2>1. Seen(start, S) = S <=> ~Divided(S)
    BY <1>3, SeenUndivided DEF FabricInv
  <2> QED BY <2>1, <1>6 DEF connected
<1> QED BY <1>6, <1>7 DEF S

-----------------------------------------------------------------------------
(***************************************************************************)
(* The inductive invariant of the search.                                  *)
(***************************************************************************)

Searching == pc \in {"rank", "next", "back", "found"}

\* How far the search is: chooseRank is called with one choice per open rank, its
\* loop runs with one choice less.
Depth == Len(assign) = (IF pc = "next" THEN Len(todo) - 1 ELSE Len(todo))

\* No assignment is lost: unless it is cancelled, the search has every one still to
\* come, or has made all its choices.
NothingLost ==
  /\ pc \in {"next", "back"} /\ ~cancelled => \A s \in Solutions : Diverges(s, todo, assign)
  /\ (pc = "rank" /\ ~cancelled) \/ pc = "found" =>
       \A s \in Solutions : Diverges(s, todo, assign) \/ Agrees(s, assign, Len(assign))

SearchInv ==
  /\ pc \in {"idle", "rank", "next", "back", "found", "none", "error", "placed"}
  /\ cancelled \in BOOLEAN
  /\ work \in Workloads \cup {NoWork}
  /\ reserved \in Reservations \cup {{}}
  /\ changes \in 0..MaxChanges
  /\ todo \in Seq(SUBSET Choice) /\ assign \in Seq(Choice)
  /\ ~Searching => todo = <<>> /\ assign = <<>> /\ selected = {}
  /\ Searching => /\ fabric.valid /\ work \in Workloads
                  /\ Len(todo) <= Len(work.ranks) /\ Depth
                  /\ Prefix(SuitsAt, todo, assign, selected)
  /\ NothingLost
  /\ pc = "found" => assign \in Solutions /\ Len(assign) = Len(work.ranks)
  /\ pc = "none" => Solutions = {}

\* The search runs on what it was given.
LEMMA SearchInputs ==
  ASSUME UNCHANGED <<fabric, work, reserved>>
  PROVE  SuitsAt' = SuitsAt /\ Solutions' = Solutions
<1>1. ASSUME NEW rank PROVE Suits(rank)' = Suits(rank)
  BY DEF Suits
<1>2. SuitsAt' = SuitsAt
  BY <1>1 DEF SuitsAt
<1>3. Solutions' = Solutions
  BY DEF Solutions, Suits
<1> QED BY <1>2, <1>3

LEMMA SearchInit == Init => SearchInv
<1> SUFFICES ASSUME Init PROVE SearchInv
  OBVIOUS
<1>1. pc = "idle" /\ ~Searching /\ todo = <<>> /\ assign = <<>>
  BY DEF Init, Searching
<1>2. NothingLost
  BY <1>1 DEF NothingLost
<1>3. changes \in 0..MaxChanges
  BY PlacementLimits DEF Init
<1>4. todo \in Seq(SUBSET Choice) /\ assign \in Seq(Choice)
  BY <1>1
<1> QED BY <1>1, <1>2, <1>3, <1>4 DEF Init, SearchInv

\* The steps of the search, one by one.
LEMMA chooseRankKeeps ==
  ASSUME FabricInv, SearchInv, chooseRank
  PROVE  SearchInv'
<1>1. /\ pc = "rank" /\ Searching /\ fabric.valid /\ work \in Workloads
      /\ Len(assign) = Len(todo) /\ Prefix(SuitsAt, todo, assign, selected)
      /\ todo \in Seq(SUBSET Choice) /\ assign \in Seq(Choice) /\ Len(todo) \in Nat
      /\ Len(todo) <= Len(work.ranks)
      /\ UNCHANGED <<report, fabric, work, reserved, cancelled, assign, selected, placed, changes>>
  BY DEF chooseRank, SearchInv, Searching, Depth
<1>2. SuitsAt' = SuitsAt /\ Solutions' = Solutions
  BY <1>1, SearchInputs
<1>3. DOMAIN work.ranks = 1..Len(work.ranks) /\ Len(work.ranks) \in Nat
  BY <1>1, RanksAreLists
<1>4. CASE cancelled
  <2>1. pc' = "back" /\ todo' = todo /\ cancelled'
    BY <1>1, <1>4 DEF chooseRank
  <2> QED BY <1>1, <1>2, <2>1 DEF SearchInv, Searching, Depth, NothingLost
<1>5. CASE ~cancelled /\ Len(todo) = Len(work.ranks)
  <2>0. todo' = todo /\ ~cancelled'
    BY <1>1, <1>3, <1>5 DEF chooseRank
  <2>1. CASE assign \in Solutions
    <3>1. pc' = "found"
      BY <1>1, <1>3, <1>5, <2>1, ConnectedSolves DEF chooseRank
    <3> QED BY <1>1, <1>2, <1>5, <2>0, <2>1, <3>1 DEF SearchInv, Searching, Depth, NothingLost
  <2>2. CASE assign \notin Solutions
    <3>1. pc' = "back"
      BY <1>1, <1>3, <1>5, <2>2, ConnectedSolves DEF chooseRank
    <3>2. ASSUME NEW s \in Solutions PROVE Diverges(s, todo, assign)
      <4>1. CASE Agrees(s, assign, Len(assign))
        <5>1. s \in [DOMAIN work.ranks -> UNION {Suits(work.ranks[i]) : i \in DOMAIN work.ranks}]
          BY DEF Solutions
        <5>2. DOMAIN assign = DOMAIN s /\ \A i \in DOMAIN s : assign[i] = s[i]
          BY <1>1, <1>3, <1>5, <4>1, <5>1 DEF Agrees
        <5>3. s = [i \in DOMAIN s |-> s[i]] /\ assign = [i \in DOMAIN assign |-> assign[i]]
          BY <1>1, <5>1
        <5> QED BY <2>2, <5>2, <5>3
      <4>2. Diverges(s, todo, assign) \/ Agrees(s, assign, Len(assign))
        BY <1>1, <1>5 DEF SearchInv, NothingLost
      <4> QED BY <4>1, <4>2
    <3> QED BY <1>1, <1>2, <1>5, <2>0, <3>1, <3>2 DEF SearchInv, Searching, Depth, NothingLost
  <2> QED BY <2>1, <2>2
<1>6. CASE ~cancelled /\ Len(todo) < Len(work.ranks)
  <2> DEFINE rank == work.ranks[Len(todo) + 1]
             C == Combinations(work, rank, reserved \cup selected)
  <2>1. todo' = Append(todo, C) /\ pc' = "next" /\ ~cancelled'
    BY <1>1, <1>3, <1>6 DEF chooseRank
  <2>2. Len(todo) + 1 \in DOMAIN work.ranks /\ rank.count \in Int
    BY <1>1, <1>3, <1>6, RanksAreLists
  <2>3. C = {c \in Suits(rank) : ChoiceIDs(c) \cap selected = {}}
    BY <2>2, CombinationsAreSuits
  <2>4. C \in SUBSET Choice
    BY <2>3, SuitsAreChoices
  <2>5. SuitsAt[Len(todo) + 1] = Suits(rank)
    BY <2>2 DEF SuitsAt
  <2> HIDE DEF C, rank
  <2>6. Prefix(SuitsAt, Append(todo, C), assign, selected)
    BY <1>1, <2>3, <2>4, <2>5, OpenRank
  <2>7. ASSUME NEW s \in Solutions PROVE Diverges(s, Append(todo, C), assign)
    <3>1. CASE Agrees(s, assign, Len(assign))
      <4>1. /\ DOMAIN s = DOMAIN work.ranks /\ \A i \in DOMAIN s : s[i] \in Suits(work.ranks[i])
            /\ \A i, j \in DOMAIN s : i # j => ChoiceIDs(s[i]) \cap ChoiceIDs(s[j]) = {}
        BY DEF Solutions
      <4>2. s[Len(todo) + 1] \in Suits(rank)
        BY <2>2, <4>1 DEF rank
      <4>3. \A i \in DOMAIN assign : ChoiceIDs(assign[i]) \cap ChoiceIDs(s[Len(todo) + 1]) = {}
        <5> SUFFICES ASSUME NEW i \in DOMAIN assign
                     PROVE  ChoiceIDs(assign[i]) \cap ChoiceIDs(s[Len(todo) + 1]) = {}
          OBVIOUS
        <5>1. i \in 1..Len(assign) /\ i \in DOMAIN s /\ i # Len(todo) + 1
          BY <1>1, <1>3, <1>6, <4>1
        <5>2. assign[i] = s[i]
          BY <3>1, <5>1 DEF Agrees
        <5> QED BY <4>1, <5>1, <5>2, <2>2
      <4>4. ChoiceIDs(s[Len(todo) + 1]) \cap selected = {}
        <5>1. selected = UNION {ChoiceIDs(assign[i]) : i \in DOMAIN assign}
          BY <1>1 DEF Prefix
        <5> QED BY <4>3, <5>1
      <4>5. s[Len(todo) + 1] \in C
        BY <2>3, <4>2, <4>4
      <4> QED BY <1>1, <2>4, <3>1, <4>5, OpenRankCovers
    <3>2. CASE Diverges(s, todo, assign)
      BY <1>1, <2>4, <3>2, OpenRankCovers
    <3>3. Diverges(s, todo, assign) \/ Agrees(s, assign, Len(assign))
      BY <1>1, <1>6 DEF SearchInv, NothingLost
    <3> QED BY <3>1, <3>2, <3>3
  <2>8. Append(todo, C) \in Seq(SUBSET Choice) /\ Len(Append(todo, C)) = Len(todo) + 1
    BY <1>1, <2>4, AppendTo
  <2> QED BY <1>1, <1>2, <1>3, <1>6, <2>1, <2>6, <2>7, <2>8 DEF SearchInv, Searching, Depth, NothingLost
<1> QED BY <1>1, <1>3, <1>4, <1>5, <1>6

LEMMA visitKeeps ==
  ASSUME FabricInv, SearchInv, visit
  PROVE  SearchInv'
<1>1. /\ pc = "next" /\ Searching /\ fabric.valid /\ work \in Workloads /\ ~cancelled
      /\ Len(assign) = Len(todo) - 1 /\ Prefix(SuitsAt, todo, assign, selected)
      /\ todo \in Seq(SUBSET Choice) /\ assign \in Seq(Choice) /\ Len(assign) \in Nat
      /\ Len(todo) <= Len(work.ranks)
      /\ UNCHANGED <<report, fabric, work, reserved, cancelled, placed, changes>>
      /\ pc' = "rank"
  BY DEF visit, SearchInv, Searching, Depth
<1>2. SuitsAt' = SuitsAt /\ Solutions' = Solutions
  BY <1>1, SearchInputs
<1>3. todo # <<>>
  BY <1>1
<1>4. PICK c \in NextChoices(Last(todo)) :
         /\ todo' = [todo EXCEPT ![Len(todo)] = @ \ {c}]
         /\ assign' = Append(assign, c)
         /\ selected' = selected \cup ChoiceIDs(c)
  BY DEF visit
<1>5. /\ Len(todo) \in Nat /\ Len(todo) > 0 /\ DOMAIN todo = 1..Len(todo)
      /\ Last(todo) = todo[Len(todo)] /\ todo[Len(todo)] \in SUBSET Choice
  <2>1. Last(todo) = todo[Len(todo)] /\ Last(todo) \in SUBSET Choice
    BY <1>1, <1>3, FrontOf
  <2>2. Len(todo) \in Nat /\ Len(todo) > 0 /\ DOMAIN todo = 1..Len(todo)
    BY <1>1, <1>3, FrontOf
  <2> QED BY <2>1, <2>2
<1>6. c \in todo[Len(todo)] /\ c \in Choice /\ \A d \in todo[Len(todo)] \ {c} : Before(c, d)
  BY <1>5 DEF NextChoices
<1>7. Prefix(SuitsAt, todo', assign', selected')
  BY <1>1, <1>3, <1>4, <1>6, TakeChoice
<1>8. assign' \in Seq(Choice) /\ Len(assign') = Len(assign) + 1
  BY <1>1, <1>4, <1>6, AppendTo
<1>9. todo' \in Seq(SUBSET Choice) /\ Len(todo') = Len(todo)
  BY <1>1, <1>4, <1>5
<1>10. ASSUME NEW s \in Solutions PROVE Diverges(s, todo', assign') \/ Agrees(s, assign', Len(assign'))
  <2>1. Diverges(s, todo, assign)
    BY <1>1 DEF SearchInv, NothingLost
  <2>2. Len(assign') = Len(todo)
    BY <1>1, <1>8
  <2> QED BY <1>1, <1>3, <1>4, <1>6, <2>1, <2>2, TakeChoiceCovers
<1> QED BY <1>1, <1>2, <1>7, <1>8, <1>9, <1>10 DEF SearchInv, Searching, Depth, NothingLost

LEMMA exhaustedKeeps ==
  ASSUME FabricInv, SearchInv, exhausted
  PROVE  SearchInv'
<1>1. /\ pc = "next" /\ Searching /\ fabric.valid /\ work \in Workloads
      /\ Len(assign) = Len(todo) - 1 /\ Prefix(SuitsAt, todo, assign, selected)
      /\ todo \in Seq(SUBSET Choice) /\ assign \in Seq(Choice) /\ Len(assign) \in Nat
      /\ Len(todo) <= Len(work.ranks)
      /\ UNCHANGED <<report, fabric, work, reserved, cancelled, assign, selected, placed, changes>>
      /\ pc' = "back" /\ todo' = Front(todo)
  BY DEF exhausted, SearchInv, Searching, Depth
<1>2. SuitsAt' = SuitsAt /\ Solutions' = Solutions
  BY <1>1, SearchInputs
<1>3. todo # <<>>
  BY <1>1
<1>4. Front(todo) \in Seq(SUBSET Choice) /\ Len(Front(todo)) = Len(todo) - 1 /\ Len(todo) \in Nat
  BY <1>1, <1>3, FrontOf
<1>5. Prefix(SuitsAt, Front(todo), assign, selected)
  BY <1>1, <1>3, CloseRank
<1>6. ASSUME NEW s \in Solutions, ~cancelled PROVE Diverges(s, Front(todo), assign)
  <2>1. Diverges(s, todo, assign) /\ Last(todo) = {}
    BY <1>1, <1>6 DEF SearchInv, NothingLost, exhausted
  <2> QED BY <1>1, <1>3, <2>1, CloseRankCovers
<1>7. Len(todo') <= Len(work.ranks) /\ Len(assign') = Len(todo')
  <2>1. Len(work.ranks) \in Nat
    BY <1>1, RanksAreLists
  <2> QED BY <1>1, <1>4, <2>1
<1> QED BY <1>1, <1>2, <1>4, <1>5, <1>6, <1>7 DEF SearchInv, Searching, Depth, NothingLost

LEMMA backtrackGivesBack ==
  ASSUME FabricInv, SearchInv, backtrack
  PROVE  SearchInv'
<1>1. /\ pc = "back" /\ Searching /\ fabric.valid /\ work \in Workloads /\ todo # <<>>
      /\ Len(assign) = Len(todo) /\ Prefix(SuitsAt, todo, assign, selected)
      /\ todo \in Seq(SUBSET Choice) /\ assign \in Seq(Choice)
      /\ Len(todo) <= Len(work.ranks)
      /\ UNCHANGED <<report, fabric, work, reserved, cancelled, todo, placed, changes>>
      /\ pc' = "next" /\ assign' = Front(assign) /\ selected' = selected \ ChoiceIDs(Last(assign))
  BY DEF backtrack, SearchInv, Searching, Depth
<1>2. SuitsAt' = SuitsAt /\ Solutions' = Solutions
  BY <1>1, SearchInputs
<1>3. assign # <<>>
  BY <1>1
<1>4. Front(assign) \in Seq(Choice) /\ Len(Front(assign)) = Len(assign) - 1
  BY <1>1, <1>3, FrontOf
<1>5. Prefix(SuitsAt, todo, Front(assign), selected \ ChoiceIDs(Last(assign)))
  BY <1>1, <1>3, GiveBack
<1>6. ASSUME NEW s \in Solutions, ~cancelled PROVE Diverges(s, todo, Front(assign))
  <2>1. Diverges(s, todo, assign)
    BY <1>1, <1>6 DEF SearchInv, NothingLost
  <2> QED BY <1>1, <1>3, <2>1, GiveBackCovers
<1> QED BY <1>1, <1>2, <1>4, <1>5, <1>6 DEF SearchInv, Searching, Depth, NothingLost

LEMMA notFoundKeeps ==
  ASSUME FabricInv, SearchInv, notFound
  PROVE  SearchInv'
<1>1. /\ pc = "back" /\ Searching /\ todo = <<>> /\ Len(assign) = Len(todo)
      /\ assign \in Seq(Choice) /\ Prefix(SuitsAt, todo, assign, selected)
      /\ UNCHANGED <<report, fabric, work, reserved, cancelled, todo, assign, selected, placed, changes>>
      /\ pc' = IF cancelled THEN "error" ELSE "none"
  BY DEF notFound, searchVars, SearchInv, Searching, Depth
<1>2. Solutions' = Solutions
  BY <1>1, SearchInputs
<1>3. assign = <<>>
  BY <1>1
<1>4. selected = {}
  BY <1>1, <1>3 DEF Prefix
<1>5. ~cancelled => Solutions = {}
  BY <1>1 DEF SearchInv, NothingLost, Diverges
<1> QED BY <1>1, <1>2, <1>3, <1>4, <1>5 DEF SearchInv, Searching, NothingLost

LEMMA SolveContextStarts ==
  ASSUME FabricInv, SearchInv, NEW w \in Workloads, NEW r \in Reservations, SolveContext(w, r)
  PROVE  SearchInv'
<1>1. /\ pc = "idle" /\ fabric.valid /\ todo = <<>> /\ assign = <<>> /\ selected = {}
      /\ work' = w /\ reserved' = r /\ cancelled' = FALSE /\ pc' \in {"rank", "error"}
      /\ UNCHANGED <<report, fabric, todo, assign, selected, placed, changes>>
  BY DEF SolveContext, SearchInv, Searching
<1>2. Len(w.ranks) \in Nat
  BY RanksAreLists
<1>3. Prefix(SuitsAt', <<>>, <<>>, {})
  BY DEF Prefix
<1>4. \A s : Agrees(s, <<>>, 0)
  BY DEF Agrees
<1>5. NothingLost'
  BY <1>1, <1>4 DEF NothingLost
<1>6. (Searching => /\ fabric.valid /\ work \in Workloads
                    /\ Len(todo) <= Len(work.ranks) /\ Depth
                    /\ Prefix(SuitsAt, todo, assign, selected))'
  <2>1. fabric'.valid /\ work' \in Workloads /\ Len(todo') <= Len(work'.ranks)
    BY <1>1, <1>2
  <2>2. Depth'
    BY <1>1 DEF Depth
  <2>3. Prefix(SuitsAt', todo', assign', selected')
    BY <1>1, <1>3
  <2> QED BY <2>1, <2>2, <2>3
<1>7. /\ cancelled' \in BOOLEAN /\ work' \in Workloads \cup {NoWork}
      /\ reserved' \in Reservations \cup {{}} /\ changes' \in 0..MaxChanges
      /\ (todo \in Seq(SUBSET Choice))' /\ (assign \in Seq(Choice))'
  BY <1>1 DEF SearchInv, Choice, Endpoint
<1> QED BY <1>1, <1>5, <1>6, <1>7 DEF SearchInv

LEMMA SearchStep == FabricInv /\ SearchInv /\ [Next]_vars => SearchInv'
<1> SUFFICES ASSUME FabricInv, SearchInv, [Next]_vars PROVE SearchInv'
  OBVIOUS
<1> USE DEF SearchInv
<1>1. ASSUME UNCHANGED <<fabric, pc, searchVars>>, changes' \in 0..MaxChanges PROVE SearchInv'
  <2>1. SuitsAt' = SuitsAt /\ Solutions' = Solutions
    BY <1>1, SearchInputs DEF searchVars
  <2>2. NothingLost'
    BY <1>1, <2>1 DEF NothingLost, searchVars
  <2>3. Searching' = Searching /\ Depth' = Depth
    BY <1>1 DEF Searching, Depth, searchVars
  <2> QED BY <1>1, <2>1, <2>2, <2>3 DEF searchVars
<1>2. ASSUME NEW n \in Nodes, NodeReports(n) PROVE SearchInv'
  <2>1. UNCHANGED <<fabric, pc, searchVars>> /\ changes' = changes + 1 /\ changes < MaxChanges
    BY <1>2 DEF NodeReports
  <2>2. changes' \in 0..MaxChanges
    BY <2>1, PlacementLimits
  <2> QED BY <1>1, <2>1, <2>2
<1>3. CASE UNCHANGED vars
  BY <1>1, <1>3 DEF vars
<1>4. CASE reconcileFabric
  BY <1>4 DEF reconcileFabric, searchVars, Searching, NothingLost
<1>5. CASE Cancel
  <2>1. /\ UNCHANGED <<fabric, pc, work, reserved, todo, assign, selected, changes>>
        /\ cancelled' = TRUE
    BY <1>5 DEF Cancel
  <2>2. SuitsAt' = SuitsAt /\ Solutions' = Solutions
    BY <2>1, SearchInputs
  <2>3. NothingLost'
    BY <2>1, <2>2 DEF NothingLost
  <2>4. Searching' = Searching /\ Depth' = Depth
    BY <2>1 DEF Searching, Depth
  <2> QED BY <2>1, <2>2, <2>3, <2>4
<1>6. CASE leavePending
  <2>1. /\ pc' = "idle" /\ work' = NoWork /\ reserved' = {} /\ cancelled' = FALSE
        /\ todo' = <<>> /\ assign' = <<>> /\ selected' = {} /\ changes' = changes
    BY <1>6 DEF leavePending
  <2>2. ~Searching' /\ NothingLost'
    BY <2>1 DEF Searching, NothingLost
  <2>3. (todo \in Seq(SUBSET Choice))' /\ (assign \in Seq(Choice))'
    BY <2>1 DEF Choice, Endpoint
  <2> QED BY <2>1, <2>2, <2>3
<1>7. CASE record
  BY <1>7 DEF record, Searching, NothingLost
<1> QED
  BY <1>2, <1>3, <1>4, <1>5, <1>6, <1>7, chooseRankKeeps, visitKeeps, exhaustedKeeps,
     backtrackGivesBack, notFoundKeeps, SolveContextStarts DEF Next

\* The inductive invariant.
PlacementInv == ReportsInv /\ FabricInv /\ SearchInv

LEMMA PlacementAlways == Spec => []PlacementInv
<1>1. Init => PlacementInv
  BY ReportsInit, FabricInit, SearchInit DEF PlacementInv
<1>2. PlacementInv /\ [Next]_vars => PlacementInv'
  BY ReportsStep, FabricStep, SearchStep DEF PlacementInv
<1> QED BY <1>1, <1>2, PTL DEF Spec

\* Every variable has its type.
THEOREM PlacementTypeCorrect == Spec => []TypeOK
<1>1. PlacementInv => TypeOK
  <2> SUFFICES ASSUME PlacementInv PROVE TypeOK
    OBVIOUS
  <2>1. \A n \in Nodes : \/ report[n] = Absent
                         \/ report[n].state \in {"fresh", "stale"} /\ report[n].raws \in Observations[n]
    BY DEF PlacementInv, ReportsInv, ReportOf
  <2>2. fabric.valid \in BOOLEAN /\ fabric.endpoints \subseteq Endpoint
    BY DEF PlacementInv, FabricInv
  <2>3. SearchInv
    BY DEF PlacementInv
  <2>4. Len(todo) <= Len(work.ranks) /\ Len(assign) <= Len(work.ranks)
    <3>1. Len(work.ranks) \in Nat
      <4>1. CASE work \in Workloads
        BY <4>1, RanksAreLists
      <4>2. CASE work = NoWork
        BY <4>2 DEF NoWork
      <4> QED BY <2>3, <4>1, <4>2 DEF SearchInv
    <3>2. Len(todo) \in Nat /\ Len(assign) \in Nat
      BY <2>3 DEF SearchInv
    <3> QED BY <2>3, <3>1, <3>2 DEF SearchInv, Depth
  <2>5. \A i \in DOMAIN todo : todo[i] \subseteq Choice
    BY <2>3 DEF SearchInv
  <2>6. \A i \in DOMAIN assign : assign[i] \in Choice
    BY <2>3 DEF SearchInv
  <2>7. selected \subseteq {DeviceID(e) : e \in Endpoint}
    <3>1. \A i \in DOMAIN assign : ChoiceIDs(assign[i]) \subseteq {DeviceID(e) : e \in Endpoint}
      BY <2>6 DEF ChoiceIDs, Choice
    <3>2. selected = {} \/ selected = UNION {ChoiceIDs(assign[i]) : i \in DOMAIN assign}
      BY <2>3 DEF SearchInv, Prefix
    <3> QED BY <3>1, <3>2
  <2> QED BY <2>1, <2>2, <2>3, <2>4, <2>5, <2>6, <2>7 DEF TypeOK, SearchInv
<1> QED BY <1>1, PlacementAlways, PTL

\* A search that gives up without being cancelled had nothing to find.
THEOREM NoneAlwaysNone == Spec => []NoneIsNone
<1>1. PlacementInv => NoneIsNone
  BY DEF PlacementInv, SearchInv, NoneIsNone
<1> QED BY <1>1, PlacementAlways, PTL

\* A search that finds an assignment finds the first one.
THEOREM FoundAlwaysFirst == Spec => []FoundIsFirst
<1>1. PlacementInv => FoundIsFirst
  <2> SUFFICES ASSUME SearchInv, pc = "found", NEW s \in Solutions \ {assign}
               PROVE  \E i \in DOMAIN s : Before(assign[i], s[i]) /\ \A j \in 1..(i - 1) : assign[j] = s[j]
    BY DEF PlacementInv, SearchInv, FoundIsFirst
  <2>1. /\ work \in Workloads /\ Prefix(SuitsAt, todo, assign, selected)
        /\ Len(assign) = Len(todo) /\ Len(assign) = Len(work.ranks)
        /\ todo \in Seq(SUBSET Choice) /\ assign \in Seq(Choice)
    BY DEF SearchInv, Searching, Depth
  <2>2. DOMAIN work.ranks = 1..Len(work.ranks) /\ Len(work.ranks) \in Nat
    BY <2>1, RanksAreLists
  <2>3. s \in [DOMAIN work.ranks -> UNION {Suits(work.ranks[i]) : i \in DOMAIN work.ranks}]
    BY DEF Solutions
  <2>4. ~Agrees(s, assign, Len(assign))
    <3> SUFFICES ASSUME Agrees(s, assign, Len(assign)) PROVE FALSE
      OBVIOUS
    <3>1. DOMAIN assign = DOMAIN s /\ \A i \in DOMAIN s : assign[i] = s[i]
      BY <2>1, <2>2, <2>3 DEF Agrees
    <3>2. s = [i \in DOMAIN s |-> s[i]] /\ assign = [i \in DOMAIN assign |-> assign[i]]
      BY <2>1, <2>3
    <3> QED BY <3>1, <3>2
  <2>5. Diverges(s, todo, assign)
    BY <2>4 DEF SearchInv, NothingLost
  <2>6. PICK i \in DOMAIN todo : Agrees(s, assign, i - 1) /\ s[i] \in todo[i]
    BY <2>5 DEF Diverges
  <2>7. i \in DOMAIN assign /\ i \in DOMAIN s
    <3>1. DOMAIN todo = 1..Len(todo) /\ DOMAIN assign = 1..Len(assign)
      <4>1. todo \in Seq(SUBSET Choice) /\ assign \in Seq(Choice)
        BY <2>1
      <4>2. DOMAIN todo = 1..Len(todo)
        BY <4>1
      <4>3. DOMAIN assign = 1..Len(assign)
        BY <4>1
      <4> QED BY <4>2, <4>3
    <3>2. DOMAIN s = 1..Len(work.ranks)
      BY <2>2, <2>3
    <3> QED BY <2>1, <3>1, <3>2
  <2>8. Before(assign[i], s[i])
    BY <2>1, <2>6, <2>7 DEF Prefix
  <2> QED BY <2>6, <2>7, <2>8 DEF Agrees
<1> QED BY <1>1, PlacementAlways, PTL

-----------------------------------------------------------------------------
(***************************************************************************)
(* The generation recorded with an assignment.                             *)
(***************************************************************************)

\* Without a request, the generation stands for everything if no selected endpoint is left,
LEMMA GenerationOfNone ==
  ASSUME NEW E, NEW ids, {e \in E : e.ep \in ids} = {}
  PROVE  WorkloadGeneration(E, "", "", ids) = E
BY DEF WorkloadGeneration

\* and else for the fabric and ring of one that is.
LEMMA GenerationInferred ==
  ASSUME NEW E, \A e \in E : e.ep \in Nat, NEW ids, {e \in E : e.ep \in ids} # {}
  PROVE  \E first \in E :
            /\ first.ep \in ids
            /\ WorkloadGeneration(E, "", "", ids) =
                 {e \in E : first.fabric \in {"", e.fabric} /\ first.ring \in {"", e.ring}}
<1> DEFINE found == {e \in E : e.ep \in ids}
           first == CHOOSE e \in found : \A g \in found : e.ep <= g.ep
           I == {e.ep : e \in found}
<1>1. I \in SUBSET Nat /\ I # {}
  OBVIOUS
<1> HIDE DEF I
<1>2. PICK m \in I : \A x \in I : m <= x
  BY <1>1, LeastNumber
<1>3. \E e \in found : \A g \in found : e.ep <= g.ep
  BY <1>2 DEF I
<1>4. first \in found
  BY <1>3
<1>5. WorkloadGeneration(E, "", "", ids) =
        {e \in E : first.fabric \in {"", e.fabric} /\ first.ring \in {"", e.ring}}
  BY DEF WorkloadGeneration
<1> HIDE DEF first
<1> QED BY <1>4, <1>5

\* The devices of a recorded assignment lie in one fabric and ring, which is the one
\* requested if one was; its generation stands for at least that ring.
PlacedIn(f, r) ==
  LET P == Picked(placed.assign)
  IN  /\ f # "" /\ r # "" /\ work.fabric \in {"", f} /\ work.ring \in {"", r}
      /\ P # {} /\ P \subseteq placed.home
      /\ \A e \in placed.home : e.fabric = f /\ e.ring = r
      /\ placed.home = {e \in placed.gen : e.fabric = f /\ e.ring = r}
      /\ (work.fabric = "") <=> (work.ring = "") => placed.gen = placed.home

PlacedInv == pc = "placed" => \E f, r : PlacedIn(f, r)

LEMMA RecordPlaces ==
  ASSUME PlacementInv, record
  PROVE  PlacedInv'
<1> DEFINE S == Picked(assign)
           E == fabric.endpoints
           ids == {e.ep : e \in S}
<1>1. /\ pc = "found" /\ fabric.valid /\ work \in Workloads /\ assign \in Seq(Choice)
      /\ assign \in Solutions /\ Len(assign) = Len(work.ranks)
      /\ Prefix(SuitsAt, todo, assign, selected)
  BY DEF record, PlacementInv, SearchInv, Searching
<1>2. placed'.assign = assign /\ placed'.gen = Generation /\ placed'.home = Home(S) /\ work' = work
  BY DEF record
<1>3. S # {} /\ \E e \in S : \A g \in S : g.fabric = e.fabric /\ g.ring = e.ring
  <2>1. S # {}
    BY <1>1, ConnectedSolves DEF PlacementInv
  <2> QED BY <1>1, <2>1 DEF Solutions
<1>4. PICK o \in S : \A g \in S : g.fabric = o.fabric /\ g.ring = o.ring
  BY <1>3
<1>5. S \subseteq E /\ \A e \in S : matchesTopology(work, e)
  <2> SUFFICES ASSUME NEW e \in S PROVE e \in E /\ matchesTopology(work, e)
    OBVIOUS
  <2>1. PICK i \in DOMAIN assign : e \in assign[i].devs
    BY DEF Picked
  <2>2. assign[i] \in Suits(work.ranks[i])
    BY <1>1 DEF Solutions
  <2> QED BY <2>1, <2>2 DEF Suits
<1>6. o.fabric # "" /\ o.ring # "" /\ work.fabric \in {"", o.fabric} /\ work.ring \in {"", o.ring}
  BY <1>1, <1>4, <1>5 DEF PlacementInv, FabricInv, matchesTopology
<1>7. Home(S) = {e \in E : e.fabric = o.fabric /\ e.ring = o.ring}
  <2> HIDE DEF S
  <2> QED BY <1>4 DEF Home
<1>8. Generation = WorkloadGeneration(E, work.fabric, work.ring, ids)
  BY <1>1 DEF Generation
<1> HIDE DEF S, E, ids
<1>9. \A e \in E : e.ep \in Nat
  BY DEF PlacementInv, FabricInv, E
<1>10. CASE work.fabric = "" /\ work.ring = ""
  <2>1. {e \in E : e.ep \in ids} # {}
    BY <1>3, <1>5 DEF ids
  <2>2. PICK first \in E : /\ first.ep \in ids
                           /\ WorkloadGeneration(E, "", "", ids) =
                                {e \in E : first.fabric \in {"", e.fabric} /\ first.ring \in {"", e.ring}}
    BY <1>9, <2>1, GenerationInferred, Zenon
  <2>6. Generation = {e \in E : first.fabric \in {"", e.fabric} /\ first.ring \in {"", e.ring}}
    BY <1>8, <1>10, <2>2, Zenon
  <2>3. first \in S
    BY <1>5, <2>2 DEF PlacementInv, FabricInv, Unique, E, ids
  <2>4. Generation = Home(S)
    BY <1>4, <1>6, <1>7, <2>6, <2>3
  <2>5. PlacedIn(o.fabric, o.ring)'
    BY <1>2, <1>3, <1>4, <1>5, <1>6, <1>7, <2>4 DEF PlacedIn, S
  <2> QED BY <2>5 DEF PlacedInv
<1>11. CASE ~(work.fabric = "" /\ work.ring = "")
  <2>1. Generation = {e \in E : work.fabric \in {"", e.fabric} /\ work.ring \in {"", e.ring}}
    <3>1. WorkloadGeneration(E, work.fabric, work.ring, ids) =
            {e \in E : work.fabric \in {"", e.fabric} /\ work.ring \in {"", e.ring}}
      BY <1>11 DEF WorkloadGeneration
    <3> QED BY <3>1, <1>8, Zenon
  <2>2. Home(S) = {e \in Generation : e.fabric = o.fabric /\ e.ring = o.ring}
    BY <1>6, <1>7, <2>1
  <2>3. (work.fabric = "") <=> (work.ring = "") => Generation = Home(S)
    BY <1>6, <1>7, <1>11, <2>1
  <2>4. PlacedIn(o.fabric, o.ring)'
    BY <1>2, <1>3, <1>4, <1>5, <1>6, <1>7, <2>2, <2>3 DEF PlacedIn, S
  <2> QED BY <2>4 DEF PlacedInv
<1> QED BY <1>10, <1>11

LEMMA PlacedAlways == Spec => []PlacedInv
<1>1. Init => PlacedInv
  BY DEF Init, PlacedInv
<1>2. PlacementInv /\ PlacedInv /\ [Next]_vars => PlacedInv'
  <2> SUFFICES ASSUME PlacementInv, PlacedInv, [Next]_vars, pc' = "placed", ~record
               PROVE  PlacedInv'
    BY RecordPlaces DEF PlacedInv
  <2>1. UNCHANGED <<pc, work, placed>>
    BY DEF Next, NodeReports, reconcileFabric, SolveContext, Cancel, chooseRank, visit, exhausted,
           backtrack, notFound, leavePending, vars, searchVars
  <2>2. PICK f, r : PlacedIn(f, r)
    BY <2>1 DEF PlacedInv
  <2>3. PlacedIn(f, r)'
    BY <2>1, <2>2 DEF PlacedIn
  <2> QED BY <2>3 DEF PlacedInv
<1> QED BY <1>1, <1>2, PlacementAlways, PTL DEF Spec

\* What Home and Generation are of a recorded assignment, in whatever fabric there
\* is now.
LEMMA PlacedHome ==
  ASSUME pc = "placed", NEW f, NEW r, PlacedIn(f, r)
  PROVE  Home(Picked(placed.assign)) = {e \in fabric.endpoints : e.fabric = f /\ e.ring = r}
BY DEF PlacedIn, Home

\* An assignment's generation changes with every endpoint and link of its ring.
THEOREM RingChangeAlwaysSeen == Spec => []RingChangeSeen
<1>1. PlacementInv /\ PlacedInv => RingChangeSeen
  <2> SUFFICES ASSUME PlacementInv, PlacedInv, pc = "placed", Generation = placed.gen
               PROVE  Home(Picked(placed.assign)) = placed.home
    BY DEF RingChangeSeen
  <2>1. PICK f, r : PlacedIn(f, r)
    BY DEF PlacedInv
  <2> DEFINE P == Picked(placed.assign)
             E == fabric.endpoints
             ids == {e.ep : e \in P}
  <2>2. Generation = WorkloadGeneration(E, work.fabric, work.ring, ids)
    BY DEF Generation
  <2>3. Home(P) = {e \in E : e.fabric = f /\ e.ring = r}
    BY <2>1, PlacedHome
  <2>4. /\ f # "" /\ r # "" /\ work.fabric \in {"", f} /\ work.ring \in {"", r}
        /\ P # {} /\ P \subseteq placed.home
        /\ \A e \in placed.home : e.fabric = f /\ e.ring = r
        /\ placed.home = {e \in placed.gen : e.fabric = f /\ e.ring = r}
        /\ (work.fabric = "") <=> (work.ring = "") => placed.gen = placed.home
    BY <2>1 DEF PlacedIn
  <2> HIDE DEF P, E, ids
  <2>5. \A e \in E : e.ep \in Nat
    BY DEF PlacementInv, FabricInv, E
  <2>6. CASE work.fabric = "" /\ work.ring = ""
    <3>1. Generation = placed.home
      BY <2>4, <2>6
    <3>2. {e \in E : e.ep \in ids} # {}
      <4> SUFFICES ASSUME {e \in E : e.ep \in ids} = {} PROVE FALSE
        OBVIOUS
      <4>1. Generation = E
        BY <2>2, <2>6, GenerationOfNone
      <4> QED BY <4>1, <3>1, <2>4 DEF ids
    <3>3. PICK first \in E : /\ first.ep \in ids
                             /\ WorkloadGeneration(E, "", "", ids) =
                                {e \in E : first.fabric \in {"", e.fabric} /\ first.ring \in {"", e.ring}}
      BY <2>5, <3>2, GenerationInferred, Zenon
    <3>5. Generation = {e \in E : first.fabric \in {"", e.fabric} /\ first.ring \in {"", e.ring}}
      BY <2>2, <2>6, <3>3, Zenon
    <3>4. first \in placed.home
      BY <2>4, <3>1, <3>3, <3>5
    <3> QED BY <2>3, <2>4, <3>1, <3>4, <3>5 DEF P
  <2>7. CASE ~(work.fabric = "" /\ work.ring = "")
    <3>0. WorkloadGeneration(E, work.fabric, work.ring, ids) =
            {e \in E : work.fabric \in {"", e.fabric} /\ work.ring \in {"", e.ring}}
      BY <2>7 DEF WorkloadGeneration
    <3>1. Generation = {e \in E : work.fabric \in {"", e.fabric} /\ work.ring \in {"", e.ring}}
      BY <3>0, <2>2, Zenon
    <3> QED BY <2>3, <2>4, <3>1 DEF P
  <2> QED BY <2>6, <2>7
<1> QED BY <1>1, PlacementAlways, PlacedAlways, PTL

\* It does not change with anything else, when the workload asked for no fabric and
\* ring or for both.
THEOREM OtherChangeAlwaysIgnored == Spec => []OtherChangeIgnored
<1>1. PlacementInv /\ PlacedInv => OtherChangeIgnored
  <2> SUFFICES ASSUME PlacementInv, PlacedInv, pc = "placed",
                      Home(Picked(placed.assign)) = placed.home,
                      (work.fabric = "") <=> (work.ring = "")
               PROVE  Generation = placed.gen
    BY DEF OtherChangeIgnored
  <2>1. PICK f, r : PlacedIn(f, r)
    BY DEF PlacedInv
  <2> DEFINE P == Picked(placed.assign)
             E == fabric.endpoints
             ids == {e.ep : e \in P}
  <2>2. Generation = WorkloadGeneration(E, work.fabric, work.ring, ids)
    BY DEF Generation
  <2>3. placed.home = {e \in E : e.fabric = f /\ e.ring = r}
    BY <2>1, PlacedHome
  <2>4. /\ f # "" /\ r # "" /\ work.fabric \in {"", f} /\ work.ring \in {"", r}
        /\ P # {} /\ P \subseteq placed.home /\ placed.gen = placed.home
    BY <2>1 DEF PlacedIn
  <2> HIDE DEF P, E, ids
  <2>5. \A e \in E : e.ep \in Nat
    BY DEF PlacementInv, FabricInv, E
  <2>6. CASE work.fabric = "" /\ work.ring = ""
    <3>1. {e \in E : e.ep \in ids} # {}
      BY <2>3, <2>4 DEF ids
    <3>2. PICK first \in E : /\ first.ep \in ids
                             /\ WorkloadGeneration(E, "", "", ids) =
                                {e \in E : first.fabric \in {"", e.fabric} /\ first.ring \in {"", e.ring}}
      BY <2>5, <3>1, GenerationInferred, Zenon
    <3>4. Generation = {e \in E : first.fabric \in {"", e.fabric} /\ first.ring \in {"", e.ring}}
      BY <2>2, <2>6, <3>2, Zenon
    <3>3. first \in P
      BY <2>3, <2>4, <3>2 DEF PlacementInv, FabricInv, Unique, E, ids
    <3> QED BY <2>3, <2>4, <3>3, <3>4
  <2>7. CASE ~(work.fabric = "" /\ work.ring = "")
    <3>0. WorkloadGeneration(E, work.fabric, work.ring, ids) =
            {e \in E : work.fabric \in {"", e.fabric} /\ work.ring \in {"", e.ring}}
      BY <2>7 DEF WorkloadGeneration
    <3>1. Generation = {e \in E : work.fabric \in {"", e.fabric} /\ work.ring \in {"", e.ring}}
      BY <3>0, <2>2, Zenon
    <3> QED BY <2>3, <2>4, <2>7, <3>1
  <2> QED BY <2>6, <2>7
<1> QED BY <1>1, PlacementAlways, PlacedAlways, PTL
=============================================================================
