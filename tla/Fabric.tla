------------------------------- MODULE Fabric -------------------------------
(***************************************************************************)
(* The algorithms on the fabric graph: how the controller merges the       *)
(* NodeTopology objects into one validated graph (BuildFabric), what part  *)
(* of that graph a workload's generation stands for (WorkloadGeneration)   *)
(* and when a selection of endpoints is connected (placement.go).          *)
(*                                                                         *)
(* A device's links are those that are "up" and name their remote end; the *)
(* code skips all others.  The hash of a list of endpoints is the set of   *)
(* those endpoints.  Names are numbers, so that the code's sorting is the  *)
(* order of the numbers; 0 and "" are the empty name.                      *)
(***************************************************************************)
EXTENDS Integers, Sequences, FiniteSets, SequencesExt

CONSTANTS MaxNodes,      \* topology.MaxNodes
          MaxEndpoints,  \* topology.MaxEndpoints
          MaxFabrics     \* topology.MaxFabrics

ASSUME FabricLimits == MaxNodes \in Nat /\ MaxEndpoints \in Nat /\ MaxFabrics \in Nat

NoEndpoint == 0

\* nodes is the informer store's list, in whatever order the store returns it.  Of
\* the first MaxNodes, those observed within the TTL contribute devices.
Fresh(nodes) == {i \in DOMAIN nodes : i <= MaxNodes /\ nodes[i].state = "fresh"}

\* Where the reported devices with an endpoint are: <<node, device>>.  A device
\* without one is no part of the fabric.
Offered(nodes) ==
  UNION {{<<i, k>> : k \in {k \in DOMAIN nodes[i].devices : nodes[i].devices[k].ep # NoEndpoint}} :
           i \in Fresh(nodes)}

DeviceAt(nodes, p) == nodes[p[1]].devices[p[2]]

\* The order of the two loops.
Earlier(p, q) == p[1] < q[1] \/ (p[1] = q[1] /\ p[2] < q[2])

SeenBefore(nodes, p) == {DeviceAt(nodes, q).ep : q \in {q \in Offered(nodes) : Earlier(q, p)}}

\* Of two devices with one endpoint the first is kept, and no more than MaxEndpoints.
Kept(nodes) ==
  {p \in Offered(nodes) : /\ DeviceAt(nodes, p).ep \notin SeenBefore(nodes, p)
                          /\ Cardinality(SeenBefore(nodes, p)) < MaxEndpoints}

\* Faulty variant: the second of two devices with one endpoint is dropped silently.
NoneRefusedSilent(nodes) ==
  \A p \in Offered(nodes) : Cardinality(SeenBefore(nodes, p)) < MaxEndpoints

\* No duplicate endpoint and no overflow.
NoneRefused(nodes) == Kept(nodes) = Offered(nodes)

\* Faulty variant: a link only one end reports is accepted.
LinkValidOneWay(E, e, remote) ==
  \E peer \in E : peer.ep = remote /\ peer.fabric = e.fabric /\ peer.ring = e.ring

\* The link from e to the endpoint remote has a peer in the same fabric and ring
\* that reports it as well.
LinkValid(E, e, remote) ==
  \E peer \in E : /\ peer.ep = remote
                   /\ peer.fabric = e.fabric /\ peer.ring = e.ring
                   /\ e.ep \in peer.links

ValidGraph(E) ==
  /\ \A e \in E : e.fabric # "" /\ e.ring # ""
  /\ Cardinality({e.fabric : e \in E}) <= MaxFabrics
  /\ \A e \in E : \A remote \in e.links : LinkValid(E, e, remote)

\* Every error makes the fabric invalid; what the errors say is left out.
BuildFabric(nodes) ==
  LET E == {DeviceAt(nodes, p) : p \in Kept(nodes)}
  IN  [valid |-> Fresh(nodes) = DOMAIN nodes /\ NoneRefused(nodes) /\ ValidGraph(E),
       endpoints |-> E]

\* Faulty variant: only the selected endpoints are hashed.
WorkloadGenerationSelected(endpoints, fabric, ring, selected) ==
  {e \in endpoints : e.ep \in selected}

\* Faulty variant: without a request the whole graph is hashed.
WorkloadGenerationAll(endpoints, fabric, ring, selected) ==
  {e \in endpoints : fabric \in {"", e.fabric} /\ ring \in {"", e.ring}}

\* The endpoints whose hash is the workload's generation.  Without a request the
\* fabric and ring are those of the first selected endpoint still in the graph.
WorkloadGeneration(endpoints, fabric, ring, selected) ==
  LET found == {e \in endpoints : e.ep \in selected}
      first == CHOOSE e \in found : \A f \in found : e.ep <= f.ep
      infer == fabric = "" /\ ring = "" /\ found # {}
      f == IF infer THEN first.fabric ELSE fabric
      r == IF infer THEN first.ring ELSE ring
  IN  {e \in endpoints : f \in {"", e.fabric} /\ r \in {"", e.ring}}

-----------------------------------------------------------------------------
(* connected *)

\* A set of selected endpoints that no up link to a selected endpoint leaves.
Closed(T, S) == \A e \in T : \A f \in S : f.ep \in e.links => f \in T

\* The breadth-first search visits the least such set that contains start.
Seen(start, S) ==
  {e \in S : \A T \in SUBSET S : start \in T /\ Closed(T, S) => e \in T}

\* start is whichever key the iteration over the map of selected endpoints
\* returns first.
connected(S, start) ==
  /\ \A e \in S : e.fabric = start.fabric /\ e.ring = start.ring
  /\ Seen(start, S) = S

\* What "connected" means to a reader: no way to divide the selection into two
\* parts without a link between them.
Divided(S) ==
  \E T \in (SUBSET S) \ {{}, S} :
     \A e \in T, f \in S \ T : f.ep \notin e.links /\ e.ep \notin f.links
=============================================================================
