----------------------------- MODULE Placement ------------------------------
(***************************************************************************)
(* From node reports to an assignment: node agents observe their devices   *)
(* (Inventory) and publish NodeTopology objects, the controller merges     *)
(* them into the fabric it keeps in memory (Fabric),                       *)
(* and placement.SolveContext searches that snapshot, one call of          *)
(* chooseRank or one combination at a time, under a context that may be    *)
(* cancelled anywhere.  The assignment found is recorded with its          *)
(* WorkloadGeneration; later fabrics are compared with that.               *)
(*                                                                         *)
(* What happens around the search (queue, caches, API calls, replanning)   *)
(* is the module Controller.                                               *)
(***************************************************************************)
EXTENDS Inventory, Fabric

CONSTANTS Nodes,         \* nodes, in the order of their names
          Observations,  \* Observations[n]: what the agent of node n may read of its devices
          Workloads,     \* workload specs
          Reservations,  \* the sets of devices other owners may hold
          MaxRanks,      \* Limits.MaxRanks
          MaxDevices,    \* Limits.MaxDevices
          MaxChanges     \* bound: node reports that change, age or disappear

ASSUME PlacementLimits == MaxRanks \in Nat /\ MaxDevices \in Nat /\ MaxChanges \in Nat
ASSUME NodesOrdered == Nodes \subseteq Nat /\ IsFiniteSet(Nodes)

\* Observations and ranks come as lists, identities and endpoints are numbers.
ASSUME ObservationsAreLists ==
  \A n \in Nodes : \A raws \in Observations[n] :
    /\ Len(raws) \in Nat /\ DOMAIN raws = 1..Len(raws)
    /\ \A i \in DOMAIN raws : raws[i].uuid \in Nat /\ raws[i].slot \in Nat /\ raws[i].ep \in Nat
ASSUME RanksAreLists ==
  \A w \in Workloads :
    /\ Len(w.ranks) \in Nat /\ DOMAIN w.ranks = 1..Len(w.ranks)
    /\ \A i \in DOMAIN w.ranks : w.ranks[i].count \in Int

VARIABLES report,    \* NodeTopology of every node, or absent
          fabric,    \* c.fabric
          pc,        \* where the reconciliation of the workload is
          work,      \* the workload
          reserved,  \* the reservations it was given
          cancelled, \* ctx.Err() # nil
          todo,      \* per rank being chosen: the combinations not yet visited
          assign,    \* assignments, up to the rank being chosen
          selected,  \* devices held by that prefix
          placed,    \* the assignment and generation recorded
          changes    \* bound counter

searchVars == <<work, reserved, cancelled, todo, assign, selected>>
vars == <<report, fabric, pc, searchVars, placed, changes>>

Absent == [state |-> "absent", raws |-> <<>>, devices |-> <<>>]
Report(n, raws, order) ==
  [state |-> "fresh", raws |-> raws, devices |-> PublishNode(n, raws, order)]
Reports(n) ==
  UNION {{Report(n, raws, order) : order \in SortedOrders(raws)} : raws \in Observations[n]}
NoWork == [ranks |-> <<>>, fabric |-> "", ring |-> ""]
NotPlaced == [assign |-> <<>>, gen |-> {}, home |-> {}]

DeviceID(e) == <<e.node, e.dev>>

\* A rank's choice: a node and the endpoints picked there.
ChoiceIDs(choice) == {DeviceID(e) : e \in choice.devs}
Picked(choices) == UNION {choices[i].devs : i \in DOMAIN choices}

-----------------------------------------------------------------------------
(* The choices of one rank *)

MatchesDeviceClass(class, series) ==
  \/ class = "tenstorrent" /\ series \in {"wormhole", "blackhole"}
  \/ class \in {"wormhole", "blackhole"} /\ series = class

matches(rank, e) ==
  rank.series \in {"", e.series} /\ MatchesDeviceClass(rank.class, e.series)

matchesTopology(w, e) ==
  w.fabric \in {"", e.fabric} /\ w.ring \in {"", e.ring}

rankCount(rank) == IF rank.count <= 0 THEN 1 ELSE rank.count

candidates(w, rank, taken) ==
  {e \in fabric.endpoints : /\ DeviceID(e) \notin taken
                            /\ matches(rank, e)
                            /\ matchesTopology(w, e)}

\* Every combination of count candidates of one node.
Combinations(w, rank, taken) ==
  {c \in [node : Nodes, devs : SUBSET candidates(w, rank, taken)] :
      Cardinality(c.devs) = rankCount(rank) /\ \A e \in c.devs : e.node = c.node}

\* The order in which they are visited: nodes by name, and the combinations of
\* a node by their first differing device.
Before(c, d) ==
  LET only == (c.devs \ d.devs) \cup (d.devs \ c.devs)
  IN  \/ c.node < d.node
      \/ /\ c.node = d.node
         /\ \E e \in c.devs \ d.devs : \A f \in only : e.dev <= f.dev

\* Faulty variant: the nodes are tried in the order of the map.
NextChoicesUnsorted(choices) ==
  {c \in choices : \A d \in choices \ {c} : c.node = d.node => Before(c, d)}

NextChoices(choices) == {c \in choices : \A d \in choices \ {c} : Before(c, d)}

withinLimits(w) ==
  LET total == FoldLeft(LAMBDA sum, rank : sum + rank.count, 0, w.ranks)
  IN  /\ Len(w.ranks) <= MaxRanks
      /\ total <= MaxDevices

-----------------------------------------------------------------------------
Init ==
  /\ report \in [Nodes -> UNION {Reports(n) : n \in Nodes} \cup {Absent}]
  /\ \A n \in Nodes : report[n] \in Reports(n) \cup {Absent}
  /\ fabric = [valid |-> FALSE, endpoints |-> {}]
  /\ pc = "idle"
  /\ work = NoWork /\ reserved = {} /\ cancelled = FALSE
  /\ todo = <<>> /\ assign = <<>> /\ selected = {}
  /\ placed = NotPlaced
  /\ changes = 0

\* A node agent observes and publishes its devices, its report outlives the TTL, or its
\* NodeTopology is deleted.
NodeReports(n) ==
  /\ changes < MaxChanges
  /\ \/ \E r \in Reports(n) : report' = [report EXCEPT ![n] = r]
     \/ report[n].state = "fresh" /\ report' = [report EXCEPT ![n].state = "stale"]
     \/ report' = [report EXCEPT ![n] = Absent]
  /\ report' # report
  /\ changes' = changes + 1
  /\ UNCHANGED <<fabric, pc, searchVars, placed>>

\* The lists the informer store may return: its objects in any order.
StoreLists ==
  LET present == {n \in Nodes : report[n] # Absent}
      places == 1..Cardinality(present)
  IN  {[i \in places |-> report[order[i]]] : order \in Bijection(places, present)}

\* The single worker reconciles the fabric between two workloads, never during one.
reconcileFabric ==
  /\ pc \in {"idle", "placed"}
  /\ \E nodes \in StoreLists : fabric' = BuildFabric(nodes)
  /\ UNCHANGED <<report, pc, searchVars, placed, changes>>

-----------------------------------------------------------------------------
(* SolveContext *)

\* The reconciliation reaches the solver only with a valid fabric.
SolveContext(w, r) ==
  /\ pc = "idle" /\ fabric.valid
  /\ work' = w /\ reserved' = r /\ cancelled' = FALSE
  /\ pc' = IF withinLimits(w) /\ Cardinality(fabric.endpoints) <= MaxEndpoints THEN "rank" ELSE "error"
  /\ UNCHANGED <<report, fabric, todo, assign, selected, placed, changes>>

\* The placement timeout passes, or leadership is lost.
Cancel ==
  /\ pc \in {"rank", "next", "back", "found"} /\ ~cancelled
  /\ cancelled' = TRUE
  /\ UNCHANGED <<report, fabric, pc, work, reserved, todo, assign, selected, placed, changes>>

\* chooseRank(index) with index = Len(todo), up to its loop over the nodes.
chooseRank ==
  /\ pc = "rank"
  /\ \/ /\ cancelled
        /\ pc' = "back" /\ UNCHANGED todo
     \/ /\ ~cancelled /\ Len(todo) = Len(work.ranks)
        /\ \/ Picked(assign) = {} /\ pc' = "back"
           \/ \E start \in Picked(assign) :
                pc' = IF connected(Picked(assign), start) THEN "found" ELSE "back"
        /\ UNCHANGED todo
     \/ /\ ~cancelled /\ Len(todo) < Len(work.ranks)
        /\ todo' = Append(todo, Combinations(work, work.ranks[Len(todo) + 1], reserved \cup selected))
        /\ pc' = "next"
  /\ UNCHANGED <<report, fabric, work, reserved, cancelled, assign, selected, placed, changes>>

\* chooseCombinations hands the next combination to visit.
visit ==
  /\ pc = "next" /\ ~cancelled
  /\ \E c \in NextChoices(Last(todo)) :
       /\ todo' = [todo EXCEPT ![Len(todo)] = @ \ {c}]
       /\ assign' = Append(assign, c)
       /\ selected' = selected \cup ChoiceIDs(c)
  /\ pc' = "rank"
  /\ UNCHANGED <<report, fabric, work, reserved, cancelled, placed, changes>>

\* No combination is left, or the loops see the cancelled context: chooseRank
\* returns false.
exhausted ==
  /\ pc = "next" /\ (cancelled \/ Last(todo) = {})
  /\ todo' = Front(todo)
  /\ pc' = "back"
  /\ UNCHANGED <<report, fabric, work, reserved, cancelled, assign, selected, placed, changes>>

\* Faulty variant: the devices of a combination that failed stay selected.
backtrackForgets ==
  /\ pc = "back" /\ todo # <<>>
  /\ assign' = Front(assign)
  /\ pc' = "next"
  /\ UNCHANGED <<report, fabric, work, reserved, cancelled, todo, selected, placed, changes>>

\* Faulty variant: assignments grow by append and are not cut back.
backtrackKeeps ==
  /\ pc = "back" /\ todo # <<>>
  /\ selected' = selected \ ChoiceIDs(Last(assign))
  /\ pc' = "next"
  /\ UNCHANGED <<report, fabric, work, reserved, cancelled, todo, assign, placed, changes>>

\* chooseRank(index + 1) returned false to visit: the combination is given back.
backtrack ==
  /\ pc = "back" /\ todo # <<>>
  /\ selected' = selected \ ChoiceIDs(Last(assign))
  /\ assign' = Front(assign)
  /\ pc' = "next"
  /\ UNCHANGED <<report, fabric, work, reserved, cancelled, todo, placed, changes>>

\* chooseRank(0) returned false.
notFound ==
  /\ pc = "back" /\ todo = <<>>
  /\ pc' = IF cancelled THEN "error" ELSE "none"
  /\ UNCHANGED <<report, fabric, searchVars, placed, changes>>

\* The reconciliation leaves the workload Pending; it is retried later.
leavePending ==
  /\ pc \in {"none", "error"} \/ (pc = "found" /\ cancelled)
  /\ pc' = "idle"
  /\ work' = NoWork /\ reserved' = {} /\ cancelled' = FALSE
  /\ todo' = <<>> /\ assign' = <<>> /\ selected' = {}
  /\ UNCHANGED <<report, fabric, placed, changes>>

Generation == WorkloadGeneration(fabric.endpoints, work.fabric, work.ring,
                                 {e.ep : e \in Picked(IF pc = "placed" THEN placed.assign ELSE assign)})

\* The endpoints of the fabric and ring the assignment lies in (recorded for
\* the properties only).
Home(S) == {e \in fabric.endpoints : \E s \in S : e.fabric = s.fabric /\ e.ring = s.ring}

\* The assignment and its generation are written to the workload's status.
record ==
  /\ pc = "found" /\ ~cancelled
  /\ placed' = [assign |-> assign, gen |-> Generation, home |-> Home(Picked(assign))]
  /\ pc' = "placed"
  /\ todo' = <<>> /\ assign' = <<>> /\ selected' = {} /\ reserved' = {}
  /\ UNCHANGED <<report, fabric, work, cancelled, changes>>

Next ==
  \/ \E n \in Nodes : NodeReports(n)
  \/ reconcileFabric
  \/ \E w \in Workloads, r \in Reservations : SolveContext(w, r)
  \/ Cancel \/ chooseRank \/ visit \/ exhausted \/ backtrack \/ notFound
  \/ leavePending \/ record

Spec == Init /\ [][Next]_vars

-----------------------------------------------------------------------------
(* Properties *)

Endpoint == UNION {UNION {Range(r.devices) : r \in Reports(n)} : n \in Nodes}
Choice == [node : Nodes, devs : SUBSET Endpoint]

\* Every variable has its type: the fabric and every choice are made of reported
\* devices, and a prefix of ranks is chosen.
TypeOK ==
  /\ \A n \in Nodes : \/ report[n] = Absent
                      \/ report[n].state \in {"fresh", "stale"} /\ report[n].raws \in Observations[n]
  /\ fabric.valid \in BOOLEAN /\ fabric.endpoints \subseteq Endpoint
  /\ pc \in {"idle", "rank", "next", "back", "found", "none", "error", "placed"}
  /\ work \in Workloads \cup {NoWork} /\ reserved \in Reservations \cup {{}} /\ cancelled \in BOOLEAN
  /\ Len(todo) <= Len(work.ranks) /\ Len(assign) <= Len(work.ranks)
  /\ \A i \in DOMAIN todo : todo[i] \subseteq Choice
  /\ \A i \in DOMAIN assign : assign[i] \in Choice
  /\ selected \subseteq {DeviceID(e) : e \in Endpoint}
  /\ changes \in 0..MaxChanges

\* A node reports a device exactly if it is eligible and no other device it observes
\* has the same identity, in whatever order they are observed and however many
\* share it: a name in a claim stands for one card.
ReportedIsSole ==
  pc = "idle" => \A n \in Nodes :
    LET raws == report[n].raws
    IN  {d.dev : d \in Range(report[n].devices)} =
          {StableID(raws[i]) : i \in {k \in DOMAIN raws :
             /\ eligibility(raws[k])
             /\ \A j \in DOMAIN raws \ {k} : StableID(raws[j]) # StableID(raws[k])}}

\* The choices that give a rank what its spec asks for, on one node and free.
Suits(rank) ==
  {c \in [node : Nodes, devs : SUBSET {e \in fabric.endpoints : DeviceID(e) \notin reserved}] :
     /\ Cardinality(c.devs) = (IF rank.count > 0 THEN rank.count ELSE 1)
     /\ {e.node : e \in c.devs} = {c.node}
     /\ \A e \in c.devs : matches(rank, e) /\ matchesTopology(work, e)}

\* Assignments of the whole workload: no device twice, one fabric and ring, and
\* linked together.
Solutions ==
  {s \in [DOMAIN work.ranks -> UNION {Suits(work.ranks[i]) : i \in DOMAIN work.ranks}] :
     /\ \A i \in DOMAIN s : s[i] \in Suits(work.ranks[i])
     /\ \A i, j \in DOMAIN s : i # j => ChoiceIDs(s[i]) \cap ChoiceIDs(s[j]) = {}
     /\ \E e \in Picked(s) : \A f \in Picked(s) : f.fabric = e.fabric /\ f.ring = e.ring
     /\ ~Divided(Picked(s))}

\* If SolveContext gives up without being cancelled, there is no such assignment:
\* giving combinations back loses none, and no start of the search for a
\* connected selection misses one.
NoneIsNone == pc = "none" => Solutions = {}

\* SolveContext's answer satisfies every rank, takes no reserved device and no
\* device twice, and is connected; and of all such assignments it is the first
\* in the order of node and device names, so the same fabric and reservations
\* always give the same answer.
FoundIsFirst ==
  pc = "found" =>
    /\ assign \in Solutions
    /\ \A s \in Solutions \ {assign} :
         \E i \in DOMAIN s : Before(assign[i], s[i]) /\ \A j \in 1..(i - 1) : assign[j] = s[j]

\* In a fabric reported valid, whether a selection is connected does not depend on
\* the endpoint the search starts from, which is the first key of a Go map (the
\* fabric does not change before the search it is handed to ends).
StartIrrelevant ==
  fabric.valid /\ pc = "idle" => \A S \in SUBSET fabric.endpoints : \A a, b \in S :
     connected(S, a) <=> connected(S, b)

\* A fabric reported valid does not depend on the order in which the informer
\* store lists the nodes, though duplicates and limits make BuildFabric keep
\* what comes first.
ValidFabricUnordered ==
  pc = "idle" => \A a, b \in StoreLists :
     BuildFabric(a).valid => BuildFabric(b) = BuildFabric(a)

\* Whatever changes in the fabric and ring an assignment lies in, another endpoint
\* or a link its own devices do not end included, changes its generation.
RingChangeSeen ==
  pc = "placed" /\ Home(Picked(placed.assign)) # placed.home => Generation # placed.gen

\* A change anywhere else leaves the generation of a workload alone that asked for
\* no fabric and ring, or for both.
OtherChangeIgnored ==
  /\ pc = "placed" /\ Home(Picked(placed.assign)) = placed.home
  /\ (work.fabric = "") <=> (work.ring = "")
  => Generation = placed.gen
=============================================================================
