----------------------------- MODULE Inventory ------------------------------
(***************************************************************************)
(* From what a node agent reads of its devices to what it reports: the     *)
(* identity of a device, whether it may be used (eligibility), devices     *)
(* that claim one identity, and the NodeTopology made of the rest.         *)
(*                                                                         *)
(* A raw observation has, next to the fabric fields, the values that       *)
(* decide: uuid (0 if missing or malformed), slot (the provider's own      *)
(* name), readable (no discovery error, no malformed number), present (the *)
(* character device), health, fault, vendor, architecture and pciDevice,   *)
(* and supported (tt-kmd, firmware, ABI and kernel versions).              *)
(***************************************************************************)
EXTENDS Integers, Sequences, SequencesExt

\* "uuid-<UUID>", or the provider's name for a device that has none.
StableID(raw) == IF raw.uuid # 0 THEN raw.uuid ELSE -raw.slot

\* A fault code overrides a healthy report.
Health(raw) == IF raw.health = "healthy" /\ raw.fault THEN "unhealthy" ELSE raw.health

ChipSeries(raw) ==
  IF raw.architecture # "" THEN raw.architecture
  ELSE IF raw.vendor = "tenstorrent" THEN raw.pciDevice ELSE ""

eligibility(raw) ==
  /\ raw.readable
  /\ raw.present
  /\ Health(raw) = "healthy"
  /\ raw.vendor = "tenstorrent"
  /\ raw.uuid # 0
  /\ ChipSeries(raw) \in {"wormhole", "blackhole"}
  /\ raw.supported

normalize(raw) == [id |-> StableID(raw), eligible |-> eligibility(raw), raw |-> raw]

\* Faulty variant: only the second of two neighbours is marked.
markDuplicateIdentitiesLater(devices) ==
  [i \in DOMAIN devices |->
     IF i > 1 /\ devices[i - 1].id = devices[i].id
     THEN [devices[i] EXCEPT !.eligible = FALSE] ELSE devices[i]]

\* Neighbours with one identity make each other ineligible.
markDuplicateIdentities(devices) ==
  [i \in DOMAIN devices |->
     IF \E j \in {i - 1, i + 1} \cap DOMAIN devices : devices[j].id = devices[i].id
     THEN [devices[i] EXCEPT !.eligible = FALSE] ELSE devices[i]]

\* The orders sort.Slice may put the observations in: by identity, and in any way
\* among those that share one.
SortedOrders(raws) ==
  {p \in Bijection(DOMAIN raws, DOMAIN raws) :
     \A i, j \in DOMAIN raws : i < j => StableID(raws[p[i]]) <= StableID(raws[p[j]])}

BuildSnapshot(raws, order) ==
  markDuplicateIdentities([i \in DOMAIN raws |-> normalize(raws[order[i]])])

\* The eligible devices of a snapshot, at their places in it, as
\* topology.PublishNode reports them.
PublishNode(node, raws, order) ==
  LET snapshot == BuildSnapshot(raws, order)
  IN  [i \in {k \in DOMAIN snapshot : snapshot[k].eligible} |->
         LET raw == snapshot[i].raw
         IN  [node |-> node, dev |-> snapshot[i].id, series |-> ChipSeries(raw), ep |-> raw.ep,
              fabric |-> raw.fabric, ring |-> raw.ring, links |-> raw.links]]
=============================================================================
