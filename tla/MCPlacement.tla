---------------------------- MODULE MCPlacement -----------------------------
(***************************************************************************)
(* Placement on two nodes of two devices each, endpoints 1 to 4, and a     *)
(* third node whose report only counts against MaxNodes.                   *)
(***************************************************************************)
EXTENDS Placement

\* A healthy device; its identity is also the number of its endpoint.
Device(id, series, fab, ring, links) ==
  [uuid |-> id, slot |-> id, readable |-> TRUE, present |-> TRUE, health |-> "healthy",
   fault |-> FALSE, vendor |-> "tenstorrent", architecture |-> "", pciDevice |-> series,
   supported |-> TRUE, ep |-> id, fabric |-> fab, ring |-> ring, links |-> links]

\* Devices 1 and 2 of node 1; each end of the links 1-2, 1-3 and 3-4 is reported up
\* or not.
FirstNode ==
  {<<Device(1, "wormhole", "f1", "r1", a), Device(2, "wormhole", "f1", "r1", b)>> :
      a \in SUBSET {2, 3}, b \in SUBSET {1}}

\* Devices 3 and 4 of node 2 likewise.
SecondNode ==
  {<<Device(3, "wormhole", "f1", "r1", a), Device(4, "blackhole", "f1", "r1", b)>> :
      a \in SUBSET {1, 4}, b \in SUBSET {3}}

\* Another ring, another fabric with the same ring name, and the reports
\* BuildFabric refuses: a duplicate endpoint, an incomplete identity, too many
\* fabrics, too many endpoints; a device without an endpoint is skipped.
SecondNodeOdd ==
  {<<Device(3, "wormhole", fab, ring, links), Device(4, "blackhole", "f2", "r1", {})>> :
      fab \in {"f1", "f2"}, ring \in {"r1", "r2"}, links \in {{}, {4}}}
  \cup {<<[Device(3, "wormhole", "f1", "r1", {}) EXCEPT !.ep = 1]>>,
        <<Device(3, "wormhole", "", "r1", {})>>,
        <<Device(3, "wormhole", "f2", "r1", {}), Device(4, "wormhole", "f3", "r1", {})>>,
        <<Device(3, "wormhole", "f1", "r1", {}), Device(4, "wormhole", "f1", "r1", {}),
          Device(5, "wormhole", "f1", "r1", {})>>,
        <<[Device(3, "wormhole", "f1", "r1", {}) EXCEPT !.ep = NoEndpoint]>>}

\* Three devices of which two or all have one identity, and devices that are not
\* eligible next to one that is.
SecondNodeUnfit ==
  LET d(id, ep) == [Device(id, "wormhole", "f1", "r1", {}) EXCEPT !.ep = ep]
  IN  {<<d(3, 3), d(y, 4), d(3, 5)>> : y \in {3, 4}}
      \cup {<<bad, d(4, 4)>> : bad \in
              {[d(3, 3) EXCEPT !.uuid = 0], [d(3, 3) EXCEPT !.fault = TRUE],
               [d(3, 3) EXCEPT !.architecture = "grayskull"]}}

ThirdNode == {<<>>}

MCObservations == <<FirstNode, SecondNode \cup SecondNodeOdd \cup SecondNodeUnfit, ThirdNode>>

Rank(count, class, series) == [count |-> count, class |-> class, series |-> series]
AnyOf(count) == Rank(count, "tenstorrent", "")
Request(ranks, fab, ring) == [ranks |-> ranks, fabric |-> fab, ring |-> ring]

\* Among them the inputs that only the solver's own checks concern, as
\* validateWorkload refuses them before: no rank, a count of 0, too many devices.
MCWorkloads ==
  {Request(<<AnyOf(2)>>, "", ""),
   Request(<<AnyOf(1), AnyOf(2)>>, "", ""),
   Request(<<AnyOf(0), Rank(1, "blackhole", "")>>, "", ""),
   Request(<<Rank(1, "tenstorrent", "wormhole"), AnyOf(1)>>, "f1", "r1"),
   Request(<<AnyOf(1)>>, "", "r2"),
   Request(<<AnyOf(1)>>, "f2", ""),
   Request(<<AnyOf(2), AnyOf(2)>>, "", ""),
   Request(<<>>, "", ""),
   Request(<<AnyOf(3)>>, "", "r1"),
   Request(<<AnyOf(3), AnyOf(2)>>, "", "")}

MCReservations == {{}, {<<1, 1>>}}
=============================================================================
