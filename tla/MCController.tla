---------------------------- MODULE MCController ----------------------------
(* Small instances of Controller for TLC. *)
EXTENDS Controller, TLC

Symmetry == Permutations(Workloads)

\* One of each of the given disturbances, and none of the others.
Once(kinds) == [k \in Disturbances |-> IF k \in kinds THEN 1 ELSE 0]

ReserveBudgets == {Once({"faults", "edits"}), Once({"starts"})}
SettleBudgets == {Once({"fabric", "rivals"}), Once({"rivals", "restarts"}), Once({"fabric", "restarts"}),
                  Once({"fabric", "starts"}), Once({"faults"})}
ScaleBudgets == {Once({"faults", "edits"}), Once({"restarts", "edits"}), Once({"unscheduled", "edits"})}
LiveBudgets == {Once({"rivals", "starts"}), Once({"faults", "starts"}), Once({"faults", "rivals"})}
ReplanBudgets == {Once({"unscheduled", "starts"})}
=============================================================================
