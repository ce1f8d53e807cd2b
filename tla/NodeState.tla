----------------------------- MODULE NodeState -----------------------------
(***************************************************************************)
(* The durable state of one node agent (persistedState, claims.json) and   *)
(* the pure part of every step the lifecycle manager takes on it: reload,  *)
(* observe, quarantine, sanitize, claim validation, startup reconcile.     *)
(*                                                                         *)
(* A device is its DRA name.  Its character-device path does not move in   *)
(* this module, so a claim's device list is a set of names and a flag that *)
(* says whether every path was known when the claim was recorded.          *)
(* Quarantine reasons are abstracted to the AwaitingHealth bit.            *)
(***************************************************************************)
EXTENDS Naturals, FiniteSets

CONSTANTS Claims,     \* ResourceClaim UIDs
          Devices,    \* DRA device names of this node
          NoOwner     \* the empty owner UID

ASSUME NoOwnerIsNoClaim == NoOwner \notin Claims

\* What one inventory says of a device: safe (deviceUnsafeReason is empty),
\* unsafe but with its character device, or without a usable character device.
Hardware == {"ok", "sick", "gone"}

Phases == {"Absent", "Preparing", "Prepared", "Releasing", "Recovered"}

\* A quarantine record: none, one with AwaitingHealth = false, or = true.
QuarantineRecord == {"none", "fenced", "awaiting"}

PreparedClaim == [phase : Phases, devs : SUBSET Devices, placed : BOOLEAN]

NoClaim == [phase |-> "Absent", devs |-> {}, placed |-> FALSE]

\* persistedState: Claims, Quarantined and Known.
PersistedState == [claims : [Claims -> PreparedClaim],
                   quar   : [Devices -> QuarantineRecord],
                   known  : SUBSET Devices]

EmptyState == [claims |-> [c \in Claims |-> NoClaim],
               quar   |-> [d \in Devices |-> "none"],
               known  |-> {}]

Snapshot == [Devices -> Hardware]

Owned(s, c) == s.claims[c].phase # "Absent"

Holders(s, d) == {c \in Claims : Owned(s, c) /\ d \in s.claims[c].devs}

Quarantined(s, d) == s.quar[d] # "none"

(***************************************************************************)
(* load: json.Unmarshal decodes the file into the maps the manager already *)
(* holds, so an entry of the file replaces the one in memory and an entry  *)
(* that only memory has stays.                                             *)
(***************************************************************************)
load(stored, m) ==
  [claims |-> [c \in Claims |-> IF Owned(stored, c) THEN stored.claims[c] ELSE m.claims[c]],
   quar   |-> [d \in Devices |-> IF Quarantined(stored, d) THEN stored.quar[d] ELSE m.quar[d]],
   known  |-> stored.known \cup m.known]

SetClaim(s, c, rec) == [s EXCEPT !.claims[c] = rec]

SetPhase(s, c, phase) == [s EXCEPT !.claims[c].phase = phase]

\* quarantineLocked for every device of Q: a new reason clears AwaitingHealth.
quarantineLocked(s, Q) ==
  [s EXCEPT !.quar = [d \in Devices |-> IF d \in Q THEN "fenced" ELSE s.quar[d]]]

\* Faulty sanitizeLocked: success blanks the record instead of deleting it.
sanitizeLockedBlanks(s, d, ok) ==
  [s EXCEPT !.quar[d] = IF ok THEN "blank" ELSE IF @ = "awaiting" THEN @ ELSE "fenced"]

\* sanitizeLocked: success lifts the record, failure keeps or adds one and
\* leaves its AwaitingHealth bit alone.
sanitizeLocked(s, d, ok) ==
  [s EXCEPT !.quar[d] = IF ok THEN "none" ELSE IF @ = "awaiting" THEN @ ELSE "fenced"]

\* deviceOwners: the map the Go code builds by ranging over the claims; when
\* two claims hold one device the range order decides which one is indexed.
deviceOwners(s) ==
  {f \in [Devices -> Claims \cup {NoOwner}] :
     \A d \in Devices : IF Holders(s, d) = {} THEN f[d] = NoOwner ELSE f[d] \in Holders(s, d)}

Seen(snap) == {d \in Devices : snap[d] # "gone"}

\* The devices observeLocked quarantines before any recovery.
Unsafe(s, snap, recoverIdle) ==
  {d \in Seen(snap) : snap[d] = "sick" \/ (recoverIdle /\ d \notin s.known)}
    \cup (s.known \ Seen(snap))

\* observeLocked up to its recovery loop.
observeLocked(s, snap, recoverIdle) ==
  [quarantineLocked(s, Unsafe(s, snap, recoverIdle)) EXCEPT !.known = @ \cup Seen(snap)]

\* Faulty Recoverable: devices with an owner are reset too.
RecoverableOwned(s, snap) == {d \in Seen(snap) : Quarantined(s, d)}

\* Faulty Recoverable: only devices that were reset once are looked at again.
RecoverableAwaiting(s, snap) ==
  {d \in Seen(snap) : s.quar[d] = "awaiting" /\ Holders(s, d) = {}}

\* The devices the recovery loop of observeLocked works on.
Recoverable(s, snap) ==
  {d \in Seen(snap) : Quarantined(s, d) /\ Holders(s, d) = {}}

\* One successful turn of the recovery loop: a device that was unsafe before
\* its reset waits for a healthy observation, any other is released.
Recover(s, d, snap) ==
  IF snap[d] = "sick" THEN [s EXCEPT !.quar[d] = "awaiting"] ELSE sanitizeLocked(s, d, TRUE)

\* Faulty claimFromAllocation: no owner check.
claimFromAllocationUnchecked(c, al, snap, owners) ==
  al # {} /\ \A d \in al : snap[d] = "ok"

\* claimFromAllocation: every allocated device is safe in the batch's first
\* snapshot and held by nobody else in the batch's owner index.
claimFromAllocation(c, al, snap, owners) ==
  /\ al # {}
  /\ \A d \in al : snap[d] = "ok" /\ owners[d] \in {NoOwner, c}

\* sameClaim: identical device lists, paths included.
sameClaim(rec, al) == rec.devs = al /\ rec.placed

\* Faulty ReconciledClaim: a record without a live allocation is dropped.
ReconciledClaimDropped(rec, al, snap) == IF al = {} THEN NoClaim ELSE rec

(***************************************************************************)
(* reconcileStartup and localAllocations, on the state just loaded: live   *)
(* allocations without a record become Recovered, records without a live   *)
(* allocation become Releasing, and every device of a claim that is not    *)
(* Prepared, or that is not safe now, is quarantined.                      *)
(***************************************************************************)
ReconciledClaim(rec, al, snap) ==
  CASE rec.phase = "Absent" /\ al # {} ->
         [phase |-> "Recovered", devs |-> al, placed |-> al \subseteq Seen(snap)]
    [] rec.phase # "Absent" /\ al = {} -> [rec EXCEPT !.phase = "Releasing"]
    [] OTHER -> rec

ReconciledClaims(s, alloc, snap) ==
  [s EXCEPT !.claims = [c \in Claims |-> ReconciledClaim(s.claims[c], alloc[c], snap)]]

Interrupted(s, snap) ==
  {d \in Devices : \E c \in Holders(s, d) : snap[d] # "ok" \/ s.claims[c].phase # "Prepared"}

reconcileStartup(s, alloc, snap) ==
  LET r == ReconciledClaims(s, alloc, snap)
  IN  quarantineLocked(r, Interrupted(r, snap))

\* The claims whose CDI file startup rewrites: every path is known.
Complete(s) == {c \in Claims : Owned(s, c) /\ s.claims[c].devs # {} /\ s.claims[c].placed}
=============================================================================
