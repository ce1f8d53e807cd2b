------------------------------ MODULE Custody -------------------------------
(***************************************************************************)
(* What the node lifecycle manager promises of the devices, without        *)
(* agents, files, transactions or failures: a device changes hands only    *)
(* through a reset, it is withheld from the scheduler's free pool from     *)
(* before a claim gets it until after that reset, and nothing touches it   *)
(* while the containers of its claim run.                                  *)
(***************************************************************************)
CONSTANTS Claims, Devices, NoOwner

VARIABLES lease,     \* devices handed to every claim
          tenant,    \* the claim whose state a device carries
          withheld,  \* devices owned or fenced, on record
          running    \* claims whose containers run

vars == <<lease, tenant, withheld, running>>

Leased == UNION {lease[c] : c \in Claims}

Init ==
  /\ lease = [c \in Claims |-> {}]
  /\ tenant = [d \in Devices |-> NoOwner]
  /\ withheld = {}
  /\ running = {}

\* A device goes off the record only clean and in nobody's hands.
OffRecordFree ==
  /\ withheld' \in SUBSET Devices
  /\ \A d \in withheld \ withheld' : tenant[d] = NoOwner /\ d \notin Leased

Record ==
  /\ OffRecordFree
  /\ UNCHANGED <<lease, tenant, running>>

\* Some claims get devices that are on record, that carry nobody else's state and
\* that nobody else has.
Acquire ==
  /\ OffRecordFree
  /\ lease' \in [Claims -> SUBSET withheld']
  /\ \A c \in Claims : lease'[c] # lease[c] =>
       /\ \A d \in lease'[c] : tenant[d] \in {NoOwner, c}
       /\ \A x \in Claims \ {c} : lease'[x] \cap lease'[c] = {}
  /\ UNCHANGED <<tenant, running>>

\* Some claims give up their devices; their containers have stopped.
Surrender ==
  /\ \E B \in SUBSET (Claims \ running) :
       lease' = [c \in Claims |-> IF c \in B THEN {} ELSE lease[c]]
  /\ UNCHANGED <<tenant, withheld, running>>

\* A device is reset while it is on record and in nobody's hands.
Reset(d) ==
  /\ d \in withheld \ Leased
  /\ tenant' = [tenant EXCEPT ![d] = NoOwner]
  /\ UNCHANGED <<lease, withheld, running>>

Start(c) ==
  /\ lease[c] # {} /\ c \notin running
  /\ running' = running \cup {c}
  /\ tenant' = [d \in Devices |-> IF d \in lease[c] THEN c ELSE tenant[d]]
  /\ UNCHANGED <<lease, withheld>>

Stop(c) ==
  /\ c \in running
  /\ running' = running \ {c}
  /\ UNCHANGED <<lease, tenant, withheld>>

Next ==
  \/ Record \/ Acquire \/ Surrender
  \/ \E c \in Claims : Start(c) \/ Stop(c)
  \/ \E d \in Devices : Reset(d)

Spec == Init /\ [][Next]_vars

-----------------------------------------------------------------------------
(* What follows for whoever uses the devices *)

\* Two claims never have a device at once, a claim's devices carry nobody else's
\* state, and every device in use or carrying state is on record.
Separation ==
  /\ \A c, x \in Claims : c # x => lease[c] \cap lease[x] = {}
  /\ \A c \in Claims : \A d \in lease[c] : tenant[d] \in {NoOwner, c}
  /\ Leased \cup {d \in Devices : tenant[d] # NoOwner} \subseteq withheld
=============================================================================
