---------------------------- MODULE CustodyProofs ----------------------------
(***************************************************************************)
(* What the custody of the devices, which Lifecycle implements             *)
(* (LifecycleCustody), means for their users.                              *)
(***************************************************************************)
EXTENDS Custody, TLAPS

\* Leases and tenants are functions, and no device outside Devices is leased.
CustodyType ==
  /\ lease \in [Claims -> SUBSET Devices]
  /\ tenant \in [Devices -> Claims \cup {NoOwner}]
  /\ withheld \in SUBSET Devices

\* The inductive invariant: Separation is inductive once the types are known.
CustodyInv == CustodyType /\ Separation

\* Before anything was handed out, every device is clean and in nobody's hands.
LEMMA CustodyInit == Init => CustodyInv
  BY DEF Init, CustodyInv, CustodyType, Separation, Leased

\* Taking devices off the record, as the persisted state of the manager does,
\* leaves nothing in use or carrying state unrecorded.
LEMMA RecordKeeps == CustodyInv /\ Record => CustodyInv'
  BY DEF Record, OffRecordFree, CustodyInv, CustodyType, Separation, Leased

\* A successful prepare hands out only what nobody else has or used.
LEMMA AcquireKeeps == CustodyInv /\ Acquire => CustodyInv'
<1> SUFFICES ASSUME CustodyInv, Acquire PROVE CustodyInv'
  OBVIOUS
<1>1. CustodyType'
  BY DEF Acquire, OffRecordFree, CustodyInv, CustodyType
<1>2. ASSUME NEW c \in Claims, NEW x \in Claims, c # x
      PROVE  lease'[c] \cap lease'[x] = {}
  <2>1. CASE lease'[c] # lease[c]
    BY <1>2, <2>1 DEF Acquire
  <2>2. CASE lease'[x] # lease[x]
    BY <1>2, <2>2 DEF Acquire
  <2>3. CASE lease'[c] = lease[c] /\ lease'[x] = lease[x]
    BY <1>2, <2>3 DEF CustodyInv, Separation
  <2> QED
    BY <2>1, <2>2, <2>3
<1>3. ASSUME NEW c \in Claims, NEW d \in lease'[c]
      PROVE  tenant'[d] \in {NoOwner, c}
  BY <1>3 DEF Acquire, CustodyInv, Separation
<1>4. Leased' \subseteq withheld'
  BY DEF Acquire, Leased
<1>5. {d \in Devices : tenant'[d] # NoOwner} \subseteq withheld'
  BY DEF Acquire, OffRecordFree, CustodyInv, Separation
<1> QED
  BY <1>1, <1>2, <1>3, <1>4, <1>5 DEF CustodyInv, Separation

\* Unprepare, and a container that stops, only give up what they had.
LEMMA SurrenderKeeps == CustodyInv /\ Surrender => CustodyInv'
  BY DEF Surrender, CustodyInv, CustodyType, Separation, Leased

\* A reset leaves a device that is on record clean.
LEMMA ResetKeeps == ASSUME NEW d \in Devices, CustodyInv, Reset(d) PROVE CustodyInv'
  BY DEF Reset, CustodyInv, CustodyType, Separation, Leased

\* Containers put their state on devices nobody else has.
LEMMA StartKeeps == ASSUME NEW c \in Claims, CustodyInv, Start(c) PROVE CustodyInv'
<1>1. CustodyType'
  BY DEF Start, CustodyInv, CustodyType
<1>2. ASSUME NEW x \in Claims, NEW d \in lease'[x]
      PROVE  tenant'[d] \in {NoOwner, x}
  <2>1. d \in Devices
    BY <1>2 DEF Start, CustodyInv, CustodyType
  <2>2. CASE x = c
    BY <1>2, <2>1, <2>2 DEF Start
  <2>3. CASE x # c
    BY <1>2, <2>1, <2>3 DEF Start, CustodyInv, Separation
  <2> QED
    BY <2>2, <2>3
<1>3. Leased \cup {d \in Devices : tenant'[d] # NoOwner} \subseteq withheld
  BY DEF Start, CustodyInv, CustodyType, Separation, Leased
<1> QED
  BY <1>1, <1>2, <1>3 DEF Start, CustodyInv, Separation, Leased

\* In every behaviour that is custody of the devices, no device is in two hands,
\* no claim gets a device with another claim's state, and no device in use or
\* carrying state is off the record.
THEOREM CustodySeparates == Spec => []Separation
<1>1. Init => CustodyInv
  BY CustodyInit
<1>2. CustodyInv /\ [Next]_vars => CustodyInv'
  <2> SUFFICES ASSUME CustodyInv, [Next]_vars PROVE CustodyInv'
    OBVIOUS
  <2>1. CASE Record
    BY <2>1, RecordKeeps
  <2>2. CASE Acquire
    BY <2>2, AcquireKeeps
  <2>3. CASE Surrender
    BY <2>3, SurrenderKeeps
  <2>4. CASE \E c \in Claims : Start(c)
    BY <2>4, StartKeeps
  <2>5. CASE \E c \in Claims : Stop(c)
    BY <2>5 DEF Stop, CustodyInv, CustodyType, Separation, Leased
  <2>6. CASE \E d \in Devices : Reset(d)
    BY <2>6, ResetKeeps
  <2>7. CASE UNCHANGED vars
    BY <2>7 DEF vars, CustodyInv, CustodyType, Separation, Leased
  <2> QED
    BY <2>1, <2>2, <2>3, <2>4, <2>5, <2>6, <2>7 DEF Next
<1>3. CustodyInv => Separation
  BY DEF CustodyInv
<1> QED
  BY <1>1, <1>2, <1>3, PTL DEF Spec
=============================================================================
