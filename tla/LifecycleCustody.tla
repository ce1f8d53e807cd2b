-------------------------- MODULE LifecycleCustody --------------------------
(***************************************************************************)
(* Lifecycle implements Custody: a claim's lease is what prepare returned  *)
(* to kubelet, a device's tenant is the claim that used it since its last  *)
(* reset, and the record is the state file.                                *)
(***************************************************************************)
EXTENDS Lifecycle

Withheld == {d \in Devices : Holders(disk, d) # {} \/ Quarantined(disk, d)}

C == INSTANCE Custody WITH lease <- grant, tenant <- user, withheld <- Withheld

\* Every step of the manager, of its failures and of its recovery is a step of
\* the custody of the devices, or none: devices change hands only through a
\* reset, stay on record from before the grant until after that reset, and are
\* not touched while they are in somebody's hands.
ImplementsCustody == C!Spec
=============================================================================
