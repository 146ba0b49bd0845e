------------------------------ MODULE Startup ------------------------------
(***************************************************************************)
(* The start of the daemon (main.cpp) up to the point where it accepts     *)
(* connections: the identity is loaded or created, then the trust store is *)
(* opened, and an exception of either ends the process.  Processes start   *)
(* together, are killed at any step and started again; a power loss takes  *)
(* all of them.                                                            *)
(***************************************************************************)
EXTENDS DeviceIdentity, TrustStoreOpen

ASSUME OneSetOfProcesses == Daemon = Process

VARIABLE stage   \* what main of each process is doing

startVars == <<vars, storeVars, stage>>

Stage == {"identity", "store", "serving"}

StartTypeOK == TypeOK /\ StoreTypeOK /\ stage \in [Process -> Stage]

StartInit == Init /\ StoreInit /\ stage = [p \in Process |-> "identity"]

Enter(p, s) == stage' = [stage EXCEPT ![p] = s]

(* get_my_device_identity; an identity that was loaded or created lets     *)
(* main go on.                                                             *)
IdentityStep(p) ==
  /\ stage[p] = "identity"
  /\ LoadOrCreate(p)
  /\ IF At(p, "idle") \/ ~pc'[p] = "idle" THEN UNCHANGED stage ELSE Enter(p, "store")
  /\ UNCHANGED storeVars

(* TrustStore's constructor; one that throws ends the process, after the   *)
(* handle is closed if there is one.                                       *)
StoreStep(p) ==
  /\ stage[p] = "store"
  /\ OpenStore(p)
  /\ Enter(p, CASE store_pc'[p] = "open" -> "serving"
                [] store_pc'[p] = "closed" -> "identity"
                [] OTHER -> "store")
  /\ UNCHANGED vars

(* A pairing is committed by a process that serves. *)
Serve(p) == stage[p] = "serving" /\ CommitRow(p) /\ UNCHANGED <<vars, stage>>

(* main ends: the trust store, or what its constructor left, is destroyed. *)
Exit(p) == CloseStore(p) /\ Enter(p, "identity") /\ UNCHANGED vars

(* A kill, wherever the process is, or a failure of the identity.          *)
Die(p) ==
  /\ \/ Fail(p) /\ UNCHANGED storeVars
     \/ Abandon(p) /\ UNCHANGED vars
  /\ Enter(p, "identity")

LosePower ==
  /\ PowerLoss /\ StorePowerLoss
  /\ stage' = [p \in Process |-> "identity"]

StartNext ==
  \/ \E p \in Process : IdentityStep(p) \/ StoreStep(p) \/ Serve(p) \/ Exit(p) \/ Die(p)
  \/ Checkpoint /\ UNCHANGED <<vars, stage>>
  \/ LosePower

StartSpec == StartInit /\ [][StartNext]_startVars
=============================================================================
