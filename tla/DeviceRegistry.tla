--------------------------- MODULE DeviceRegistry ---------------------------
(***************************************************************************)
(* core/device/device_registry.cpp: the list of authenticated devices.     *)
(* Every operation runs under registry_mutex and is one step.  An entry    *)
(* keeps a weak reference to its connection; Owned(s) says whether that    *)
(* reference can be locked and the connection is not stopping.             *)
(***************************************************************************)
EXTENDS FiniteSets

CONSTANTS Device, Session

VARIABLE devices   \* the entries of the vector devices, all in state READY

Entry == [device_id : Device, session_id : Session, preferred : BOOLEAN]

RegistryTypeOK == devices \subseteq Entry

RegistryInit == devices = {}

EntriesOf(d) == {e \in devices : e.device_id = d}

(* Mutant: an incumbent is replaced whatever its direction. *)
KeepsNobody(existing, device, owned) == FALSE

(* A live incumbent keeps its entry unless only the candidate has the      *)
(* preferred direction.                                                    *)
IncumbentKeeps(existing, device, owned) ==
  owned /\ (existing.preferred \/ ~device.preferred)

(* publish_authenticated_device for a candidate that passed its checks:    *)
(* the first entry of the device decides.                                  *)
PublishNew(device) ==
  /\ EntriesOf(device.device_id) = {}
  /\ devices' = devices \union {device}

(* Mutant: the new entry is appended, the replaced one stays. *)
PublishBeside(device, existing) ==
  /\ existing \in EntriesOf(device.device_id)
  /\ devices' = devices \union {device}

PublishReplacing(device, existing) ==
  /\ existing \in EntriesOf(device.device_id)
  /\ devices' = (devices \ {existing}) \union {device}

(* remove_device: only the entry of this very session. *)
RemoveDevice(s) == devices' = {e \in devices : e.session_id # s}
=============================================================================
