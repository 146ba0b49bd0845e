--------------------------- MODULE DiscoveryClient --------------------------
(***************************************************************************)
(* on_device_discovered (discovery_client.cpp) and the detached threads    *)
(* that dial.  The checks and the insertion run under discovery_mutex_ on  *)
(* the browser's thread, the erasure under it on the dialling thread, two  *)
(* seconds after connect_to_device returned.                               *)
(***************************************************************************)
CONSTANTS Device,
          Dialer      \* identities of dialling threads, and so their bound

VARIABLES pending,    \* pending_connections_
          dial        \* each dialling thread: where it is, and its device_id

discoveryVars == <<pending, dial>>

NoDial == [at |-> "none"]
Dial(d, label) == [at |-> label, device |-> d]

DiscoveryInit == pending = {} /\ dial = [t \in Dialer |-> NoDial]

DialsTo(d) == {t \in Dialer : dial[t].at # "none" /\ dial[t].device = d}

(* Mutant: a device that is being dialled is dialled again. *)
DiscoveredAgain(d, connected) ==
  IF connected
  THEN UNCHANGED discoveryVars
  ELSE \E t \in Dialer :
         /\ dial[t] = NoDial
         /\ pending' = pending \union {d}
         /\ dial' = [dial EXCEPT ![t] = Dial(d, "connect")]

(* A valid device_id that is not our own; connected is                     *)
(* device_registry.is_already_connected(d).                                *)
OnDeviceDiscovered(d, connected) ==
  IF connected \/ d \in pending
  THEN UNCHANGED discoveryVars
  ELSE \E t \in Dialer :
         /\ dial[t] = NoDial
         /\ pending' = pending \union {d}
         /\ dial' = [dial EXCEPT ![t] = Dial(d, "connect")]

(* connect_to_device returned. *)
Dialled(t) ==
  /\ dial[t].at = "connect"
  /\ dial' = [dial EXCEPT ![t] = Dial(dial[t].device, "sleep")]
  /\ UNCHANGED pending

(* The two seconds have passed. *)
DialEnds(t) ==
  /\ dial[t].at = "sleep"
  /\ pending' = pending \ {dial[t].device}
  /\ dial' = [dial EXCEPT ![t] = NoDial]
=============================================================================
