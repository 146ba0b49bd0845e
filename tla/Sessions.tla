------------------------------ MODULE Sessions ------------------------------
(***************************************************************************)
(* The sessions of one daemon: connections that become READY, the registry *)
(* of owners, the live-authorization monitor and the trust store, with the *)
(* steps of their threads interleaved.                                     *)
(*                                                                         *)
(* Threads: per session one that completes the authentication (activate_   *)
(* authorized_peer) and one that cleans up (the receive worker or the      *)
(* destructor); the monitor; any thread that requests a disconnect.        *)
(* write_mutex_ and lifecycle_mutex_ of a session are held exactly at the  *)
(* program points WriteHeld and LifecycleHeld name.  What makes a worker   *)
(* stop (traffic, deadlines, errors) is left open here: Disconnect may     *)
(* happen at any time.  Module Connection models it.                       *)
(***************************************************************************)
EXTENDS SessionAuthentication

CONSTANT Preferred   \* Preferred[s]: (my id < peer id) == is_outgoing()

ASSUME PreferredAssumption == Preferred \in [Session -> BOOLEAN]

VARIABLES devices,          \* the registry's entries
          stopping,         \* stopping_
          ready,            \* ready_
          authorized_peer,  \* revision in authorized_peer_, 0 = nullopt
          expired,          \* weak references to the connection no longer lock
          apc,              \* where the authenticating thread is
          authorization,    \* its AuthorizedPeer: the revision, 0 = none
          replaced,         \* its registration.replaced_device
          wpc               \* where the worker (or the destructor) is

INSTANCE DeviceRegistry

sessionVars == <<stopping, ready, authorized_peer, expired, apc, authorization, replaced, wpc>>
vars == <<trustVars, authVars, devices, sessionVars>>

ActivationPC == {"none", "authorized", "locked", "validated", "registered", "published", "replace"}
WorkerPC == {"run", "destroy", "stopped", "unregister", "done"}

SessionTypeOK ==
  /\ stopping \in [Session -> BOOLEAN]
  /\ ready \in [Session -> BOOLEAN]
  /\ authorized_peer \in [Session -> Nat]
  /\ expired \in [Session -> BOOLEAN]
  /\ apc \in [Session -> ActivationPC]
  /\ authorization \in [Session -> Nat]
  /\ replaced \in [Session -> Session \union {NoSession}]
  /\ wpc \in [Session -> WorkerPC]

(* Every variable of the composition has the type its C++ counterpart has. *)
TypeOK == TrustTypeOK /\ AuthTypeOK /\ RegistryTypeOK /\ SessionTypeOK

Init ==
  /\ TrustInit /\ AuthInit /\ RegistryInit
  /\ stopping = [s \in Session |-> FALSE]
  /\ ready = [s \in Session |-> FALSE]
  /\ authorized_peer = [s \in Session |-> NoRevision]
  /\ expired = [s \in Session |-> FALSE]
  /\ apc = [s \in Session |-> "none"]
  /\ authorization = [s \in Session |-> NoRevision]
  /\ replaced = [s \in Session |-> NoSession]
  /\ wpc = [s \in Session |-> "run"]

(* activate_authorized_peer holds both mutexes from its second check until *)
(* ready_ is set; finalize_disconnect holds write_mutex_ while it cleans.  *)
LifecycleHeld(s) == apc[s] \in {"locked", "validated", "registered", "published"}
WriteHeld(s) == LifecycleHeld(s) \/ wpc[s] = "unregister"

Idle(s) == /\ apc' = [apc EXCEPT ![s] = "none"]
           /\ authorization' = [authorization EXCEPT ![s] = NoRevision]

-----------------------------------------------------------------------------
(* request_disconnect: under lifecycle_mutex_ and socket_mutex_, so never  *)
(* between an activation's last check of stopping_ and its READY.          *)
RequestDisconnect(s) ==
  /\ ~LifecycleHeld(s)
  /\ stopping' = [stopping EXCEPT ![s] = TRUE]

(* A call of request_disconnect by the worker (peer closed, deadline, bad  *)
(* traffic, failed send), by a sender or by the owner of the connection.   *)
Disconnect(s) ==
  /\ wpc[s] = "run" /\ ~stopping[s]
  /\ RequestDisconnect(s)
  /\ UNCHANGED <<trustVars, authVars, devices, ready, authorized_peer, expired,
                 apc, authorization, replaced, wpc>>

-----------------------------------------------------------------------------
(* The authenticating thread.  It holds a strong reference.                *)

(* authorize_verified_identity: the trust lookup that makes the snapshot.  *)
Authorize(s) ==
  /\ apc[s] = "none" /\ ~expired[s]
  /\ ~stopping[s] /\ ~ready[s]
  /\ FindActive(PeerOf[s]) # NoRevision
  /\ authorization' = [authorization EXCEPT ![s] = FindActive(PeerOf[s])]
  /\ apc' = [apc EXCEPT ![s] = "authorized"]
  /\ UNCHANGED <<trustVars, authVars, devices, stopping, ready, authorized_peer,
                 expired, replaced, wpc>>

(* The handshake deadline passed, or the store could not confirm the       *)
(* snapshot: activate_authorized_peer returns false.                       *)
GiveUp(s) ==
  /\ \/ apc[s] = "authorized"
     \/ apc[s] = "locked" /\ (MayThrow \/ ~IsCurrent(s, authorization[s]))
  /\ Idle(s)
  /\ UNCHANGED <<trustVars, authVars, devices, stopping, ready, authorized_peer,
                 expired, replaced, wpc>>

(* Mutant: stopping_ is not checked again once the mutexes are held. *)
LockWithoutRecheck(s) ==
  /\ apc[s] = "authorized" /\ ~WriteHeld(s)
  /\ apc' = [apc EXCEPT ![s] = "locked"]
  /\ UNCHANGED <<trustVars, authVars, devices, stopping, ready, authorized_peer,
                 expired, authorization, replaced, wpc>>

(* write_mutex_ and lifecycle_mutex_ are taken and the checks repeated. *)
Lock(s) ==
  /\ apc[s] = "authorized" /\ ~WriteHeld(s)
  /\ IF stopping[s] \/ ready[s]
       THEN Idle(s)
       ELSE /\ apc' = [apc EXCEPT ![s] = "locked"]
            /\ UNCHANGED authorization
  /\ UNCHANGED <<trustVars, authVars, devices, stopping, ready, authorized_peer,
                 expired, replaced, wpc>>

(* register_live_session, first half: authorization_is_current. *)
Revalidate(s) ==
  /\ apc[s] = "locked"
  /\ IsCurrent(s, authorization[s])
  /\ apc' = [apc EXCEPT ![s] = "validated"]
  /\ UNCHANGED <<trustVars, authVars, devices, stopping, ready, authorized_peer,
                 expired, authorization, replaced, wpc>>

(* register_live_session, second half: an id already present is refused. *)
Register(s) ==
  /\ apc[s] = "validated"
  /\ IF live[s] = NoRevision
       THEN /\ RegisterLive(s, authorization[s])
            /\ apc' = [apc EXCEPT ![s] = "registered"]
            /\ UNCHANGED authorization
       ELSE Idle(s) /\ UNCHANGED authVars
  /\ UNCHANGED <<trustVars, devices, stopping, ready, authorized_peer,
                 expired, replaced, wpc>>

(* The entry that publish_authenticated_device makes for the session. *)
DeviceOf(s) == [device_id |-> PeerOf[s], session_id |-> s, preferred |-> Preferred[s]]

(* existing.connection locks and is not stopping. *)
Owned(s) == ~expired[s] /\ ~stopping[s]

Blocked(s) == \E e \in EntriesOf(PeerOf[s]) :
                IncumbentKeeps(e, DeviceOf(s), Owned(e.session_id))

(* The registry keeps the incumbent, or throws: the registration is undone. *)
PublishRejected(s) ==
  /\ apc[s] = "registered" /\ (MayThrow \/ Blocked(s))
  /\ UnregisterLive(s)
  /\ Idle(s)
  /\ UNCHANGED <<trustVars, devices, stopping, ready, authorized_peer, expired,
                 replaced, wpc>>

PublishAccepted(s) ==
  /\ apc[s] = "registered" /\ ~Blocked(s)
  /\ \/ /\ PublishNew(DeviceOf(s))
        /\ UNCHANGED replaced
     \/ \E e \in EntriesOf(PeerOf[s]) :
          /\ PublishReplacing(DeviceOf(s), e)
          /\ replaced' = [replaced EXCEPT ![s] = e.session_id]
  /\ apc' = [apc EXCEPT ![s] = "published"]
  /\ UNCHANGED <<trustVars, authVars, stopping, ready, authorized_peer, expired,
                 authorization, wpc>>

(* authorized_peer_ and ready_ are set, then both mutexes are released. *)
BecomeReady(s) ==
  /\ apc[s] = "published"
  /\ authorized_peer' = [authorized_peer EXCEPT ![s] = authorization[s]]
  /\ ready' = [ready EXCEPT ![s] = TRUE]
  /\ authorization' = [authorization EXCEPT ![s] = NoRevision]
  /\ apc' = [apc EXCEPT ![s] = IF replaced[s] = NoSession THEN "none" ELSE "replace"]
  /\ UNCHANGED <<trustVars, authVars, devices, stopping, expired, replaced, wpc>>

(* Mutant: the displaced connection is forgotten. *)
ForgetReplaced(s) ==
  /\ apc[s] = "replace"
  /\ Idle(s)
  /\ replaced' = [replaced EXCEPT ![s] = NoSession]
  /\ UNCHANGED <<trustVars, authVars, devices, stopping, ready, authorized_peer, expired, wpc>>

(* The displaced connection, if it still exists, is stopped. *)
DisconnectReplaced(s) ==
  /\ apc[s] = "replace"
  /\ IF expired[replaced[s]] THEN UNCHANGED stopping ELSE RequestDisconnect(replaced[s])
  /\ Idle(s)
  /\ replaced' = [replaced EXCEPT ![s] = NoSession]
  /\ UNCHANGED <<trustVars, authVars, devices, ready, authorized_peer, expired, wpc>>

-----------------------------------------------------------------------------
(* finalize_disconnect, by the worker or by the destructor.                *)

(* Mutant: finalize_disconnect returns when stopping_ was already set. *)
WorkerEndOnce(s) ==
  /\ wpc[s] = "run" /\ ~stopping[s]
  /\ RequestDisconnect(s)
  /\ wpc' = [wpc EXCEPT ![s] = "stopped"]
  /\ UNCHANGED <<trustVars, authVars, devices, ready, authorized_peer, expired,
                 apc, authorization, replaced>>

(* The receive worker ended; finalize_disconnect requests the disconnect. *)
WorkerEnd(s) ==
  /\ wpc[s] = "run"
  /\ RequestDisconnect(s)
  /\ wpc' = [wpc EXCEPT ![s] = "stopped"]
  /\ UNCHANGED <<trustVars, authVars, devices, ready, authorized_peer, expired,
                 apc, authorization, replaced>>

(* The last reference to a connection that was never started is dropped. *)
Release(s) ==
  /\ wpc[s] = "run" /\ apc[s] = "none"
  /\ expired' = [expired EXCEPT ![s] = TRUE]
  /\ wpc' = [wpc EXCEPT ![s] = "destroy"]
  /\ UNCHANGED <<trustVars, authVars, devices, stopping, ready, authorized_peer,
                 apc, authorization, replaced>>

Destroy(s) ==
  /\ wpc[s] = "destroy"
  /\ RequestDisconnect(s)
  /\ wpc' = [wpc EXCEPT ![s] = "stopped"]
  /\ UNCHANGED <<trustVars, authVars, devices, ready, authorized_peer, expired,
                 apc, authorization, replaced>>

(* write_mutex_ is taken, cleaned_up_ set, the live authorization dropped. *)
Cleanup(s) ==
  /\ wpc[s] = "stopped" /\ ~WriteHeld(s)
  /\ UnregisterLive(s)
  /\ wpc' = [wpc EXCEPT ![s] = "unregister"]
  /\ UNCHANGED <<trustVars, devices, stopping, ready, authorized_peer, expired,
                 apc, authorization, replaced>>

(* The registry entry of this session goes, the descriptor is closed. *)
Finish(s) ==
  /\ wpc[s] = "unregister"
  /\ RemoveDevice(s)
  /\ wpc' = [wpc EXCEPT ![s] = "done"]
  /\ UNCHANGED <<trustVars, authVars, stopping, ready, authorized_peer, expired,
                 apc, authorization, replaced>>

-----------------------------------------------------------------------------
(* The monitor and the writers of the trust store.                         *)

Monitor ==
  /\ MonitorStep
  /\ UNCHANGED <<trustVars, devices, sessionVars>>

(* The invalidation callback locks the weak reference and, if that works,  *)
(* requests the disconnect.                                                *)
MonitorInvalidate ==
  /\ MonitorInvalidated
  /\ IF expired[entry] THEN UNCHANGED stopping ELSE RequestDisconnect(entry)
  /\ UNCHANGED <<trustVars, devices, ready, authorized_peer, expired,
                 apc, authorization, replaced, wpc>>

TrustWrite ==
  /\ TrustNext
  /\ UNCHANGED <<authVars, devices, sessionVars>>

Activation(s) ==
  \/ Lock(s) \/ GiveUp(s) \/ Revalidate(s) \/ Register(s)
  \/ PublishRejected(s) \/ PublishAccepted(s) \/ BecomeReady(s) \/ DisconnectReplaced(s)

Finalization(s) == Destroy(s) \/ Cleanup(s) \/ Finish(s)

Next ==
  \/ Monitor \/ MonitorInvalidate \/ TrustWrite
  \/ \E s \in Session :
       \/ Authorize(s) \/ Activation(s)
       \/ Disconnect(s) \/ WorkerEnd(s) \/ Release(s) \/ Finalization(s)

Spec == Init /\ [][Next]_vars

(* Threads that are inside a call finish it; the monitor thread runs; a    *)
(* worker leaves its loop once stopping_ is set.  The callback waits for a *)
(* lifecycle mutex that failing activations take again and again; they end *)
(* with the handshake deadline, which is not a variable here, hence strong *)
(* fairness.  Nothing is assumed of peers, callers or trust store writers. *)
Fairness ==
  /\ WF_vars(Monitor) /\ SF_vars(MonitorInvalidate)
  /\ \A s \in Session : /\ WF_vars(Activation(s))
                        /\ WF_vars(Finalization(s))
                        /\ WF_vars(stopping[s] /\ WorkerEnd(s))

FairSpec == Spec /\ Fairness

-----------------------------------------------------------------------------
(* Properties.                                                             *)

Stale(s) == live[s] # NoRevision /\ live[s] # FindActive(PeerOf[s])

(* The monitor has, or will take, a reason to look at the entry of s. *)
WillScan(s) ==
  \/ force_scan
  \/ last_token # token
  \/ mpc = "token" /\ forced
  \/ mpc = "snapshot"
  \/ mpc \in {"scan", "erase", "invalidate"} /\ snapshot[s] = live[s]

(* A live authorization that the trust store no longer backs never escapes *)
(* the monitor: in every state a forced scan, a new change token or the    *)
(* running scan leads monitor_live_authorizations to the entry.  The hints *)
(* are read before the snapshot and the entries after it, so a commit or a *)
(* registration between any two of these steps must leave one of them set. *)
StaleIsNoticed == \A s \in Session : Stale(s) => WillScan(s)

(* A READY session that is not stopping is covered by its entry in         *)
(* live_authorizations_ with the very revision it was authorized under, or *)
(* the monitor holds its invalidation callback, or it is being destroyed.  *)
(* activate_authorized_peer registers before READY, and only the monitor   *)
(* and finalize_disconnect erase.                                          *)
ReadyIsWatched ==
  \A s \in Session :
    ready[s] /\ ~stopping[s] =>
      \/ live[s] = authorized_peer[s] /\ live[s] # NoRevision
      \/ mpc = "invalidate" /\ entry = s
      \/ expired[s]

(* The registry holds at most one entry per device id, although publish    *)
(* scans for one match only and cleanups of old sessions run concurrently. *)
OneOwner == \A e, f \in devices : e.device_id = f.device_id => e = f

(* A READY session that is not stopping owns its device's registry entry,  *)
(* or the session that displaced it still holds the duty to stop it: a     *)
(* late cleanup never removes a newer owner, and no two sessions of one    *)
(* device stay usable.                                                     *)
ReadyIsOwner ==
  \A s \in Session :
    ready[s] /\ ~stopping[s] /\ ~expired[s] =>
      \/ DeviceOf(s) \in devices
      \/ \E t \in Session : apc[t] \in {"published", "replace"} /\ replaced[t] = s

(* Nothing of a session survives its cleanup: once finalize_disconnect has *)
(* passed, no activation that was under way can put the session back into  *)
(* live_authorizations_ or the registry.                                   *)
CleanedIsGone ==
  \A s \in Session :
    /\ wpc[s] \in {"unregister", "done"} => live[s] = NoRevision
    /\ wpc[s] = "done" => DeviceOf(s) \notin devices

(* A duplicate displaces a usable owner only when it has the preferred     *)
(* direction and the owner has not; otherwise the owner was already going. *)
OnlyPreferredDisplaces ==
  \A t \in Session :
    LET s == replaced[t] IN
    s # NoSession => \/ Preferred[t] /\ ~Preferred[s]
                     \/ stopping[s] \/ expired[s]

(* Unless the store throws, the monitor erases only authorizations that the    *)
(* store really changed: the entry is compared again under live_mutex_     *)
(* after the unlocked lookup, and a revision never returns.                *)
EraseOnlyStale ==
  [][\A s \in Session :
       mpc = "erase" /\ mpc' = "invalidate" /\ entry = s /\ ~MayThrow
         => ~IsCurrent(s, live[s])]_vars

(* A session whose trust was revoked or changed is stopped, whatever the   *)
(* monitor was doing when the commit happened.                             *)
RevokedSessionStops ==
  \A s \in Session :
    (ready[s] /\ ~IsCurrent(s, authorized_peer[s])) ~> (stopping[s] \/ expired[s])

(* A stopping session is cleaned up: no thread waits for a mutex forever.  *)
StoppedSessionIsCleaned ==
  \A s \in Session : stopping[s] ~> (wpc[s] = "done")
=============================================================================
