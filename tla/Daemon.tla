------------------------------- MODULE Daemon -------------------------------
(***************************************************************************)
(* The running daemon: the threads that main starts (server, publisher,    *)
(* message senders, browser) over the registry, the connection manager and *)
(* the kernel's table of descriptors.  A session is what these see of it:  *)
(* it is set up, may become READY for a device, stops at any time and is   *)
(* taken down in the order of finalize_disconnect; modules Sessions and    *)
(* Connection hold the detail.                                             *)
(***************************************************************************)
EXTENDS Integers, FiniteSets, AvahiPublisher, AvahiBrowser, DiscoveryClient

CONSTANTS Session,     \* sessions ever created, a bound
          NoSession,
          Greater      \* the devices whose id is greater than our own

ASSUME DaemonAssumption == NoSession \notin Session /\ Greater \subseteq Device

VARIABLES devices,      \* the registry's entries
          connections,  \* the connection manager's keys
          listening,    \* Server::start: no, yes, or failed
          conn,         \* the sessions, see Unborn
          work, held,   \* a sender: entries of its copy of the registry still to
                        \* serve, and the one whose connection it has locked
          sent          \* history: <<device meant, device at the other end>> for
                        \* each packet of the sender's last call

INSTANCE DeviceRegistry

sessionVars == <<devices, connections, conn>>
senderVars == <<work, held, sent>>
networkVars == <<browserVars, discoveryVars, listening>>
vars == <<publisherVars, networkVars, sessionVars, senderVars>>

Unborn == [at |-> "unborn"]
Nothing == [session_id |-> NoSession]

Init ==
  /\ PublisherInit /\ BrowserInit /\ DiscoveryInit /\ RegistryInit
  /\ connections = {} /\ listening = "no"
  /\ conn = [s \in Session |-> Unborn]
  /\ work = {} /\ held = Nothing /\ sent = {}
-----------------------------------------------------------------------------
(* Sessions.                                                               *)
At(s, label) == conn[s].at = label
Born == {s \in Session : ~At(s, "unborn")}
Goto(s, label) == conn' = [conn EXCEPT ![s].at = label]

(* The kernel gives a new socket the lowest descriptor that is not open.   *)
FreeDescriptor ==
  LET open == {conn[s].fd : s \in {t \in Born : ~At(t, "closed")}}
  IN CHOOSE fd \in 0 .. Cardinality(open) : fd \notin open /\ \A f \in 0 .. fd - 1 : f \in open

(* Connection::create and start. *)
Create(outgoing) ==
  \E s \in Session :
    /\ At(s, "unborn")
    /\ conn' = [conn EXCEPT ![s] = [at |-> "setup", fd |-> FreeDescriptor,
                                    outgoing |-> outgoing, device |-> "none"]]
    /\ connections' = connections \union {s}
    /\ UNCHANGED devices

Usable(s) == At(s, "ready")

(* activate_authorized_peer for a peer that authenticated as d.  A         *)
(* candidate that the registry refuses goes on in setup until it is late.  *)
Activate(s, d) ==
  LET device == [device_id |-> d, session_id |-> s,
                 preferred |-> (d \in Greater) = conn[s].outgoing]
      ready == [conn EXCEPT ![s].at = "ready", ![s].device = d]
  IN /\ At(s, "setup")
     /\ \/ PublishNew(device) /\ conn' = ready
        \/ \E e \in EntriesOf(d) :
             /\ ~IncumbentKeeps(e, device, Usable(e.session_id))
             /\ PublishReplacing(device, e)
             /\ conn' = [ready EXCEPT ![e.session_id].at = IF @ = "ready" THEN "stopping" ELSE @]
     /\ UNCHANGED connections

RequestDisconnect(s) ==
  /\ conn[s].at \in {"setup", "ready"}
  /\ Goto(s, "stopping")
  /\ UNCHANGED <<devices, connections>>

(* finalize_disconnect: registry, manager, descriptor. *)
Remove(s) ==
  /\ At(s, "stopping") /\ Goto(s, "removed")
  /\ RemoveDevice(s) /\ UNCHANGED connections

Unregister(s) ==
  /\ At(s, "removed") /\ Goto(s, "unregistered")
  /\ connections' = connections \ {s} /\ UNCHANGED devices

CloseSocket(s) ==
  /\ At(s, "unregistered") /\ Goto(s, "closed")
  /\ UNCHANGED <<devices, connections>>

SessionNext ==
  /\ \E s \in Session :
       \/ \E d \in Device : Activate(s, d)
       \/ RequestDisconnect(s) \/ Remove(s) \/ Unregister(s) \/ CloseSocket(s)
  /\ UNCHANGED <<publisherVars, networkVars, senderVars>>
-----------------------------------------------------------------------------
(* Server, browser and dialling threads.                                   *)
Listen ==
  /\ listening = "no" /\ listening' \in {"yes", "failed"}
  /\ UNCHANGED <<publisherVars, browserVars, discoveryVars, sessionVars, senderVars>>

Accept ==
  /\ listening = "yes" /\ Create(FALSE)
  /\ UNCHANGED <<publisherVars, networkVars, senderVars>>

(* A resolved service that is not ours and has an IPv4 address and a valid *)
(* device_id reaches on_device_discovered; any other is dropped.           *)
ResolveCallback ==
  /\ Resolved
  /\ \/ UNCHANGED discoveryVars
     \/ \E d \in Device : OnDeviceDiscovered(d, EntriesOf(d) # {})
  /\ UNCHANGED <<publisherVars, listening, sessionVars, senderVars>>

(* connect_to_device: no socket, no connection, or an outgoing session. *)
ConnectToDevice(t) ==
  /\ Dialled(t)
  /\ UNCHANGED sessionVars \/ Create(TRUE)
  /\ UNCHANGED <<publisherVars, browserVars, listening, senderVars>>

NetworkNext ==
  \/ Listen \/ Accept \/ ResolveCallback
  \/ \E t \in Dialer :
       \/ ConnectToDevice(t)
       \/ DialEnds(t) /\ UNCHANGED <<publisherVars, browserVars, listening, sessionVars, senderVars>>
  \/ BrowserNext /\ UNCHANGED <<publisherVars, discoveryVars, listening, sessionVars, senderVars>>
-----------------------------------------------------------------------------
(* MessageService, called by API threads and by main's sender thread.      *)
SenderIdle == work = {} /\ held = Nothing

(* send_to_device: the entry of d in a copy of the registry, if any. *)
SendToDevice(d) ==
  /\ SenderIdle
  /\ work' = EntriesOf(d) /\ work' # {}
  /\ sent' = {} /\ UNCHANGED held

(* broadcast_message: every entry; our own id is never registered. *)
BroadcastMessage ==
  /\ SenderIdle
  /\ work' = devices /\ work' # {}
  /\ sent' = {} /\ UNCHANGED held

(* The entry's weak reference locks as long as the worker of the session   *)
(* has not returned; it may still lock shortly after the socket is closed. *)
LockConnection(e) ==
  /\ held = Nothing /\ e \in work
  /\ work' = work \ {e}
  /\ \/ held' = e
     \/ At(e.session_id, "closed") /\ UNCHANGED held
  /\ UNCHANGED sent

(* Mutant: the entry's descriptor says where to send. *)
RecipientByDescriptor(e) ==
  LET owners == {s \in Born : ~At(s, "closed") /\ conn[s].fd = conn[e.session_id].fd}
  IN IF owners = {} THEN e.session_id ELSE CHOOSE s \in owners : TRUE

(* The session that send_packet is called on. *)
Recipient(e) == e.session_id

(* Connection::send_packet, under write_mutex_: refused unless the session *)
(* is READY and not stopping; stale trust or a failing socket stops it.    *)
SendPacket ==
  LET s == Recipient(held) IN
  /\ held # Nothing
  /\ held' = Nothing
  /\ \/ Usable(s) /\ sent' = sent \union {<<held.device_id, conn[s].device>>} /\ UNCHANGED conn
     \/ Usable(s) /\ Goto(s, "stopping") /\ UNCHANGED sent
     \/ ~Usable(s) /\ UNCHANGED <<conn, sent>>
  /\ UNCHANGED <<work, devices, connections, publisherVars, networkVars>>

SenderNext ==
  \/ /\ \/ \E d \in Device : SendToDevice(d)
        \/ BroadcastMessage
        \/ \E e \in work : LockConnection(e)
     /\ UNCHANGED <<publisherVars, networkVars, sessionVars>>
  \/ SendPacket

Next ==
  \/ PublisherNext /\ UNCHANGED <<networkVars, sessionVars, senderVars>>
  \/ NetworkNext \/ SessionNext \/ SenderNext

Spec == Init /\ [][Next]_vars
-----------------------------------------------------------------------------
(* A device is in pending_connections_ exactly while one detached thread   *)
(* is dialling it: no announcement starts a second thread, and none is     *)
(* left behind that would block the device for ever.                       *)
PendingIsDialled ==
  \A d \in Device :
    IF d \in pending THEN \E t \in Dialer : DialsTo(d) = {t} ELSE DialsTo(d) = {}

(* Neither the browser nor the publisher ever passes a freed object to the *)
(* Avahi library or keeps a pointer to one, whatever client states,        *)
(* failures and repeated RUNNING callbacks come in between.                *)
HandlesAreLive ==
  \A a \in {bh, ph} : ~a.misuse /\ a.held \subseteq a.live

(* The service is advertised only while the Avahi server runs: it is       *)
(* withdrawn when the host name collides or is registered again.  After a  *)
(* failure of the client it goes with the loop, which was told to quit.    *)
AdvertisedWhileRunning ==
  committed => /\ "group" \in ph.live
               /\ \/ announced = "running"
                  \/ announced = "failure" /\ publishing = "quit"

(* A message meant for a device is sent on a session that authenticated as *)
(* that device and no other, although the sender works from a copy of the  *)
(* registry that is stale and the session's descriptor may be reused.      *)
MessagesReachTheirDevice == \A m \in sent : m[1] = m[2]
=============================================================================
