----------------------------- MODULE Connection -----------------------------
(***************************************************************************)
(* core/networking/connection.cpp: one connection, its three mutexes and   *)
(* the threads that use it at the same time:                               *)
(*   worker  the receive worker (or, once all references are dropped, the  *)
(*           destructor),                                                  *)
(*   auth    the thread that completes the authentication,                 *)
(*   sender  a thread that calls send_packet,                              *)
(*   closer  any other thread that calls request_disconnect.               *)
(*                                                                         *)
(* A step goes from one lock operation, access to an atomic or system call *)
(* to the next.  The byte stream is abstracted: a received chunk is any    *)
(* series of the peer's preface and records, a frame is written in any     *)
(* number of pieces.  Time is one flag: the handshake deadline has passed. *)
(***************************************************************************)
EXTENDS Naturals, Sequences

CONSTANT Callers   \* the threads besides the worker that make calls

ASSUME CallersAssumption == Callers \subseteq {"auth", "sender", "closer"}

VARIABLES
  conn,   \* the members of the Connection, see Fields
  mutex,  \* mutex[m]: the thread that holds mutex m, or "nobody"
  pc,     \* pc[t]: call stack of thread t, program point first
  local,  \* the worker's record and poll deadline, the record each sender sends
  wire,   \* what left on the socket, see Wire
  env,    \* late: handshake_deadline_ has passed; current: the trust store
          \* backs the authorization; released: the last reference is gone
  fresh,              \* history: fresh[t]: current when t began with its record
  ready_at_deadline   \* history: READY when the handshake deadline passed

vars == <<conn, mutex, pc, local, wire, env, fresh, ready_at_deadline>>
history == <<fresh, ready_at_deadline>>

Thread == {"worker", "auth", "sender", "closer"}
Mutex == {"write", "lifecycle", "socket"}

Control == {"hello", "ping", "pong"}
\* "message": any application record; "bad": rejected by parse_packet, the
\* size limits or the hello handler.
Received == Control \union {"message", "bad"}
Sent == Control \union {"message", "preface"}

Fields ==
  [started : BOOLEAN, stopping : BOOLEAN, cleaned_up : BOOLEAN,
   ready : BOOLEAN, authorized_peer : BOOLEAN,
   local_preface_sent : BOOLEAN, peer_preface_received : BOOLEAN,
   peer_hello_received : BOOLEAN,
   preface_complete : BOOLEAN,              \* of record_parser_
   fd : {"open", "shut", "closed"},         \* socket_fd_
   reason : {"none", "handshake timeout", "other"}]   \* of the first disconnect

\* progress: part of the frame being written is out; torn: a frame was
\* abandoned part way; corrupt: bytes followed a torn frame; early: a record
\* was begun before the preface had been sent.
Wire == [progress : BOOLEAN, torn : BOOLEAN, corrupt : BOOLEAN, early : BOOLEAN]

Point == {"disconnect", "timeout", "shutdown", "shutdown_timeout", "write", "unlock",
          "send", "send_check", "activate", "activate_write", "activate_lifecycle",
          "commit", "commit_ready", "preface", "preface_sent", "loop", "wait", "poll",
          "consume", "accept", "hello", "handle", "parsed", "dispatch", "handled",
          "finalize", "cleanup", "cleanup_socket", "close"}

(* Every member has its type and no call is nested deeper than the code's. *)
TypeOK ==
  /\ conn \in Fields
  /\ mutex \in [Mutex -> Thread \union {"nobody"}]
  /\ \A t \in Thread : Len(pc[t]) <= 4 /\ \A i \in DOMAIN pc[t] : pc[t][i] \in Point
  /\ local \in [incoming : Received, deadline : {"handshake", "max"},
                outgoing : [{"worker", "sender"} -> Sent]]
  /\ wire \in Wire
  /\ env \in [late : BOOLEAN, current : BOOLEAN, released : BOOLEAN]
  /\ fresh \in [Thread -> BOOLEAN] /\ ready_at_deadline \in BOOLEAN

Init ==
  /\ conn = [started |-> FALSE, stopping |-> FALSE, cleaned_up |-> FALSE,
             ready |-> FALSE, authorized_peer |-> FALSE,
             local_preface_sent |-> FALSE, peer_preface_received |-> FALSE,
             peer_hello_received |-> FALSE, preface_complete |-> FALSE,
             fd |-> "open", reason |-> "none"]
  /\ mutex = [m \in Mutex |-> "nobody"]
  /\ pc = [t \in Thread |-> <<>>]
  /\ local = [incoming |-> "bad", deadline |-> "handshake",
              outgoing |-> [t \in {"worker", "sender"} |-> "preface"]]
  /\ wire = [progress |-> FALSE, torn |-> FALSE, corrupt |-> FALSE, early |-> FALSE]
  /\ env = [late |-> FALSE, current |-> TRUE, released |-> FALSE]
  /\ fresh = [t \in Thread |-> FALSE] /\ ready_at_deadline = FALSE

At(t, point) == pc[t] # <<>> /\ Head(pc[t]) = point
Idle(t) == pc[t] = <<>>
CanCall(t) == t \in Callers /\ Idle(t) /\ ~env.released
Begin(t, point) == pc' = [pc EXCEPT ![t] = <<point>>]
Goto(t, point) == pc' = [pc EXCEPT ![t] = <<point>> \o Tail(@)]
Call(t, entry, return) == pc' = [pc EXCEPT ![t] = <<entry, return>> \o Tail(@)]
Return(t) == pc' = [pc EXCEPT ![t] = Tail(@)]

Free(m) == mutex[m] = "nobody"
Acquire(t, m) == Free(m) /\ mutex' = [mutex EXCEPT ![m] = t]

-----------------------------------------------------------------------------
(* request_disconnect: "disconnect" for any reason, "timeout" for          *)
(* "handshake timeout".  socket_mutex_ is taken under lifecycle_mutex_.    *)
RequestDisconnect(t) ==
  /\ At(t, "disconnect") \/ At(t, "timeout")
  /\ Acquire(t, "lifecycle")
  /\ Goto(t, IF At(t, "timeout") THEN "shutdown_timeout" ELSE "shutdown")
  /\ UNCHANGED <<conn, local, wire, env, history>>

(* Mutant: stopping_ is set, the socket is not shut down. *)
StopOnly(t) ==
  /\ At(t, "shutdown") \/ At(t, "shutdown_timeout")
  /\ Free("socket")
  /\ conn' = [conn EXCEPT !.stopping = TRUE]
  /\ mutex' = [mutex EXCEPT !["lifecycle"] = "nobody"]
  /\ Return(t)
  /\ UNCHANGED <<local, wire, env, history>>

Shutdown(t) ==
  /\ At(t, "shutdown") \/ At(t, "shutdown_timeout")
  /\ Free("socket")
  /\ conn' = IF conn.stopping THEN conn
             ELSE [conn EXCEPT !.stopping = TRUE, !.fd = "shut",
                               !.reason = IF At(t, "shutdown_timeout")
                                            THEN "handshake timeout" ELSE "other"]
  /\ mutex' = [mutex EXCEPT !["lifecycle"] = "nobody"]
  /\ Return(t)
  /\ UNCHANGED <<local, wire, env, history>>

-----------------------------------------------------------------------------
(* send_all, under write_mutex_: some bytes, the last bytes, or a failure  *)
(* (stopping_, a deadline, the system), which calls request_disconnect     *)
(* before the mutex is released.                                           *)
Written(t, all) ==
  [wire EXCEPT !.progress = ~all, !.corrupt = @ \/ wire.torn,
               !.early = @ \/ (local.outgoing[t] # "preface" /\ ~conn.local_preface_sent)]

WritePiece(t) ==
  /\ At(t, "write") /\ ~conn.stopping
  /\ wire' = Written(t, FALSE)
  /\ UNCHANGED <<conn, mutex, pc, local, env, history>>

WriteAll(t) ==
  /\ At(t, "write") /\ ~conn.stopping
  /\ wire' = Written(t, TRUE)
  /\ Goto(t, IF local.outgoing[t] = "preface" THEN "preface_sent" ELSE "unlock")
  /\ UNCHANGED <<conn, mutex, local, env, history>>

(* Mutant: the session goes on after a failed write. *)
WriteFailsQuietly(t) ==
  /\ At(t, "write")
  /\ wire' = [wire EXCEPT !.progress = FALSE, !.torn = @ \/ wire.progress]
  /\ Goto(t, "unlock")
  /\ UNCHANGED <<conn, mutex, local, env, history>>

WriteFails(t) ==
  /\ At(t, "write")
  /\ wire' = [wire EXCEPT !.progress = FALSE, !.torn = @ \/ wire.progress]
  /\ Call(t, "disconnect", "unlock")
  /\ UNCHANGED <<conn, mutex, local, env, history>>

Unlock(t) ==
  /\ At(t, "unlock")
  /\ mutex' = [mutex EXCEPT !["write"] = "nobody"]
  /\ Return(t)
  /\ UNCHANGED <<conn, local, wire, env, history>>

(* send_packet.  Control records go without a trust lookup. *)
Send(t) ==
  /\ At(t, "send") /\ Acquire(t, "write")
  /\ fresh' = [fresh EXCEPT ![t] = env.current]
  /\ Goto(t, IF conn.stopping \/ ~conn.ready \/ ~conn.authorized_peer THEN "unlock"
             ELSE IF local.outgoing[t] \in Control THEN "write" ELSE "send_check")
  /\ UNCHANGED <<conn, local, wire, env, ready_at_deadline>>

(* Mutant: the cached authorization is trusted. *)
SendUnchecked(t) ==
  /\ At(t, "send_check")
  /\ Goto(t, "write")
  /\ UNCHANGED <<conn, mutex, local, wire, env, history>>

(* The lookup confirms the authorization (the record is then sent, or is   *)
(* too large to be serialized), or it does not: revoked or a store error.  *)
SendCheck(t) ==
  /\ At(t, "send_check")
  /\ \/ env.current /\ (Goto(t, "write") \/ Goto(t, "unlock"))
     \/ Call(t, "disconnect", "unlock")
  /\ UNCHANGED <<conn, mutex, local, wire, env, history>>

-----------------------------------------------------------------------------
(* authorize_verified_identity and activate_authorized_peer.  What happens *)
(* to the live map and the registry is in module Sessions.                 *)
Refused == conn.stopping \/ conn.ready \/ env.late

Authorize ==
  /\ CanCall("auth")
  /\ ~Refused /\ env.current
  /\ Begin("auth", "activate")
  /\ UNCHANGED <<conn, mutex, local, wire, env, history>>

Activate ==
  /\ At("auth", "activate")
  /\ IF Refused THEN Return("auth") ELSE Goto("auth", "activate_write")
  /\ UNCHANGED <<conn, mutex, local, wire, env, history>>

ActivateWrite ==
  /\ At("auth", "activate_write") /\ Acquire("auth", "write")
  /\ Goto("auth", "activate_lifecycle")
  /\ UNCHANGED <<conn, local, wire, env, history>>

(* Mutant: the flags are checked, lifecycle_mutex_ is not held. *)
ActivateUnlocked ==
  /\ At("auth", "activate_lifecycle")
  /\ IF Refused
       THEN mutex' = [mutex EXCEPT !["write"] = "nobody"] /\ Return("auth")
       ELSE UNCHANGED mutex /\ Goto("auth", "commit")
  /\ UNCHANGED <<conn, local, wire, env, history>>

ActivateLifecycle ==
  /\ At("auth", "activate_lifecycle") /\ Free("lifecycle")
  /\ IF Refused
       THEN mutex' = [mutex EXCEPT !["write"] = "nobody"] /\ Return("auth")
       ELSE mutex' = [mutex EXCEPT !["lifecycle"] = "auth"] /\ Goto("auth", "commit")
  /\ UNCHANGED <<conn, local, wire, env, history>>

ReleaseBoth == mutex' = [mutex EXCEPT !["write"] = "nobody", !["lifecycle"] = "nobody"]

(* register_live_session or the registry refuses, or both accept. *)
CommitRefused ==
  /\ At("auth", "commit")
  /\ ReleaseBoth /\ Return("auth")
  /\ UNCHANGED <<conn, local, wire, env, history>>

CommitPeer ==
  /\ At("auth", "commit") /\ env.current
  /\ conn' = [conn EXCEPT !.authorized_peer = TRUE]
  /\ Goto("auth", "commit_ready")
  /\ UNCHANGED <<mutex, local, wire, env, history>>

CommitReady ==
  /\ At("auth", "commit_ready")
  /\ conn' = [conn EXCEPT !.ready = TRUE]
  /\ ReleaseBoth /\ Return("auth")
  /\ UNCHANGED <<local, wire, env, history>>

-----------------------------------------------------------------------------
(* start: a second call returns; without a thread the caller cleans up.    *)
Start ==
  /\ ~conn.started /\ ~env.released
  /\ conn' = [conn EXCEPT !.started = TRUE]
  /\ Begin("worker", "preface") \/ Begin("worker", "finalize")
  /\ UNCHANGED <<mutex, local, wire, env, history>>

(* send_preface, once per worker; after a failure the loop ends at once. *)
SendPreface ==
  /\ At("worker", "preface") /\ Free("write")
  /\ IF conn.stopping
       THEN Goto("worker", "finalize") /\ UNCHANGED <<mutex, local>>
       ELSE /\ Acquire("worker", "write")
            /\ local' = [local EXCEPT !.outgoing["worker"] = "preface"]
            /\ Call("worker", "write", "loop")
  /\ UNCHANGED <<conn, wire, env, history>>

PrefaceSent ==
  /\ At("worker", "preface_sent")
  /\ conn' = [conn EXCEPT !.local_preface_sent = TRUE]
  /\ Goto("worker", "unlock")
  /\ UNCHANGED <<mutex, local, wire, env, history>>

(* Mutant: the worker polls without a deadline. *)
LoopWithoutDeadline ==
  /\ At("worker", "loop")
  /\ Goto("worker", IF conn.stopping THEN "finalize" ELSE "wait")
  /\ local' = [local EXCEPT !.deadline = "max"]
  /\ UNCHANGED <<conn, mutex, wire, env, history>>

(* receive_loop: the deadline of the next poll is chosen from ready_. *)
Loop ==
  /\ At("worker", "loop")
  /\ IF conn.stopping
       THEN Goto("worker", "finalize") /\ UNCHANGED local
       ELSE /\ local' = [local EXCEPT !.deadline = IF conn.ready THEN "max" ELSE "handshake"]
            /\ Goto("worker", "wait")
  /\ UNCHANGED <<conn, mutex, wire, env, history>>

DeadlinePassed == local.deadline = "handshake" /\ env.late

(* wait_for_socket does not poll once its deadline has passed. *)
Wait ==
  /\ At("worker", "wait")
  /\ IF DeadlinePassed THEN Call("worker", "timeout", "finalize") ELSE Goto("worker", "poll")
  /\ UNCHANGED <<conn, mutex, local, wire, env, history>>

PollTimeout ==
  /\ At("worker", "poll") /\ DeadlinePassed
  /\ Call("worker", "timeout", "finalize")
  /\ UNCHANGED <<conn, mutex, local, wire, env, history>>

(* Nothing to read after all; an error or the end of the stream; data.  A  *)
(* signal only makes wait_for_socket check its deadline again.             *)
PollReady ==
  /\ At("worker", "poll")
  /\ \/ Goto("worker", "loop")
     \/ Call("worker", "disconnect", "finalize")
     \/ Goto("worker", "consume")
  /\ UNCHANGED <<conn, mutex, local, wire, env, history>>

(* RecordParser::consume: the rest of the peer's preface, one more record  *)
(* for the handler, a framing error, or the end of the chunk.              *)
ConsumePreface ==
  /\ At("worker", "consume") /\ ~conn.preface_complete
  /\ conn' = [conn EXCEPT !.preface_complete = TRUE]
  /\ UNCHANGED <<mutex, pc, local, wire, env, history>>

ConsumeRecord ==
  /\ At("worker", "consume") /\ conn.preface_complete
  /\ \E r \in Received : local' = [local EXCEPT !.incoming = r]
  /\ Call("worker", "accept", "handle")
  /\ UNCHANGED <<conn, mutex, wire, env, history>>

ConsumeFails ==
  /\ At("worker", "consume")
  /\ Call("worker", "disconnect", "loop")
  /\ UNCHANGED <<conn, mutex, local, wire, env, history>>

ConsumeEnd ==
  /\ At("worker", "consume")
  /\ IF conn.preface_complete /\ ~conn.stopping
       THEN Call("worker", "accept", "loop") ELSE Goto("worker", "loop")
  /\ UNCHANGED <<conn, mutex, local, wire, env, history>>

(* accept_peer_preface: the first call sends the hello. *)
AcceptPeerPreface ==
  /\ At("worker", "accept")
  /\ IF conn.peer_preface_received THEN Return("worker") ELSE Goto("worker", "hello")
  /\ conn' = [conn EXCEPT !.peer_preface_received = TRUE]
  /\ UNCHANGED <<mutex, local, wire, env, history>>

SendInitialHello ==
  /\ At("worker", "hello") /\ Free("write")
  /\ IF conn.stopping \/ ~conn.local_preface_sent
       THEN Goto("worker", "disconnect") /\ UNCHANGED <<mutex, local>>
       ELSE /\ Acquire("worker", "write")
            /\ local' = [local EXCEPT !.outgoing["worker"] = "hello"]
            /\ Goto("worker", "write")
  /\ UNCHANGED <<conn, wire, env, history>>

(* handle_record: the checks before the record is parsed ... *)
HandleRecord ==
  /\ At("worker", "handle")
  /\ fresh' = [fresh EXCEPT !["worker"] = env.current]
  /\ IF conn.stopping THEN Goto("worker", "loop")
     ELSE IF ~conn.ready /\ env.late THEN Call("worker", "timeout", "loop")
     ELSE Goto("worker", "parsed")
  /\ UNCHANGED <<conn, mutex, local, wire, env, ready_at_deadline>>

(* ... a record that this state of the session does not admit ... *)
Admitted ==
  /\ local.incoming # "bad"
  /\ IF conn.ready THEN local.incoming # "hello" /\ conn.authorized_peer
                   ELSE local.incoming = "hello" /\ ~conn.peer_hello_received

HandleRejected ==
  /\ At("worker", "parsed") /\ ~Admitted
  /\ Call("worker", "disconnect", "loop")
  /\ UNCHANGED <<conn, mutex, local, wire, env, history>>

(* ... the unverified hello ... *)
HandleHello ==
  /\ At("worker", "parsed") /\ Admitted /\ ~conn.ready
  /\ conn' = [conn EXCEPT !.peer_hello_received = TRUE]
  /\ Goto("worker", "handled")
  /\ UNCHANGED <<mutex, local, wire, env, history>>

(* ... a ping, answered through send_packet, or a pong ... *)
HandleControl ==
  /\ At("worker", "parsed") /\ Admitted /\ conn.ready /\ local.incoming \in Control
  /\ IF local.incoming = "ping"
       THEN /\ local' = [local EXCEPT !.outgoing["worker"] = "pong"]
            /\ Call("worker", "send", "handled")
       ELSE Goto("worker", "handled") /\ UNCHANGED local
  /\ UNCHANGED <<conn, mutex, wire, env, history>>

(* ... and an application record, after another trust lookup. *)
HandleMessage ==
  /\ At("worker", "parsed") /\ Admitted /\ conn.ready /\ local.incoming = "message"
  /\ \/ env.current /\ Goto("worker", "dispatch")
     \/ Call("worker", "disconnect", "loop")
  /\ UNCHANGED <<conn, mutex, local, wire, env, history>>

(* The message handler emits the event, or throws. *)
Dispatch ==
  /\ At("worker", "dispatch")
  /\ Goto("worker", "handled") \/ Call("worker", "disconnect", "loop")
  /\ UNCHANGED <<conn, mutex, local, wire, env, history>>

Handled ==
  /\ At("worker", "handled")
  /\ Goto("worker", IF conn.stopping THEN "loop" ELSE "consume")
  /\ UNCHANGED <<conn, mutex, local, wire, env, history>>

-----------------------------------------------------------------------------
(* finalize_disconnect, by the worker and then again by the destructor.    *)
Finalize ==
  /\ At("worker", "finalize")
  /\ Call("worker", "disconnect", "cleanup")
  /\ UNCHANGED <<conn, mutex, local, wire, env, history>>

CleanupWrite ==
  /\ At("worker", "cleanup") /\ Acquire("worker", "write")
  /\ Goto("worker", "cleanup_socket")
  /\ UNCHANGED <<conn, local, wire, env, history>>

(* Mutant: cleaned_up_ is not consulted. *)
CleanupEveryTime ==
  /\ At("worker", "cleanup_socket") /\ Acquire("worker", "socket")
  /\ Goto("worker", "close")
  /\ conn' = [conn EXCEPT !.cleaned_up = TRUE]
  /\ UNCHANGED <<local, wire, env, history>>

CleanupSocket ==
  /\ At("worker", "cleanup_socket") /\ Free("socket")
  /\ IF conn.cleaned_up
       THEN Goto("worker", "unlock") /\ UNCHANGED mutex
       ELSE Goto("worker", "close") /\ Acquire("worker", "socket")
  /\ conn' = [conn EXCEPT !.cleaned_up = TRUE]
  /\ UNCHANGED <<local, wire, env, history>>

Close ==
  /\ At("worker", "close")
  /\ conn' = [conn EXCEPT !.fd = "closed"]
  /\ mutex' = [mutex EXCEPT !["socket"] = "nobody"]
  /\ Goto("worker", "unlock")
  /\ UNCHANGED <<local, wire, env, history>>

-----------------------------------------------------------------------------
(* Callers and the environment.                                            *)

CallSendPacket ==
  /\ CanCall("sender")
  /\ \E r \in {"ping", "message"} : local' = [local EXCEPT !.outgoing["sender"] = r]
  /\ Begin("sender", "send")
  /\ UNCHANGED <<conn, mutex, wire, env, history>>

CallDisconnect ==
  /\ CanCall("closer")
  /\ Begin("closer", "disconnect")
  /\ UNCHANGED <<conn, mutex, local, wire, env, history>>

(* The last reference is dropped: the destructor runs. *)
Release ==
  /\ ~env.released /\ \A t \in Thread : Idle(t)
  /\ env' = [env EXCEPT !.released = TRUE]
  /\ Begin("worker", "finalize")
  /\ UNCHANGED <<conn, mutex, local, wire, history>>

HandshakeDeadline ==
  /\ ~env.late
  /\ env' = [env EXCEPT !.late = TRUE]
  /\ ready_at_deadline' = conn.ready
  /\ UNCHANGED <<conn, mutex, pc, local, wire, fresh>>

(* A committed change of the peer's trust record; the revision it had      *)
(* never returns.                                                          *)
Revoke ==
  /\ env.current
  /\ env' = [env EXCEPT !.current = FALSE]
  /\ UNCHANGED <<conn, mutex, pc, local, wire, history>>

-----------------------------------------------------------------------------
Shared(t) ==
  \/ RequestDisconnect(t) \/ Shutdown(t)
  \/ WritePiece(t) \/ WriteAll(t) \/ WriteFails(t) \/ Unlock(t)
  \/ Send(t) \/ SendCheck(t)

Auth ==
  \/ Activate \/ ActivateWrite \/ ActivateLifecycle
  \/ CommitRefused \/ CommitPeer \/ CommitReady

(* Steps of the worker that do not wait for the peer. *)
Worker ==
  \/ SendPreface \/ PrefaceSent \/ Loop \/ Wait \/ PollTimeout
  \/ ConsumePreface \/ ConsumeRecord \/ ConsumeFails \/ ConsumeEnd
  \/ AcceptPeerPreface \/ SendInitialHello
  \/ HandleRecord \/ HandleRejected \/ HandleHello \/ HandleControl \/ HandleMessage
  \/ Dispatch \/ Handled
  \/ Finalize \/ CleanupWrite \/ CleanupSocket \/ Close

Next ==
  \/ \E t \in Thread : Shared(t)
  \/ Auth \/ Worker \/ PollReady
  \/ Authorize \/ Start \/ CallSendPacket \/ CallDisconnect \/ Release
  \/ HandshakeDeadline \/ Revoke

Spec == Init /\ [][Next]_vars

(* A thread inside a call of the connection goes on, and no waiter for a   *)
(* mutex is starved, hence strong fairness.  After shutdown poll finds the *)
(* socket ready.  Time passes.  Nothing is assumed of the peer, the        *)
(* callers or the trust store.                                             *)
Fairness ==
  /\ SF_vars(Worker \/ Shared("worker") \/ (conn.fd = "shut" /\ PollReady))
  /\ \A t \in Callers : SF_vars(Shared(t) \/ (t = "auth" /\ Auth))
  /\ WF_vars(HandshakeDeadline)

FairSpec == Spec /\ Fairness

-----------------------------------------------------------------------------
(* Properties.                                                             *)

UsesDescriptor(t) ==
  \/ At(t, "write") \/ At(t, "poll") \/ At(t, "close")
  \/ (At(t, "shutdown") \/ At(t, "shutdown_timeout")) /\ ~conn.stopping

(* No thread polls, reads, writes, shuts down or closes the descriptor     *)
(* after it was closed, when the system may have reused its number: close  *)
(* waits for the writer, and the worker's and the destructor's cleanup     *)
(* close it once between them.                                             *)
ClosedIsUnused == conn.fd = "closed" => \A t \in Thread : ~UsesDescriptor(t)

(* After a frame that was abandoned part way nothing is written any more:  *)
(* the failed writer sets stopping_ before it lets the next one in.        *)
FramesAreWhole == ~wire.corrupt

(* An application record is written or dispatched only on a READY session  *)
(* with an authorized peer whose trust was current when the writer got the *)
(* write mutex, or when the worker began with the record.  A revocation    *)
(* during the wait for the mutex, or while records are queued, counts.     *)
PrivilegedIsAuthorized ==
  \A t \in Thread :
    (At(t, "write") /\ local.outgoing[t] = "message") \/ At(t, "dispatch") =>
      conn.ready /\ conn.authorized_peer /\ fresh[t]

(* A session never becomes READY once it is stopping: the commit holds     *)
(* lifecycle_mutex_ from its last check to ready_.                         *)
ReadyExcludesStopping == [][~conn.ready /\ conn'.ready => ~conn'.stopping]_vars

(* A started session that is stopping gets its descriptor closed, whoever  *)
(* holds which mutex when the disconnect is requested.                     *)
StoppedIsClosed == (conn.started /\ conn.stopping) ~> (conn.fd = "closed")

(* A started session becomes READY or is closed, however the peer trickles *)
(* its bytes and however often activations fail.                           *)
HandshakeIsBounded == conn.started ~> (conn.ready \/ conn.fd = "closed")

(* tests/session_tests.cpp: "handshake deadline closed a READY session"    *)
(* must not happen.  A session that was READY when the handshake deadline  *)
(* passed is not stopped for "handshake timeout".                          *)
DeadlineSparesReady == conn.reason = "handshake timeout" => ~ready_at_deadline

(* PROTOCOL.md: "Each direction begins with exactly ten bytes before its   *)
(* first record".  No record is begun before the preface was sent.         *)
PrefaceIsFirst == ~wire.early
=============================================================================
