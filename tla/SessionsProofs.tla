--------------------------- MODULE SessionsProofs ---------------------------
(***************************************************************************)
(* Proofs about module Sessions, for any sets of sessions and devices and  *)
(* any assignment of peers and directions.                                 *)
(*                                                                         *)
(* The invariants of Sessions are not inductive one by one: each needs to  *)
(* know what a thread inside activate_authorized_peer or                   *)
(* finalize_disconnect holds.  The parts below say that, and IInv is the   *)
(* inductive conjunction.                                                  *)
(***************************************************************************)
EXTENDS Sessions, TLAPS

(* The monitor never knows a token from the future. *)
TokenOrder == last_token <= token

(* While the lifecycle mutex is held nobody can set stopping_, the session *)
(* is not READY yet, and the authorization under way is a real one.        *)
ActivationHolds ==
  \A s \in Session :
    /\ apc[s] # "none" => ~expired[s]
    /\ LifecycleHeld(s) => ~stopping[s] /\ ~ready[s] /\ authorization[s] # NoRevision
    /\ apc[s] = "authorized" => authorization[s] # NoRevision
    /\ wpc[s] \in {"stopped", "unregister", "done"} => stopping[s]

(* A registered activation is watched like a READY session. *)
ActivationIsWatched ==
  \A s \in Session :
    apc[s] \in {"registered", "published"} =>
      \/ live[s] = authorization[s]
      \/ mpc = "invalidate" /\ entry = s

(* Every entry of the registry was made by publish_authenticated_device. *)
EntryShape == \A e \in devices : e = DeviceOf(e.session_id)

(* A displaced session is remembered only between publication and the call *)
(* of request_disconnect.                                                  *)
DutyShape ==
  \A s \in Session : replaced[s] # NoSession => apc[s] \in {"published", "replace"}

(* A published activation owns its entry, or its displacer remembers it. *)
PublishedIsOwner ==
  \A s \in Session :
    apc[s] = "published" =>
      \/ DeviceOf(s) \in devices
      \/ \E t \in Session : apc[t] \in {"published", "replace"} /\ replaced[t] = s

IInv ==
  /\ TypeOK
  /\ TokenOrder /\ StaleIsNoticed
  /\ ActivationHolds /\ ActivationIsWatched /\ ReadyIsWatched
  /\ EntryShape /\ OneOwner
  /\ DutyShape /\ PublishedIsOwner /\ ReadyIsOwner
  /\ CleanedIsGone /\ OnlyPreferredDisplaces

-----------------------------------------------------------------------------
(* Type correctness.                                                       *)

LEMMA TypeInit == Init => TypeOK
<1> SUFFICES ASSUME Init PROVE TypeOK
  OBVIOUS
<1> USE DEF Init
<1>1. TrustTypeOK BY DEF TrustInit, TrustTypeOK
<1>2. AuthTypeOK BY DEF AuthInit, AuthTypeOK, MonitorPC, NoRevision, NoToken
<1>3. RegistryTypeOK BY DEF RegistryInit, RegistryTypeOK
<1>4. SessionTypeOK BY DEF SessionTypeOK, ActivationPC, WorkerPC, NoRevision
<1> QED BY <1>1, <1>2, <1>3, <1>4 DEF TypeOK

LEMMA DeviceOfType == \A s \in Session : DeviceOf(s) \in Entry
BY SessionAssumption, PreferredAssumption DEF DeviceOf, Entry

LEMMA TypeStep == TypeOK /\ [Next]_vars => TypeOK'
<1> SUFFICES ASSUME TypeOK, [Next]_vars PROVE TypeOK'
  OBVIOUS
<1> USE DEF TypeOK
<1>1. CASE Monitor
  <2> USE SessionAssumption DEF TrustTypeOK, AuthTypeOK, RegistryTypeOK, SessionTypeOK,
          MonitorPC, trustVars, sessionVars, NoRevision, NoToken
  <2>1. CASE MonitorEnter BY <1>1, <2>1 DEF Monitor, MonitorEnter
  <2>2. CASE MonitorWake BY <1>1, <2>2 DEF Monitor, MonitorWake
  <2>3. CASE MonitorReadToken BY <1>1, <2>3 DEF Monitor, MonitorReadToken
  <2>4. CASE MonitorTokenError BY <1>1, <2>4 DEF Monitor, MonitorTokenError
  <2>5. CASE MonitorSnapshot BY <1>1, <2>5 DEF Monitor, MonitorSnapshot
  <2>6. CASE MonitorScanDone BY <1>1, <2>6 DEF Monitor, MonitorScanDone
  <2>7. CASE MonitorErase
    <3>1. live' \in [Session -> Nat] BY <2>7 DEF MonitorErase
    <3>2. snapshot' \in [Session -> Nat] BY <2>7 DEF MonitorErase
    <3>3. mpc' \in MonitorPC /\ entry' \in Session \union {NoSession} BY <2>7 DEF MonitorErase
    <3> QED BY <1>1, <2>7, <3>1, <3>2, <3>3 DEF Monitor, MonitorErase
  <2>8. ASSUME NEW s \in Session, MonitorCurrent(s) PROVE TypeOK'
    BY <1>1, <2>8 DEF Monitor, MonitorCurrent
  <2>9. ASSUME NEW s \in Session, MonitorNotCurrent(s) PROVE TypeOK'
    BY <1>1, <2>9 DEF Monitor, MonitorNotCurrent
  <2> QED BY <1>1, <2>1, <2>2, <2>3, <2>4, <2>5, <2>6, <2>7, <2>8, <2>9
         DEF Monitor, MonitorStep
<1>2. CASE MonitorInvalidate
  BY <1>2 DEF MonitorInvalidate, MonitorInvalidated, RequestDisconnect, TrustTypeOK,
     AuthTypeOK, RegistryTypeOK, SessionTypeOK, MonitorPC, trustVars
<1>3. CASE TrustWrite
  <2> USE DEF TrustTypeOK, AuthTypeOK, RegistryTypeOK, SessionTypeOK, authVars, sessionVars
  <2>1. CASE CommitOther BY <1>3, <2>1 DEF TrustWrite, CommitOther
  <2>2. ASSUME NEW d \in Device, Commit(d) PROVE TypeOK'
    BY <1>3, <2>2 DEF TrustWrite, Commit
  <2> QED BY <1>3, <2>1, <2>2 DEF TrustWrite, TrustNext
<1>4. ASSUME NEW s \in Session,
             \/ Authorize(s) \/ Activation(s)
             \/ Disconnect(s) \/ WorkerEnd(s) \/ Release(s) \/ Finalization(s)
      PROVE  TypeOK'
  <2> USE DEF TrustTypeOK, AuthTypeOK, RegistryTypeOK, SessionTypeOK, ActivationPC, WorkerPC,
              trustVars, authVars, NoRevision, Idle, RequestDisconnect, UnregisterLive
  <2>1. CASE Authorize(s) BY <2>1, SessionAssumption DEF Authorize, FindActive
  <2>2. CASE Lock(s) BY <2>2 DEF Lock
  <2>3. CASE GiveUp(s) BY <2>3 DEF GiveUp
  <2>4. CASE Revalidate(s) BY <2>4 DEF Revalidate
  <2>5. CASE Register(s)
    <3>1. CASE live[s] = NoRevision BY <2>5, <3>1 DEF Register, RegisterLive
    <3>2. CASE live[s] # NoRevision BY <2>5, <3>2 DEF Register
    <3> QED BY <3>1, <3>2
  <2>6. CASE PublishRejected(s) BY <2>6 DEF PublishRejected
  <2>7. CASE PublishAccepted(s)
    <3>1. CASE PublishNew(DeviceOf(s)) /\ UNCHANGED replaced
      BY <2>7, <3>1, DeviceOfType DEF PublishAccepted, PublishNew
    <3>2. ASSUME NEW e \in EntriesOf(PeerOf[s]), PublishReplacing(DeviceOf(s), e),
                 replaced' = [replaced EXCEPT ![s] = e.session_id]
          PROVE  TypeOK'
      <4>1. e \in Entry BY DEF EntriesOf
      <4>2. e.session_id \in Session BY <4>1 DEF Entry
      <4> QED BY <2>7, <3>2, <4>2, DeviceOfType DEF PublishAccepted, PublishReplacing
    <3> QED BY <2>7, <3>1, <3>2 DEF PublishAccepted
  <2>8. CASE BecomeReady(s) BY <2>8 DEF BecomeReady
  <2>9. CASE DisconnectReplaced(s) BY <2>9 DEF DisconnectReplaced
  <2>10. CASE Disconnect(s) BY <2>10 DEF Disconnect
  <2>11. CASE WorkerEnd(s) BY <2>11 DEF WorkerEnd
  <2>12. CASE Release(s) BY <2>12 DEF Release
  <2>13. CASE Destroy(s) BY <2>13 DEF Destroy
  <2>14. CASE Cleanup(s) BY <2>14 DEF Cleanup
  <2>15. CASE Finish(s) BY <2>15 DEF Finish, RemoveDevice
  <2> QED BY <1>4, <2>1, <2>2, <2>3, <2>4, <2>5, <2>6, <2>7, <2>8, <2>9, <2>10, <2>11,
             <2>12, <2>13, <2>14, <2>15 DEF Activation, Finalization
<1>5. CASE UNCHANGED vars
  BY <1>5 DEF vars, trustVars, authVars, sessionVars, TrustTypeOK, AuthTypeOK,
     RegistryTypeOK, SessionTypeOK
<1> QED BY <1>1, <1>2, <1>3, <1>4, <1>5 DEF Next

(* Every variable keeps its type in every reachable state, for any number  *)
(* of sessions, devices, revisions and commits.                            *)
THEOREM TypeCorrect == Spec => []TypeOK
BY TypeInit, TypeStep, PTL DEF Spec

-----------------------------------------------------------------------------
(* The monitor misses no change.                                           *)

(* Steps that neither commit, nor touch the live map, nor move the monitor *)
(* do not matter to what the monitor will notice.                          *)
LEMMA NoticedFrame ==
  ASSUME TokenOrder, StaleIsNoticed,
         UNCHANGED <<revision, active, token, live, force_scan, last_token, mpc, forced, snapshot>>
  PROVE  TokenOrder' /\ StaleIsNoticed'
BY DEF TokenOrder, StaleIsNoticed, Stale, WillScan, FindActive

LEMMA NoticedStep ==
  ASSUME TypeOK, TokenOrder, StaleIsNoticed, [Next]_vars
  PROVE  TokenOrder' /\ StaleIsNoticed'
<1> USE DEF TypeOK
<1>1. CASE Monitor
  <2>0. UNCHANGED <<revision, active, token>> BY <1>1 DEF Monitor, trustVars
  <2> USE <2>0 DEF TokenOrder, StaleIsNoticed, Stale, WillScan, FindActive, IsCurrent,
          TrustTypeOK, AuthTypeOK, NoToken, NoRevision
  <2>1. CASE MonitorEnter BY <2>1 DEF MonitorEnter
  <2>2. CASE MonitorWake BY <2>2 DEF MonitorWake
  <2>3. CASE MonitorReadToken BY <2>3 DEF MonitorReadToken
  <2>4. CASE MonitorTokenError BY <2>4 DEF MonitorTokenError
  <2>5. CASE MonitorSnapshot BY <2>5 DEF MonitorSnapshot
  <2>6. CASE MonitorScanDone BY <2>6 DEF MonitorScanDone
  <2>7. CASE MonitorErase
    <3>1. TokenOrder' BY <2>7 DEF MonitorErase
    <3>2. ASSUME NEW s \in Session, Stale(s)' PROVE WillScan(s)'
      <4>1. CASE live[entry] = snapshot[entry] BY <2>7, <3>2, <4>1 DEF MonitorErase
      <4>2. CASE live[entry] # snapshot[entry] BY <2>7, <3>2, <4>2 DEF MonitorErase
      <4> QED BY <4>1, <4>2
    <3> QED BY <3>1, <3>2
  <2>8. ASSUME NEW s \in Session, MonitorCurrent(s) PROVE TokenOrder' /\ StaleIsNoticed'
    BY <2>8 DEF MonitorCurrent
  <2>9. ASSUME NEW s \in Session, MonitorNotCurrent(s) PROVE TokenOrder' /\ StaleIsNoticed'
    BY <2>9 DEF MonitorNotCurrent
  <2> QED BY <1>1, <2>1, <2>2, <2>3, <2>4, <2>5, <2>6, <2>7, <2>8, <2>9
         DEF Monitor, MonitorStep
<1>2. CASE MonitorInvalidate
  BY <1>2 DEF MonitorInvalidate, MonitorInvalidated, trustVars,
     TokenOrder, StaleIsNoticed, Stale, WillScan, FindActive
<1>3. CASE TrustWrite
  <2>1. token' = token + 1 /\ UNCHANGED <<live, last_token>>
    BY <1>3 DEF TrustWrite, TrustNext, CommitOther, Commit, authVars
  <2>2. last_token' # token' /\ TokenOrder'
    BY <2>1 DEF TokenOrder, TrustTypeOK, AuthTypeOK
  <2> QED BY <2>2 DEF StaleIsNoticed, WillScan
<1>4. ASSUME NEW s \in Session,
             \/ Authorize(s) \/ Activation(s)
             \/ Disconnect(s) \/ WorkerEnd(s) \/ Release(s) \/ Finalization(s)
      PROVE  TokenOrder' /\ StaleIsNoticed'
  <2>1. CASE Register(s)
    <3>1. CASE live[s] = NoRevision
      BY <2>1, <3>1 DEF Register, RegisterLive, trustVars, TokenOrder, StaleIsNoticed, WillScan
    <3>2. CASE live[s] # NoRevision
      BY <2>1, <3>2, NoticedFrame DEF Register, trustVars, authVars
    <3> QED BY <3>1, <3>2
  <2>2. ASSUME UnregisterLive(s), UNCHANGED trustVars
        PROVE  TokenOrder' /\ StaleIsNoticed'
    BY <2>2 DEF UnregisterLive, trustVars, AuthTypeOK, NoRevision,
       TokenOrder, StaleIsNoticed, Stale, WillScan, FindActive
  <2>3. CASE PublishRejected(s) BY <2>2, <2>3 DEF PublishRejected
  <2>4. CASE Cleanup(s) BY <2>2, <2>4 DEF Cleanup
  <2>5. ASSUME UNCHANGED <<trustVars, authVars>> PROVE TokenOrder' /\ StaleIsNoticed'
    BY <2>5, NoticedFrame DEF trustVars, authVars
  <2>6. CASE Authorize(s) BY <2>5, <2>6 DEF Authorize
  <2>7. CASE Lock(s) \/ GiveUp(s) \/ Revalidate(s)
    BY <2>5, <2>7 DEF Lock, GiveUp, Revalidate
  <2>8. CASE PublishAccepted(s) \/ BecomeReady(s) \/ DisconnectReplaced(s)
    BY <2>5, <2>8 DEF PublishAccepted, BecomeReady, DisconnectReplaced
  <2>9. CASE Disconnect(s) \/ WorkerEnd(s) \/ Release(s) \/ Destroy(s) \/ Finish(s)
    BY <2>5, <2>9 DEF Disconnect, WorkerEnd, Release, Destroy, Finish
  <2> QED BY <1>4, <2>1, <2>3, <2>4, <2>6, <2>7, <2>8, <2>9 DEF Activation, Finalization
<1>5. CASE UNCHANGED vars
  BY <1>5, NoticedFrame DEF vars, trustVars, authVars
<1> QED BY <1>1, <1>2, <1>3, <1>4, <1>5 DEF Next

(* Whatever the interleaving of commits, registrations and scans, an entry *)
(* of live_authorizations_ that the store no longer backs has a scan       *)
(* coming.                                                                 *)
THEOREM MonitorMissesNothing == Spec => []StaleIsNoticed
<1>1. Init => TokenOrder /\ StaleIsNoticed
  BY DEF Init, TrustInit, AuthInit, TokenOrder, StaleIsNoticed, Stale, NoToken, NoRevision
<1>2. TypeOK /\ TokenOrder /\ StaleIsNoticed /\ [Next]_vars => TokenOrder' /\ StaleIsNoticed'
  BY NoticedStep
<1> QED BY <1>1, <1>2, TypeInit, TypeStep, PTL DEF Spec

-----------------------------------------------------------------------------
(* What a thread inside activate_authorized_peer may rely on.              *)

LEMMA HoldsFrame ==
  ASSUME ActivationHolds, UNCHANGED <<stopping, ready, expired, apc, authorization, wpc>>
  PROVE  ActivationHolds'
BY DEF ActivationHolds, LifecycleHeld

LEMMA HoldsStep ==
  ASSUME TypeOK, ActivationHolds, [Next]_vars
  PROVE  ActivationHolds'
<1>1. CASE Monitor \/ TrustWrite
  BY <1>1, HoldsFrame DEF Monitor, TrustWrite, sessionVars
<1>2. CASE MonitorInvalidate
  BY <1>2 DEF MonitorInvalidate, RequestDisconnect, ActivationHolds, LifecycleHeld,
     TypeOK, SessionTypeOK
<1>3. ASSUME NEW s \in Session,
             \/ Authorize(s) \/ Activation(s)
             \/ Disconnect(s) \/ WorkerEnd(s) \/ Release(s) \/ Finalization(s)
      PROVE  ActivationHolds'
  <2> USE DEF ActivationHolds, LifecycleHeld, TypeOK, SessionTypeOK, Idle, RequestDisconnect
  <2>1. CASE Authorize(s) BY <2>1 DEF Authorize
  <2>2. CASE Lock(s) BY <2>2 DEF Lock
  <2>3. CASE GiveUp(s) BY <2>3 DEF GiveUp
  <2>4. CASE Revalidate(s) BY <2>4 DEF Revalidate
  <2>5. CASE Register(s) BY <2>5 DEF Register
  <2>6. CASE PublishRejected(s) BY <2>6 DEF PublishRejected
  <2>7. CASE PublishAccepted(s) BY <2>7 DEF PublishAccepted
  <2>8. CASE BecomeReady(s) BY <2>8 DEF BecomeReady
  <2>9. CASE DisconnectReplaced(s) BY <2>9 DEF DisconnectReplaced
  <2>10. CASE Disconnect(s) BY <2>10 DEF Disconnect
  <2>11. CASE WorkerEnd(s) BY <2>11 DEF WorkerEnd
  <2>12. CASE Release(s) BY <2>12 DEF Release
  <2>13. CASE Destroy(s) BY <2>13 DEF Destroy
  <2>14. CASE Cleanup(s) BY <2>14 DEF Cleanup
  <2>15. CASE Finish(s) BY <2>15 DEF Finish
  <2> QED BY <1>3, <2>1, <2>2, <2>3, <2>4, <2>5, <2>6, <2>7, <2>8, <2>9, <2>10, <2>11,
             <2>12, <2>13, <2>14, <2>15 DEF Activation, Finalization
<1>4. CASE UNCHANGED vars
  BY <1>4, HoldsFrame DEF vars, sessionVars
<1> QED BY <1>1, <1>2, <1>3, <1>4 DEF Next

-----------------------------------------------------------------------------
(* A READY session is watched.                                             *)

LEMMA WatchedFrame ==
  ASSUME ActivationIsWatched, ReadyIsWatched,
         UNCHANGED <<live, mpc, entry, stopping, ready, authorized_peer, expired, apc, authorization>>
  PROVE  ActivationIsWatched' /\ ReadyIsWatched'
BY DEF ActivationIsWatched, ReadyIsWatched

LEMMA WatchedStep ==
  ASSUME TypeOK, ActivationHolds, ActivationIsWatched, ReadyIsWatched, [Next]_vars
  PROVE  ActivationIsWatched' /\ ReadyIsWatched'
<1> DEFINE Goal == ActivationIsWatched' /\ ReadyIsWatched'
<1>1. CASE Monitor
  <2>0. UNCHANGED <<stopping, ready, authorized_peer, expired, apc, authorization>>
    BY <1>1 DEF Monitor, sessionVars
  <2> USE <2>0 DEF ActivationIsWatched, ReadyIsWatched, TypeOK, AuthTypeOK
  <2>1. ASSUME UNCHANGED live, mpc # "invalidate" PROVE Goal
    BY <2>1
  <2>2. CASE MonitorEnter \/ MonitorWake \/ MonitorReadToken \/ MonitorTokenError
    BY <2>1, <2>2 DEF MonitorEnter, MonitorWake, MonitorReadToken, MonitorTokenError
  <2>3. CASE MonitorSnapshot \/ MonitorScanDone \/ \E s \in Session : MonitorCurrent(s) \/ MonitorNotCurrent(s)
    BY <2>1, <2>3 DEF MonitorSnapshot, MonitorScanDone, MonitorCurrent, MonitorNotCurrent
  <2>4. CASE MonitorErase
    <3>1. CASE live[entry] = snapshot[entry] BY <2>4, <3>1 DEF MonitorErase
    <3>2. CASE live[entry] # snapshot[entry] BY <2>1, <2>4, <3>2 DEF MonitorErase
    <3> QED BY <3>1, <3>2
  <2> QED BY <1>1, <2>2, <2>3, <2>4 DEF Monitor, MonitorStep
<1>2. CASE MonitorInvalidate
  BY <1>2 DEF MonitorInvalidate, MonitorInvalidated, RequestDisconnect, ActivationHolds,
     LifecycleHeld, ActivationIsWatched, ReadyIsWatched, TypeOK, SessionTypeOK
<1>3. CASE TrustWrite
  BY <1>3, WatchedFrame DEF TrustWrite, authVars, sessionVars
<1>4. ASSUME NEW s \in Session,
             \/ Authorize(s) \/ Activation(s)
             \/ Disconnect(s) \/ WorkerEnd(s) \/ Release(s) \/ Finalization(s)
      PROVE  Goal
  <2> USE DEF ActivationHolds, LifecycleHeld, ActivationIsWatched, ReadyIsWatched, TypeOK,
          AuthTypeOK, SessionTypeOK, Idle, RequestDisconnect, authVars, UnregisterLive
  <2>1. CASE Authorize(s) BY <2>1 DEF Authorize
  <2>2. CASE Lock(s) BY <2>2 DEF Lock
  <2>3. CASE GiveUp(s) BY <2>3 DEF GiveUp
  <2>4. CASE Revalidate(s) BY <2>4 DEF Revalidate
  <2>5. CASE Register(s)
    <3>1. CASE live[s] = NoRevision BY <2>5, <3>1 DEF Register, RegisterLive
    <3>2. CASE live[s] # NoRevision BY <2>5, <3>2 DEF Register
    <3> QED BY <3>1, <3>2
  <2>6. CASE PublishRejected(s) BY <2>6 DEF PublishRejected
  <2>7. CASE PublishAccepted(s) BY <2>7 DEF PublishAccepted
  <2>8. CASE BecomeReady(s) BY <2>8 DEF BecomeReady
  <2>9. CASE DisconnectReplaced(s) BY <2>9 DEF DisconnectReplaced
  <2>10. CASE Disconnect(s) BY <2>10 DEF Disconnect
  <2>11. CASE WorkerEnd(s) BY <2>11 DEF WorkerEnd
  <2>12. CASE Release(s) BY <2>12 DEF Release
  <2>13. CASE Destroy(s) BY <2>13 DEF Destroy
  <2>14. CASE Cleanup(s) BY <2>14 DEF Cleanup, WriteHeld
  <2>15. CASE Finish(s) BY <2>15 DEF Finish
  <2> QED BY <1>4, <2>1, <2>2, <2>3, <2>4, <2>5, <2>6, <2>7, <2>8, <2>9, <2>10, <2>11,
             <2>12, <2>13, <2>14, <2>15 DEF Activation, Finalization
<1>5. CASE UNCHANGED vars
  BY <1>5, WatchedFrame DEF vars, authVars, sessionVars
<1> QED BY <1>1, <1>2, <1>3, <1>4, <1>5 DEF Next

-----------------------------------------------------------------------------
(* The registry has one owner per device.                                  *)

(* The steps that change the registry, and what they do to it. *)
LEMMA RegistryChange ==
  ASSUME [Next]_vars
  PROVE  \/ UNCHANGED devices
         \/ \E s \in Session : Finish(s) /\ RemoveDevice(s)
         \/ \E s \in Session : PublishAccepted(s) /\ PublishNew(DeviceOf(s)) /\ UNCHANGED replaced
         \/ \E s \in Session : \E e \in EntriesOf(PeerOf[s]) :
               /\ PublishAccepted(s) /\ PublishReplacing(DeviceOf(s), e)
               /\ replaced' = [replaced EXCEPT ![s] = e.session_id]
<1>1. CASE Monitor \/ MonitorInvalidate \/ TrustWrite \/ UNCHANGED vars
  BY <1>1 DEF Monitor, MonitorInvalidate, TrustWrite, vars
<1>2. ASSUME NEW s \in Session, Activation(s), ~PublishAccepted(s) PROVE UNCHANGED devices
  BY <1>2 DEF Activation, Lock, GiveUp, Revalidate, Register, PublishRejected, BecomeReady,
     DisconnectReplaced
<1>3. ASSUME NEW s \in Session,
             Authorize(s) \/ Disconnect(s) \/ WorkerEnd(s) \/ Release(s) \/ Destroy(s) \/ Cleanup(s)
      PROVE  UNCHANGED devices
  BY <1>3 DEF Authorize, Disconnect, WorkerEnd, Release, Destroy, Cleanup
<1>4. ASSUME NEW s \in Session, PublishAccepted(s)
      PROVE  \/ PublishNew(DeviceOf(s)) /\ UNCHANGED replaced
             \/ \E e \in EntriesOf(PeerOf[s]) :
                  /\ PublishReplacing(DeviceOf(s), e)
                  /\ replaced' = [replaced EXCEPT ![s] = e.session_id]
  BY <1>4 DEF PublishAccepted
<1>5. ASSUME NEW s \in Session, Finish(s) PROVE RemoveDevice(s)
  BY <1>5 DEF Finish
<1> QED BY <1>1, <1>2, <1>3, <1>4, <1>5 DEF Next, Finalization

LEMMA DeviceOfFields ==
  \A s \in Session : /\ DeviceOf(s).session_id = s
                     /\ DeviceOf(s).device_id = PeerOf[s]
                     /\ DeviceOf(s).preferred = Preferred[s]
BY DEF DeviceOf

LEMMA RegistryStep ==
  ASSUME TypeOK, EntryShape, OneOwner, [Next]_vars
  PROVE  EntryShape' /\ OneOwner'
<1> USE DEF EntryShape, OneOwner
<1>0. \A s \in Session : DeviceOf(s)' = DeviceOf(s)
  BY DEF DeviceOf
<1>1. CASE UNCHANGED devices BY <1>1 DEF DeviceOf
<1>2. ASSUME NEW s \in Session, RemoveDevice(s) PROVE EntryShape' /\ OneOwner'
  BY <1>2 DEF RemoveDevice, DeviceOf
<1>3. ASSUME NEW s \in Session, PublishNew(DeviceOf(s)) PROVE EntryShape' /\ OneOwner'
  <2>1. devices' = devices \union {DeviceOf(s)} /\ \A e \in devices : e.device_id # PeerOf[s]
    BY <1>3, DeviceOfFields DEF PublishNew, EntriesOf
  <2>2. EntryShape' BY <2>1, DeviceOfFields DEF DeviceOf
  <2>3. OneOwner' BY <2>1, DeviceOfFields
  <2> QED BY <2>2, <2>3
<1>4. ASSUME NEW s \in Session, NEW e \in EntriesOf(PeerOf[s]), PublishReplacing(DeviceOf(s), e)
      PROVE  EntryShape' /\ OneOwner'
  <2>1. /\ devices' = (devices \ {e}) \union {DeviceOf(s)}
        /\ e \in devices /\ e.device_id = PeerOf[s]
    BY <1>4, DeviceOfFields DEF PublishReplacing, EntriesOf
  <2>2. EntryShape' BY <2>1, DeviceOfFields DEF DeviceOf
  <2>3. OneOwner' BY <2>1, DeviceOfFields
  <2> QED BY <2>2, <2>3
<1> QED BY <1>1, <1>2, <1>3, <1>4, RegistryChange

-----------------------------------------------------------------------------
(* A cleaned-up session leaves nothing behind.                             *)

LEMMA CleanedStep ==
  ASSUME TypeOK, ActivationHolds, EntryShape, CleanedIsGone, [Next]_vars
  PROVE  CleanedIsGone'
<1> SUFFICES ASSUME NEW s \in Session
             PROVE  /\ wpc'[s] \in {"unregister", "done"} => live'[s] = NoRevision
                    /\ wpc'[s] = "done" => DeviceOf(s) \notin devices'
  BY DEF CleanedIsGone, DeviceOf
<1> USE DEF TypeOK, AuthTypeOK, SessionTypeOK
<1>1. wpc'[s] \in {"unregister", "done"} => live'[s] = NoRevision
  <2>1. CASE Monitor
    <3>1. live' = live \/ live' = [live EXCEPT ![entry] = NoRevision]
      BY <2>1 DEF Monitor, MonitorStep, MonitorEnter, MonitorWake, MonitorReadToken,
         MonitorTokenError, MonitorSnapshot, MonitorScanDone, MonitorErase, MonitorCurrent,
         MonitorNotCurrent
    <3>2. UNCHANGED wpc BY <2>1 DEF Monitor, sessionVars
    <3> QED BY <3>1, <3>2 DEF CleanedIsGone
  <2>2. CASE MonitorInvalidate \/ TrustWrite \/ UNCHANGED vars
    BY <2>2 DEF MonitorInvalidate, MonitorInvalidated, TrustWrite, vars, authVars, sessionVars,
       CleanedIsGone
  <2>3. ASSUME NEW t \in Session, Activation(t), ~Register(t)
        PROVE  wpc' = wpc /\ (live' = live \/ live' = [live EXCEPT ![t] = NoRevision])
    BY <2>3 DEF Activation, Lock, GiveUp, Revalidate, PublishRejected, PublishAccepted, BecomeReady,
       DisconnectReplaced, UnregisterLive, authVars
  <2>4. ASSUME NEW t \in Session, Register(t)
        PROVE  wpc' = wpc /\ wpc[t] \notin {"unregister", "done"} /\ (live'[s] # live[s] => s = t)
    <3>1. wpc' = wpc /\ apc[t] = "validated" BY <2>4 DEF Register
    <3>2. wpc[t] \notin {"unregister", "done"}
      BY <3>1 DEF ActivationHolds, LifecycleHeld
    <3>3. live'[s] # live[s] => s = t BY <2>4 DEF Register, RegisterLive, authVars
    <3> QED BY <3>1, <3>2, <3>3
  <2>5. ASSUME NEW t \in Session,
               Authorize(t) \/ Disconnect(t) \/ WorkerEnd(t) \/ Release(t) \/ Destroy(t)
        PROVE  /\ live' = live
               /\ wpc' = wpc \/ \E x \in {"stopped", "destroy"} : wpc' = [wpc EXCEPT ![t] = x]
    BY <2>5 DEF Authorize, Disconnect, WorkerEnd, Release, Destroy, authVars
  <2>6. ASSUME NEW t \in Session, Cleanup(t)
        PROVE  /\ live' = [live EXCEPT ![t] = NoRevision]
               /\ wpc' = [wpc EXCEPT ![t] = "unregister"]
    BY <2>6 DEF Cleanup, UnregisterLive
  <2>7. ASSUME NEW t \in Session, Finish(t)
        PROVE  live' = live /\ wpc[t] = "unregister" /\ wpc' = [wpc EXCEPT ![t] = "done"]
    BY <2>7 DEF Finish, authVars
  <2>8. CASE \E t \in Session : Activation(t) BY <2>8, <2>3, <2>4 DEF CleanedIsGone
  <2>9. CASE \E t \in Session : Authorize(t) \/ Disconnect(t) \/ WorkerEnd(t) \/ Release(t) \/ Destroy(t)
    BY <2>9, <2>5 DEF CleanedIsGone
  <2>10. CASE \E t \in Session : Cleanup(t) \/ Finish(t) BY <2>10, <2>6, <2>7 DEF CleanedIsGone
  <2> QED BY <2>1, <2>2, <2>8, <2>9, <2>10 DEF Next, Finalization
<1>2. wpc'[s] = "done" => wpc[s] = "done" \/ Finish(s)
  <2>1. CASE Monitor \/ MonitorInvalidate \/ TrustWrite \/ UNCHANGED vars
    BY <2>1 DEF Monitor, MonitorInvalidate, TrustWrite, vars, sessionVars
  <2>2. ASSUME NEW t \in Session, Activation(t) \/ Authorize(t) \/ Disconnect(t) PROVE wpc' = wpc
    BY <2>2 DEF Activation, Lock, GiveUp, Revalidate, Register, PublishRejected, PublishAccepted,
       BecomeReady, DisconnectReplaced, Authorize, Disconnect
  <2>3. ASSUME NEW t \in Session, WorkerEnd(t) \/ Release(t) \/ Destroy(t) \/ Cleanup(t)
        PROVE  \E x \in {"stopped", "destroy", "unregister"} : wpc' = [wpc EXCEPT ![t] = x]
    BY <2>3 DEF WorkerEnd, Release, Destroy, Cleanup
  <2>4. ASSUME NEW t \in Session, Finish(t) PROVE wpc' = [wpc EXCEPT ![t] = "done"]
    BY <2>4 DEF Finish
  <2> QED BY <2>1, <2>2, <2>3, <2>4 DEF Next, Finalization
<1>3. ASSUME wpc'[s] = "done" PROVE DeviceOf(s) \notin devices'
  <2>1. CASE Finish(s) BY <2>1, DeviceOfFields DEF Finish, RemoveDevice
  <2>2. CASE wpc[s] = "done"
    <3>1. DeviceOf(s) \notin devices BY <2>2 DEF CleanedIsGone
    <3>2. ASSUME NEW t \in Session, PublishAccepted(t) PROVE t # s
      BY <2>2, <3>2 DEF PublishAccepted, ActivationHolds, LifecycleHeld
    <3>3. ASSUME NEW t \in Session, t # s PROVE DeviceOf(t) # DeviceOf(s)
      BY <3>3, DeviceOfFields
    <3>4. ASSUME NEW t \in Session, RemoveDevice(t) PROVE DeviceOf(s) \notin devices'
      BY <3>1, <3>4 DEF RemoveDevice
    <3>5. ASSUME NEW t \in Session, PublishAccepted(t), PublishNew(DeviceOf(t))
          PROVE  DeviceOf(s) \notin devices'
      BY <3>1, <3>2, <3>3, <3>5 DEF PublishNew
    <3>6. ASSUME NEW t \in Session, PublishAccepted(t),
                 NEW e \in EntriesOf(PeerOf[t]), PublishReplacing(DeviceOf(t), e)
          PROVE  DeviceOf(s) \notin devices'
      BY <3>1, <3>2, <3>3, <3>6 DEF PublishReplacing
    <3> QED BY <3>1, <3>4, <3>5, <3>6, RegistryChange, Zenon
  <2> QED BY <1>2, <1>3, <2>1, <2>2
<1> QED BY <1>1, <1>3

-----------------------------------------------------------------------------
(* A READY session owns its entry, or will be stopped by its displacer.    *)

Owner(s) ==
  \/ DeviceOf(s) \in devices
  \/ \E t \in Session : apc[t] \in {"published", "replace"} /\ replaced[t] = s

Usable(s) == apc[s] = "published" \/ (ready[s] /\ ~stopping[s] /\ ~expired[s])

LEMMA OwnerSplit ==
  (PublishedIsOwner /\ ReadyIsOwner) <=> \A s \in Session : Usable(s) => Owner(s)
BY DEF PublishedIsOwner, ReadyIsOwner, Usable, Owner

LEMMA OwnerStep ==
  ASSUME TypeOK, ActivationHolds, EntryShape, DutyShape, PublishedIsOwner, ReadyIsOwner,
         [Next]_vars
  PROVE  DutyShape' /\ PublishedIsOwner' /\ ReadyIsOwner'
<1> DEFINE Inv == DutyShape /\ \A s \in Session : Usable(s) => Owner(s)
<1>0. Inv BY OwnerSplit
<1> SUFFICES Inv'
  BY DEF PublishedIsOwner, ReadyIsOwner, Usable, Owner
<1> USE <1>0 DEF TypeOK, SessionTypeOK
<1>1. ASSUME UNCHANGED <<devices, replaced>>,
             \A s \in Session : /\ apc'[s] \in {"published", "replace"} <=> apc[s] \in {"published", "replace"}
                                /\ Usable(s)' => Usable(s)
      PROVE  Inv'
  BY <1>1 DEF Owner, DutyShape, DeviceOf
<1>2. CASE Monitor \/ TrustWrite \/ UNCHANGED vars
  BY <1>1, <1>2 DEF Monitor, TrustWrite, vars, sessionVars, Usable
<1>3. CASE MonitorInvalidate
  BY <1>1, <1>3 DEF MonitorInvalidate, RequestDisconnect, Usable
<1>4. ASSUME NEW s \in Session,
             \/ Authorize(s) \/ Activation(s)
             \/ Disconnect(s) \/ WorkerEnd(s) \/ Release(s) \/ Finalization(s)
      PROVE  Inv'
  <2> USE DEF Idle, RequestDisconnect
  <2>1. CASE Authorize(s) BY <1>1, <2>1 DEF Authorize, Usable
  <2>2. CASE Lock(s)
    <3>1. /\ UNCHANGED <<devices, replaced, ready, stopping, expired>> /\ apc[s] = "authorized"
          /\ \E x \in {"none", "locked"} : apc' = [apc EXCEPT ![s] = x]
      BY <2>2 DEF Lock
    <3> QED BY <1>1, <3>1 DEF Usable
  <2>3. CASE GiveUp(s) BY <1>1, <2>3 DEF GiveUp, Usable
  <2>4. CASE Revalidate(s) BY <1>1, <2>4 DEF Revalidate, Usable
  <2>5. CASE Register(s) BY <1>1, <2>5 DEF Register, Usable
  <2>6. CASE PublishRejected(s) BY <1>1, <2>6 DEF PublishRejected, Usable
  <2>7. CASE PublishAccepted(s)
    <3>1. DeviceOf(s) \in devices' /\ apc' = [apc EXCEPT ![s] = "published"]
      BY <2>7 DEF PublishAccepted, PublishNew, PublishReplacing
    <3>2. UNCHANGED <<stopping, ready, expired>> /\ apc[s] = "registered"
      BY <2>7 DEF PublishAccepted
    <3>3. replaced[s] = NoSession
      BY <3>2, SessionAssumption DEF DutyShape
    <3>4. \A t \in Session \ {s} : replaced'[t] = replaced[t] /\ apc'[t] = apc[t]
      BY <2>7 DEF PublishAccepted
    <3>5. DutyShape'
      BY <3>1, <3>4 DEF DutyShape
    <3>6. ASSUME NEW t \in Session, t # s, Usable(t)' PROVE Owner(t)'
      <4>1. Usable(t) BY <3>2, <3>4, <3>6 DEF Usable
      <4>2. CASE \E u \in Session : apc[u] \in {"published", "replace"} /\ replaced[u] = t
        BY <3>2, <3>4, <4>2 DEF Owner
      <4>3. CASE DeviceOf(t) \in devices /\ DeviceOf(t) \in devices'
        BY <4>3 DEF Owner, DeviceOf
      <4>4. CASE DeviceOf(t) \in devices /\ DeviceOf(t) \notin devices'
        <5>1. PICK e \in EntriesOf(PeerOf[s]) :
                /\ PublishReplacing(DeviceOf(s), e)
                /\ replaced' = [replaced EXCEPT ![s] = e.session_id]
          BY <2>7, <4>4 DEF PublishAccepted, PublishNew
        <5>2. e = DeviceOf(t) BY <4>4, <5>1 DEF PublishReplacing
        <5>3. replaced'[s] = t BY <5>1, <5>2, DeviceOfFields
        <5> QED BY <3>1, <5>3 DEF Owner
      <4> QED BY <4>1, <4>2, <4>3, <4>4 DEF Owner
    <3>7. Owner(s)' BY <3>1 DEF Owner, DeviceOf
    <3> QED BY <3>5, <3>6, <3>7
  <2>8. CASE BecomeReady(s)
    <3>1. /\ UNCHANGED <<devices, replaced, stopping, expired>> /\ apc[s] = "published"
          /\ \A t \in Session \ {s} : ready'[t] = ready[t] /\ apc'[t] = apc[t]
          /\ apc'[s] = IF replaced[s] = NoSession THEN "none" ELSE "replace"
      BY <2>8 DEF BecomeReady
    <3>2. DutyShape' BY <3>1 DEF DutyShape
    <3>3. ASSUME NEW t \in Session, Usable(t)' PROVE Owner(t)'
      <4>1. Usable(t) BY <3>1, <3>3 DEF Usable
      <4>2. CASE DeviceOf(t) \in devices BY <3>1, <4>2 DEF Owner, DeviceOf
      <4>3. ASSUME NEW u \in Session, apc[u] \in {"published", "replace"}, replaced[u] = t
            PROVE  Owner(t)'
        <5>1. replaced[u] # NoSession BY <4>3, SessionAssumption
        <5> QED BY <3>1, <4>3, <5>1 DEF Owner
      <4> QED BY <4>1, <4>2, <4>3 DEF Owner
    <3> QED BY <3>2, <3>3
  <2>9. CASE DisconnectReplaced(s)
    <3>1. /\ UNCHANGED <<devices, ready, expired>> /\ apc[s] = "replace" /\ apc'[s] = "none"
          /\ replaced'[s] = NoSession
          /\ \A t \in Session \ {s} : replaced'[t] = replaced[t] /\ apc'[t] = apc[t]
          /\ \A t \in Session : stopping[t] => stopping'[t]
      BY <2>9 DEF DisconnectReplaced
    <3>2. \A t \in Session : replaced[s] = t => expired[t] \/ (stopping'[t] /\ ~LifecycleHeld(t))
      BY <2>9 DEF DisconnectReplaced
    <3>3. DutyShape' BY <3>1 DEF DutyShape
    <3>4. ASSUME NEW t \in Session, Usable(t)' PROVE Owner(t)'
      <4>1. Usable(t) BY <3>1, <3>4 DEF Usable
      <4>2. replaced[s] # t
        BY <3>1, <3>2, <3>4 DEF Usable, LifecycleHeld, ActivationHolds
      <4>3. CASE DeviceOf(t) \in devices BY <3>1, <4>3 DEF Owner, DeviceOf
      <4>4. ASSUME NEW u \in Session, apc[u] \in {"published", "replace"}, replaced[u] = t
            PROVE  Owner(t)'
        <5>1. apc'[u] = apc[u] /\ replaced'[u] = replaced[u] BY <3>1, <4>2, <4>4
        <5> QED BY <4>4, <5>1 DEF Owner
      <4> QED BY <4>1, <4>3, <4>4 DEF Owner
    <3> QED BY <3>3, <3>4
  <2>10. CASE Disconnect(s) BY <1>1, <2>10 DEF Disconnect, Usable
  <2>11. CASE WorkerEnd(s) BY <1>1, <2>11 DEF WorkerEnd, Usable
  <2>12. CASE Release(s) BY <1>1, <2>12 DEF Release, Usable
  <2>13. CASE Destroy(s) BY <1>1, <2>13 DEF Destroy, Usable
  <2>14. CASE Cleanup(s) BY <1>1, <2>14 DEF Cleanup, Usable
  <2>15. CASE Finish(s)
    <3>1. UNCHANGED <<apc, replaced, ready, stopping, expired>> /\ wpc[s] = "unregister"
      BY <2>15 DEF Finish
    <3>2. DutyShape' BY <3>1 DEF DutyShape
    <3>3. ASSUME NEW t \in Session, Usable(t)' PROVE Owner(t)'
      <4>1. Usable(t) /\ t # s
        BY <3>1, <3>3 DEF Usable, ActivationHolds, LifecycleHeld
      <4>2. DeviceOf(t) \in devices => DeviceOf(t) \in devices'
        BY <2>15, <4>1, DeviceOfFields DEF Finish, RemoveDevice
      <4> QED BY <3>1, <4>1, <4>2 DEF Owner, DeviceOf
    <3> QED BY <3>2, <3>3
  <2> QED BY <1>4, <2>1, <2>2, <2>3, <2>4, <2>5, <2>6, <2>7, <2>8, <2>9, <2>10, <2>11,
             <2>12, <2>13, <2>14, <2>15 DEF Activation, Finalization
<1> QED BY <1>2, <1>3, <1>4 DEF Next

-----------------------------------------------------------------------------
(* Only the preferred direction displaces a usable owner.                  *)

(* stopping_ and the expiry of a connection never go back. *)
LEMMA StoppingIsMonotone ==
  ASSUME TypeOK, [Next]_vars
  PROVE  \A s \in Session : (stopping[s] => stopping'[s]) /\ (expired[s] => expired'[s])
<1> USE DEF TypeOK, SessionTypeOK, RequestDisconnect
<1>1. CASE Monitor \/ TrustWrite \/ UNCHANGED vars
  BY <1>1 DEF Monitor, TrustWrite, vars, sessionVars
<1>2. CASE MonitorInvalidate BY <1>2 DEF MonitorInvalidate
<1>3. ASSUME NEW t \in Session, Activation(t) \/ Authorize(t)
      PROVE  UNCHANGED expired /\ (UNCHANGED stopping \/ \E u : stopping' = [stopping EXCEPT ![u] = TRUE])
  BY <1>3 DEF Activation, Lock, GiveUp, Revalidate, Register, PublishRejected, PublishAccepted,
     BecomeReady, DisconnectReplaced, Authorize
<1>4. ASSUME NEW t \in Session,
             Disconnect(t) \/ WorkerEnd(t) \/ Release(t) \/ Finalization(t)
      PROVE  /\ UNCHANGED stopping \/ stopping' = [stopping EXCEPT ![t] = TRUE]
             /\ UNCHANGED expired \/ expired' = [expired EXCEPT ![t] = TRUE]
  BY <1>4 DEF Disconnect, WorkerEnd, Release, Finalization, Destroy, Cleanup, Finish
<1> QED BY <1>1, <1>2, <1>3, <1>4 DEF Next

(* Only a publication records a displaced session. *)
LEMMA ReplacedChange ==
  ASSUME TypeOK, [Next]_vars, NEW t \in Session, replaced'[t] # NoSession
  PROVE  replaced'[t] = replaced[t] \/ PublishAccepted(t)
<1> USE DEF TypeOK, SessionTypeOK
<1>1. CASE Monitor \/ TrustWrite \/ MonitorInvalidate \/ UNCHANGED vars
  BY <1>1 DEF Monitor, TrustWrite, MonitorInvalidate, vars, sessionVars
<1>2. ASSUME NEW s \in Session, Activation(s), ~PublishAccepted(s)
      PROVE  UNCHANGED replaced \/ replaced' = [replaced EXCEPT ![s] = NoSession]
  BY <1>2 DEF Activation, Lock, GiveUp, Revalidate, Register, PublishRejected, BecomeReady,
     DisconnectReplaced
<1>3. ASSUME NEW s \in Session, PublishAccepted(s)
      PROVE  \E x \in Session : UNCHANGED replaced \/ replaced' = [replaced EXCEPT ![s] = x]
  <2>1. \A e \in devices : e.session_id \in Session BY DEF RegistryTypeOK, Entry
  <2> QED BY <1>3, <2>1 DEF PublishAccepted, EntriesOf
<1>4. ASSUME NEW s \in Session,
             Authorize(s) \/ Disconnect(s) \/ WorkerEnd(s) \/ Release(s) \/ Finalization(s)
      PROVE  UNCHANGED replaced
  BY <1>4 DEF Authorize, Disconnect, WorkerEnd, Release, Finalization, Destroy, Cleanup, Finish
<1> QED BY <1>1, <1>2, <1>3, <1>4 DEF Next

LEMMA DisplacesStep ==
  ASSUME TypeOK, EntryShape, DutyShape, OneOwner, OnlyPreferredDisplaces, [Next]_vars
  PROVE  OnlyPreferredDisplaces'
<1> SUFFICES ASSUME NEW t \in Session, replaced'[t] # NoSession
             PROVE  \/ Preferred[t] /\ ~Preferred[replaced'[t]]
                    \/ stopping'[replaced'[t]] \/ expired'[replaced'[t]]
  BY DEF OnlyPreferredDisplaces
<1>1. CASE replaced'[t] = replaced[t]
  <2>1. replaced[t] \in Session BY <1>1 DEF TypeOK, SessionTypeOK
  <2> QED BY <1>1, <2>1, StoppingIsMonotone DEF OnlyPreferredDisplaces
<1>2. CASE PublishAccepted(t) /\ replaced'[t] # replaced[t]
  <2>1. PICK e \in EntriesOf(PeerOf[t]) : replaced' = [replaced EXCEPT ![t] = e.session_id]
    BY <1>2 DEF PublishAccepted
  <2>2. e \in devices /\ e.session_id \in Session
    BY <2>1 DEF EntriesOf, TypeOK, RegistryTypeOK, Entry
  <2>3. replaced'[t] = e.session_id /\ e.preferred = Preferred[e.session_id]
    BY <2>1, <2>2, DeviceOfFields DEF EntryShape, TypeOK, SessionTypeOK
  <2>4. ~IncumbentKeeps(e, DeviceOf(t), Owned(e.session_id))
    BY <1>2, <2>1 DEF PublishAccepted, Blocked
  <2>5. \/ stopping[e.session_id] \/ expired[e.session_id]
        \/ ~Preferred[e.session_id] /\ Preferred[t]
    BY <2>3, <2>4, DeviceOfFields DEF IncumbentKeeps, Owned
  <2> QED BY <2>2, <2>3, <2>5, StoppingIsMonotone
<1> QED BY <1>1, <1>2, ReplacedChange

-----------------------------------------------------------------------------
(* The inductive invariant, and the properties of Sessions that it gives.  *)

LEMMA InitIInv == Init => IInv
<1> SUFFICES ASSUME Init PROVE IInv
  OBVIOUS
<1> USE SessionAssumption DEF Init, TrustInit, AuthInit, RegistryInit, NoToken, NoRevision
<1>1. TypeOK BY TypeInit
<1>2. TokenOrder /\ StaleIsNoticed BY DEF TokenOrder, StaleIsNoticed, Stale
<1>3. ActivationHolds BY DEF ActivationHolds, LifecycleHeld
<1>4. ActivationIsWatched /\ ReadyIsWatched BY DEF ActivationIsWatched, ReadyIsWatched
<1>5. EntryShape /\ OneOwner BY DEF EntryShape, OneOwner
<1>6. DutyShape /\ PublishedIsOwner /\ ReadyIsOwner
  BY DEF DutyShape, PublishedIsOwner, ReadyIsOwner
<1>7. CleanedIsGone BY DEF CleanedIsGone
<1>8. OnlyPreferredDisplaces BY DEF OnlyPreferredDisplaces
<1> QED BY <1>1, <1>2, <1>3, <1>4, <1>5, <1>6, <1>7, <1>8 DEF IInv

LEMMA StepIInv == IInv /\ [Next]_vars => IInv'
BY TypeStep, NoticedStep, HoldsStep, WatchedStep, RegistryStep, OwnerStep, CleanedStep,
   DisplacesStep DEF IInv

LEMMA InvariantHolds == Spec => []IInv
BY InitIInv, StepIInv, PTL DEF Spec

(* A READY session that is not stopping is always under the monitor's      *)
(* watch with the revision it was authorized under.                        *)
THEOREM ReadySessionsAreWatched == Spec => []ReadyIsWatched
<1>1. IInv => ReadyIsWatched BY DEF IInv
<1> QED BY <1>1, InvariantHolds, PTL

(* The registry never holds two entries of one device. *)
THEOREM RegistryHasOneOwner == Spec => []OneOwner
<1>1. IInv => OneOwner BY DEF IInv
<1> QED BY <1>1, InvariantHolds, PTL

(* A READY session owns its registry entry or its displacer is about to    *)
(* stop it.                                                                *)
THEOREM ReadySessionsOwnTheirEntry == Spec => []ReadyIsOwner
<1>1. IInv => ReadyIsOwner BY DEF IInv
<1> QED BY <1>1, InvariantHolds, PTL

(* No activation revives a session after finalize_disconnect. *)
THEOREM CleanupIsFinal == Spec => []CleanedIsGone
<1>1. IInv => CleanedIsGone BY DEF IInv
<1> QED BY <1>1, InvariantHolds, PTL

(* A usable owner is displaced by the preferred direction only. *)
THEOREM PreferredDirectionWins == Spec => []OnlyPreferredDisplaces
<1>1. IInv => OnlyPreferredDisplaces BY DEF IInv
<1> QED BY <1>1, InvariantHolds, PTL

-----------------------------------------------------------------------------
(* The monitor erases only stale entries.                                  *)

(* No thread knows a revision from the future, so a revision that stopped  *)
(* being current never is again.                                           *)
RevisionOrder ==
  \A s \in Session : /\ live[s] <= revision[PeerOf[s]]
                     /\ snapshot[s] <= revision[PeerOf[s]]
                     /\ authorization[s] <= revision[PeerOf[s]]

ErasingStale == mpc = "erase" /\ ~MayThrow => ~IsCurrent(entry, snapshot[entry])

EntryIsSession == mpc \in {"erase", "invalidate"} => entry \in Session

(* A step that only copies or drops known revisions keeps their order. *)
LEMMA OrderKept ==
  ASSUME TypeOK, RevisionOrder, UNCHANGED revision,
         \A s \in Session :
           /\ live'[s] \in {0, live[s], authorization[s]}
           /\ snapshot'[s] \in {0, live[s], snapshot[s]}
           /\ authorization'[s] \in {0, authorization[s], FindActive(PeerOf[s])}
  PROVE  RevisionOrder'
<1> SUFFICES ASSUME NEW s \in Session
             PROVE  /\ live'[s] <= revision[PeerOf[s]]
                    /\ snapshot'[s] <= revision[PeerOf[s]]
                    /\ authorization'[s] <= revision[PeerOf[s]]
  BY DEF RevisionOrder
<1>1. revision[PeerOf[s]] \in Nat
  BY SessionAssumption DEF TypeOK, TrustTypeOK
<1>2. FindActive(PeerOf[s]) \in {0, revision[PeerOf[s]]}
  BY DEF FindActive, NoRevision
<1>3. /\ live[s] <= revision[PeerOf[s]] /\ snapshot[s] <= revision[PeerOf[s]]
      /\ authorization[s] <= revision[PeerOf[s]]
  BY DEF RevisionOrder
<1>4. 0 <= revision[PeerOf[s]] /\ FindActive(PeerOf[s]) <= revision[PeerOf[s]]
  BY <1>1, <1>2
<1>5. live'[s] <= revision[PeerOf[s]]
  <2>1. live'[s] \in {0, live[s], authorization[s]} OBVIOUS
  <2> QED BY <1>3, <1>4, <2>1, Zenon
<1>6. snapshot'[s] <= revision[PeerOf[s]]
  <2>1. snapshot'[s] \in {0, live[s], snapshot[s]} OBVIOUS
  <2> QED BY <1>3, <1>4, <2>1, Zenon
<1>7. authorization'[s] <= revision[PeerOf[s]]
  <2>1. authorization'[s] \in {0, authorization[s], FindActive(PeerOf[s])} OBVIOUS
  <2> QED BY <1>3, <1>4, <2>1, Zenon
<1> QED BY <1>5, <1>6, <1>7

LEMMA RevisionStep ==
  ASSUME TypeOK, RevisionOrder, EntryIsSession, ErasingStale, [Next]_vars
  PROVE  RevisionOrder' /\ EntryIsSession' /\ ErasingStale'
<1> DEFINE Goal == RevisionOrder' /\ EntryIsSession' /\ ErasingStale'
<1> USE SessionAssumption DEF TypeOK, TrustTypeOK, AuthTypeOK
<1>1. CASE Monitor
  <2>0. UNCHANGED <<revision, active, authorization>> BY <1>1 DEF Monitor, trustVars, sessionVars
  <2> USE <2>0 DEF RevisionOrder, EntryIsSession, ErasingStale, IsCurrent, FindActive, NoRevision
  <2>1. CASE MonitorEnter \/ MonitorWake BY <2>1 DEF MonitorEnter, MonitorWake
  <2>2. CASE MonitorReadToken \/ MonitorTokenError BY <2>2 DEF MonitorReadToken, MonitorTokenError
  <2>3. CASE MonitorSnapshot \/ MonitorScanDone BY <2>3 DEF MonitorSnapshot, MonitorScanDone
  <2>4. ASSUME NEW s \in Session, MonitorCurrent(s) PROVE Goal
    <3>1. /\ UNCHANGED <<live, mpc, entry>> /\ mpc = "scan"
          /\ \A t \in Session : snapshot'[t] \in {0, snapshot[t]}
      BY <2>4 DEF MonitorCurrent
    <3>2. RevisionOrder' BY <3>1, OrderKept
    <3> QED BY <3>1, <3>2
  <2>5. ASSUME NEW s \in Session, MonitorNotCurrent(s) PROVE Goal BY <2>5 DEF MonitorNotCurrent
  <2>6. CASE MonitorErase
    <3>0. \A t \in Session : live'[t] \in {0, live[t]} /\ snapshot'[t] \in {0, snapshot[t]}
      BY <2>6 DEF MonitorErase
    <3>1. RevisionOrder' BY <3>0, OrderKept
    <3>2. EntryIsSession' BY <2>6 DEF MonitorErase
    <3>3. ErasingStale' BY <2>6 DEF MonitorErase
    <3> QED BY <3>1, <3>2, <3>3
  <2> QED BY <1>1, <2>1, <2>2, <2>3, <2>4, <2>5, <2>6 DEF Monitor, MonitorStep
<1>2. CASE MonitorInvalidate
  BY <1>2 DEF MonitorInvalidate, MonitorInvalidated, trustVars, RevisionOrder, EntryIsSession,
     ErasingStale
<1>3. CASE TrustWrite
  <2>0. UNCHANGED <<live, snapshot, authorization, mpc, entry>>
    BY <1>3 DEF TrustWrite, authVars, sessionVars
  <2>1. CASE CommitOther
    BY <2>0, <2>1 DEF CommitOther, RevisionOrder, EntryIsSession, ErasingStale, IsCurrent, FindActive
  <2>2. ASSUME NEW d \in Device, Commit(d) PROVE Goal
    <3>1. \A c \in Device : revision'[c] = IF c = d THEN revision[c] + 1 ELSE revision[c]
      BY <2>2 DEF Commit
    <3>2. \A c \in Device \ {d} : active'[c] = active[c]
      BY <2>2 DEF Commit
    <3>3. RevisionOrder' BY <2>0, <3>1 DEF RevisionOrder, SessionTypeOK
    <3>4. ErasingStale'
      <4> SUFFICES ASSUME mpc = "erase", ~MayThrow, IsCurrent(entry, snapshot[entry])'
                   PROVE  FALSE
        BY <2>0 DEF ErasingStale
      <4>1. entry \in Session /\ ~IsCurrent(entry, snapshot[entry])
        BY DEF EntryIsSession, ErasingStale
      <4>2. /\ snapshot[entry] # 0 /\ active'[PeerOf[entry]]
            /\ snapshot[entry] = revision'[PeerOf[entry]]
        BY <2>0 DEF IsCurrent, FindActive, NoRevision
      <4>3. PeerOf[entry] \in Device /\ snapshot[entry] <= revision[PeerOf[entry]]
        BY <4>1 DEF RevisionOrder
      <4>4. PeerOf[entry] # d
        <5> SUFFICES ASSUME PeerOf[entry] = d PROVE FALSE
          OBVIOUS
        <5>1. revision'[d] = revision[d] + 1 BY <3>1
        <5>2. revision[d] \in Nat /\ snapshot[entry] \in Nat BY <4>1
        <5>3. snapshot[entry] = revision[d] + 1 BY <4>2, <5>1, Zenon
        <5>4. snapshot[entry] <= revision[d] BY <4>3, Zenon
        <5> QED BY <5>2, <5>3, <5>4
      <4> QED BY <3>1, <3>2, <4>1, <4>2, <4>3, <4>4 DEF FindActive, IsCurrent, NoRevision
    <3> QED BY <2>0, <3>3, <3>4 DEF EntryIsSession
  <2> QED BY <1>3, <2>1, <2>2 DEF TrustWrite, TrustNext
<1>4. ASSUME UNCHANGED <<revision, active, snapshot, mpc, entry>>,
             \A s \in Session : /\ live'[s] \in {0, live[s], authorization[s]}
                                /\ authorization'[s] \in {0, authorization[s], FindActive(PeerOf[s])}
      PROVE  Goal
  <2>1. RevisionOrder' BY <1>4, OrderKept
  <2> QED BY <1>4, <2>1 DEF EntryIsSession, ErasingStale, IsCurrent, FindActive
<1>5. ASSUME NEW s \in Session,
             \/ Authorize(s) \/ Activation(s)
             \/ Disconnect(s) \/ WorkerEnd(s) \/ Release(s) \/ Finalization(s)
      PROVE  Goal
  <2> USE DEF SessionTypeOK, trustVars, authVars, Idle, NoRevision, UnregisterLive
  <2>1. CASE Authorize(s) BY <1>4, <2>1 DEF Authorize
  <2>2. CASE Lock(s) BY <1>4, <2>2 DEF Lock
  <2>3. CASE GiveUp(s) BY <1>4, <2>3 DEF GiveUp
  <2>4. CASE Register(s)
    <3>1. UNCHANGED <<revision, active, snapshot, mpc, entry>>
      BY <2>4 DEF Register, RegisterLive
    <3>2. \A t \in Session : live'[t] \in {live[t], authorization[t]}
      <4>1. CASE live[s] = NoRevision
        <5>1. live' = [live EXCEPT ![s] = authorization[s]] BY <2>4, <4>1 DEF Register, RegisterLive
        <5> QED BY <5>1
      <4>2. CASE live[s] # NoRevision
        <5>1. live' = live BY <2>4, <4>2 DEF Register
        <5> QED BY <5>1
      <4> QED BY <4>1, <4>2
    <3>3. \A t \in Session : authorization'[t] \in {0, authorization[t]}
      BY <2>4 DEF Register
    <3> QED BY <1>4, <3>1, <3>2, <3>3
  <2>5. CASE PublishRejected(s) BY <1>4, <2>5 DEF PublishRejected
  <2>6. CASE BecomeReady(s) BY <1>4, <2>6 DEF BecomeReady
  <2>7. CASE DisconnectReplaced(s) BY <1>4, <2>7 DEF DisconnectReplaced
  <2>8. CASE Cleanup(s) BY <1>4, <2>8 DEF Cleanup
  <2>9. CASE Revalidate(s) \/ PublishAccepted(s) BY <1>4, <2>9 DEF Revalidate, PublishAccepted
  <2>10. CASE Disconnect(s) \/ WorkerEnd(s) \/ Release(s) \/ Destroy(s) \/ Finish(s)
    BY <1>4, <2>10 DEF Disconnect, WorkerEnd, Release, Destroy, Finish
  <2> QED BY <1>5, <2>1, <2>2, <2>3, <2>4, <2>5, <2>6, <2>7, <2>8, <2>9, <2>10
         DEF Activation, Finalization
<1>6. CASE UNCHANGED vars
  BY <1>4, <1>6 DEF vars, trustVars, authVars, sessionVars
<1> QED BY <1>1, <1>2, <1>3, <1>5, <1>6 DEF Next

(* Without store errors, every entry the monitor erases is one that the    *)
(* trust store no longer backs at the moment of the erasure.               *)
THEOREM MonitorErasesOnlyStale == Spec => EraseOnlyStale
<1> DEFINE Inv == TypeOK /\ RevisionOrder /\ EntryIsSession /\ ErasingStale
           Act == \A s \in Session :
                    mpc = "erase" /\ mpc' = "invalidate" /\ entry = s /\ ~MayThrow
                      => ~IsCurrent(s, live[s])
<1>1. Init => Inv
  <2> SUFFICES ASSUME Init PROVE Inv
    OBVIOUS
  <2>1. TypeOK BY TypeInit
  <2>2. RevisionOrder
    BY SessionAssumption DEF Init, TrustInit, AuthInit, RevisionOrder, NoRevision
  <2> QED BY <2>1, <2>2 DEF Init, AuthInit, EntryIsSession, ErasingStale
<1>2. Inv /\ [Next]_vars => Inv'
  BY TypeStep, RevisionStep
<1>3. Inv /\ [Next]_vars => [Act]_vars
  <2> SUFFICES ASSUME Inv, [Next]_vars, NEW s \in Session, mpc = "erase", mpc' = "invalidate",
                      entry = s, ~MayThrow
               PROVE  ~IsCurrent(s, live[s])
    OBVIOUS
  <2>1. CASE MonitorErase BY <2>1 DEF MonitorErase, ErasingStale
  <2>2. ~MonitorErase => mpc' # "invalidate"
    <3>1. CASE Monitor
      BY <3>1 DEF Monitor, MonitorStep, MonitorEnter, MonitorWake, MonitorReadToken,
         MonitorTokenError, MonitorSnapshot, MonitorScanDone, MonitorCurrent, MonitorNotCurrent
    <3>2. CASE MonitorInvalidate BY <3>2 DEF MonitorInvalidate, MonitorInvalidated
    <3>3. CASE TrustWrite \/ UNCHANGED vars BY <3>3 DEF TrustWrite, vars, authVars
    <3>4. ASSUME NEW t \in Session, Activation(t) PROVE mpc' = mpc
      BY <3>4 DEF Activation, Lock, GiveUp, Revalidate, Register, PublishRejected,
         PublishAccepted, BecomeReady, DisconnectReplaced, RegisterLive, UnregisterLive, authVars
    <3>5. ASSUME NEW t \in Session,
                 Authorize(t) \/ Disconnect(t) \/ WorkerEnd(t) \/ Release(t) \/ Finalization(t)
          PROVE  mpc' = mpc
      BY <3>5 DEF Authorize, Disconnect, WorkerEnd, Release, Finalization, Destroy, Cleanup,
         Finish, UnregisterLive, authVars
    <3> QED BY <3>1, <3>2, <3>3, <3>4, <3>5 DEF Next
  <2> QED BY <2>1, <2>2
<1>4. Spec => [][Act]_vars
  BY <1>1, <1>2, <1>3, PTL DEF Spec
<1> QED BY <1>4 DEF EraseOnlyStale
=============================================================================
