----------------------- MODULE SessionAuthentication -----------------------
(***************************************************************************)
(* core/auth/session_authentication.cpp: the map of live authorizations    *)
(* and the monitor thread that removes the entries whose trust changed.    *)
(*                                                                         *)
(* The actions below constrain only the variables of this component; the   *)
(* module Sessions composes them with the connections and the registry.    *)
(* Every access to the trust store may throw; an error is never taken for  *)
(* "still current".                                                        *)
(***************************************************************************)
EXTENDS TrustAuthority

CONSTANTS Session,    \* session ids of the connections of the run
          PeerOf,     \* PeerOf[s]: the binding that session s authenticates
          NoSession,  \* no session
          MayThrow    \* TRUE: the trust store and the registry may throw

ASSUME SessionAssumption ==
  /\ PeerOf \in [Session -> Device]
  /\ NoSession \notin Session
  /\ MayThrow \in BOOLEAN

VARIABLES live,        \* live[s]: revision in live_authorizations_, 0 = absent
          force_scan,  \* force_scan_
          last_token,  \* the monitor's last_token, NoToken = nullopt
          mpc,         \* where the monitor thread is
          forced,      \* the monitor's local force_scan
          snapshot,    \* snapshot[s]: revision still to be checked, 0 = none
          entry        \* the session whose entry was found not current

authVars == <<live, force_scan, last_token, mpc, forced, snapshot, entry>>

NoToken == 0

MonitorPC == {"enter", "idle", "timed", "token", "snapshot", "scan", "erase", "invalidate"}

AuthTypeOK ==
  /\ live \in [Session -> Nat]
  /\ force_scan \in BOOLEAN
  /\ last_token \in Nat
  /\ mpc \in MonitorPC
  /\ forced \in BOOLEAN
  /\ snapshot \in [Session -> Nat]
  /\ entry \in Session \union {NoSession}

AuthInit ==
  /\ live = [s \in Session |-> NoRevision]
  /\ force_scan = FALSE
  /\ last_token = NoToken
  /\ mpc = "enter"
  /\ forced = FALSE
  /\ snapshot = [s \in Session |-> NoRevision]
  /\ entry = NoSession

IsCurrent(s, r) == r # NoRevision /\ FindActive(PeerOf[s]) = r

-----------------------------------------------------------------------------
(* Calls made by a session.                                                *)

(* Mutant: the entry is published without asking for a scan. *)
RegisterWithoutScan(s, r) ==
  /\ live' = [live EXCEPT ![s] = r]
  /\ UNCHANGED <<force_scan, last_token, mpc, forced, snapshot, entry>>

(* The part of register_live_session under live_mutex_, for an id that is  *)
(* not in the map.                                                         *)
RegisterLive(s, r) ==
  /\ live' = [live EXCEPT ![s] = r]
  /\ force_scan' = TRUE
  /\ UNCHANGED <<last_token, mpc, forced, snapshot, entry>>

UnregisterLive(s) ==
  /\ live' = [live EXCEPT ![s] = NoRevision]
  /\ UNCHANGED <<force_scan, last_token, mpc, forced, snapshot, entry>>

-----------------------------------------------------------------------------
(* The monitor thread, one loop of monitor_live_authorizations.            *)

(* Under live_mutex_: an empty map without a forced scan waits without a   *)
(* timeout, anything else waits for at most 100 ms.                        *)
MonitorEnter ==
  /\ mpc = "enter"
  /\ mpc' = IF ~force_scan /\ (\A s \in Session : live[s] = NoRevision)
              THEN "idle" ELSE "timed"
  /\ UNCHANGED <<live, force_scan, last_token, forced, snapshot, entry>>

MonitorWake ==
  /\ \/ mpc = "timed"
     \/ mpc = "idle" /\ (force_scan \/ \E s \in Session : live[s] # NoRevision)
  /\ forced' = force_scan
  /\ force_scan' = FALSE
  /\ mpc' = "token"
  /\ UNCHANGED <<live, last_token, snapshot, entry>>

(* Mutant: a changed token alone does not start a scan. *)
ReadTokenOnlyForced ==
  /\ mpc = "token"
  /\ mpc' = IF forced \/ last_token = NoToken THEN "snapshot" ELSE "enter"
  /\ last_token' = token
  /\ forced' = FALSE
  /\ UNCHANGED <<live, force_scan, snapshot, entry>>

MonitorReadToken ==
  /\ mpc = "token"
  /\ mpc' = IF forced \/ last_token = NoToken \/ token # last_token
              THEN "snapshot" ELSE "enter"
  /\ last_token' = token
  /\ forced' = FALSE
  /\ UNCHANGED <<live, force_scan, snapshot, entry>>

MonitorTokenError ==
  /\ mpc = "token" /\ MayThrow
  /\ mpc' = "snapshot"
  /\ last_token' = NoToken
  /\ forced' = FALSE
  /\ UNCHANGED <<live, force_scan, snapshot, entry>>

MonitorSnapshot ==
  /\ mpc = "snapshot"
  /\ snapshot' = live
  /\ mpc' = "scan"
  /\ UNCHANGED <<live, force_scan, last_token, forced, entry>>

MonitorCurrent(s) ==
  /\ mpc = "scan" /\ snapshot[s] # NoRevision
  /\ IsCurrent(s, snapshot[s])
  /\ snapshot' = [snapshot EXCEPT ![s] = NoRevision]
  /\ UNCHANGED <<live, force_scan, last_token, mpc, forced, entry>>

(* The stored authorization differs, is gone, or could not be read. *)
MonitorNotCurrent(s) ==
  /\ mpc = "scan" /\ snapshot[s] # NoRevision
  /\ ~IsCurrent(s, snapshot[s]) \/ MayThrow
  /\ entry' = s
  /\ mpc' = "erase"
  /\ UNCHANGED <<live, force_scan, last_token, forced, snapshot>>

MonitorScanDone ==
  /\ mpc = "scan" /\ \A s \in Session : snapshot[s] = NoRevision
  /\ mpc' = "enter"
  /\ UNCHANGED <<live, force_scan, last_token, forced, snapshot, entry>>

(* Mutant: the live entry is erased without comparing it with the entry    *)
(* that was checked, so an authorization registered since then is erased.  *)
EraseAnyEntry ==
  /\ mpc = "erase"
  /\ snapshot' = [snapshot EXCEPT ![entry] = NoRevision]
  /\ live' = [live EXCEPT ![entry] = NoRevision]
  /\ mpc' = "invalidate"
  /\ UNCHANGED <<entry, force_scan, last_token, forced>>

(* Mutant: the entry is erased and its callback dropped. *)
EraseWithoutCallback ==
  /\ mpc = "erase"
  /\ snapshot' = [snapshot EXCEPT ![entry] = NoRevision]
  /\ live' = IF live[entry] = snapshot[entry]
               THEN [live EXCEPT ![entry] = NoRevision] ELSE live
  /\ mpc' = "scan" /\ entry' = NoSession
  /\ UNCHANGED <<force_scan, last_token, forced>>

(* Under live_mutex_ again: the callback is taken and the entry erased     *)
(* only if it is still the entry that was checked.                         *)
MonitorErase ==
  /\ mpc = "erase"
  /\ snapshot' = [snapshot EXCEPT ![entry] = NoRevision]
  /\ IF live[entry] = snapshot[entry]
       THEN /\ live' = [live EXCEPT ![entry] = NoRevision]
            /\ mpc' = "invalidate"
            /\ UNCHANGED entry
       ELSE /\ mpc' = "scan"
            /\ entry' = NoSession
            /\ UNCHANGED live
  /\ UNCHANGED <<force_scan, last_token, forced>>

(* invalidate() returned; it runs without live_mutex_. *)
MonitorInvalidated ==
  /\ mpc = "invalidate"
  /\ mpc' = "scan"
  /\ entry' = NoSession
  /\ UNCHANGED <<live, force_scan, last_token, forced, snapshot>>

(* The steps of the monitor that stay inside this component. *)
MonitorStep ==
  \/ MonitorEnter \/ MonitorWake
  \/ MonitorReadToken \/ MonitorTokenError
  \/ MonitorSnapshot \/ MonitorScanDone \/ MonitorErase
  \/ \E s \in Session : MonitorCurrent(s) \/ MonitorNotCurrent(s)
=============================================================================
