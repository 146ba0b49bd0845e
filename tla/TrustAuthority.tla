--------------------------- MODULE TrustAuthority ---------------------------
(***************************************************************************)
(* What the rest of the daemon relies on in the persistent trust store: an *)
(* authorization answer per UUID/public-key binding and a change token.    *)
(*                                                                         *)
(* A device d stands for one (UUID, Ed25519 key) binding; both parts are   *)
(* immutable in the store.  revision[d] = 0 means that no record exists.   *)
(* Permissions are rewritten only together with a new revision, so within  *)
(* one binding the revision determines the permission snapshot.  Module    *)
(* TrustStore models the store itself.                                     *)
(***************************************************************************)
EXTENDS Naturals

CONSTANTS Device,       \* UUID/public-key bindings
          MaxRevision,  \* bound on the trust revisions explored
          MaxToken      \* bound on the commits seen by the change token

ASSUME TrustBounds == MaxRevision \in Nat /\ MaxToken \in Nat

VARIABLES revision,  \* revision[d]: trust revision of the record, 0 = no record
          active,    \* active[d]: the record's status is ACTIVE
          token      \* change_token(): (local_generation, data_version), as a count

trustVars == <<revision, active, token>>

Revision == 1 .. MaxRevision
NoRevision == 0

TrustTypeOK ==
  /\ revision \in [Device -> Nat]
  /\ active \in [Device -> BOOLEAN]
  /\ token \in Nat

TrustInit ==
  /\ revision = [d \in Device |-> 0]
  /\ active = [d \in Device |-> FALSE]
  /\ token = 1

(* find_active_authorization: the revision of an exact ACTIVE match, or    *)
(* NoRevision.                                                             *)
FindActive(d) == IF active[d] THEN revision[d] ELSE NoRevision

(* A committed write of the trust record: import, update, revocation or    *)
(* pairing finalization, by this process or by another one.  Each advances *)
(* the revision by one and is visible in the token as soon as it is        *)
(* visible to a reader of the same store.                                  *)
Commit(d) ==
  /\ revision[d] < MaxRevision /\ token < MaxToken
  /\ revision' = [revision EXCEPT ![d] = @ + 1]
  /\ \E a \in BOOLEAN : active' = [active EXCEPT ![d] = a]
  /\ token' = token + 1

(* A commit of another process that touches no trust record (a pairing     *)
(* attempt): data_version changes, the authorizations do not.              *)
CommitOther ==
  /\ token < MaxToken
  /\ token' = token + 1
  /\ UNCHANGED <<revision, active>>

TrustNext == CommitOther \/ \E d \in Device : Commit(d)

TrustSpec == TrustInit /\ [][TrustNext]_trustVars
=============================================================================
