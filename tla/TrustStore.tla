----------------------------- MODULE TrustStore -----------------------------
(***************************************************************************)
(* The persistent trust database and the operations of TrustStore on it.   *)
(*                                                                         *)
(* Every write is one BEGIN IMMEDIATE transaction under the instance's     *)
(* mutex, so it is one step; a violated require, CHECK, UNIQUE or primary  *)
(* key constraint, or a crash before COMMIT, rolls it back and is no step. *)
(* A write comes from the daemon's own TrustStore instance or from another *)
(* connection to the file (by).  Callers may pass any arguments: a stale   *)
(* expected_revision is an input like any other.                           *)
(*                                                                         *)
(* Left out: names, aliases, platform, pairing method, and the timestamps  *)
(* that only the caller supplies and no guard of finalize_pairing reads.   *)
(***************************************************************************)
EXTENDS Naturals

CONSTANTS Uuid, Key, Attempt, Permission,
          MaxTime,      \* the clock shows 0 .. MaxTime
          MaxRevision,  \* largest revision; the code's is the int64_t maximum
          MaxToken      \* bound on the commits seen by the daemon's change token

ASSUME StoreBounds == MaxTime \in Nat /\ MaxRevision \in Nat \ {0} /\ MaxToken \in Nat

VARIABLES trusted_devices,   \* the rows by UUID, with their device_permissions
          pairing_attempts,  \* the rows by attempt_id, with their permissions
          local_generation,  \* of the daemon's instance: its own device writes
          data_version,      \* of the daemon's connection: others' commits
          now                \* the system clock

vars == <<trusted_devices, pairing_attempts, local_generation, data_version, now>>

Time == 0 .. MaxTime
Writer == {"daemon", "other"}

TrustedDevice ==
  [public_key : Key, status : {"ACTIVE", "REVOKED"}, revision : 1 .. MaxRevision,
   permissions : SUBSET Permission]

(* CANCELLED stands for EXPIRED too: no operation tells the two apart.     *)
AttemptStatus == {"PENDING", "CONFIRMED", "CANCELLED"}

PairingAttempt ==
  [peer_uuid : Uuid, peer_public_key : Key,
   status : AttemptStatus,
   revision : 1 .. MaxRevision, local_confirmed : BOOLEAN, peer_confirmed : BOOLEAN,
   expires_at : Time, permissions : SUBSET Permission]

(* The tables hold rows of their schema, and the counters are counts.      *)
TypeOK ==
  /\ DOMAIN trusted_devices \subseteq Uuid
  /\ trusted_devices \in [DOMAIN trusted_devices -> TrustedDevice]
  /\ DOMAIN pairing_attempts \subseteq Attempt
  /\ pairing_attempts \in [DOMAIN pairing_attempts -> PairingAttempt]
  /\ local_generation \in Nat /\ data_version \in Nat \ {0}
  /\ now \in Time

(* A database that a migration has just created.                           *)
Init ==
  /\ trusted_devices = [u \in {} |-> 0]
  /\ pairing_attempts = [a \in {} |-> 0]
  /\ local_generation = 0 /\ data_version = 1
  /\ now \in Time
-----------------------------------------------------------------------------
(* Reads.                                                                  *)

(* The row a UUID and key select. *)
Stored(u, k) == u \in DOMAIN trusted_devices /\ trusted_devices[u].public_key = k

(* find_active_authorization: an exact ACTIVE match, in one transaction.   *)
IsActive(u, k) == Stored(u, k) /\ trusted_devices[u].status = "ACTIVE"

(* (local_generation, data_version): both only grow, so their sum stands   *)
(* for the pair.                                                           *)
change_token == local_generation + data_version
-----------------------------------------------------------------------------
(* Writes.                                                                 *)

Put(table, id, row) ==
  [x \in DOMAIN table \cup {id} |-> IF x = id THEN row ELSE table[x]]

Remove(table, id) == [x \in DOMAIN table \ {id} |-> table[x]]

(* Mutant: no UNIQUE constraint. *)
KeyMayRepeat(k) == k \in Key

(* The UNIQUE constraint on public_key.                                    *)
KeyUnused(k) == \A u \in DOMAIN trusted_devices : trusted_devices[u].public_key # k

(* Mutant: permissions are bound whatever the status. *)
GrantsAnyone(status, permissions) == status \in {"ACTIVE", "REVOKED"}

(* bind_device: a revoked device holds no permission.                      *)
Grantable(status, permissions) == status = "REVOKED" => permissions = {}

(* The CHECK that CONFIRMED needs both confirmations.                      *)
Confirmable(status, local, peer) == status = "CONFIRMED" => local /\ peer

(* Mutant: the last revision can be advanced. *)
LastRevisionAdvances(expected) == expected \in 1 .. MaxRevision

(* next_revision: the successor of expected can still be represented.      *)
Advances(expected) == expected \in 1 .. MaxRevision - 1

(* Mutant: local_generation is not incremented. *)
UncountedLocally(by) ==
  /\ change_token < MaxToken
  /\ data_version' = data_version + (IF by = "daemon" THEN 0 ELSE 1)
  /\ UNCHANGED local_generation

(* A commit that changed trusted_devices: through the daemon's instance it *)
(* counts in local_generation, through another connection in data_version. *)
DeviceCommitted(by) ==
  /\ change_token < MaxToken
  /\ local_generation' = local_generation + (IF by = "daemon" THEN 1 ELSE 0)
  /\ data_version' = data_version + (IF by = "daemon" THEN 0 ELSE 1)

(* The attempt operations do not touch local_generation.                   *)
AttemptCommitted(by) ==
  /\ by = "other" => change_token < MaxToken
  /\ data_version' = data_version + (IF by = "daemon" THEN 0 ELSE 1)
  /\ UNCHANGED local_generation

import_device_for_admin(by, u, k, status, permissions) ==
  /\ u \notin DOMAIN trusted_devices /\ KeyUnused(k)
  /\ Grantable(status, permissions)
  /\ trusted_devices' = Put(trusted_devices, u,
       [public_key |-> k, status |-> status, revision |-> 1, permissions |-> permissions])
  /\ DeviceCommitted(by)
  /\ UNCHANGED <<pairing_attempts, now>>

(* Mutant: the row is selected without the expected revision. *)
UpdateOfAnyRevision(by, u, k, status, expected, permissions) ==
  /\ Advances(expected)
  /\ Stored(u, k) /\ trusted_devices[u].status = status
  /\ Grantable(status, permissions)
  /\ trusted_devices' = Put(trusted_devices, u,
       [public_key |-> k, status |-> status, revision |-> expected + 1,
        permissions |-> permissions])
  /\ DeviceCommitted(by)
  /\ UNCHANGED <<pairing_attempts, now>>

(* UUID, key and status select the row, so they cannot be changed here.    *)
update_device(by, u, k, status, expected, permissions) ==
  /\ Advances(expected)
  /\ Stored(u, k) /\ trusted_devices[u].revision = expected
  /\ trusted_devices[u].status = status
  /\ Grantable(status, permissions)
  /\ trusted_devices' = Put(trusted_devices, u,
       [public_key |-> k, status |-> status, revision |-> expected + 1,
        permissions |-> permissions])
  /\ DeviceCommitted(by)
  /\ UNCHANGED <<pairing_attempts, now>>

revoke_device(by, u, expected) ==
  /\ Advances(expected)
  /\ u \in DOMAIN trusted_devices /\ trusted_devices[u].revision = expected
  /\ trusted_devices' = Put(trusted_devices, u,
       [trusted_devices[u] EXCEPT !.status = "REVOKED", !.revision = @ + 1, !.permissions = {}])
  /\ DeviceCommitted(by)
  /\ UNCHANGED <<pairing_attempts, now>>

create_attempt(by, a, u, k, status, local, peer, expires_at, permissions) ==
  /\ a \notin DOMAIN pairing_attempts
  /\ Confirmable(status, local, peer)
  /\ pairing_attempts' = Put(pairing_attempts, a,
       [peer_uuid |-> u, peer_public_key |-> k, status |-> status, revision |-> 1,
        local_confirmed |-> local, peer_confirmed |-> peer, expires_at |-> expires_at,
        permissions |-> permissions])
  /\ AttemptCommitted(by)
  /\ UNCHANGED <<trusted_devices, now>>

(* The peer named by an attempt selects the row and cannot be changed.     *)
update_attempt(by, a, expected, status, local, peer, expires_at, permissions) ==
  /\ Advances(expected)
  /\ a \in DOMAIN pairing_attempts /\ pairing_attempts[a].revision = expected
  /\ Confirmable(status, local, peer)
  /\ pairing_attempts' = Put(pairing_attempts, a,
       [pairing_attempts[a] EXCEPT !.status = status, !.revision = expected + 1,
                                   !.local_confirmed = local, !.peer_confirmed = peer,
                                   !.expires_at = expires_at, !.permissions = permissions])
  /\ AttemptCommitted(by)
  /\ UNCHANGED <<trusted_devices, now>>

delete_attempt(by, a, expected) ==
  /\ a \in DOMAIN pairing_attempts /\ pairing_attempts[a].revision = expected
  /\ pairing_attempts' = Remove(pairing_attempts, a)
  /\ AttemptCommitted(by)
  /\ UNCHANGED <<trusted_devices, now>>

(* Mutant: the status and the confirmations are not part of the query. *)
FinalizableUnconfirmed(a, expected, time) ==
  /\ a \in DOMAIN pairing_attempts
  /\ pairing_attempts[a].revision = expected
  /\ pairing_attempts[a].expires_at >= time

(* The row condition shared by the first read and the consuming DELETE.    *)
Finalizable(a, expected, time) ==
  /\ a \in DOMAIN pairing_attempts
  /\ pairing_attempts[a].revision = expected
  /\ pairing_attempts[a].status = "CONFIRMED"
  /\ pairing_attempts[a].local_confirmed /\ pairing_attempts[a].peer_confirmed
  /\ pairing_attempts[a].expires_at >= time

(* The clock is read again before the attempt is consumed, and may have    *)
(* moved in between.                                                       *)
finalize_pairing(by, a, expected, u, k, completion_time) ==
  /\ Finalizable(a, expected, now)
  /\ pairing_attempts[a].peer_uuid = u /\ pairing_attempts[a].peer_public_key = k
  /\ LET reactivating == u \in DOMAIN trusted_devices
         trust_revision == IF reactivating THEN trusted_devices[u].revision + 1 ELSE 1
     IN /\ IF reactivating
           THEN /\ Stored(u, k) /\ trusted_devices[u].status = "REVOKED"
                /\ Advances(trusted_devices[u].revision)
           ELSE KeyUnused(k)
        /\ trusted_devices' = Put(trusted_devices, u,
             [public_key |-> k, status |-> "ACTIVE", revision |-> trust_revision,
              permissions |-> pairing_attempts[a].permissions])
  /\ Finalizable(a, expected, completion_time)
  /\ pairing_attempts' = Remove(pairing_attempts, a)
  /\ now' = completion_time
  /\ DeviceCommitted(by)

(* The system clock moves, or is set.                                      *)
Tick ==
  /\ now' \in Time \ {now}
  /\ UNCHANGED <<trusted_devices, pairing_attempts, local_generation, data_version>>

Next ==
  \/ Tick
  \/ \E by \in Writer, expected \in 1 .. MaxRevision :
       \/ \E u \in Uuid : revoke_device(by, u, expected)
       \/ \E a \in Attempt : delete_attempt(by, a, expected)
       \/ \E u \in Uuid, k \in Key, status \in {"ACTIVE", "REVOKED"},
             permissions \in SUBSET Permission :
            update_device(by, u, k, status, expected, permissions)
       \/ \E a \in Attempt, status \in AttemptStatus, local, peer \in BOOLEAN,
             expires_at \in Time, permissions \in SUBSET Permission :
            update_attempt(by, a, expected, status, local, peer, expires_at, permissions)
       \/ \E a \in Attempt, u \in Uuid, k \in Key, completion_time \in Time :
            finalize_pairing(by, a, expected, u, k, completion_time)
  \/ \E by \in Writer, u \in Uuid, k \in Key, permissions \in SUBSET Permission :
       \/ \E status \in {"ACTIVE", "REVOKED"} :
            import_device_for_admin(by, u, k, status, permissions)
       \/ \E a \in Attempt, status \in AttemptStatus, local, peer \in BOOLEAN,
             expires_at \in Time :
            create_attempt(by, a, u, k, status, local, peer, expires_at, permissions)

Spec == Init /\ [][Next]_vars
-----------------------------------------------------------------------------
(* A public key never stands for two UUIDs, revoked records included: the  *)
(* UNIQUE constraint holds across imports and pairings of any order, so a  *)
(* key that was revoked under one UUID cannot come back under another.     *)
OneUuidPerKey ==
  \A u, v \in DOMAIN trusted_devices :
    trusted_devices[u].public_key = trusted_devices[v].public_key => u = v

(* A revoked record holds no permission rows, so a later reactivation      *)
(* starts from the permissions of its own pairing attempt only.            *)
RevokedHoldsNothing ==
  \A u \in DOMAIN trusted_devices :
    trusted_devices[u].status = "REVOKED" => trusted_devices[u].permissions = {}

(* A row that a step changes keeps its identity and advances its revision  *)
(* by exactly one, and a device row never disappears.  So the revision a   *)
(* session holds names one authorization: an equal revision means that     *)
(* key, status and permissions are those that were read, which is what     *)
(* authorization_is_current and expected_revision rely on.                 *)
RevisionNamesRow ==
  [][/\ \A u \in DOMAIN trusted_devices :
          /\ u \in DOMAIN trusted_devices'
          /\ trusted_devices'[u].public_key = trusted_devices[u].public_key
          /\ \/ trusted_devices'[u] = trusted_devices[u]
             \/ trusted_devices'[u].revision = trusted_devices[u].revision + 1
     /\ \A a \in DOMAIN pairing_attempts \cap DOMAIN pairing_attempts' :
          \/ pairing_attempts'[a] = pairing_attempts[a]
          \/ /\ pairing_attempts'[a].revision = pairing_attempts[a].revision + 1
             /\ pairing_attempts'[a].peer_uuid = pairing_attempts[a].peer_uuid
             /\ pairing_attempts'[a].peer_public_key = pairing_attempts[a].peer_public_key
    ]_vars

(* A step after which a revoked device is ACTIVE consumes an attempt for   *)
(* the same UUID and key that both sides confirmed and that has not        *)
(* expired when the transaction completes, and grants what that attempt    *)
(* proposed: no update, import or replayed attempt reactivates trust.      *)
ReactivatedByPairing ==
  [][\A u \in DOMAIN trusted_devices :
       /\ trusted_devices[u].status = "REVOKED"
       /\ trusted_devices'[u].status = "ACTIVE"
       => \E a \in DOMAIN pairing_attempts \ DOMAIN pairing_attempts' :
            /\ pairing_attempts[a].peer_uuid = u
            /\ pairing_attempts[a].peer_public_key = trusted_devices[u].public_key
            /\ pairing_attempts[a].status = "CONFIRMED"
            /\ pairing_attempts[a].expires_at >= now'
            /\ trusted_devices'[u].permissions = pairing_attempts[a].permissions
    ]_vars
-----------------------------------------------------------------------------
(* What the rest of the daemon sees: bindings with revisions, and a token. *)
Device == Uuid \X Key

Authority == INSTANCE TrustAuthority WITH
  revision <- [d \in Device |-> IF Stored(d[1], d[2]) THEN trusted_devices[d[1]].revision ELSE 0],
  active <- [d \in Device |-> IsActive(d[1], d[2])],
  token <- change_token

(* The store implements the abstraction that the session model builds on:  *)
(* a commit changes one binding, by one revision, and no change of an      *)
(* authorization escapes the change token, whether the daemon's instance   *)
(* or another connection committed it.                                     *)
ImplementsAuthority == Authority!TrustSpec
=============================================================================
