-------------------------- MODULE TrustStoreProofs --------------------------
(***************************************************************************)
(* Proofs about the trust store, for every set of UUIDs, keys, attempts    *)
(* and permissions and every bound.                                        *)
(***************************************************************************)
EXTENDS TrustStore, TLAPS

(* A table maps some of the identifiers S to rows in T.                    *)
IsTable(f, S, T) == DOMAIN f \subseteq S /\ f \in [DOMAIN f -> T]

(* Inserting or replacing a row gives a table.                             *)
LEMMA PutTable ==
  ASSUME NEW S, NEW T, NEW f, IsTable(f, S, T), NEW x \in S, NEW r \in T
  PROVE  IsTable(Put(f, x, r), S, T)
  BY DEF IsTable, Put

(* Deleting a row gives a table, and changes no other row.                 *)
LEMMA RemoveTable ==
  ASSUME NEW S, NEW T, NEW f, IsTable(f, S, T), NEW x
  PROVE  /\ IsTable(Remove(f, x), S, T)
         /\ DOMAIN Remove(f, x) = DOMAIN f \ {x}
         /\ \A y \in DOMAIN f : y # x => Remove(f, x)[y] = f[y]
  BY DEF IsTable, Remove

(* What a step of any kind does to the two tables, with the facts about    *)
(* its row that the invariants and the action properties need.             *)
DeviceWritten(u, row) ==
  /\ row \in TrustedDevice
  /\ Grantable(row.status, row.permissions)
  /\ IF u \in DOMAIN trusted_devices
       THEN /\ row.public_key = trusted_devices[u].public_key
            /\ row.revision = trusted_devices[u].revision + 1
       ELSE KeyUnused(row.public_key) /\ row.revision = 1
  /\ trusted_devices' = Put(trusted_devices, u, row)
  /\ local_generation' \in Nat /\ data_version' \in Nat \ {0}
  /\ change_token < MaxToken /\ change_token' = change_token + 1

(* A write of import, update or revocation leaves the attempts alone and   *)
(* makes no revoked device ACTIVE.                                         *)
PlainWrite(u, row) ==
  /\ DeviceWritten(u, row)
  /\ u \in DOMAIN trusted_devices /\ trusted_devices[u].status = "REVOKED"
       => row.status = "REVOKED"
  /\ UNCHANGED <<pairing_attempts, now>>

(* A finalization consumes an attempt that allows it.                      *)
PairingWrite(u, row, a) ==
  /\ DeviceWritten(u, row)
  /\ a \in DOMAIN pairing_attempts
  /\ Finalizable(a, pairing_attempts[a].revision, now')
  /\ pairing_attempts[a].peer_uuid = u
  /\ pairing_attempts[a].peer_public_key = row.public_key
  /\ row.permissions = pairing_attempts[a].permissions
  /\ pairing_attempts' = Remove(pairing_attempts, a)
  /\ now' \in Time

(* An attempt operation creates, rewrites or deletes one attempt row.      *)
AttemptWritten(a) ==
  /\ \/ pairing_attempts' = Remove(pairing_attempts, a)
     \/ \E row \in PairingAttempt :
          /\ a \in DOMAIN pairing_attempts =>
               /\ row.revision = pairing_attempts[a].revision + 1
               /\ row.peer_uuid = pairing_attempts[a].peer_uuid
               /\ row.peer_public_key = pairing_attempts[a].peer_public_key
          /\ pairing_attempts' = Put(pairing_attempts, a, row)
  /\ data_version' \in Nat \ {0}
  /\ \/ change_token' = change_token
     \/ change_token < MaxToken /\ change_token' = change_token + 1
  /\ UNCHANGED <<trusted_devices, local_generation, now>>

(* The counters after a device write and after an attempt write.           *)
LEMMA CountersMove ==
  ASSUME TypeOK, NEW by \in Writer
  PROVE  /\ DeviceCommitted(by) =>
              /\ local_generation' \in Nat /\ data_version' \in Nat \ {0}
              /\ change_token < MaxToken /\ change_token' = change_token + 1
         /\ AttemptCommitted(by) =>
              /\ data_version' \in Nat \ {0} /\ local_generation' = local_generation
              /\ \/ change_token' = change_token
                 \/ change_token < MaxToken /\ change_token' = change_token + 1
  BY StoreBounds DEF TypeOK, DeviceCommitted, AttemptCommitted, change_token, Writer

(* Every step is a tick, a plain device write, a pairing or a write of an  *)
(* attempt.                                                                *)
LEMMA StepShape ==
  ASSUME TypeOK, Next
  PROVE  \/ Tick
         \/ \E u \in Uuid, row \in TrustedDevice : PlainWrite(u, row)
         \/ \E u \in Uuid, row \in TrustedDevice, a \in Attempt : PairingWrite(u, row, a)
         \/ \E a \in Attempt : AttemptWritten(a)
<1>1. ASSUME NEW by \in Writer, NEW u \in Uuid, NEW k \in Key,
             NEW status \in {"ACTIVE", "REVOKED"}, NEW permissions \in SUBSET Permission,
             import_device_for_admin(by, u, k, status, permissions)
      PROVE  \E row \in TrustedDevice : PlainWrite(u, row)
  <2> DEFINE row == [public_key |-> k, status |-> status, revision |-> 1,
                     permissions |-> permissions]
  <2>1. row \in TrustedDevice
    BY StoreBounds DEF TrustedDevice
  <2>2. PlainWrite(u, row)
    BY <1>1, <2>1, CountersMove DEF PlainWrite, DeviceWritten, import_device_for_admin
  <2> QED BY <2>1, <2>2
<1>2. ASSUME NEW by \in Writer, NEW expected \in 1 .. MaxRevision, NEW u \in Uuid,
             NEW k \in Key, NEW status \in {"ACTIVE", "REVOKED"},
             NEW permissions \in SUBSET Permission,
             update_device(by, u, k, status, expected, permissions)
      PROVE  \E row \in TrustedDevice : PlainWrite(u, row)
  <2> DEFINE row == [public_key |-> k, status |-> status, revision |-> expected + 1,
                     permissions |-> permissions]
  <2>1. row \in TrustedDevice
    BY <1>2, StoreBounds DEF TrustedDevice, update_device, Advances
  <2>2. PlainWrite(u, row)
    BY <1>2, <2>1, CountersMove DEF PlainWrite, DeviceWritten, update_device, Stored
  <2> QED BY <2>1, <2>2
<1>3. ASSUME NEW by \in Writer, NEW expected \in 1 .. MaxRevision, NEW u \in Uuid,
             revoke_device(by, u, expected)
      PROVE  \E row \in TrustedDevice : PlainWrite(u, row)
  <2> DEFINE old == trusted_devices[u]
             row == [old EXCEPT !.status = "REVOKED", !.revision = @ + 1, !.permissions = {}]
  <2>1. /\ u \in DOMAIN trusted_devices /\ old \in TrustedDevice
        /\ old.revision + 1 \in 1 .. MaxRevision
    BY <1>3, StoreBounds DEF revoke_device, TypeOK, Advances
  <2>2. row \in TrustedDevice
    BY <2>1 DEF TrustedDevice
  <2>3. /\ row.public_key = old.public_key /\ row.status = "REVOKED"
        /\ row.revision = old.revision + 1 /\ row.permissions = {}
    BY <2>1 DEF TrustedDevice
  <2>4. trusted_devices' = Put(trusted_devices, u, row)
    BY <1>3 DEF revoke_device
  <2>5. PlainWrite(u, row)
    BY <1>3, <2>1, <2>2, <2>3, <2>4, CountersMove
    DEF PlainWrite, DeviceWritten, revoke_device, Grantable
  <2> QED BY <2>2, <2>5
<1>4. ASSUME NEW by \in Writer, NEW expected \in 1 .. MaxRevision, NEW a \in Attempt,
             NEW u \in Uuid, NEW k \in Key, NEW completion_time \in Time,
             finalize_pairing(by, a, expected, u, k, completion_time)
      PROVE  \E row \in TrustedDevice : PairingWrite(u, row, a)
  <2> DEFINE rev == IF u \in DOMAIN trusted_devices THEN trusted_devices[u].revision + 1 ELSE 1
             row == [public_key |-> k, status |-> "ACTIVE", revision |-> rev,
                     permissions |-> pairing_attempts[a].permissions]
  <2>1. a \in DOMAIN pairing_attempts /\ pairing_attempts[a] \in PairingAttempt
    BY <1>4 DEF finalize_pairing, Finalizable, TypeOK
  <2>2. rev \in 1 .. MaxRevision
    BY <1>4, StoreBounds DEF finalize_pairing, Advances, TypeOK, TrustedDevice
  <2>3. row \in TrustedDevice
    BY <2>1, <2>2 DEF TrustedDevice, PairingAttempt
  <2>4. trusted_devices' = Put(trusted_devices, u, row)
    BY <1>4 DEF finalize_pairing
  <2>5. DeviceWritten(u, row)
    BY <1>4, <2>3, <2>4, CountersMove DEF DeviceWritten, finalize_pairing, Grantable, Stored
  <2>6. PairingWrite(u, row, a)
    BY <1>4, <2>1, <2>5 DEF PairingWrite, finalize_pairing, Finalizable
  <2> QED BY <2>3, <2>6
<1>5. ASSUME NEW by \in Writer, NEW a \in Attempt, NEW u \in Uuid, NEW k \in Key,
             NEW status \in AttemptStatus, NEW local \in BOOLEAN, NEW peer \in BOOLEAN,
             NEW expires_at \in Time, NEW permissions \in SUBSET Permission,
             create_attempt(by, a, u, k, status, local, peer, expires_at, permissions)
      PROVE  AttemptWritten(a)
  <2> DEFINE row == [peer_uuid |-> u, peer_public_key |-> k, status |-> status,
                     revision |-> 1, local_confirmed |-> local, peer_confirmed |-> peer,
                     expires_at |-> expires_at, permissions |-> permissions]
  <2>1. row \in PairingAttempt
    BY StoreBounds DEF PairingAttempt
  <2> QED BY <1>5, <2>1, CountersMove DEF AttemptWritten, create_attempt
<1>6. ASSUME NEW by \in Writer, NEW expected \in 1 .. MaxRevision, NEW a \in Attempt,
             NEW status \in AttemptStatus, NEW local \in BOOLEAN, NEW peer \in BOOLEAN,
             NEW expires_at \in Time, NEW permissions \in SUBSET Permission,
             update_attempt(by, a, expected, status, local, peer, expires_at, permissions)
      PROVE  AttemptWritten(a)
  <2> DEFINE old == pairing_attempts[a]
             row == [old EXCEPT !.status = status, !.revision = expected + 1,
                                !.local_confirmed = local, !.peer_confirmed = peer,
                                !.expires_at = expires_at, !.permissions = permissions]
  <2>1. /\ a \in DOMAIN pairing_attempts /\ old \in PairingAttempt
        /\ old.revision = expected /\ expected + 1 \in 1 .. MaxRevision
    BY <1>6, StoreBounds DEF update_attempt, TypeOK, Advances
  <2>2. row \in PairingAttempt
    BY <2>1 DEF PairingAttempt
  <2>3. /\ row.revision = old.revision + 1 /\ row.peer_uuid = old.peer_uuid
        /\ row.peer_public_key = old.peer_public_key
    BY <2>1 DEF PairingAttempt
  <2>4. pairing_attempts' = Put(pairing_attempts, a, row)
    BY <1>6 DEF update_attempt
  <2> QED BY <1>6, <2>1, <2>2, <2>3, <2>4, CountersMove DEF AttemptWritten, update_attempt
<1>7. ASSUME NEW by \in Writer, NEW expected \in 1 .. MaxRevision, NEW a \in Attempt,
             delete_attempt(by, a, expected)
      PROVE  AttemptWritten(a)
  BY <1>7, CountersMove DEF AttemptWritten, delete_attempt
<1> QED BY <1>1, <1>2, <1>3, <1>4, <1>5, <1>6, <1>7 DEF Next

-----------------------------------------------------------------------------
(* The invariants that make each other inductive: OneUuidPerKey needs the  *)
(* types; RevokedHoldsNothing stands alone.                                *)
StoreInv == TypeOK /\ OneUuidPerKey /\ RevokedHoldsNothing

(* The tables of a typed state.                                            *)
LEMMA Tables ==
  TypeOK => /\ IsTable(trusted_devices, Uuid, TrustedDevice)
            /\ IsTable(pairing_attempts, Attempt, PairingAttempt)
  BY DEF TypeOK, IsTable

(* A device write keeps the devices typed, their keys apart and revoked    *)
(* rows empty, and moves one row by one revision.                          *)
LEMMA DeviceWriteKeeps ==
  ASSUME StoreInv, NEW u \in Uuid, NEW row \in TrustedDevice, DeviceWritten(u, row)
  PROVE  /\ IsTable(trusted_devices', Uuid, TrustedDevice)
         /\ OneUuidPerKey' /\ RevokedHoldsNothing'
         /\ DOMAIN trusted_devices' = DOMAIN trusted_devices \cup {u}
         /\ trusted_devices'[u] = row
         /\ \A v \in DOMAIN trusted_devices : v # u => trusted_devices'[v] = trusted_devices[v]
<1>1. IsTable(trusted_devices, Uuid, TrustedDevice)
  BY Tables DEF StoreInv
<1>2. trusted_devices' = Put(trusted_devices, u, row)
  BY DEF DeviceWritten
<1>3. /\ IsTable(trusted_devices', Uuid, TrustedDevice)
      /\ DOMAIN trusted_devices' = DOMAIN trusted_devices \cup {u}
      /\ trusted_devices'[u] = row
      /\ \A v \in DOMAIN trusted_devices : v # u => trusted_devices'[v] = trusted_devices[v]
  BY <1>1, <1>2 DEF IsTable, Put
<1>4. \A v \in DOMAIN trusted_devices : v # u => trusted_devices[v].public_key # row.public_key
  BY DEF DeviceWritten, KeyUnused, StoreInv, OneUuidPerKey
<1>5. OneUuidPerKey'
  BY <1>3, <1>4 DEF StoreInv, OneUuidPerKey
<1>6. RevokedHoldsNothing'
  BY <1>3 DEF StoreInv, RevokedHoldsNothing, DeviceWritten, Grantable
<1> QED BY <1>3, <1>5, <1>6

(* An attempt write keeps the attempts typed.                              *)
LEMMA AttemptWriteKeeps ==
  ASSUME StoreInv, NEW a \in Attempt, AttemptWritten(a)
  PROVE  IsTable(pairing_attempts', Attempt, PairingAttempt)
<1>1. IsTable(pairing_attempts, Attempt, PairingAttempt)
  BY Tables DEF StoreInv
<1>2. IsTable(Remove(pairing_attempts, a), Attempt, PairingAttempt)
  BY <1>1, RemoveTable, Zenon
<1>3. \A row \in PairingAttempt : IsTable(Put(pairing_attempts, a, row), Attempt, PairingAttempt)
  BY <1>1, PutTable, Zenon
<1> QED BY <1>2, <1>3, Zenon DEF AttemptWritten

(* StoreInv is inductive.                                                  *)
LEMMA StoreInvStep == StoreInv /\ [Next]_vars => StoreInv'
<1> SUFFICES ASSUME StoreInv, [Next]_vars PROVE StoreInv'
  OBVIOUS
<1>1. CASE UNCHANGED vars
  BY <1>1 DEF StoreInv, vars, TypeOK, OneUuidPerKey, RevokedHoldsNothing
<1>2. CASE Tick
  BY <1>2 DEF Tick, StoreInv, TypeOK, OneUuidPerKey, RevokedHoldsNothing
<1>3. ASSUME NEW u \in Uuid, NEW row \in TrustedDevice, PlainWrite(u, row)
      PROVE  StoreInv'
  <2>1. DeviceWritten(u, row)
    BY <1>3 DEF PlainWrite
  <2>2. TypeOK'
    BY <1>3, <2>1, DeviceWriteKeeps DEF PlainWrite, DeviceWritten, StoreInv, TypeOK, IsTable
  <2> QED BY <2>1, <2>2, DeviceWriteKeeps DEF StoreInv
<1>4. ASSUME NEW u \in Uuid, NEW row \in TrustedDevice, NEW a \in Attempt,
             PairingWrite(u, row, a)
      PROVE  StoreInv'
  <2>1. DeviceWritten(u, row)
    BY <1>4 DEF PairingWrite
  <2>2. IsTable(pairing_attempts', Attempt, PairingAttempt)
    BY <1>4, Tables, RemoveTable DEF PairingWrite, StoreInv
  <2>3. TypeOK'
    BY <1>4, <2>1, <2>2, DeviceWriteKeeps DEF PairingWrite, DeviceWritten, TypeOK, IsTable
  <2> QED BY <2>1, <2>3, DeviceWriteKeeps DEF StoreInv
<1>5. ASSUME NEW a \in Attempt, AttemptWritten(a)
      PROVE  StoreInv'
  <2>1. TypeOK'
    BY <1>5, AttemptWriteKeeps DEF AttemptWritten, StoreInv, TypeOK, IsTable
  <2> QED BY <1>5, <2>1 DEF AttemptWritten, StoreInv, OneUuidPerKey, RevokedHoldsNothing
<1> QED BY <1>1, <1>2, <1>3, <1>4, <1>5, StepShape DEF StoreInv

(* The initial database satisfies it.                                      *)
LEMMA StoreInvInit == Init => StoreInv
  BY DEF Init, StoreInv, TypeOK, OneUuidPerKey, RevokedHoldsNothing

LEMMA StoreInvHolds == Spec => []StoreInv
  BY StoreInvInit, StoreInvStep, PTL DEF Spec

(* Rows of both tables keep the shape the schema gives them, whatever the  *)
(* order of imports, updates, revocations and pairings.                    *)
THEOREM StoreTypeCorrect == Spec => []TypeOK
  BY StoreInvHolds, PTL DEF StoreInv

(* No two trusted-device rows share a public key, in any reachable state.  *)
THEOREM KeysStayUnique == Spec => []OneUuidPerKey
  BY StoreInvHolds, PTL DEF StoreInv

(* A revoked row holds no permissions, in any reachable state.             *)
THEOREM RevokedStaysEmpty == Spec => []RevokedHoldsNothing
  BY StoreInvHolds, PTL DEF StoreInv

-----------------------------------------------------------------------------
(* What a step may do to a device row, an attempt row and a revoked row.   *)
DeviceRowKept ==
  \A u \in DOMAIN trusted_devices :
    /\ u \in DOMAIN trusted_devices'
    /\ trusted_devices'[u].public_key = trusted_devices[u].public_key
    /\ \/ trusted_devices'[u] = trusted_devices[u]
       \/ trusted_devices'[u].revision = trusted_devices[u].revision + 1

AttemptRowKept ==
  \A a \in DOMAIN pairing_attempts \cap DOMAIN pairing_attempts' :
    \/ pairing_attempts'[a] = pairing_attempts[a]
    \/ /\ pairing_attempts'[a].revision = pairing_attempts[a].revision + 1
       /\ pairing_attempts'[a].peer_uuid = pairing_attempts[a].peer_uuid
       /\ pairing_attempts'[a].peer_public_key = pairing_attempts[a].peer_public_key

LEMMA DeviceRowStep == StoreInv /\ [Next]_vars => DeviceRowKept
<1> SUFFICES ASSUME StoreInv, [Next]_vars PROVE DeviceRowKept
  OBVIOUS
<1>1. CASE UNCHANGED trusted_devices
  BY <1>1 DEF DeviceRowKept
<1>2. ASSUME NEW u \in Uuid, NEW row \in TrustedDevice, DeviceWritten(u, row)
      PROVE  DeviceRowKept
  <2>1. /\ DOMAIN trusted_devices' = DOMAIN trusted_devices \cup {u}
        /\ trusted_devices'[u] = row
        /\ \A v \in DOMAIN trusted_devices : v # u => trusted_devices'[v] = trusted_devices[v]
    BY <1>2, DeviceWriteKeeps
  <2>2. u \in DOMAIN trusted_devices =>
          /\ row.public_key = trusted_devices[u].public_key
          /\ row.revision = trusted_devices[u].revision + 1
    BY <1>2 DEF DeviceWritten
  <2> QED BY <2>1, <2>2 DEF DeviceRowKept
<1> QED
  BY <1>1, <1>2, StepShape
  DEF StoreInv, vars, Tick, PlainWrite, PairingWrite, AttemptWritten

LEMMA AttemptRowStep == StoreInv /\ [Next]_vars => AttemptRowKept
<1> SUFFICES ASSUME StoreInv, [Next]_vars PROVE AttemptRowKept
  OBVIOUS
<1>1. CASE UNCHANGED pairing_attempts
  BY <1>1 DEF AttemptRowKept
<1>2. ASSUME NEW a \in Attempt, pairing_attempts' = Remove(pairing_attempts, a)
      PROVE  AttemptRowKept
  BY <1>2 DEF AttemptRowKept, Remove
<1>3. ASSUME NEW a \in Attempt, AttemptWritten(a)
      PROVE  AttemptRowKept
  <2>1. CASE pairing_attempts' = Remove(pairing_attempts, a)
    BY <1>2, <2>1
  <2>2. ASSUME NEW row \in PairingAttempt,
               a \in DOMAIN pairing_attempts =>
                 /\ row.revision = pairing_attempts[a].revision + 1
                 /\ row.peer_uuid = pairing_attempts[a].peer_uuid
                 /\ row.peer_public_key = pairing_attempts[a].peer_public_key,
               pairing_attempts' = Put(pairing_attempts, a, row)
        PROVE  AttemptRowKept
    BY <2>2 DEF AttemptRowKept, Put
  <2> QED BY <1>3, <2>1, <2>2 DEF AttemptWritten
<1> QED
  BY <1>1, <1>2, <1>3, StepShape DEF StoreInv, vars, Tick, PlainWrite, PairingWrite

(* Along every behaviour a row changes only together with its revision, by *)
(* one, and keeps its identity: an equal revision is an unchanged row.     *)
THEOREM RevisionsNameRows == Spec => RevisionNamesRow
<1>1. StoreInv /\ [Next]_vars => [/\ DeviceRowKept
                                   /\ AttemptRowKept]_vars
  BY DeviceRowStep, AttemptRowStep
<1>2. Spec => [][/\ DeviceRowKept
                 /\ AttemptRowKept]_vars
  BY <1>1, StoreInvHolds, PTL DEF Spec
<1> QED BY <1>2 DEF RevisionNamesRow, DeviceRowKept, AttemptRowKept

(* The condition on a reactivation.                                        *)
PairedAgain ==
  \A u \in DOMAIN trusted_devices :
    /\ trusted_devices[u].status = "REVOKED"
    /\ trusted_devices'[u].status = "ACTIVE"
    => \E a \in DOMAIN pairing_attempts \ DOMAIN pairing_attempts' :
         /\ pairing_attempts[a].peer_uuid = u
         /\ pairing_attempts[a].peer_public_key = trusted_devices[u].public_key
         /\ pairing_attempts[a].status = "CONFIRMED"
         /\ pairing_attempts[a].expires_at >= now'
         /\ trusted_devices'[u].permissions = pairing_attempts[a].permissions

LEMMA PairedAgainStep == StoreInv /\ [Next]_vars => PairedAgain
<1> SUFFICES ASSUME StoreInv, [Next]_vars PROVE PairedAgain
  OBVIOUS
<1>1. CASE UNCHANGED trusted_devices
  BY <1>1 DEF PairedAgain
<1>2. ASSUME NEW u \in Uuid, NEW row \in TrustedDevice, PlainWrite(u, row)
      PROVE  PairedAgain
  <2>1. \A v \in DOMAIN trusted_devices : v # u => trusted_devices'[v] = trusted_devices[v]
    BY <1>2, DeviceWriteKeeps DEF PlainWrite
  <2>2. trusted_devices'[u] = row
    BY <1>2, DeviceWriteKeeps DEF PlainWrite
  <2>3. u \in DOMAIN trusted_devices /\ trusted_devices[u].status = "REVOKED"
          => row.status = "REVOKED"
    BY <1>2 DEF PlainWrite
  <2> QED BY <2>1, <2>2, <2>3 DEF PairedAgain
<1>3. ASSUME NEW u \in Uuid, NEW row \in TrustedDevice, NEW a \in Attempt,
             PairingWrite(u, row, a)
      PROVE  PairedAgain
  <2>1. DeviceWritten(u, row)
    BY <1>3 DEF PairingWrite
  <2>2. a \in DOMAIN pairing_attempts \ DOMAIN pairing_attempts'
    BY <1>3 DEF PairingWrite, Remove
  <2>3. u \in DOMAIN trusted_devices => row.public_key = trusted_devices[u].public_key
    BY <2>1 DEF DeviceWritten
  <2>4. \A v \in DOMAIN trusted_devices : v # u => trusted_devices'[v] = trusted_devices[v]
    BY <2>1, DeviceWriteKeeps
  <2>5. trusted_devices'[u] = row
    BY <2>1, DeviceWriteKeeps
  <2> QED BY <1>3, <2>2, <2>3, <2>4, <2>5 DEF PairedAgain, PairingWrite, Finalizable
<1> QED
  BY <1>1, <1>2, <1>3, StepShape DEF StoreInv, vars, Tick, AttemptWritten

(* Along every behaviour a revoked device becomes ACTIVE only by consuming *)
(* a confirmed, unexpired attempt for the same binding.                    *)
THEOREM OnlyPairingReactivates == Spec => ReactivatedByPairing
<1>1. StoreInv /\ [Next]_vars => [PairedAgain]_vars
  BY PairedAgainStep
<1>2. Spec => [][PairedAgain]_vars
  BY <1>1, StoreInvHolds, PTL DEF Spec
<1> QED BY <1>2 DEF ReactivatedByPairing, PairedAgain
-----------------------------------------------------------------------------
(* The refinement mapping, spelled out.                                    *)
RevisionOf == [d \in Device |-> IF Stored(d[1], d[2]) THEN trusted_devices[d[1]].revision ELSE 0]
ActiveOf == [d \in Device |-> IsActive(d[1], d[2])]

(* A device write is a commit of exactly one binding.                      *)
LEMMA WriteIsCommit ==
  ASSUME StoreInv, NEW u \in Uuid, NEW row \in TrustedDevice, DeviceWritten(u, row)
  PROVE  \E d \in Device : Authority!Commit(d)
<1> DEFINE d == <<u, row.public_key>>
<1>1. d \in Device /\ d[1] = u /\ d[2] = row.public_key
  BY DEF Device, TrustedDevice
<1>w. /\ DOMAIN trusted_devices' = DOMAIN trusted_devices \cup {u}
      /\ trusted_devices'[u] = row
      /\ \A v \in DOMAIN trusted_devices : v # u => trusted_devices'[v] = trusted_devices[v]
  BY DeviceWriteKeeps
<1>k. IF u \in DOMAIN trusted_devices
        THEN /\ row.public_key = trusted_devices[u].public_key
             /\ row.revision = trusted_devices[u].revision + 1
        ELSE row.revision = 1
  BY DEF DeviceWritten
<1>2. RevisionOf[d] < MaxRevision
  BY <1>1, StoreBounds DEF RevisionOf, Stored, DeviceWritten, TrustedDevice, KeyUnused, StoreInv, TypeOK
<1>3. RevisionOf' = [RevisionOf EXCEPT ![d] = @ + 1]
  <2>1. ASSUME NEW e \in Device PROVE RevisionOf'[e] = [RevisionOf EXCEPT ![d] = @ + 1][e]
    <3>1. e = <<e[1], e[2]>> /\ e[1] \in Uuid /\ e[2] \in Key
      BY DEF Device
    <3>2. CASE e[1] # u
      BY <1>1, <3>1, <3>2, <1>w, <1>k DEF RevisionOf, Stored
    <3>3. CASE e[1] = u /\ e[2] # row.public_key
      BY <1>1, <3>1, <3>3, <1>w, <1>k DEF RevisionOf, Stored
    <3>4. CASE e = d
      BY <1>1, <3>4, <1>w, <1>k DEF RevisionOf, Stored
    <3> QED BY <3>1, <3>2, <3>3, <3>4
  <2> QED BY <2>1 DEF RevisionOf
<1>4. ActiveOf' = [ActiveOf EXCEPT ![d] = (row.status = "ACTIVE")]
  <2>1. ASSUME NEW e \in Device
        PROVE  ActiveOf'[e] = [ActiveOf EXCEPT ![d] = (row.status = "ACTIVE")][e]
    <3>1. e = <<e[1], e[2]>> /\ e[1] \in Uuid /\ e[2] \in Key
      BY DEF Device
    <3>2. CASE e[1] # u
      BY <1>1, <3>1, <3>2, <1>w, <1>k DEF ActiveOf, IsActive, Stored
    <3>3. CASE e[1] = u /\ e[2] # row.public_key
      BY <1>1, <3>1, <3>3, <1>w, <1>k DEF ActiveOf, IsActive, Stored
    <3>4. CASE e = d
      BY <1>1, <3>4, <1>w, <1>k DEF ActiveOf, IsActive, Stored
    <3> QED BY <3>1, <3>2, <3>3, <3>4
  <2> QED BY <2>1 DEF ActiveOf
<1>5. change_token < MaxToken /\ change_token' = change_token + 1
  BY DEF DeviceWritten
<1> QED BY <1>1, <1>2, <1>3, <1>4, <1>5 DEF Authority!Commit, RevisionOf, ActiveOf

(* Every step of the store is a step of the abstraction, or none.          *)
LEMMA StoreStepMaps == StoreInv /\ [Next]_vars => [Authority!TrustNext]_(Authority!trustVars)
<1> SUFFICES ASSUME StoreInv, [Next]_vars PROVE [Authority!TrustNext]_(Authority!trustVars)
  OBVIOUS
<1>1. CASE UNCHANGED vars \/ Tick
  BY <1>1 DEF vars, Tick, Authority!trustVars, Stored, IsActive, change_token
<1>2. ASSUME NEW u \in Uuid, NEW row \in TrustedDevice, DeviceWritten(u, row)
      PROVE  Authority!TrustNext
  BY <1>2, WriteIsCommit DEF Authority!TrustNext
<1>3. ASSUME NEW a \in Attempt, AttemptWritten(a)
      PROVE  [Authority!TrustNext]_(Authority!trustVars)
  BY <1>3
  DEF AttemptWritten, Authority!TrustNext, Authority!CommitOther, Authority!trustVars,
      Stored, IsActive
<1> QED BY <1>1, <1>2, <1>3, StepShape DEF StoreInv, PlainWrite, PairingWrite

(* The store implements the authority that the session model relies on:    *)
(* one binding and one revision per commit, none hidden from the token.    *)
THEOREM StoreImplementsAuthority == Spec => ImplementsAuthority
<1>1. Init => Authority!TrustInit
  <2> SUFFICES ASSUME Init PROVE Authority!TrustInit
    OBVIOUS
  <2>1. \A d \in Device : ~Stored(d[1], d[2]) /\ ~IsActive(d[1], d[2])
    BY DEF Init, Stored, IsActive
  <2>2. change_token = 1
    BY DEF Init, change_token
  <2>3. RevisionOf = [d \in Device |-> 0]
    BY <2>1 DEF RevisionOf
  <2>4. ActiveOf = [d \in Device |-> FALSE]
    BY <2>1 DEF ActiveOf, IsActive
  <2> QED BY <2>2, <2>3, <2>4 DEF Authority!TrustInit, RevisionOf, ActiveOf
<1> QED BY <1>1, StoreInvHolds, StoreStepMaps, PTL DEF Spec, ImplementsAuthority, Authority!TrustSpec
=============================================================================
