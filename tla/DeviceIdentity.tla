--------------------------- MODULE DeviceIdentity ---------------------------
(***************************************************************************)
(* load_or_create of the persistent device identity: a UUID file and a key *)
(* record, created once by processes that may start together, be killed    *)
(* between any two system calls, and lose power.                           *)
(*                                                                         *)
(* dir is the identity directory as processes see it.  survivors is the    *)
(* set of directories that a power loss may leave: fsync narrows it, every *)
(* other operation widens it.  Losing power keeps a prefix of the          *)
(* directory operations since the last sync, and of the bytes of a file    *)
(* that was not synced.  An error in a call ends load_or_create with an    *)
(* exception, which changes the directory no more than a kill does.        *)
(*                                                                         *)
(* Left out: ownership and permission checks, and the arithmetic that      *)
(* compares a key record with the keypair derived from its seed.           *)
(***************************************************************************)
CONSTANTS Process, NoProcess, Uuid, KeyPair

ASSUME IdentityAssumption == NoProcess \notin Process

VARIABLES dir,        \* what each file name holds
          survivors,  \* what it may hold after a power loss
          lock,       \* the process that holds the flock, or NoProcess
          pc, target, \* where a process is, and which file it writes
          content,    \* what it writes there
          legacy,     \* the UUID of a file written by an older version, or Absent
          returned    \* every identity load_or_create ever returned

vars == <<dir, survivors, lock, pc, target, content, legacy, returned>>

(* File contents.  A record keeps its UUID binding.                        *)
Absent == <<"absent">>
Partial == <<"partial">>
Legacy(u) == <<"legacy", u>>
Manifest(u) == <<"manifest", u>>
Keys(u, k) == <<"keys", u, k>>

Content ==
  {Absent, Partial} \union {Legacy(u) : u \in Uuid} \union {Manifest(u) : u \in Uuid}
    \union {Keys(u, k) : u \in Uuid, k \in KeyPair}

(* What a write of c that was not synced may leave: the manifest begins    *)
(* with the bytes of a legacy file.                                        *)
Prefixes(c) ==
  {Partial, c} \union (IF c[1] = "manifest" THEN {Legacy(c[2])} ELSE {})

Temporary(name) == IF name = "device_id" THEN "device_id.tmp" ELSE "device_id.keys.tmp"
Names == {"device_id", "device_id.tmp", "device_id.keys", "device_id.keys.tmp"}

PCs == {"idle", "opened", "locked", "create", "write", "sync", "rename", "sync_dir"}

(* The types of the variables; the directory is one of its own survivors,  *)
(* and a process past acquire_lock holds the lock.                         *)
TypeOK ==
  /\ dir \in [Names -> Content]
  /\ survivors \subseteq [Names -> Content] /\ survivors # {}
  /\ lock \in Process \union {NoProcess}
  /\ pc \in [Process -> PCs]
  /\ target \in [Process -> {"device_id", "device_id.keys"}]
  /\ content \in [Process -> Content]
  /\ legacy \in {Absent} \union {Legacy(u) : u \in Uuid}
  /\ returned \subseteq Uuid \X KeyPair
  /\ dir \in survivors
  /\ \A p \in Process : pc[p] \notin {"idle", "opened"} => lock = p

Init ==
  /\ legacy \in {Absent} \union {Legacy(u) : u \in Uuid}
  /\ dir = [n \in Names |-> IF n = "device_id" THEN legacy ELSE Absent]
  /\ survivors = {dir}
  /\ lock = NoProcess
  /\ pc = [p \in Process |-> "idle"]
  /\ target = [p \in Process |-> "device_id"]
  /\ content = [p \in Process |-> Absent]
  /\ returned = {}
-----------------------------------------------------------------------------
At(p, label) == pc[p] = label
Goto(p, label) == pc' = [pc EXCEPT ![p] = label]

(* load_or_create ends, with an identity or an exception, and its lock     *)
(* descriptor is closed.                                                   *)
Leave(p) ==
  /\ Goto(p, "idle")
  /\ lock' = IF lock = p THEN NoProcess ELSE lock
  /\ UNCHANGED <<target, content>>

(* Mutant: a directory sync that does nothing. *)
SurvivorsUnsynced == survivors

(* fsync of the directory: its entries are now durable, the bytes of files *)
(* that were not synced are not.                                           *)
SurvivorsOfSync ==
  {s \in survivors : \A n \in Names :
     s[n] = dir[n] \/ (n \in {"device_id.tmp", "device_id.keys.tmp"} /\ s[n] \in Prefixes(dir[n]))}

(* open_identity_directory: sync_directory_tree flushes what an earlier,   *)
(* interrupted attempt left.  The lock is not held yet.                    *)
OpenIdentityDirectory(p) ==
  /\ At(p, "idle")
  /\ survivors' = SurvivorsOfSync
  /\ Goto(p, "opened")
  /\ UNCHANGED <<dir, lock, target, content, legacy, returned>>

(* acquire_lock: waits for the flock; giving up after two seconds is Fail. *)
AcquireLock(p) ==
  /\ At(p, "opened") /\ lock = NoProcess
  /\ Goto(p, "locked") /\ lock' = p
  /\ UNCHANGED <<dir, survivors, target, content, legacy, returned>>

Interrupted == dir["device_id.tmp"] # Absent \/ dir["device_id.keys.tmp"] # Absent

(* The files hold a complete identity whose parts belong together.         *)
Established(u, k) == dir["device_id"] = Manifest(u) /\ dir["device_id.keys"] = Keys(u, k)

(* An established identity is loaded.                                      *)
Load(p) ==
  /\ At(p, "locked") /\ ~Interrupted
  /\ \E u \in Uuid, k \in KeyPair :
       Established(u, k) /\ returned' = returned \union {<<u, k>>}
  /\ Leave(p)
  /\ UNCHANGED <<dir, survivors, legacy>>

(* Mutant: a marker without keys does not stop the initialization. *)
CreatableUnlessKeys(u) ==
  dir["device_id.keys"] = Absent /\ dir["device_id"] \in {Absent, Legacy(u), Manifest(u)}

(* Mutant: the UUID of a legacy file is not kept. *)
CreatableAnew(u) ==
  /\ dir["device_id.keys"] = Absent
  /\ dir["device_id"] = Absent \/ dir["device_id"][1] = "legacy"

(* No key record, and no UUID file or a legacy one: u becomes the UUID.    *)
Creatable(u) ==
  dir["device_id.keys"] = Absent /\ dir["device_id"] \in {Absent, Legacy(u)}

(* The key-required marker is written first.                               *)
StartCreation(p) ==
  /\ At(p, "locked") /\ ~Interrupted
  /\ \E u \in Uuid : Creatable(u) /\ content' = [content EXCEPT ![p] = Manifest(u)]
  /\ target' = [target EXCEPT ![p] = "device_id"]
  /\ Goto(p, "create")
  /\ UNCHANGED <<dir, survivors, lock, legacy, returned>>
-----------------------------------------------------------------------------
(* atomic_write.  A directory operation reaches the disk or does not.      *)
CreateTemporary(p) ==
  LET tmp == Temporary(target[p])
      Create(d) == [d EXCEPT ![tmp] = Partial]
  IN /\ At(p, "create") /\ dir[tmp] = Absent
     /\ dir' = Create(dir)
     /\ survivors' = survivors \union {Create(s) : s \in survivors}
     /\ Goto(p, "write")
     /\ UNCHANGED <<lock, target, content, legacy, returned>>

WriteTemporary(p) ==
  LET tmp == Temporary(target[p]) IN
  /\ At(p, "write")
  /\ dir' = [dir EXCEPT ![tmp] = content[p]]
  /\ survivors' = survivors \union
       {[s EXCEPT ![tmp] = c] : s \in {t \in survivors : t[tmp] # Absent},
                                c \in Prefixes(content[p])}
  /\ Goto(p, "sync")
  /\ UNCHANGED <<lock, target, content, legacy, returned>>

SyncTemporary(p) ==
  LET tmp == Temporary(target[p]) IN
  /\ At(p, "sync")
  /\ survivors' = {s \in survivors : s[tmp] \in {Absent, content[p]}}
  /\ Goto(p, "rename")
  /\ UNCHANGED <<dir, lock, target, content, legacy, returned>>

Publish(p) ==
  LET tmp == Temporary(target[p])
      Rename(d) == IF d[tmp] = Absent THEN d
                   ELSE [d EXCEPT ![target[p]] = d[tmp], ![tmp] = Absent]
  IN /\ At(p, "rename")
     /\ dir' = Rename(dir)
     /\ survivors' = survivors \union {Rename(s) : s \in survivors}
     /\ Goto(p, "sync_dir")
     /\ UNCHANGED <<lock, target, content, legacy, returned>>

(* The marker is durable: the keypair is generated and written.            *)
CommitMarker(p) ==
  /\ At(p, "sync_dir") /\ target[p] = "device_id"
  /\ survivors' = SurvivorsOfSync
  /\ \E k \in KeyPair : content' = [content EXCEPT ![p] = Keys(content[p][2], k)]
  /\ target' = [target EXCEPT ![p] = "device_id.keys"]
  /\ Goto(p, "create")
  /\ UNCHANGED <<dir, lock, legacy, returned>>

(* The keys are durable: the identity is returned.                         *)
CommitKeys(p) ==
  /\ At(p, "sync_dir") /\ target[p] = "device_id.keys"
  /\ survivors' = SurvivorsOfSync
  /\ returned' = returned \union {<<content[p][2], content[p][3]>>}
  /\ Leave(p)
  /\ UNCHANGED <<dir, legacy>>
-----------------------------------------------------------------------------
(* An exception, or the death of the process: the kernel drops its lock.   *)
Fail(p) ==
  /\ ~At(p, "idle")
  /\ Leave(p)
  /\ UNCHANGED <<dir, survivors, legacy, returned>>

PowerLoss ==
  /\ dir' \in survivors
  /\ survivors' = {dir'}
  /\ lock' = NoProcess
  /\ pc' = [p \in Process |-> "idle"]
  /\ UNCHANGED <<target, content, legacy, returned>>

LoadOrCreate(p) ==
  \/ OpenIdentityDirectory(p) \/ AcquireLock(p) \/ Load(p) \/ StartCreation(p)
  \/ CreateTemporary(p) \/ WriteTemporary(p) \/ SyncTemporary(p) \/ Publish(p)
  \/ CommitMarker(p) \/ CommitKeys(p)

Next == PowerLoss \/ \E p \in Process : LoadOrCreate(p) \/ Fail(p)

Spec == Init /\ [][Next]_vars
-----------------------------------------------------------------------------
(* One installation has one identity: whatever processes race, die or lose *)
(* power, load_or_create never returns two different identities.           *)
IdentityIsUnique == \A i, j \in returned : i = j

(* A UUID file of an older version keeps its UUID in the identity that     *)
(* migration creates, also if a first migration was interrupted.           *)
MigrationKeepsUuid ==
  \A id \in returned : legacy \in {Absent, Legacy(id[1])}

(* Neither a kill nor a power loss leaves key material, complete or being  *)
(* written, without the marker of the same UUID beside it: the marker is   *)
(* committed before any key exists, so a lost key is noticed.              *)
KeysHaveMarker ==
  \A s \in survivors :
    /\ s["device_id.keys"] # Absent \/ s["device_id.keys.tmp"] # Absent
         => s["device_id"][1] = "manifest"
    /\ s["device_id.keys"] # Absent => s["device_id.keys"][2] = s["device_id"][2]

(* An identity that load_or_create returned is still there after a power   *)
(* loss: what an interrupted attempt left is flushed before it is used.    *)
ReturnedIsDurable ==
  \A id \in returned, s \in survivors :
    /\ s["device_id"] = Manifest(id[1])
    /\ s["device_id.keys"] = Keys(id[1], id[2])
=============================================================================
