--------------------------- MODULE TrustStoreOpen ---------------------------
(***************************************************************************)
(* The constructor of the trust store (trust_store.cpp, TrustStore::Impl): *)
(* processes that start together, are killed between any two system calls  *)
(* or lose power create, check and migrate one SQLite database.            *)
(*                                                                         *)
(* main and wal are the database file and its write-ahead log.  SQLite is  *)
(* external: a commit with synchronous=FULL makes the bytes of the log     *)
(* durable; the names of files created since the last fsync of the         *)
(* directory (unsynced) may be lost with the power, while a name that was  *)
(* removed does not come back.  Rows are a counter of the trust records    *)
(* ever committed.  A connection opens the log with its first read and the *)
(* last one to be closed moves it into the database file and removes it.   *)
(*                                                                         *)
(* Left out: ownership, modes and canonical paths, PRAGMAs that only       *)
(* configure the connection, the -shm file, which holds no data, and the   *)
(* -journal of a database that is not in WAL mode: main is what SQLite     *)
(* reads after rolling it back.  The five-second limits, damaged pages and *)
(* failing calls end in Throw.                                             *)
(***************************************************************************)
EXTENDS Naturals

CONSTANTS Daemon, Nobody,   \* the processes, and the holder of a free lock
          MaxRows           \* bound on committed trust records

ASSUME StoreAssumption == Nobody \notin Daemon /\ MaxRows \in Nat \ {0}

VERSION == 2
Newer == VERSION + 1   \* a schema of a later release

VARIABLES main, wal,   \* the two files, see File
          unsynced,    \* names that are not durable yet: subset of {"main", "wal"}
          store_lock,  \* holder of the flock, or Nobody
          store_pc,    \* where the constructor of a process is
          existing,    \* the local of a running constructor: the file was there
          acked        \* history: rows whose commit was reported to a caller

storeVars == <<main, wal, unsynced, store_lock, store_pc, existing, acked>>

Missing == [kind |-> "missing"]
Short == [kind |-> "short"]      \* fewer than 100 bytes
Database(app, version, rows) ==
  [kind |-> "database", app |-> app, version |-> version, rows |-> rows]
Empty == Database(FALSE, 0, 0)   \* a header, no schema
Ours(version, rows) == Database(TRUE, version, rows)

(* Without a handle, with a connection in the constructor, or after it.    *)
StorePC == {"closed", "opened", "locked", "created", "check",
            "checked", "journal", "migrate", "committed", "open", "closing"}

DatabaseFile == [kind : {"database"}, app : BOOLEAN, version : 0 .. Newer, rows : 0 .. MaxRows]
File == {Missing, Short} \union DatabaseFile

StoreTypeOK ==
  /\ main \in File /\ wal \in File
  /\ unsynced \subseteq {"main", "wal"}
  /\ store_lock \in Daemon \union {Nobody}
  /\ store_pc \in [Daemon -> StorePC] /\ existing \in [Daemon -> BOOLEAN]
  /\ acked \in 0 .. MaxRows

(* What SQLite reads: the log of a database holds its newest commit, if    *)
(* there is one.                                                           *)
Recovered(file, log) ==
  IF file.kind = "database" /\ log.kind = "database" THEN log ELSE file
Current == Recovered(main, wal)

Recognised(db) == db.kind = "database" /\ db.app /\ db.version \in 1 .. VERSION

(* The databases that this, an earlier or a later release left, and those  *)
(* of other applications.                                                  *)
Earlier == {Database(FALSE, 0, r) : r \in 0 .. 1}
             \union {Ours(v, r) : v \in 1 .. Newer, r \in 0 .. 1}

(* The logs that a process which was killed may have left beside db: its   *)
(* commits added rows, migrated or initialised the database.               *)
LogsOf(db) == {log \in Earlier : /\ log.version >= db.version /\ log.rows >= db.rows
                                 /\ log.app = db.app \/ db = Empty}

(* The directory before the first start: nothing, a truncated file, an     *)
(* orphaned log, or a database with or without a log.                      *)
StoreInit ==
  /\ main \in {Missing, Short} \union Earlier
  /\ wal \in {Missing, Short} \union (IF main \in Earlier THEN LogsOf(main) ELSE {})
  /\ unsynced = {}
  /\ store_lock = Nobody
  /\ store_pc = [p \in Daemon |-> "closed"] /\ existing = [p \in Daemon |-> TRUE]
  /\ acked = IF Recognised(Current) THEN Current.rows ELSE 0
-----------------------------------------------------------------------------
StoreAt(p, label) == store_pc[p] = label
StoreGoto(p, label) == store_pc' = [store_pc EXCEPT ![p] = label]

(* A connection that has read the database.                                *)
Connected(p) ==
  store_pc[p] \in {"checked", "journal", "migrate", "committed", "open", "closing"}

(* The constructor ends: its lock descriptor is closed.                    *)
LeaveStore(p, label) ==
  /\ StoreGoto(p, label)
  /\ store_lock' = IF store_lock = p THEN Nobody ELSE store_lock
  /\ existing' = [existing EXCEPT ![p] = TRUE]

(* sync_tree, before the lock is taken. *)
OpenStateDirectory(p) ==
  /\ StoreAt(p, "closed")
  /\ unsynced' = {}
  /\ StoreGoto(p, "opened")
  /\ UNCHANGED <<main, wal, store_lock, existing, acked>>

LockStore(p) ==
  /\ StoreAt(p, "opened") /\ store_lock = Nobody
  /\ store_lock' = p
  /\ StoreGoto(p, "locked")
  /\ UNCHANGED <<main, wal, unsynced, existing, acked>>

(* An existing file of at least 100 bytes is opened, a missing one without *)
(* recovery files is created; everything else throws.                      *)
InspectFiles(p) ==
  /\ StoreAt(p, "locked")
  /\ \/ /\ main.kind = "database"
        /\ StoreGoto(p, "check") /\ UNCHANGED <<main, unsynced, store_lock, existing>>
     \/ /\ main = Missing /\ wal = Missing
        /\ existing' = [existing EXCEPT ![p] = FALSE]
        /\ main' = Short /\ unsynced' = unsynced \union {"main"}
        /\ StoreGoto(p, "created") /\ UNCHANGED store_lock
     \/ /\ main = Short \/ (main = Missing /\ wal # Missing)
        /\ LeaveStore(p, "closed") /\ UNCHANGED <<main, unsynced>>
  /\ UNCHANGED <<wal, acked>>

(* fsync of the new file and of the directory. *)
SyncCreated(p) ==
  /\ StoreAt(p, "created")
  /\ unsynced' = {}
  /\ StoreGoto(p, "check")
  /\ UNCHANGED <<main, wal, store_lock, existing, acked>>

(* quick_check is the first read.  It opens the log, and creates it where  *)
(* the database is in WAL mode: ours is, that of another application may   *)
(* be, and a new file is not.                                              *)
QuickCheck(p) ==
  /\ StoreAt(p, "check")
  /\ \/ /\ wal = Missing => ~(main.kind = "database" /\ main.app)
        /\ UNCHANGED <<wal, unsynced>>
     \/ /\ wal = Missing /\ main.kind = "database"
        /\ wal' = Short /\ unsynced' = unsynced \union {"wal"}
  /\ StoreGoto(p, "checked")
  /\ UNCHANGED <<main, store_lock, existing, acked>>

(* Mutant: an empty database is initialised, whoever left it. *)
AcceptableEmpty(p) ==
  Recognised(Current) \/ Current \in {Short, Empty}

(* The application id and version of an established database, or none in   *)
(* one that this constructor has just created; as the log has them.        *)
Acceptable(p) ==
  IF existing[p] THEN Recognised(Current) ELSE Current = Short

CheckVersion(p) ==
  /\ StoreAt(p, "checked")
  /\ IF Acceptable(p)
       THEN StoreGoto(p, "journal") /\ UNCHANGED <<store_lock, existing>>
       ELSE LeaveStore(p, "closing")
  /\ UNCHANGED <<main, wal, unsynced, acked>>

(* PRAGMA journal_mode=WAL writes the header of a new database, and the    *)
(* log is created with the first transaction.                              *)
EnterWal(p) ==
  /\ StoreAt(p, "journal")
  /\ main' = IF main = Short THEN Empty ELSE main
  /\ wal' = IF wal = Missing THEN Short ELSE wal
  /\ unsynced' = IF wal = Missing THEN unsynced \union {"wal"} ELSE unsynced
  /\ StoreGoto(p, "migrate")
  /\ UNCHANGED <<store_lock, existing, acked>>

(* The migration is one transaction: tables, application id and version. *)
Migrate(p) ==
  /\ StoreAt(p, "migrate")
  /\ wal' = Ours(VERSION, Current.rows)
  /\ StoreGoto(p, "committed")
  /\ UNCHANGED <<main, unsynced, store_lock, existing, acked>>

(* Mutant: the constructor returns without the last fsync. *)
ReturnUnsynced(p) ==
  /\ StoreAt(p, "committed")
  /\ LeaveStore(p, "open")
  /\ UNCHANGED <<main, wal, unsynced, acked>>

(* The last fsync of the directory; the store is open. *)
ReturnStore(p) ==
  /\ StoreAt(p, "committed")
  /\ unsynced' = {}
  /\ LeaveStore(p, "open")
  /\ UNCHANGED <<main, wal, acked>>

(* An exception: the lock is a local of the constructor, so it is released *)
(* before the handle, a member, is closed.                                 *)
Throw(p) ==
  /\ store_pc[p] \notin {"closed", "open", "closing"}
  /\ LeaveStore(p, IF Connected(p) THEN "closing" ELSE "closed")
  /\ UNCHANGED <<main, wal, unsynced, acked>>

OpenStore(p) ==
  \/ OpenStateDirectory(p) \/ LockStore(p) \/ InspectFiles(p) \/ SyncCreated(p)
  \/ QuickCheck(p) \/ CheckVersion(p) \/ EnterWal(p) \/ Migrate(p) \/ ReturnStore(p)
  \/ Throw(p)
-----------------------------------------------------------------------------
(* Any operation of an open store that adds a trust record. *)
CommitRow(p) ==
  /\ StoreAt(p, "open") /\ acked < MaxRows
  /\ wal' = [Current EXCEPT !.rows = @ + 1]
  /\ acked' = acked + 1
  /\ UNCHANGED <<main, unsynced, store_lock, store_pc, existing>>

(* SQLite moves the log into the database file, after any commit.          *)
Checkpoint ==
  /\ \E p \in Daemon : StoreAt(p, "committed") \/ StoreAt(p, "open")
  /\ wal.kind = "database" /\ main # wal
  /\ main' = wal
  /\ UNCHANGED <<wal, unsynced, store_lock, store_pc, existing, acked>>

(* The handle is closed, of a store that is destroyed or of a constructor  *)
(* that threw.  The last connection empties and removes the log.           *)
CloseStore(p) ==
  /\ StoreAt(p, "open") \/ StoreAt(p, "closing")
  /\ IF \E q \in Daemon \ {p} : Connected(q)
       THEN UNCHANGED <<main, wal>>
       ELSE main' = Current /\ wal' = Missing
  /\ StoreGoto(p, "closed")
  /\ UNCHANGED <<unsynced, store_lock, existing, acked>>

(* The process is killed: nothing is closed but its descriptors. *)
Abandon(p) ==
  /\ ~StoreAt(p, "closed")
  /\ LeaveStore(p, "closed")
  /\ UNCHANGED <<main, wal, unsynced, acked>>

(* What a power loss leaves of the files when the names in lost go. *)
MainWithout(lost) == IF "main" \in lost THEN Missing ELSE main
WalWithout(lost) == IF "wal" \in lost THEN Missing ELSE wal

StorePowerLoss ==
  /\ \E lost \in SUBSET unsynced : main' = MainWithout(lost) /\ wal' = WalWithout(lost)
  /\ unsynced' = {}
  /\ store_lock' = Nobody
  /\ store_pc' = [p \in Daemon |-> "closed"] /\ existing' = [p \in Daemon |-> TRUE]
  /\ UNCHANGED acked

StoreNext ==
  \/ \E p \in Daemon : OpenStore(p) \/ CommitRow(p) \/ CloseStore(p) \/ Abandon(p)
  \/ Checkpoint \/ StorePowerLoss

StoreSpec == StoreInit /\ [][StoreNext]_storeVars
-----------------------------------------------------------------------------
(* No trust record whose commit was reported is ever lost, and a database  *)
(* that was established stays established: whatever the constructors of    *)
(* this and other processes do, and whichever unsynced names a power loss  *)
(* takes, SQLite still finds every row in a database of our schema.        *)
CommittedTrustSurvives ==
  acked > 0 \/ (\E p \in Daemon : StoreAt(p, "open")) =>
    \A lost \in SUBSET unsynced :
      LET db == Recovered(MainWithout(lost), WalWithout(lost))
      IN Recognised(db) /\ db.rows >= acked

(* A database that the constructor finds and does not recognise, be it     *)
(* foreign, of a newer schema, truncated or left by an interrupted         *)
(* initialization, reads the same ever after: nobody but the constructor   *)
(* that created a file initialises or migrates it, and the rejecting ones, *)
(* whose closing handle moves a log they found into the file, lose nothing *)
(* of that log.  Only a file whose name is not durable can go.             *)
UnrecognisedIsPreserved ==
  [][\/ main = Missing \/ Recognised(Current)
     \/ \E p \in Daemon : store_lock = p /\ ~existing[p]
     \/ Current' = Current
     \/ "main" \in unsynced /\ Current' = Missing]_storeVars
=============================================================================
