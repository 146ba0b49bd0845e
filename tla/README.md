# Gasoline: TLA+ models and proofs

Gasoline is a daemon that connects the devices of one person over a LAN. This
directory holds TLA+ models of the parts of it where concurrency, crashes or
long sequences of calls decide whether it is correct, the TLC runs that check
them, and TLAPS proofs of the most important results. Paths below are relative to
the repository (`src/`).

## The system

| part | state | operations | module |
|---|---|---|---|
| Session authentication (`core/auth`) | `live_authorizations_`, `force_scan_`, `stopping_`, the monitor thread's `last_token` | authorize, register, unregister, monitor loop | `SessionAuthentication` |
| Connection (`core/networking/connection.*`) | three mutexes, `started_`, `stopping_`, `cleaned_up_`, `ready_`, `authorized_peer_`, preface and hello flags, the descriptor, the handshake deadline | start, receive loop, record handling, send, activate, disconnect, finalize | `Connection`, `Sessions` |
| Device registry (`core/device`) | the list of READY devices | publish, remove, copy | `DeviceRegistry` |
| Trust store (`core/trust`) | the SQLite tables, `local_generation`, `data_version` | import, update, revoke, attempts, finalize pairing, lookup, change token; the constructor | `TrustStore`, abstractly `TrustAuthority`; `TrustStoreOpen` |
| Framing (`core/protocol/v2_framing.*`) | `RecordParser`'s phase, offsets and buffers | consume, finish, encode | `RecordParser` |
| Device identity (`core/identity`) | UUID file, key record, temporaries, lock file | `load_or_create` | `DeviceIdentity` |
| Router and handlers (`core/protocol`) | none of their own | hello, ping, pong, message | inside `Connection`, `Inbound` |
| Noise session (`core/noise`, Rust FFI) | handshake / transport / failed, nonces, keys | create, write, read, enter transport, encrypt, decrypt, rekey, destroy | `NoiseSession` |
| Discovery client (`core/discovery`) | `pending_connections_`, detached dial threads | device discovered, dial | `DiscoveryClient`, `Daemon` |
| mDNS (`platform/linux/discovery`) | poll object, client, browser or group, resolvers | start, callbacks, cleanup | `AvahiPublisher`, `AvahiBrowser` over `AvahiHandles` |
| Event bus (`core/events`) | a list of at most 256 events | emit, consume | `EventBus` |
| Local API (`interface/`) | a thread per client | accept, receive, handlers, answer | `ApiServer`, `Inbound` |
| Message service (`services/`) | none of its own | send to a device, broadcast | `Daemon` |
| Server, connect, connection manager | sockets, threads, the map of connections | listen, accept, dial, register, remove | `Daemon` |
| Daemon start (`daemon/main.cpp`) | the order of the above | start, serve, exit | `Startup`, `Daemon` |
| Logging, packet monitor (`core/utils`) | none that others read | | not modelled |

How the parts interact: an accepted or dialled socket becomes a `Connection`
with a receive worker. Both ends send a preface, then an unverified hello. A
completed authentication asks the trust store for the peer's record, and
`activate_authorized_peer` registers the session with the monitor, publishes it
in the registry (which settles duplicates of the two directions) and sets READY.
From then on application records are looked up in the trust store one by one,
and the monitor stops the session when its record changes. Whoever ends a
session sets `stopping_`; the worker, or the destructor, cleans up once. Around
this, `main` first loads the identity and opens the trust store, then starts the
server, the publisher, the local API and the browser. The browser's callbacks
start dial threads; API clients send through the message service and poll the
event bus, which the workers of READY sessions fill.

What makes it hard: up to four kinds of threads and three mutexes per
connection; the monitor reads the store without a lock and acts on what it read
later; two connections to one device compete for one registry entry; other
processes write the trust database; deadlines race with activations; processes
die between system calls. `PROJECT.json` lists these hazards at their lines.

## Modules

- `TrustAuthority` is what the daemon relies on in the trust store: a revision
  and a status per (UUID, key) binding, and a change token that moves with every
  commit.
- `SessionAuthentication` extends it with the live map and the monitor thread.
  The monitor is cut where the code takes or drops `live_mutex_` or reads the
  store: wait, read the token, copy the map, look entries up one at a time,
  compare and erase, call back. Any store access may throw (`MayThrow`), and so
  may the registry when a device is published.
- `DeviceRegistry` has `publish_authenticated_device` and `remove_device`.
- `Sessions` composes these with several connections. A session is its
  activation (`apc`, one value between each two steps of
  `activate_authorized_peer`), its cleanup (`wpc`) and the flags other threads
  see. Why a worker ends is left open: `Disconnect` and `WorkerEnd` may happen
  at any time.
- `Connection` is one connection in detail: every lock operation, access to an
  atomic and system call that other threads can tell apart is a step, and each
  thread has a call stack, so `request_disconnect` under a held `write_mutex_`
  is the nested call it is in the code. Bytes, JSON and clocks are abstracted: a
  record is one of `hello`, `ping`, `pong`, `message` or `bad`; a frame leaves in
  any number of pieces; time is one flag, "the handshake deadline has passed".
  EINTR and the periodic polls without effect are stuttering steps.
- `TrustStore` has one action per writing operation, each one transaction, by the
  daemon's instance or another connection, with any arguments. `Authority`
  instantiates `TrustAuthority` with the refinement mapping.
- `RecordParser` takes one step per turn of the loop in `consume`, over sequences
  of bytes from `0 .. Base - 1`; the handler's answer is any Boolean.
- `DeviceIdentity` takes one step per system call of `load_or_create`.
  `survivors` is the set of directories a power loss may leave; a sync narrows
  it, a write, create or rename widens it.
- `NoiseSession` is an initiator and a responder that use the handle's functions,
  each one step under the handle's mutex, over a transport that loses, repeats,
  reorders and damages messages. The Noise library is external and ideal: a
  transcript (prologue and ephemeral keys) stands for the handshake hash and the
  keys, and a ciphertext opens only under the same transcript, key and nonce. A
  panic poisons the mutex. The daemon does not use this part yet.
- `TrustStoreOpen` is the constructor of the trust store, one step per system call
  or transaction: directory sync, `flock`, inspection of the files, creation,
  first read, version check, entry into WAL mode, migration, last sync. `main` and
  `wal` are the two files; `unsynced` are the file names a power loss may still
  take; `Current` is what SQLite reads from the two. The first read
  (`quick_check`) opens the log, so a constructor that rejects the database
  afterwards has a handle to close. The exception releases the lock first, and
  the last handle to close moves the log into the file and removes it.
- `Startup` composes `DeviceIdentity` and `TrustStoreOpen` as `main` calls them:
  processes start together, die at any step, lose power and start again.
- `EventBus` and `ApiServer` are the list of received messages and the HTTP
  threads. `Inbound` composes them with `RecordParser`: a record the parser hands
  out may become an event, which is the number of its record, in the step that
  delivers it (`handle_record` runs inside `consume`).
- `AvahiHandles` has the lifetimes of the Avahi objects behind raw pointers:
  which members are set, which objects exist, and whether the library was ever
  given one that does not. `AvahiPublisher` and `AvahiBrowser` are the code on top
  of it: `start`, the callbacks in any order the library may call them, and the
  cleanup. Any library call may fail.
- `DiscoveryClient` is `on_device_discovered` with its dial threads; the sleep of
  two seconds is a step of unknown length.
- `Daemon` composes browser, publisher, discovery, server, connection manager,
  registry (the `DeviceRegistry` that `Sessions` uses) and message service. Its
  sessions are coarse, one value per state that the other parts can tell apart;
  a session authenticates as any device, and ends at any time. The descriptor a
  new socket gets is the lowest free one, as the kernel gives it.

`map` in `PROJECT.json` gives the lines each definition stands for. Operators
commented "Mutant" are not part of a model: each is a plausible wrong form of the
definition that follows it, and the property named in `PROJECT.json` fails when
it replaces that definition.

## Runs

| run | instance | what it checks |
|---|---|---|
| `sessions` | 2 sessions of 1 device, one per direction, 3 revisions, exceptions | no stale authorization escapes the monitor, READY sessions are watched and own their entry, one owner per device, cleanup is final, only the preferred direction displaces a usable owner |
| `sessions_live` | the same, 2 revisions, no exceptions, fairness | revoked sessions stop, stopping sessions are cleaned up, the monitor erases only stale entries |
| `connection` | 1 connection, worker, auth, sender, closer | descriptor unused after close, nothing after a torn frame, privileged records authorized, no READY while stopping |
| `connection_live` | 1 connection, worker, auth, closer, fairness | stopping leads to closed; a started session becomes READY or is closed |
| `trust_store` | 2 UUIDs, 2 keys, 1 attempt, 1 permission, 3 revisions, a clock with 2 values | types, key uniqueness, revoked records empty, revisions name rows, reactivation only by pairing, `TrustStore` implements `TrustAuthority` |
| `inbound` | 2-valued bytes, limit 2, fragments up to 5, streams up to 11, 2 stored events, 2 API clients | exact delivery, bounded buffers, judged end of stream; events reach clients in stream order and once; only the oldest are lost, and only at the limit |
| `startup` | 2 processes, 2 UUIDs, 2 keypairs, with or without a legacy file; a database missing, foreign, truncated, of schema 1, 2 or 3, with or without a log that a killed process left; 2 trust records | one identity, legacy UUID kept, no keys without marker; committed trust survives crashes and power loss; a database that is not recognised reads the same after every step, and nothing of its log is lost |
| `daemon` | 2 devices, 2 dial threads, 2 sessions, 1 waiting resolver | a device is marked pending exactly while one thread dials it; no freed Avahi object is used; the service is held only while the Avahi server runs, or has failed and the loop is told to quit; messages go to the device they are meant for |
| `noise` | 2 sessions per side, nonces 0 and 1, 1 rekey per key | records accepted in order and once, no nonce used twice under a key, nonces stay in step, a rejected record ends the session, the handshake hash is final |
| `ready_deadline`, `preface_first`, `identity_durable` | as above | the three findings below |

Why the bounds are enough to be interesting. Two sessions of one device contain
every duplicate race, as a publication compares exactly two connections; three
revisions allow a session authorized, revoked and authorized again. The token
bound lets commits fall between any two steps of a scan. With a limit of 2 and
two-valued bytes the parser sees records of size 0, 1, the limit, one more, and a
length with a non-zero high byte; eleven bytes are a preface and several records,
more than the two events the bus stores. Two processes are what an `flock`
separates. Three revisions reach the maximum of `next_revision`, which in the code
is that of `int64_t`. Two Noise sessions per side let messages of an old session
reach a new one; two nonces let a record come early, late or twice, and reach the
nonce the library refuses. In `daemon`, the second session can take the
descriptor of the first while a sender still holds the first one's entry, and two
dial threads are enough for a second dial to the same device.

`daemon` has a constraint, `Apart`: the publisher shares no variable with the
other threads and no property relates the two, so each behaviour explored moves
either the publisher or the others. Devices, sessions and dial threads are
symmetric (every device id is greater than our own, so none is distinguished), and
so are the API clients of `inbound`.

The runs of `Sessions`, `Connection`, `NoiseSession` and `Daemon` do not check for
deadlock, because the system may stop for good when every session is gone, and
the number of sessions is a bound; for the first two the liveness runs show
instead that no thread stays inside a call. The others have no final state and
check it. Type invariants are stated in every large module; `trust_store` checks
one, and those of `Sessions`, `TrustStore`, `Connection`, `DeviceIdentity`,
`TrustStoreOpen` and `RecordParser` are proved.

### Fairness

`Sessions`: the monitor thread runs, a thread inside an activation or a cleanup
finishes it, a worker notices `stopping_` (shutdown wakes its poll). The monitor's
callback needs `lifecycle_mutex_`, which failing activations may take again and
again; the handshake deadline ends them in the code and is not a variable of this
module, hence strong fairness for that one step. `Connection`: strong fairness
per thread, which says that the thread runs and that no waiter for a mutex is
starved forever (`std::mutex` does not promise this formally; the threads that
compete leave it for I/O between two acquisitions). The poll of a shut-down
socket returns, and time passes. Nothing is assumed of peers, callers or writers.

## Proofs

The theorems hold for every set of sessions, devices, processes, UUIDs, keys,
attempts and permissions and every bound, from the named assumptions of the modules
only.

`SessionsProofs`: type correctness; `StaleIsNoticed`, `ReadyIsWatched`,
`OneOwner`, `ReadyIsOwner`, `CleanedIsGone`, `OnlyPreferredDisplaces`,
`EraseOnlyStale`. The safety properties are not
inductive one by one, because each depends on what a thread inside
`activate_authorized_peer` or `finalize_disconnect` holds. `IInv` is their
conjunction with what the program points know: `TokenOrder` (the monitor's token
is never ahead of the store's), `ActivationHolds` (while `lifecycle_mutex_` is
held the session is neither stopping nor READY nor expired, and a cleanup comes
after `stopping_`), `ActivationIsWatched` and `PublishedIsOwner` (an activation
past its registration or publication is already watched and an owner, as a READY
session is), `EntryShape` and `DutyShape` (where registry entries come from, and
how long a displaced session is remembered). One lemma per group of conjuncts
(`NoticedStep`, `HoldsStep`, `WatchedStep`, `RegistryStep`, `CleanedStep`,
`OwnerStep`, `DisplacesStep`) goes through the actions. `EraseOnlyStale` needs one
more invariant, `RevisionOrder`: no live or copied entry has a revision that the
store has not reached, so a revision found outdated never becomes current again.

`TrustStoreProofs`: type correctness, `OneUuidPerKey`, `RevokedHoldsNothing`
(together `StoreInv`, the inductive invariant), the action properties
`RevisionNamesRow` and `ReactivatedByPairing`, and `ImplementsAuthority`, the
refinement. The lemma `StepShape` reduces every action to its effect on the
tables: no device row changes, or one is added at revision 1, or one advances by
one with its key kept. The refinement is what justifies that `Sessions` uses
`TrustAuthority` in place of the store.

`ConnectionProofs`: type correctness, `ClosedIsUnused`, `FramesAreWhole`,
`PrivilegedIsAuthorized` and the action property `ReadyExcludesStopping`, for every
set of callers. None of them is inductive, because what a thread may do
depends on the calls it is inside of. `ConnectionInv` says of each thread, from the
first three entries of its call stack: where it can be (`Legal`), which mutexes it
holds (`Locks`), which points it reaches only while the session stops or only before
(`Ending`), and what its trust lookup vouches for (`Vouched`); and of the connection,
that a closed descriptor was cleaned up (`Closed`) and that a torn frame's writer
still holds `write_mutex_` or has stopped the session (`Frames`). The actions only
push, pop and replace stack entries, so the proof reads them through a few views
(`Moved`, `Updated`, `Recorded`, `Members`), and every action has a lemma of a few
steps.

`StartupProofs`: `IdentityIsUnique`, `MigrationKeepsUuid` and `KeysHaveMarker` from
`IdentityInv`. It describes every directory in `survivors`, not only the present
one: its shape, that it is not ahead of the present one, how far a writer that holds
the lock has got, and that a returned identity keeps its marker.
`CommittedTrustSurvives` and the action property `UnrecognisedIsPreserved` follow
from `OpenInv`, which says who holds the lock, what the constructor has checked at
each point, when the name of the write-ahead log is durable, that a log which can
still be lost holds nothing of an unrecognised database, and that the database with
the log, or without it as long as its name can be lost, has every acknowledged row.
`UnrecognisedIsPreserved` is about `Current`, not about the two files: closing the
handle of a rejected database may move its log into the main file, which leaves
what SQLite reads as it was. `StartImplements` shows that `Startup` takes only steps of its two parts, so
`StartIsSafe` has all five properties for the composition that the run checks. The
number of records `MaxRows` is assumed positive.

`DaemonProofs`: `PendingIsDialled`, `HandlesAreLive`, `AdvertisedWhileRunning`,
`MessagesReachTheirDevice`. `BrowserInv` and `PublisherInv` give the exact set of
Avahi objects at each point of the two threads. `MessageInv` extends the claim about
messages to the stale copies a sender works from: each entry names a session that
has authenticated as the entry's device, and a session never changes its device.

`NoiseSessionProofs`: `DeliveredInOrder`, `NonceUsedOnce`, `NextIsExpected` and the
action properties `RejectionIsFinal`, `HashIsFinal`, for every number of sessions,
nonces and rekeys. The core of `NoiseInv` is a count: a sender's nonce is the number
of ciphertexts on the wire with its transcript, and no ciphertext has the ephemeral
key of a handshake that has not entered transport, so a new session starts from
nonce 0 with no earlier ciphertext of its own.

`RecordParserProofs` and `InboundProofs`: `StreamIsRecords`, `BufferIsBounded`,
`CleanEndIsComplete`, type correctness, `EventsFollowStream`, `LostOnlyToNewer`, for
every base, preface, limit, fragmentation, set of clients and number of stored
events. `ParserInv` says that the stream is what was read followed by the input, and
that a finished parser read whole records; the lemmas are about two bytes as the
digits of a length, about `CHOOSE` in `Matched` (the least mismatch exists), and
about cutting a sequence. `FlattenSeq` is defined by recursion, and an induction
theorem cannot be instantiated here; `FlattenFacts` (appending a record appends its
bytes) is proved from the least counterexample instead, which the well-foundedness
of the numbers gives. `InboundImplements` shows that the composition takes only
steps of the parser. `InboundInv` adds to `ParserInv` that the stored events are the
last ones emitted, that those before were handed out or have enough younger ones,
and that all are increasing record numbers.

Each inductive invariant was also checked by TLC, on the instance of its run, before
it was proved.

Every safety property of the passing runs is thus proved. Model-checked only: the
liveness properties (`RevokedSessionStops`, `StoppedSessionIsCleaned`,
`StoppedIsClosed`, `HandshakeIsBounded`), since fairness and `ENABLED` are outside
the prover's reach, and the three findings, which are counterexamples.

## Findings

1. `ready_deadline` (`core/networking/connection.cpp:443`). A poll that began
   before READY keeps the handshake deadline; if the peer is silent, its expiry
   stops the session with "handshake timeout" although it is READY by then.
   `tests/session_tests.cpp:1056` calls that a failure.
2. `preface_first` (`core/networking/connection.cpp:308`). Nothing orders the
   preface before the records of an activated session; `protocol_docs/PROTOCOL.md:29`
   says each direction begins with it.
3. `identity_durable` (`core/identity/device_identity.cpp:250`). The directory is
   flushed before the lock is taken, so what an interrupted holder of the lock
   renamed in between is used without being flushed. A power loss then removes
   the keys of an identity that was returned; later starts fail closed.

## Not modelled

Left out:

- logging, formatting, file permissions and ownership, key arithmetic, the text of
  HTTP and JSON: no property here depends on them;
- SQLite and the Avahi library themselves, which are modelled by what the code may
  rely on (`TrustStoreOpen`, `AvahiHandles`);
- `stop` of the browser, the publisher and the discovery client, and the
  destructor of `SessionAuthentication`: `main` reaches them only when it returns,
  after `start` has returned, and no other thread calls them;
- `ClientHandler` and `ConnectionManager::find`, which the daemon does not call;
- the reference counts behind `shared_from_this` and `weak_ptr`, beyond "the entry's
  weak reference may no longer lock";
- exceptions that leave an HTTP handler on its detached thread: they end the process;
- the order of a late hello (`connection.cpp:416`): the code that will call the
  activation after a Noise handshake does not exist yet.

Two behaviours are modelled but carry no property, because nothing promises more:
a failed dial is not repeated (`discovery_client.cpp:106`), and an answer that
cannot be sent takes its events with it (`api_server.cpp:138`).
