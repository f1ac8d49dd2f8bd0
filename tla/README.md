# A TLA+ model of OpenSyncCRDT

OpenSyncCRDT is a Go server that keeps shared documents in sync. Devices send
Automerge change sets over WebSockets; the server appends each one to the
document's operation log under the next *seq*, and sends it to the other
devices. A device that was away asks for everything after the seq it has. This
directory holds TLA+ modules of that program, the TLC configurations that check
them on small instances, and TLAPS proofs that hold for every instance.
`PROJECT.json` is the index: which definition stands for which lines, what every
run checks, and the hazards the properties were chosen for.

Run `tlc -config X.cfg MCM` for a run and `tlapm M.tla` for the proofs of a
module.

## The system

| Part | State | Operations | Talks to |
| --- | --- | --- | --- |
| Sync engine, `internal/sync/engine.go` | `docs`: one `docState` (Automerge document and mutex) per document | `Submit`, `Snapshot`, `Export`, `Forget`, `state`/`loadDoc` | storage, broadcaster, webhook emitter, resolver |
| Replay, `internal/sync/replay.go` | none | `Replay` in batches | storage, connection |
| Hub, `internal/server/hub.go` | connections per document, count of slots | `tryRegister`, `release`, `subscribe`, `deregister`, `Broadcast` | connections, cluster observer |
| Connection, `internal/server/connection.go` | send queue, sessions, `done` | read loop, write loop, keepAlive, `close` | hub, engine |
| Admission, `internal/server/server.go` | none | `HandleSync` | hub, authentication |
| REST API, `internal/api` | none | create, list, get, delete, history, snapshot, export | engine, storage |
| Storage, `internal/storage` | tables `documents`, `operations`, `snapshots`, `schema_migrations` | the `Store` interface on SQLite, Postgres, MySQL; `migrate` | the database |
| Cluster node, `internal/cluster` | Redis channel per document, registry key per process | `Broadcast`, `OnDocActive`, `OnDocInactive`, receive loop, heartbeat, `Close` | Redis, hub |
| Webhook dispatcher, `internal/webhook` | goroutine per delivery | `Emit`, `deliver`, `post` | the developer's endpoint, metrics |
| Authentication, `internal/auth` | decision cache (webhook mode) | `Authenticate` | the developer's endpoint |
| CRDT wrapper and resolver, `internal/crdt` | Automerge document | `Apply`, `Rehydrate`, `Save`, `Resolve` | Automerge, the developer's endpoint |
| Configuration, `internal/config` | the `Config` | defaults, file, environment, `Validate` | all of the above |
| Process, `cmd/opensynccrdt`, `pkg/engine` | store, node, context | `New`, `run`, `Shutdown`, `Close` | all of the above |
| Protocol, metrics, routing | messages, counters | encode, count, serve | all of the above |

What makes it hard: requests for a document interleave around two kinds of
mutex, with storage calls between them; memory changes before the log does;
several processes share one store and each has a cache of its own; a DELETE
takes no document mutex; a subscription is registered before its replay is
read; Redis commands are not awaited and may time out; processes die anywhere.

What correctness means, part by part:

- engine: nothing acknowledged is lost, snapshots contain what their seq says,
  the cache agrees with the log, broadcasts follow the log;
- delivery: no operation falls between replay and live delivery, live ones come
  in order, slow clients block nobody, slots are exact;
- storage: seqs are gap-free and every call is atomic whatever the statements'
  interleaving; migrations survive crashes and races;
- cluster: order per process, no echo, no loss at the connection's own process,
  the registry lists who is up;
- webhooks and authentication: attempts and counters are exact, answers rest on
  recent decisions;
- resolver: what was acknowledged stays in the log, and shows unless a document the
  developer's endpoint returned left it out;
- REST reads: a client that pages through a history misses nothing, and one that pages
  through the list no document that stayed where it was (conditions below);
- process: an engine is built only from a sound configuration, a shutdown ends,
  serves the requests it accepted and releases everything.

## The modules

| Module | Models | Abstraction |
| --- | --- | --- |
| `Engine` | `engine.go` and the create, delete, snapshot and export handlers, for one document on one or more processes | a document is the set of changes applied to it; storage calls are atomic (`OpLog`); no resolver |
| `EngineProofs` | theorems about `Engine` | |
| `Stream` | what `Submit` promises the `Broadcaster` | abstract: the length of the log and, per process, what it is broadcasting |
| `Delivery` | hub, connection, admission and `Replay` on one process | `Submit` is a commit followed by a broadcast under the mutex; a client has one connection and one session |
| `DeliveryProofs` | theorems about `Delivery` | |
| `Sessions` | connections with several documents and sessions, their events and the gauge | queues and replays are `Delivery`'s |
| `OpLog` | the contract of `storage.Store` | abstract: every call takes effect at one instant |
| `SqlStore` | `AppendOp` and the other writers on SQLite, Postgres and MySQL | statements, with the lock each takes; committed tables and the transaction's own writes |
| `Migration` | `migrate` on the three backends | a statement creates a table |
| `StorageProofs` | theorems about `SqlStore` | |
| `Paging` | the list and history handlers over the list and range queries | a clock of milliseconds, the same for all writers, that may stand still and does not step back; a writer's time may be old by the time it writes |
| `Resolver` | `applyChange` with a conflict resolver, `Resolver.Resolve`, `Rehydrate` | a change is its author and what it depends on; `Submit` is one step, since it holds the mutex; the endpoint returns any document |
| `Cluster` | `cluster.Node` and the hub's observer, two processes and Redis | deliveries to a connection are immediate; the author's echo is left to `Delivery` |
| `ClusterProofs` | theorems about `Cluster` | |
| `Registry` | `register`, `heartbeatLoop`, `Close` | time in units of `opTimeout` (5 s) |
| `Webhook` | `Dispatcher` | an endpoint that answers, fails or hangs at will |
| `AuthCache` | `webhookAuth` for one token and document | an endpoint that decides at will, and discrete time |
| `Process` | `newFromConfig`, `Close`, `run` | a job is a REST request or a hijacked WebSocket that makes store calls |
| `Config` | `Default`, `Load`, `applyEnv`, `Validate`, `New` | the settings other components rely on; a text is blank or named after its source |
| `BackgroundServices`, `BackgroundSessions`, `BackgroundSchema`, `BackgroundPaging`, `BackgroundData` | names for the state of the components `MCBackground` composes, and their promises | |
| `BackgroundProofs` | theorems about `AuthCache`, `Registry`, `Process`, `Webhook` and `Sessions` | |
| `PagingProofs`, `DataProofs` | theorems about `Paging`; about `Resolver`, `Config` and `Migration` | |
| `CompositionProofs` | theorems about `MCBackground` | |

`MCEngine`, `MCDelivery`, `MCSqlStore` and `MCCluster` give symmetry sets and constant
values for TLC. `MCBackground` instantiates the nine components beside the document
path (`Migration`, `Registry`, `Webhook`, `AuthCache`, `Paging`, `Sessions`,
`Resolver`, `Process`, `Config`) side by side: they share no state, so each behaviour
moves one of them (`focus`) and a property of one is that of the component alone
(`CompositionProofs` uses that). The five `Background*` modules below it name the
state of those components, so that a theorem and the run speak of one and the same
definition. Operators whose comment says "Mutant" are altered versions of the
definition that follows them; they are in no specification. Each shows that its
property notices that change.

The models of the document path meet at two contracts. `OpLog` lies between the
engine and storage: `SqlStore` implements it, and all that `Engine` does to the tables
are steps of it. `Stream` lies between the engine and the broadcasters: `Engine`
implements it, and `Delivery` and `Cluster`, which have a `Submit` of their own, are
shown to take no more of it than that. All five statements are proved.

### State and actions

*Engine.* `exists`, `ops` and `snaps` are the tables; `docs`, `doc` and `mu` are
`Engine.docs` and the fields of a `docState`; `pc`, `req`, `st`, `loaded` and
`seq` are the goroutines' locals. A request is a sequence of actions cut at
every storage call and lock: `Lookup`, `GetSnapshot`, `GetOpsSince`, `Install`
(`state`), `LockAndApply`, `AppendOp`, `AfterCommit`, `Broadcast` (`Submit`),
`LockForSnapshot`, `GetLatestSeq`, `SaveSnapshot`, `Export`/`Reply`, and
`CallDelete`/`Forget` for the two halves of DELETE. `LoadFails`, `ApplyFails`,
`AppendFails`, `SnapshotFails` and `DeleteFails` are the error returns; `AppendFails`
includes the commit whose reply is lost, and `DeleteFails` is the DELETE whose reply
is: the rows are gone, the handler returns before `Forget` (`documents.go:108-111`) and
the process keeps what it had cached. `failed` has the changes of both. `Crash` clears a process. `acked`, `failed`,
`floor`, `lastSent`, `created` and `raced` are history: `raced` says that a
DELETE overlapped with another request, the case in which the code's own
guarantees end (see the findings).

*Delivery.* `hubDocs` and `active` are the hub; `queue`, `done`, `subs`, `pc` and
`todo` a connection; `bc` the broadcast in progress, whose presence is the
document's mutex. `seen`, `base`, `lastLive` and `owed` belong to the client. An
entry of `log` is the author, or Nil when the reply to the commit was lost: `Submit`
returned an error and nobody broadcasts the operation. Other devices get it with a
replay, if they send a last_seq before it; a device that received a later operation
live does not. A `Replay` whose read of the log fails (`ReplayFails`) sends an error
frame and leaves the connection open. `Cluster` (`CommitReplyLost`, if `StoreFails`) and `Resolver` have
the lost reply as well.

*SqlStore.* `latest`, `operations` and `snapshots` are committed rows; `wrote` and
`advanced` the uncommitted writes of a session; `lock` the write lock of SQLite
or the row lock of the others. `PostgresEnsure` locks only a row it inserts,
`MysqlEnsure` also one it finds, `SqliteBegin` is `BEGIN IMMEDIATE`.

*Sessions.* `subs`, `hubDocs` and `call` are a connection's notes, the hub and the
message its read loop handles; `bc` is the broadcast of a document. `used`,
`connected`, `disconnected` and `echoed` are history.

*Resolver.* `doc`, `log` and `snap` are the cached document, the log and the latest
snapshot; `made` has every change with what it depends on, so that a document has
heads and a change whose ancestors are missing does not show. `ApplyChange` asks the
endpoint when there is more than one head and takes its reply, or the merge when it
fails or returns bytes that do not load. A reply is any set of the changes there are,
with or without a change of the endpoint's own: it may lack the change it was asked
about, as the one in `tests/integration/resolver_test.go` does. `leftOut` is history:
what such documents left out of the cached document and of the snapshot.

*Paging.* `rows` is `updated_at` of each document, `latest` the last seq of one;
`list` and `history` are a client's walks, with what it has been given so far and
what was there all along. `AppendOp` reads the clock inside its transaction: SQLite's
(`sqlite.go:210`) has the write lock by then, so times are written in order; those of
Postgres and MySQL (`postgres.go:258`, `mysql.go:265`) read it before they wait for the
row, so `updated_at` may go back.

*Process.* `stage` is where `run` is, `job` what each request does. A WebSocket's read
loop gets no message once the context is cancelled; the handler of one it got before
goes on, since store calls take no context. `node` is the process's own side of the
cluster: what its SET and DEL do to the registry, failing or not, is in `Registry`
(`JoinFails`, `DeleteNode`). `Shutdown` needs
the REST requests to be done, `ShutdownTimesOut` does not; `Cancel`, `LeaveCluster`
and `CloseStore` are `Close`.

*Cluster.* `PublishFails` is the publish that Broadcast gives up, lost or still on its
way; `PublishRetried` the one whose reply is lost and that the client library sends
again. A SUBSCRIBE or UNSUBSCRIBE that cannot be sent is logged (`node.go:161-163`,
`171-173`): the library sends it when it is connected again, so here it stays in
`commands`. For safety that is the same as losing it.

*Migration, Registry, Webhook, AuthCache, Config* have one action per
statement, command, call or source of settings; the comment above each names it.

## What the runs show

Passing runs:

| Run | Shows |
| --- | --- |
| `engine` | one process, two workers, all requests, crashes and failing storage calls, commits and DELETEs whose reply is lost included: `SnapshotSound`, `AckedSurviveRestart`, `CacheMatchesLog`, `ExportReadsAcked`, `CreatedAtMostOnce`, `BroadcastInOrder` |
| `engine_fair` | every request returns, with failing storage, crashes and a DELETE at any moment: no path leaves a mutex locked |
| `delivery` | `NoGap` and `LiveInOrder` with full queues, drops and reconnects; `SlotsExact` at the limit with failing authentication and storage |
| `delivery_fair` | broadcasts return, and a subscribe ends in a done batch, a closed connection or, where storage fails, an error frame; no client being fair |
| `sql_store` | `GapFree`, `AppendersSerialize`, that the backends implement `OpLog`, and that every `AppendOp` returns although statements fail |
| `cluster` | `OriginOrder` and `LocalComplete`, with publishes that time out or are sent twice and replies to commits that get lost |
| `background` | `RecordedIsApplied` and `EventuallyReady` with two migrating processes and two crashes; `LiveListed` and `GoneDisappears` with the code's intervals; `AttemptsExact`, `MetricsBalance` and `DeliverySettles` of webhooks; `AllowGrounded` with replies overtaking each other; `ListComplete` and `HistoryComplete` of paged reads under writers; `NoEcho` and `TornDown` of connections with several documents and sessions; `AckedShown` with an endpoint that returns any document, fails or returns garbage; `RestServed`, `Released` and `ShutdownEnds` of a process that may fail to start and is signalled at any moment; `ConfigSound` |

Runs that end in a counterexample, each a place where the code does something
else than a comment or document says (`findings` in `PROJECT.json` quotes them):

| Run | Counterexample |
| --- | --- |
| `engine_cluster_snapshot` | a process with a stale cache saves a snapshot at a seq whose operation it never saw |
| `engine_forget` | a load that began before a DELETE is installed after it |
| `delivery_catch_up` | a live operation overtakes the replay, the connection drops, and the client's highest seq hides what it missed |
| `cluster_observer` | UNSUBSCRIBE of the last leaver follows SUBSCRIBE of the next comer |
| `cluster_in_sync` | an operation committed between the replay and the execution of SUBSCRIBE is never delivered |

Reading the code for the models showed more differences that the actions have and
no run is about:

- `Forget` drops a `docState` whose mutex may be held, and the next submit locks a
  new one; the comment at `engine.go:54` says that lock serializes writes. The
  passing properties of `Engine` stop at this point (`Calm`, `raced`).
- `handleSync` does not subscribe the connection; `docs/protocol.md:85` says it is
  auto-subscribed.
- On Postgres a deletion between the first two statements of `AppendOp` makes it
  return an error (`PostgresRowGone`); `interface.go:81` says the row is created.
- Of two first starts on an empty database the one that records the version second
  fails and has to be started again (`MysqlMigrate`, `PostgresMigrate`);
  `docs/configuration.md:83` says all backends migrate on first start.
- A heartbeat's SET under way may be executed after the DEL of `Close`, and the
  closed process stays listed for up to `nodeTTL`; `node.go:194` says `Close`
  deregisters the node.
- A subscribe whose `GetOpsSince` fails is answered with an error frame, no done batch,
  and the connection stays open (`connection.go:140-143`); `replay.go:13-14` says that
  "clients can always wait for done=true". `SubscribeAnswered` has the error frame as an
  answer, where storage may fail.
- After a DELETE that took effect and whose reply was lost, the process keeps the
  deleted contents in its cache until it restarts, or the document is written and deleted
  once more: DELETE on a document without a row is an error too, and returns before
  `Forget`. `CacheMatchesLog` counts these contents
  among those of which a caller was told that storage failed.
- `docs/webhooks.md:155` has the server commit and broadcast what the conflict
  resolver returned; `applyChange` puts it into the cache (`engine.go:192`), while
  the log and the broadcast carry the client's change. It reaches the store with the
  next snapshot. No client receives it, so the endpoint is asked again for later
  changes. If it leaves an acknowledged change out, memory and snapshots lack that
  change from then on, while clients and the log have it (`AckedShown`).
- A connection that only syncs a document gets a disconnected event for it without a
  connected one, and one that subscribes again under another session leaves the
  connected event of the first without its counterpart; the echo of a change under
  the first session is then not suppressed.
- A walk through the document list can miss a document when rows share a millisecond or
  one is deleted: the order has no second key and the cursor is an offset. On Postgres
  and MySQL it can also miss one when an append that waited for its row sets
  `updated_at` back. `ListComplete` leaves out these three cases, and no more.
- An operation whose commit was reported as failed is hidden from a device that then
  receives a later one live: its last_seq is past it.

### Bounds

One document: the code keys everything by document id and documents share only
short critical sections. Two workers, clients, processes, appenders or requests
are what a race between them needs. In `engine` `SnapshotEvery` is 2 and
`MaxOps` 2: a periodic snapshot follows the second operation. `engine_fair` has
one operation and a snapshot after each, so that a submit, a snapshot and a
DELETE contend for the mutex; two submits contend for it in the same way.
`sql_store` has three operations by two appenders. `delivery` starts in one of
two setups (`Setups`): a server without a limit on connections whose storage
answers, or one slot for two clients with failing storage and other messages.
`QueueSize` 2 with `ReplayBatch` 1 lets a replay of two operations fill a queue;
`delivery_fair` has a queue of one and batches of two, and its failing storage comes
with one slot for the two clients. A PUBLISH is sent again once in a behaviour of
`cluster`. `MaxCommands` limits the
commands between a process and Redis; reordering at the observer needs two.
`Registry` uses 6 and 2 units for 30 s and 10 s. `Sessions` has two connections,
documents and sessions and three messages: a subscribe, a sync under another
session and a change of a second connection. `Resolver` has two changes by two
clients and three submits, one of which repeats a change, with a snapshot every two,
so that a merge is snapshotted and a submit follows it, and one change of the endpoint's
own. `Paging` has three documents in pages of one, or all on one page, and three
writes: two documents and a write between two pages. `Process` has a REST request and a
WebSocket of two store calls each, which is enough for a call on either side of
every step of `Close`. `MaxTime` exceeds the TTL and the timeout together, so an
entry expires within a run. `Calm` stops the run `engine` where `raced` becomes
true: its properties claim nothing beyond. Bounds on inputs (`MaxOps`,
`MaxCrashes`, `MaxTime`, `MaxCommands`, `MaxMissed`) are in guards.

Symmetry is used for safety only. Deadlock is checked except in `background`, where
open stores, settled deliveries and the bound on time are ends.

### Fairness

- `Engine`: a goroutine that can run does (weak fairness of its next step); a
  contended `sync.Mutex` is handed over (starvation mode), hence strong fairness
  of taking it. Storage is assumed to answer, be it with an error.
- `Delivery`: the goroutines in `Replay` and in a broadcast run; both only enqueue
  without blocking. A full queue closes the connection under the mutex, which the
  WebSocket library bounds with the timeout of its closing handshake. Nothing is assumed of clients, of connections that arrive or
  of the write loop, which waits for the client's network.
- `SqlStore`: statements are executed and locks granted to waiters in turn;
  nothing has to fail, so an error path that kept a lock would show. SQLite has no
  queue of waiters, it polls until `busy_timeout`: there a waiter that is never lucky
  ends with an error, which `Rollback` is.
- `Migration`: processes run, and exited ones are started again by what
  supervises them.
- `Webhook`: the goroutine runs; a post ends at the latest with its timeout.
- `Process`: `run` runs, the shutdown timeout passes and store calls end. No handler
  is assumed to return and no client to go away.

The fairness of `Migration`, `Webhook` and `Process` is stated where they are run, in
`MCBackground`.

## What is proved

Each theorem holds for any sets of processes, workers, clients, connections,
documents, events and requests, and any value of the numeric constants, a bound
included. The assumptions are the ones named in the modules: `Nil` and its like are
none of the values they stand beside, numbers are naturals, queue and batch sizes
are positive; the documents of `Paging` are a finite set, and `Sources` of `Config`
is any set of files and environments whose settings are Nil, unparsable, or of the
setting's kind, and has at least one element. Two theorems have a hypothesis of their
own, which the code's constants meet: `TTLSuffices`.

### Engine

| Theorem (`EngineProofs`) | States |
| --- | --- |
| `TypeCorrect` | `TypeOK` is an invariant |
| `QuietInvariant` | the invariant of a history without an overlapping DELETE |
| `CreatedCorrect` | `CreatedAtMostOnce` |
| `BroadcastOrderCorrect` | `BroadcastInOrder`, an action property |
| `SnapshotCorrect` | `SnapshotSound`, on one process |
| `DurabilityCorrect` | `AckedSurviveRestart`, on one process |
| `ExportCorrect` | `ExportReadsAcked`, on one process |
| `CacheCorrect` | `CacheMatchesLog`, on one process and until a DELETE overlaps |
| `MutexReleased` | whoever holds a document's mutex is between its Lock and its Unlock |
| `EngineUsesLog` | every step is one of `OpLog` or a stutter, overlapping DELETEs included |
| `StreamCorrect` | every step is one of `Stream` or a stutter, until a DELETE overlaps |
| `LoggedCorrect` | what was acknowledged is in the log, on any number of processes, until a DELETE overlaps |
| `ForgetCorrect` | `ForgottenIsReloaded`, on one process and until a DELETE overlaps |

None of the properties is inductive. The argument goes in layers.

1. `TypeOK /\ Base`. `Base` ties a worker's location to its locals: who is inside
   the critical section holds the mutex of its `docState`, and who is idle has
   none.
2. `Quiet`: as long as no DELETE overlapped, a worker in `Forget` is alone, each
   process has one `docState` which all of its workers past `state` share, the seq
   of a commit is at most the log's length and above what its process has
   broadcast, and the created event is counted against the commit with seq 1.
   The order of broadcasts and the created event follow.
3. `Covers`, on one process: the cached document contains the log, every snapshot
   the log up to its seq, and what a load in progress has read plus the log after
   its seq the whole log. The last is what makes the two reads of `loadDoc` safe
   although commits and snapshots fall between them: whoever installs a stale load
   finds `docs` empty, so nobody can have committed since. Exports contain what
   was acknowledged when they were asked for.
4. `Bounded`: conversely the cache, the snapshots and the loads contain nothing
   that is neither in the log nor in `failed`: changes whose commit was reported as
   failed, or the DELETE of which was.

Each layer has a lemma per conjunct that says which steps cannot disturb it (the
frame lemmas), and a step lemma with one case per action. `IInv` is their
conjunction.

`MutexHeld` is inductive with layer 1. It is the safety half of `RequestsReturn`: a
mutex is released on every path, and none of the places at which one is held waits for
another. `EngineUsesLog` maps the seqs that OpLog's callers hold to those of the
workers past `AppendOp`, and needs layer 1 only. For `StreamCorrect` layer 2 gives
that two workers of a process in the critical section would hold the same mutex
(`OneInside`), so a process that commits is broadcasting nothing.

The last two theorems say how far two of the counterexamples reach: what a cluster's
snapshot lacks is still in the log, and deleted contents stay in a cache only after an
overlap, on another process, or when the DELETE was reported as failed.

### Delivery

| Theorem (`DeliveryProofs`) | States |
| --- | --- |
| `TypeCorrect` | `TypeOK`, with the bound on send queues |
| `GapCorrect` | `NoGap` |
| `OrderCorrect` | `LiveInOrder` |
| `SlotsCorrect` | `SlotsExact` |
| `CatchUpCorrect` | a client whose subscribe is answered and whose queue is drained has everything after the last_seq it sent, except what was reported as failed |
| `DeliveryStreams` | `Delivery` implements `Stream` with one process |

`DeliveryInv` adds to these four what they rest on. `Casting`: the operation being
broadcast is the last one of the log and its author's read loop waits, so nothing is
committed meanwhile. `Noted`: a connection that is promised operations is in the hub,
so copying the targets cannot leave it out. `Ordered`: as long as a broadcast still
has to visit a connection, everything live in its queue is before that operation.
`Covered` is `NoGap` for one connection; its step lemma shows that what a connection
has, will be sent and will be replayed (`Has`) only grows, for which the batches of
`Replay` are shown to partition the operations it read (`BatchElements`,
`TotalCovers`). `Room` keeps the bound on operations. `CatchUpCorrect` follows with
`NothingLeft`: a read loop that is not replaying has nothing left to replay. So what
the run `delivery_catch_up` shows to be missing lies before the last_seq of the last
subscribe.

### Storage

| Theorem (`StorageProofs`) | States |
| --- | --- |
| `TypeCorrect`, `SeqsGapFree`, `LockSerializes` | `TypeOK`, `GapFree`, `AppendersSerialize` of `SqlStore` |
| `BackendsImplementStore` | `ImplementsOpLog`: initial states map to initial states, every statement to a call of `OpLog` or to a stutter |
| `LockReleased` | the lock is held only inside a transaction, and the next statement of its holder neither waits nor is refused |

For `SqlStore` the invariant `IInv` says what a transaction has done by the statement
it is at, and that whoever has read `latest_seq` and not yet finished holds the lock
and has read the committed value. `LockReleased` adds that nobody else holds it, and
is the safety half of `AppendReturns`.

### Cluster

| Theorem (`ClusterProofs`) | States |
| --- | --- |
| `ClusterTyped` | `TypeOK` |
| `ClusterOriginOrder` | `OriginOrder` |
| `ClusterLocalComplete` | `LocalComplete` |
| `ClusterStreams` | `Cluster` implements `Stream` |

An operation of process m travels from `pub[m]` through the inbox of another process
to its connections. `Ordered` says that what is further down this path is older, as
long as no publish of m failed or was sent again: one conjunct for each pair of places. `Known` ties
every message under way to the log, and a late one to a process in `troubled`;
`Serving` ties the hub to where a connection is. `LocalOwed` is `LocalComplete` with
the local broadcast that is still to come.

### Paged reads

| Theorem (`PagingProofs`) | States |
| --- | --- |
| `PagingHistoryComplete` | `HistoryComplete` |
| `PagingListComplete` | `ListComplete` |

`HistoryInv`: what a client has is a prefix of the log, so its cursor is the number of
operations it has; between the check that the document is there and the read, the log
only grows. `ListInv`: a document that a walk has yet to see has at least as many rows
before it as the offset skips. A write that does not set its document back leaves every
other one at least the rows before it that it had (`AheadGrows`): on SQLite that is
every append, since no row is ahead of the clock, on the others `calm` says so; in a page without ties the row at
position p has exactly p - 1 rows before it (`Position`, by counting), so it is on the
page, or the page was full and ends before it.

### Conflict resolver, configuration and migration

| Theorem (`DataProofs`) | States |
| --- | --- |
| `ResolverAckedShown` | `AckedShown` |
| `ConfigIsSound` | `ConfigSound` |
| `MigrationCorrect` | `RecordedIsApplied` |

`ResolverInv`: what was acknowledged is in the log, the cached document contains the
log but for what documents of the endpoint's left out, and a snapshot the log up to its
seq but for what was left out by then; so what a restart loads lacks no more than that
(`RehydrateLogged`), and a submit puts its change back, whatever was left out before,
unless the endpoint leaves it out again (`ApplyAdds`). `ConfigInv`: at every stage a setting comes from the highest source
read so far, and a source that was read held nothing that does not parse. For
`Migration` the invariant says which versions and statements a process is past, and
that recorded versions have no gap, so that the greatest of them stands for all.

### The other components

| Theorem (`BackgroundProofs`) | States |
| --- | --- |
| `AuthCorrect` | `AllowGrounded` |
| `HeartbeatCorrect` | `LiveListed`, if the TTL exceeds two heartbeat intervals and a command (30 s against 25 s) |
| `ExpiryCorrect` | `GoneDisappears` |
| `ShutdownCorrect`, `ReleaseCorrect` | `RestServed`, `Released` |
| `RetriesCorrect`, `MetricsCorrect` | `AttemptsExact`, `MetricsBalance` |
| `EchoCorrect`, `TeardownCorrect` | `NoEcho`, `TornDown` |

Authentication: a request is at most a timeout old when it is answered, hence an
entry expires in time. Registry: what is left of the key's TTL, given how many
refreshes were lost in a row and whether one is under way. Process: which of
store, node and context each stage of `run` holds. Webhooks: the counters
against the sets of deliveries by state. Sessions: the session noted for a
document is one that was used for it, the hub and the connected events follow
the notes, only a connection that ended has disconnected events, a broadcast is
that of the sync its connection is handling, and the gauge counts the
connections served.

### The composition

| Theorem (`CompositionProofs`) | States |
| --- | --- |
| `CompositionTyped` | `TypeOK` of `MCBackground` |
| `CompositionSafe` | all fourteen safety properties of the run `background`, under `TTLSuffices` |

A step of the composition moves the component in focus and leaves the variables of
the others alone, so it is a step or a stutter of each, by construction
(`CompositionImplements`, a lemma). The theorems about the components then carry over
to the run.

### Only model-checked

All liveness (`RequestsReturn`, `BroadcastReturns`, `SubscribeAnswered`,
`AppendReturns`, `EventuallyReady`, `DeliverySettles`, `ShutdownEnds`): fairness is
out of the prover's reach. Of `RequestsReturn` and `AppendReturns` the part that can
go wrong in the code, a lock that is kept, is proved (`MutexReleased`,
`LockReleased`). Every invariant and action property of the passing runs is proved.
The five properties of the runs that end in a counterexample do not hold. No module
declares a recursive operator.

## What is not modelled

- Automerge itself: a document is a set of changes, merging is union.
- Encodings, row scanning, DSNs, signatures, routing, health probes, counters other
  than the webhooks' and the connection gauge: no state that several steps share.
- Settings without a consumer in the models (port, TLS, log level, message size):
  they take the path `Config` models. Timeouts that are not positive are replaced by
  their consumers.
- Deletion and re-creation of a document while a client holds a cursor of the earlier
  life: no message of the code tells the lives apart, so there is nothing a client
  could be shown to do right.
- A loss of power below the database, and hosts whose clocks disagree.
- A Redis connection that is lost and made anew: messages in between are gone, as for a
  process whose SUBSCRIBE is late.
- Deliveries of webhooks that a stop of the process cuts off: fire and forget, by
  design.
- What a hijacked WebSocket does after `Close`: `Process` has its store calls fail and
  promises nothing for them.
