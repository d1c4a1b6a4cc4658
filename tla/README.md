# NovaFlow-Go in TLA+

This directory holds TLA+ models of the NovaFlow-Go framework, the TLC runs that
check them on small instances, and proofs of their main properties that TLAPS
checks for every value of the constants. File and line references are to the
repository's sources (`core/...` and so on).

## The system

NovaFlow-Go is a web framework: an HTTP server whose requests pass through
middleware and a router to controllers, and a few services that live as long as
the process and run goroutines of their own. The services are where state is
shared; the models start there, follow the requests through the controllers to the
database, and end with the parts that compute and keep nothing.

| Part | State | Operations | Interacts with |
| --- | --- | --- | --- |
| Queue (`core/queue.go`) | `jobCh`, `quitCh`, `isClosed`, `once`, the workers | `Dispatch`, the workers' loop, `Shutdown` | called by handlers, the event dispatcher, jobs, `GracefulShutdown` |
| WebSocket hub (`core/websocket.go`) | `clients`, `rooms`, `broadcast`, `quit`; per client `send`, `rooms`, `conn` | `run`, `UpgradeWebSocket`, both pumps, `JoinRoom`, `LeaveRoom`, `Broadcast`, `BroadcastToRoom`, `Send`, `Close` | handlers and message callbacks, `GracefulShutdown` |
| Cache (`core/cache.go`) | `items`, `stopCh` | `Set`, `Get`, `Remember`, `Delete`, `Flush`, `Close`, the cleaner | handlers (with the database behind the callback of `Remember`), `GracefulShutdown` |
| Rate limiter (`core/middleware.go` 223-294) | `buckets` | `allow`, the cleaner | requests |
| Application (`core/app.go`) | the services | `NewApp`, `Run`, `GracefulShutdown` | all of them, in an order |
| Event dispatcher (`core/events.go`) | `listeners` | `Listen`, `Dispatch`, `DispatchAsync`, `Unlisten` | queue |
| Container (`core/container.go`) | `instances`, `factories` | `Bind`, `Singleton`, `Make` | factories call `Make` again |
| Context pool (`core/context.go`) | pooled contexts | `acquireContext`, `releaseContext`, accessors | router, WebSocket callbacks |
| Router (`core/router.go`) | `routes` | `add`, `Group`, `match`, `handleContext` | middleware, controllers |
| Middleware (`core/middleware.go`, `app/middleware`) | none but the limiter's | `Recover`, `CSRF`, `CORS`, `Auth`, ... | requests |
| Migrations, seeder (`cli/main.go`) | the `migrations` table and the schema | `cmdMigrate`, `cmdMigrateRollback`, `cmdSeed` | database |
| Query builder (`core/db.go`), repositories (`core/model.go`) | a chain under construction; the database | `Where`..., `Count`, `Paginate`, `Insert`, `Update`, `Delete`, transactions | database |
| Accounts (`core/auth.go`, `core/jwt.go`, `core/hash.go`) | the `users` table, tokens | `Register`, `Login`, `Logout` | database, middleware |
| Products (`app/controllers/product_controller.go`) | the `products` table | `Index`, `Show`, `Store`, `Update`, `Destroy` | repository |
| Validator, number words (`core/validator.go`, `core/words.go`) | none | pure functions | controllers, documents |
| AI client, PDF, export, views, error pages, uploads, configuration, logging | none that changes | I/O and formatting | controllers |

What is hard in it:

* goroutines that meet without a lock: a `Dispatch` and a `Shutdown`, the hub's
  three ways to close a client's channel, a `Get` that acts on what it read
  before the unlock, a callback of `Remember` that runs between two calls;
* background goroutines that have to do their work and stop: queue workers, the
  hub, its pumps, two cleaners;
* limits: a full job buffer, a full send channel, a full rate bucket;
* time: expiry in the cache, windows in the rate limiter, the timeout of a
  `Shutdown`;
* crashes: a migration between its statements and its record;
* two requests on one row: registration, the update of a product;
* the end of the process: handlers, jobs and event callbacks that are still running
  while the services they use are closed one after the other;
* values that cross a boundary: an argument that must meet its placeholder, a
  number that comes back from a driver as another type, a path that must meet its
  route and the credentials that route asks for.

`PROJECT.json` lists each of these hazards at its line, with the properties that
cover it or the reason why none does.

What makes each modelled part correct:

* Queue: an accepted job is executed exactly once; a shutdown closes each
  channel once, serves what was accepted before it, and ends every worker.
* Hub: the hub goroutine survives every order of leaving, eviction and closing;
  rooms and clients agree; a slow client is disconnected; `Close` ends it and its connections.
* Cache: a value that is behind its row has a known cause; expired entries go;
  `Close` ends the cleaner.
* Rate limiter: the windows bound what is let through, nobody is refused early,
  and buckets of absent clients go.
* Migrations: what is recorded is applied, an object without a record has a known
  cause, a batch is one run, and a rollback goes back in time.
* Lifecycle and events: no handler is disturbed by the shutdown; a job that meets a
  closed database or is never served has a known cause; an event reaches everyone
  who listened all the time, and nobody who did not listen then.
* Container: one instance per key, unless first uses overlap.
* Requests: a context belongs to one request; an address gets one account and
  exactly its maker is told so; a column is lost only to an update that read the
  row before.
* Router and middleware: the handler a path and a method are documented with runs,
  behind the credentials it is documented with, and nothing else does.
* Query builder: every condition is tested with its own values, whatever the
  dialect and the order of the calls, and a page fits its numbers.
* Number words and products: what is read back is what was given.

## Modules

| Module | What it is |
| --- | --- |
| `JobPool` | abstract specification of what a job pool promises its callers |
| `Queue` | `core/queue.go`; implements `JobPool` |
| `MCQueue` | instance of `Queue` for TLC |
| `QueueProofs` | theorems about `Queue` |
| `WebSocketHub` | `core/websocket.go` |
| `HubProofs` | theorems about `WebSocketHub` |
| `Cache` | `core/cache.go` in front of a database |
| `RateLimiter` | the rate limiter of `core/middleware.go` |
| `LimiterProofs` | theorems about `RateLimiter` |
| `Migrations` | `migrate` and `migrate:rollback` of `cli/main.go` |
| `MCMigrations` | instance of `Migrations` for TLC |
| `MigrationsProofs` | theorems about `Migrations` |
| `Lifecycle` | `core/app.go` and `core/events.go`, composed with `Queue` |
| `MCLifecycle` | instance of `Lifecycle` for TLC |
| `LifecycleProofs` | theorems about `Lifecycle`, and about `Queue` as its part |
| `Container` | `core/container.go` |
| `SharedMapsProofs` | theorems about `Cache` and `Container`, the two maps behind a lock |
| `Requests` | concurrent requests: the context pool, the API's handlers, the two tables, `cmdSeed` |
| `MCRequests` | instance of `Requests` for TLC |
| `RequestsProofs` | theorems about `Requests` |
| `Routing` | which answer a request gets: `config`, `core/router.go`, the middleware |
| `QueryBuilder` | `core/db.go`: the statements a chain builds, and `Paginate` |
| `Words` | `core/words.go` |
| `Products` | a product from the form to the database and back |
| `Calls` | one call of one of these four |
| `MCCalls` | the calls TLC tries |
| `CallsProofs` | theorems about `Calls`, for all four |

Each component module also defines a few faulty variants of its actions, each
what a slip in the source would make of one of them. No specification uses them;
substituted for the action they break the property `PROJECT.json` pairs them
with ("mutants"), which shows that the property can fail.

### Queue

A job is the argument of one `Dispatch` call, so a job's state is the state of
its call and of its execution. `Dispatch` is two steps, the load of `isClosed`
(`DispatchCheck`) and the `select` (`DispatchSend`, `DispatchFallback`, or
`DispatchPanic` when the channel is closed), because `Shutdown`'s three writes
(`ShutdownStore`, `ShutdownCloseQuit`, `ShutdownCloseJobs`) may come between
them. A worker's `wpc` is the loop it is in: the outer `select` or, after it took
`quitCh`, the draining one. A job may dispatch another job while it runs
(`Parent`), in a worker or in a fallback goroutine; a panic of that inner
`Dispatch` unwinds to `executeJob`'s `recover` and ends the outer job.
`executeJob` recovers every panic, so that a job that panics and one that
returns are the same step, `JobEnd`. `late` is history: the jobs that entered the
buffer after `quitCh` was closed.

### WebSocketHub

A client's send channel is its number of messages and whether it is closed. The
unbuffered channels `register` and `unregister` are rendezvous: `read[c]` says
which send the goroutine of a client is blocked in, and the hub's receive lets it
go on. Every case of the hub's `select` is a receive, then (for the three that
write) the call of `Lock`, which keeps new readers out (`locking`), then the body
once no reader holds the lock. The broadcast loop and `BroadcastToRoom` hold the
read lock and visit their clients one at a time, so that pumps, `Send` and the
other reader run in between. `evicted` and `lateJoin` are history.

### Cache

`Get` is two or three steps: the read under the lock (`Lookup`), the test of the
expiry (`Test`), and the `Delete` of an expired key (`ExpireDelete`); `Remember`
adds the callback (`Compute`) and the `Set` (`RememberStore`). What a cached value
says is the version of the database row it was computed from. The database and
the code that changes a row and then deletes its key (`UpdateRow`, `Invalidate`)
are external: they are the use of `Remember` that `README.md:186-189` shows, with
the invalidation `Delete` is for. Time is a counter; `MaxTime` and `MaxVersion`
bound the clock and the updates.

### RateLimiter

`allow` holds the lock from the reading of the clock to the update of the bucket
and is one action in three cases. The cleaner reads the clock first
(`CleanerRead`) and locks afterwards (`CleanerPurge`), so that requests and time
come in between. `log` is history: when each admitted request came and when its
window began.

### Migrations

Each run of a command is a process, and each query, file or statement of it a step:
`cmdMigrate` is `MigrateRead` (the applied names), `MigrateGlob`, `MigrateBatch`, and
per file `MigrateOpen`, `UpStatement` for each statement, and `Insert`;
`cmdMigrateRollback` is `RollbackMax`, `RollbackRows`, and per row `RollbackOpen`,
`DownStatement`, `Delete`. An error ends the process (`Breaks`), which is what
`os.Exit(1)` does; `Stop` is a crash or a failing call anywhere. The database and the
directory are external. A file is a number, its place among the sorted names; its
statements create or drop objects of its own, and a file in `Tolerant` is written
with `IF [NOT] EXISTS`, as the two of the repository are.

The history says when a property does not apply. `left` and `torn` are the files
whose leftovers or missing objects have a cause, `mine` what the current migrate has
recorded. `caveats` holds what the code does not defend against: a migrate and a
rollback that overlap (`mixed`), files that come or go under a migrate (`moved`), and
the error of the `MAX(batch)` query that `cmdMigrate` ignores (`lost`), after which it
records its files as batch 1 and the next rollback takes an older batch. Two migrates
that overlap are not excepted: the unique column makes the later one fail before it
records anything in the other's batch.

### Lifecycle

`Queue` is an instance with `Main`, the goroutine in `Run`, as its only `Shutdown`
caller, so all its steps interleave with those of the application. A job is an event
that `DispatchAsync` hands over; a handler or a callback of another event dispatches
it (`Caller`). The job copies the listeners (`CopyListeners`), then runs one callback
at a time (`Callback`), which may use the database, dispatch, or panic. `app` says
where `Run` stands; `open` which parts are not closed. `srv.Shutdown` either finds no
handler running (`HttpDone`) or ends at its deadline (`HttpTimeout`), after which
`GracefulShutdown` returns at once and `main` ends the process with everything still
open. `Listen` and `Unlisten` come at any time, from anybody. History: `steady` (who has
listened from the `DispatchAsync` to the copy), `heard` (who has listened at some time
between the two), `ran`, `spilled` (jobs of fallback goroutines) and `broken` (who used a
closed handle).

### Container

`Make` is a look-up under the read lock (`MakeRead`), the factory (`Factory`, or
`FactoryPanics`, which ends the call) and the store under the write lock (`MakeStore`).
Instances are numbered. `got` is what was
returned since the last `Bind`, `raced` the keys on which calls overlapped. `NewContainer`
is the initial state, `ContainerNext` and `ContainerSpec` are the rest: the names differ
from those of `Cache` so that one module of theorems extends both.

### Requests

A request takes a context (`Acquire`), gets its parameters and its user (`Route`), is
handled in one step per call of the database, and gives the context back (`Release`).
Any step of the handler may fail instead (`Fail`: a refused payload, a database error,
which a login answers as it does a wrong password, a panic that `Recover` answers); the
answer is the last thing a handler does. What a request writes is named by the request. `Update` is a
`Find` and a write of all columns (`UpdateFind`, `UpdateWrite`); `Register` a look-up
and an insert, which the unique index may refuse; `cmdSeed` works on the same tables.
`acked` and `missed` are history.

### Routing, QueryBuilder, Words, Products, Calls

These are operators. `Calls` makes one call of one of them, so that a run enumerates
the inputs and a property compares the result with a definition that is not the
code's: the OpenAPI document and a list of pages for `Routing`; the conditions as the
chain states them for `QueryBuilder`; a reader of the words for `Words`; what was sent
last for `Products`. Where the code deviates, the property says exactly when.

`Routing` registers the routes the way `config` does and sends a request through the
global middleware, `match`, and the middleware of the route. A path is its segments;
a token is its number of parts, whether its signature is right, whether its payload can
be decoded, what it says of its expiry (a number, something else, nothing) and whether it
names its user; the name of a database driver is what `GetDialect` makes of it, trimmed
and in lower case, with whether the setting is `plain`: free of spaces around it, for which
`NewApp`, comparing the setting itself, still knows it for `sqlite` or `sqlite3`. A response is its
status, the handler that ran and what was logged. `HasDatabase` and `Credentials` say
in the property's own words when a request meets a database and has what its
operation asks for. `QueryBuilder`
builds a statement as a record with its placeholders and its arguments, and an
external evaluation of statements binds one to the other; its loops are recursive
functions in place of folds, about which the prover knows nothing. `Words` takes the integer
part in groups of three digits, which TLC's integers could not hold as one: the English
conversion counts them in its loop, the Bengali one, a recursive function, takes their
value. `Computed` names the integer parts whose value TLC can compute, the only thing it
is for: `Spelled` compares values where it allows it, and the theorem holds for any
`Computed`. One reader hears both languages, word by word. `Products` follows a price
through the payload, the rules, the column and `mapToStruct`.

## Runs

| Run | Instance | What it shows |
| --- | --- | --- |
| `queue` | 2 workers, 1 buffer slot, 3 jobs (one dispatched by another), 2 callers of `Shutdown` | no accepted job is lost or repeated; channels are closed once; workers stop; the queue implements `JobPool` |
| `queue_panic` | the same, 1 caller | a `Dispatch` can panic |
| `hub` | 2 clients, 1 room, 1 caller, channels of 1 | the hub never closes a channel twice; rooms and clients agree |
| `hub_live` | 1 client, 2 callers | slow clients are disconnected, read pumps leave, `Close` stops the hub and closes the connections that get through their registration |
| `hub_room` | as `hub` | `BroadcastToRoom` can panic on a client that was evicted |
| `cache` | 1 key, 2 goroutines, lifetimes 0 and 1, 3 ticks, 1 update | the causes of a stale value and of the loss of an entry without expiration; expired entries go; the cleaner stops |
| `rate_limiter` | 1 client, 2 requests per window of 2 ticks, 7 ticks | at most twice the limit in a window's length; no early refusal; buckets go |
| `migrations` | 2 processes, 2 files (3 statements), 2 batches, 1 interruption, 1 file that comes or goes | recorded files are applied; leftovers have a cause; a batch is one run; rollback undoes the newest record; retries get through |
| `lifecycle` | 1 request, 2 workers, 1 buffer slot; 3 events (one dispatched by a callback) and 1 listener, or 2 of them and 2 listeners | handlers are undisturbed; the causes of a use of the closed database and of unserved jobs; an event reaches those who listened all along, and none who did not listen between its dispatch and its job |
| `container` | 2 keys, 2 goroutines, 4 instances | one instance per key unless first uses overlap |
| `requests` | 3 requests, 2 contexts, 2 product rows, 1 address, 1 product to seed | contexts are private; registrations tell the truth; the causes of a lost column |
| `calls` | all calls of `MCCalls`: 189 188 | routes, queries, words and products do what is promised, the named exceptions aside |

`queue_panic` and `hub_room` refute a sentence of the source. Where another
sentence of it is not quite true, a property of a passing run states how far it is:
`DrainedServesEarlyJobs` (a clean drain), `HubStops` (the connections that are
registered), `ForeverLostExplained`, `ClosedDbUseExplained`, `OneInstanceUnlessRaced`,
`Routed`, `Queried`, `Spelled` and `Kept`. `PROJECT.json` ("findings") quotes each
sentence and says how the code gets there.

Why these bounds are enough. The queue's cases need a buffer that is full (two
jobs for one slot), a worker in each loop (two workers), a job between the two
closes, and two shutdowns; three jobs are the least that allow a job to dispatch
while another fills the slot. In the hub two clients are needed for a broadcast
that evicts one and serves the other, and a channel of one message is full as soon
as it is used; the liveness properties are about one client, and the second caller
is there to hold the read lock again and again. In the cache the races are between
two goroutines on one key, and an entry expires and is stored again within three
ticks; keys do not interact except in `Flush` and the purge, which treat all alike.
In the limiter three windows fit into the seven ticks, the least for
`TwiceMaxPerWindow` to have five requests to speak of, and clients do not interact.
For migrations two files are the least that can be in one batch or in two, a file of
two statements can be half done, and one interruption leaves it so; beyond `MaxBatch`
only overlapping commands would go. In the lifecycle a worker and the slot are
busy with two events, so that the third spills or is late, and its caller is a
callback, the only caller that outlives the handlers. Whom an event reaches is a
question about two listeners, and about two events only, the callback of one of which
dispatches the other; `MCBound` makes the run the union of these two instances, because
three events with two listeners are too many states. In `Requests` two requests race
and the third destroys the row or takes the address between their steps; two contexts
for three requests make one be used again, and with it its maps. For `calls` the
chains are of up to three links, enough for two conditions behind an `OrWhere` and for
arguments on both sides of a `WhereIn`; a table has the rows 1 to 3; amounts have up to
six groups, one more than there are scales, with every kind of group; paths are the
declared ones, with a slash more at an end or inside, or a segment more; drivers are
names of every dialect and of none, with and without spaces, or not set; and a token fails in each way
`ParseJWT` has of refusing one, one at a time. The theorems below have no bounds.

`CHECK_DEADLOCK FALSE` is set where the system may stop: the queue and the hub after a
shutdown, when the jobs are spent and the pumps have ended; the process of
`lifecycle`; the finitely many requests of `requests`; the one call of `calls`.

### Fairness

`FairSpec` assumes only what the Go runtime and the code provide: a goroutine that
can run does run (weak fairness of workers, hub, pumps and cleaners, and of a call
that has begun); `select` chooses at random among the cases that are ready, which is
strong fairness of each of the hub's receives; a job is a function that returns; a
ticker goes on ticking; a write to a connection ends within its deadline. A command
of the CLI that has begun goes on. `RetryCompletes` assumes nothing of its user: it
is about behaviours in which migrate is started again and again. Nothing obliges
anybody to call `Dispatch`, `Shutdown`, `Upgrade`, `Broadcast`, `Close` or `allow`,
and the peer of a connection need not send, read or leave.

## Proofs

Proved by TLAPS, for any constants that satisfy the modules' assumptions
(`QueueAssumption`, `HubAssumption`, `CacheAssumption`, `LimiterAssumption`,
`ContainerAssumption`, `LifecycleAssumption`, `RequestsAssumption`, `NoneAssumption`,
`MigrationsAssumption`, `CallsAssumption`), hence for any number of workers, jobs,
clients, keys, requests, files and processes, and for any bound. `CallsAssumption` gives
the calls their types (a path is any sequence of segments that is not empty, a token has
any number of parts and any expiry, a driver any name, a price is any integer, an amount of money is below
10^18, a chain, its lists and its table have any length) and says of `PublicLike`, the
segments that begin with "public", that no declared path has one of them: the prover
cannot look into a string, TLC and a reader can.

| Theorem | Says |
| --- | --- |
| `QueueType`, `HubType`, `CacheType`, `LimiterType`, `ContainerType`, `LifecycleType`, `RequestsType`, `MigrationsType` | type correctness |
| `ShutdownClosesOnce` | the channels are closed once and in order |
| `AcceptedJobInOnePlace` | an accepted job is in exactly one place |
| `DrainedShutdownServes` | a clean drain has served every job accepted before it, fallback goroutines aside |
| `QueueImplementsJobPool` | `Queue` implements `JobPool` |
| `HubGoroutineNeverPanics` | the hub closes no channel twice |
| `RoomIndexIsRight` | `h.rooms` and `client.rooms` agree for open clients |
| `OnlyEvictionLeavesStale` | only eviction or a late join leaves a closed client in a room |
| `StaleEntriesExplained` | the two causes of a stale cache entry |
| `ForeverEntriesStay` | the causes of the loss of an entry without expiration |
| `AtMostTwiceMax` | 2 max + 1 requests of a client span more than a window |
| `RefusedOnlyWhenFull` | a refused client had max requests within the window |
| `OneInstancePerKey` | one instance per key unless first uses overlap |
| `QueueKeepsItsPromises` | the first three of the queue hold in an application too |
| `HandlersMeetNoShutdown` | handlers meet no closed database and no closed queue |
| `ClosedDbUsers` | who uses the closed database |
| `UnservedJobs` | the causes of a job that is not done when the process ends |
| `ListenersAreServed` | an event reaches everyone who listened all along, and nobody who never listened in that time |
| `ContextsArePrivate` | requests in progress do not meet in a context |
| `RegistrationsAreTruthful` | an address has one account, of who was told so |
| `UpdatesAreExplained` | the cause of a lost column |
| `RecordsAreApplied` | a recorded migration is in the database but for rollbacks |
| `LeftoversAreExplained` | the causes of objects without a record |
| `BatchesAreRuns` | a batch is one run of migrate |
| `RollbacksUndoNewest` | a rollback deletes the newest record |
| `RequestsRouted` | a request gets the answer the documents promise, the exceptions of `RoutedAsDocumented` aside |
| `ProductsKept` | a product is read as it was sent, the exceptions of `KeepsWhatWasSent` aside |
| `AmountsSpelled` | words say the amount, in both languages, the exceptions of `WordsSayTheAmount` aside |
| `QueriesMeant` | a query does what its chain asks for, the exceptions of `QueriesExplained` aside |

The arguments:

* Queue. `ClosesOnce` needs `ShutdownPhases`: while `once` is busy exactly one
  caller is inside `once.Do`, and what is closed is determined by where it stands.
  `OnePlace` is inductive together with the types and `CallersExecute` (a job that
  is between the two steps of a `Dispatch` is still executing, so that ending it is
  ending exactly one thing). `DrainedServesEarlyJobs` needs `WorkersServe`: once a
  worker has gone, the buffer holds late jobs only. A worker
  goes only when the buffer is empty and `quitCh` closed, and what enters the buffer
  after that is late. For the refinement each action maps to one step of the pool:
  the check to a refusal or a stutter, the send and the fallback to an acceptance,
  a receive to a start, `JobEnd` to a finish, `ShutdownStore` to the close.
* Hub. The strengthening is `HubKeepsOpen`: a client in `h.clients`, or about to be
  registered, has an open channel, and no other goroutine closes one. With it none
  of the closers meets a closed channel. `RoomIndexAgrees` and
  `StaleMembersExplained` follow step by step: whoever closes a channel either
  removes the client from every room in its own set, or records it as evicted.
* Cache. `StaleExplained` is inductive: an entry falls behind its row only by
  `UpdateRow`, which leaves its invalidation pending, and the invalidation ends by
  deleting the key. For `ForeverLostExplained`, `ForeverInv` says that an entry
  without expiration has the zero time, which the purge never takes, and that a
  reader about to delete has an expired entry in hand; time only makes more of them.
* Rate limiter. `LogInv` reads the history: the requests of one window share its
  start, two windows are more than a window apart, the bucket counts the requests
  of the newest one, and a client without a bucket has no window that is not over.
  The cleaner keeps the last part because the time it read is not after now. Of 2 max + 1
  requests the first, the middle and the last are then in three different windows.
* Container. `FirstUse`: as long as nobody raced for a key, at most one call is
  between its look-up and its store; while there is one, nothing is stored; and what
  was returned is what is stored.
* Lifecycle. The steps of the queue are those of `Queue` with one exception: a job
  that catches the panic of its own `Dispatch`, as a callback does, goes on, where a
  job of `Queue` ends. `QueueInv` collects the queue's invariants; its preservation
  cites the lemmas of `QueueProofs` for every other step and treats that one by
  itself. `ShutdownOrder` says which parts are open at each point of
  `GracefulShutdown`, that the queue is not touched before the last handler has
  ended, and that the database is open until Main has left the queue's `Shutdown`.
  `HandlersUndisturbed` follows; `ClosedDbUseExplained` and `UnservedJobsExplained`
  add that a clean drain has served the early jobs. `ListenersKept` says that the steady
  listeners of an event are all listening until the job copies the list, and from then
  on each has run or is still to run; that no callback runs before the copy, and none
  after it that was not in the list; and that whoever listens meanwhile is `heard`.
* Requests. `HandlerInv` determines what a handler has in hand at each point: its
  context is outside the pool and names it as the owner, so that no two requests hold
  one; the context shows its parameters once they are matched; a request that is not
  answered has no status, and one that is has a single one; an update between its two
  steps holds a row. With it `RegisterTruthful` is inductive. `UpdateInv` makes
  `UpdatesExplained` so: the row an update has found is still there when it writes, or
  a request has destroyed it and was told so (ids are not used twice).
* Migrations. `SchemaInv` says what has come of the file a command is within: a migrate
  has created what it will not create any more (`Created`), a rollback will drop what is
  still there (`Dropped`), and a file nobody is within is applied if it is recorded and
  gone if it is not, unless `torn` or `left` names it (`Applied`, `Explained`). It rests
  on `Separate`: migrates and rollbacks do not overlap, or this is noted.
  `OrderInv` is about lists: the batches in the table never descend; the remaining files
  of a migrate ascend and all unrecorded ones are among them, so that a migrate whose
  next file has no record is ahead of all others (`AheadOrLate`: no row is of a later
  batch, and those of its own batch are its own), while one that is late fails at that
  insert; and the rows after one that a rollback has still to undo come before it in its
  list (`RowsNewestFirst`).
* Routing. `Catalogue` lists the 17 routes. Registration is followed call by call
  (`Built`: the prefix, the middleware and the set of routes of a router between two
  calls) up to `AllRoutes`: these are the routes, with their chains, and without a
  database five of them. The OpenAPI document and the list of pages are the same list,
  one entry each (`ListedPages`, `ListedOperations`), and no request fits two routes of
  one method (`Apart`); so the route `match` finds, if it is not that of the files, is
  the one promised (`MatchFinds`). What is left is one chain: the first middleware that
  refuses answers (`Wrapped`, `Guarded`), those of a group change nothing afterwards
  (`Unchanged`), and of the global ones the logger and `Recover` act, in this order
  (`Outermost`, `Reply`).
* Products. A trade that stores nothing keeps the property; otherwise the type of the
  column decides: exact, rounded to cents, or zero for a whole number. An update without
  a positive price writes what it has read, which rounds no further.
* Words. What is read of two texts one after the other is what is read of the second
  after the first (`ReadBoth`), so each is heard by its parts. A group of three digits is
  heard as itself (`ThreeDigits`); with its scale it is set at its place (`ChunkHeard`),
  and the groups from the highest to the lowest are heard one by one (`EnglishRead`).
  `Incremented` is the carry: the value of `Increment(groups)` is one more (`Values` are
  the partial sums of the value, `ValuePadded` the value of the groups with zeros in
  front, which is how the reader has them). The Bengali conversion calls itself for the
  crores: that it has a value at all follows from its rounds, which for a number n change
  nothing after n + 1 of them (`Unrolls`), and that it is heard right is a strong
  induction (`Bengali`). `AmountSaid` puts the integer part, the hundredths and the units
  together.
* Queries. The chain is followed call by call (`ChainMakes`): the conditions are those
  of its links that state one, in their order, and a number is the last one given.
  `buildWhere` places the arguments of each condition after those of the conditions
  before it, and numbers its placeholders alike (`Placed`, `WherePlaced`); so does the
  driver that counts them, hence whatever the dialect a condition is tested with its own
  values (`ValuesAre`), also behind the columns an update sets (`SetsOwn`). `Join` at
  condition i is true if all conditions hold from the start, or an OR, up to the next one
  (`Known`, `JoinMeans`). So the rows a statement finds are those the chain wants
  (`MatchesWanted`, `FoundWanted`), and what is left is each call that ends a chain
  (`GetGives`, `CountShown`, `RunsChange`) and the arithmetic of pages (`Quotient`,
  `PageFits`).

`Unwind`, in which the middleware return one by one, the loops of the query builder,
`Value`, `Read` and the conversions are recursive functions. That such a function has a
value for every number is proved by a least counterexample too, for functions in place
of operators (`Recursion`, `Steps`, and `UpTo` for the loops over a list).

Behind the item on migrations is an induction over data: every finite set of numbers has an
enumeration that ascends (`SetsSort`), by the cardinality of the set. The
library's theorem for such inductions takes an operator as a parameter, which no
installed prover can instantiate; but a least counterexample, which the set of
cardinalities that fail would have (`WFMin` with `NatLessThanWellFounded`), serves as
well. `Migrations` sorts by `Ascending` and deletes by `RemoveAt` for the same reason:
the prover has the definition of neither `SortSeq` nor `SelectSeq`.

Every strengthening was checked by TLC on the instance of its run before it was proved.

Only model-checked: the liveness properties (`EarlyJobsEnd`, `WorkersStop`,
`SlowClientDisconnected`, `UnregisterServed`, `HubStops`, `ExpiredPurged`,
`CleanerStops`, `OverBucketsRemoved`, `RetryCompletes`), which rest on fairness,
outside the prover's reach, and the two refuted sentences. All other properties of the
runs, every invariant and every action property, are theorems.

## Not modelled, and why

Within the modelled parts: a job that calls `Shutdown` on its own pool (it waits for
itself until the timeout); the length of timeouts (a timeout may fire at any time);
message contents and therefore the error returns of `json.Marshal`, which change
nothing; that a panic in a goroutine of the hub would end the process (`hpc =
"panicked"` is shown to be unreachable); a panic of `Send` or `BroadcastToRoom` ends
the caller in the model, and it depends on the caller whether `Recover` or nobody
catches it; a read pump that is in its `unregister` when the hub stops, which blocks for
ever (`UnregisterServed` ends with `Close`); which of the two errors the second
registration of an address gets, `ErrEmailTaken` or, after a race, that of the driver (the API
answers both with 500); how a client address is taken from a request; a negative TTL, which
`Set` treats as zero; a migration file whose text changes after it was applied, and
how its text is split into sections and statements; `NewCache` with an interval that
is not positive, which starts no cleaner.

In the other parts: a synchronous `Dispatch` outside the queue, and a
dispatcher without one, which the application does not build; the ten seconds of the
shutdown, which may end at any time; `UpgradeWebSocket` in a request, which fails under
the global `Logger`, whose writer is no `http.Hijacker`; the `CSRF` middleware, which no
route uses, and headers; the payload rules `Email`, `MinLen` and `MaxLen`, whose failure
is a `Fail` in `Requests`, and `ValidateStruct`, which only a test calls; transactions and
`Raw`, which pass on to `database/sql`, joins and raw conditions, which are text passed
through, and `Pluck`; fields that are no numbers; amounts of money from 10^18 on, where
the conversion of the float to an `int64` may overflow; pages whose offset is beyond an
`int`, and totals from 2^53 on, which the float of the last page does not hold; issuing tokens and cookies. What a
database or a driver does with a statement or a value is external.

A fixed window does not give "at most max requests within window"
(`core/middleware.go:230`) for every stretch of that length; `TwiceMaxPerWindow` is
what it gives.

Whole parts: the AI client, PDF, export, views, error pages, uploads and code
generators are I/O or formatting without state of their own; configuration and
logging are read once. The cryptography behind tokens and passwords is out of a model
checker's reach.

## Plan

Every module planned is written, and every safety and action property a run checks is a
theorem. What could still be added are the parts listed under "Not modelled" that keep
state, none of which the properties above depend on.
