# Pulsur, specified

TLA+ modules, TLC models and TLAPS proofs for Pulsur (`src/`), a Rust
workspace of backend engines: a persistent job queue, an HTTP server, a
gateway, a reverse proxy, a load balancer, a rate limiter and a circuit
breaker, with Node bindings over most of them.

All paths below are relative to the repository root, `src/`. "lib.rs" without
a crate is `crates/engine/queue/src/lib.rs`.

## 1. The system

| component | where | state | operations | what is hard | what makes it correct |
|---|---|---|---|---|---|
| in-memory queue | `crates/engine/queue` (`Queue`, `JsQueue`, `JsWorker`) | pending (FIFO), processing, scheduled (heap and map), completed, dead letter, failure reasons | enqueue, schedule, dequeue, dequeue for a queue, ack, nack, promote | retry budget, order of retried and promoted jobs | a job is in one place; budget respected; FIFO; not before its time |
| persistent queue and WAL | same (`PersistentQueue`, `Wal`) | the queue; `snapshot.bin`, `wal.NNN.log`, `wal.log` | open, the queue's operations (log, apply, rotate), compact | death of the process and I/O errors between any two file operations; torn records; unlogged promotion | no accepted job is lost; acks are durable; recovery always succeeds and is exact |
| queue server | same (`QueueRuntime`, `QueueWebSocketServer`) | semaphores and permits, active jobs and their last heartbeats, completions, recurring jobs, subscriptions | requests over WebSocket; promoter, cron and heartbeat tasks | handlers and tasks interleave at every unlock; late acks; silent workers; restarts | permits are conserved and come back; completions are real; limits and timeouts hold |
| circuit breaker | `crates/engine/circuit-breaker` | state, opened-at, probe in flight; the ring of results with its counts | acquire, call, record result | three steps of many callers under two locks; late results; dropped callers | one probe in each half-open period; a decision follows; the counts are those of the last results |
| load balancer | `crates/engine/load-balancer` | vector of backends with health, draining and connections; round-robin counter; sticky sessions by index | add, remove, drain, pick (four ways), health check, clean up | indices and addresses used after the pool changed; lock order of pool and sessions | sessions stay; drains end; health follows what backends answer |
| HTTP server | `crates/engine/http-server` | connection permits, connections, shutdown token; `JsServer` slot | accept, parse, handle, keep alive, upgrade, shut down, listen, close | timeouts and cancellation race with requests; bytes come cut anyhow | answers match requests; permits come back; shutdown ends and is complete; the slot has the server |
| rate limiter | `crates/engine/rate-limiter` | buckets in nanoseconds, windows, tiers, Redis script and fallback | check, change rules | clock order across threads and nodes, rules changing under a check, Redis failing | never more than capacity plus what time earns |
| proxy and cache | `crates/engine/proxy` | entries with expiry, path index, configuration | look up, fetch, store, invalidate, reload | lookups, stores, invalidations and reloads interleave | nothing older than an invalidation stays; entries fit the configuration |
| gateway | `crates/core/gateway` | pipeline in service, its limiters, requests with their retries | plugins, retries, hot reload | get-then-insert, late stamps, retries of what was done, two pipelines at once | the window's limit holds for each limiter; every request ends |
| fundamentals | `crates/shared/fundamentals` | thread pool, list, map, stack, echo server | | | exercises, used by nobody |
| observability, server binary, CLI, JS SDK, dashboard, docs, tests, fuzzing | | configuration, counters | | | wiring and formatting |

How they interact: the `pulsar-server` binary and the gateway call the engines
as libraries, and each engine keeps its own state behind its own locks; the
gateway holds rate limiters, breakers and proxies by route and swaps the whole
pipeline on reload. The engines do not call each other in cycles. Only the
queue persists anything. Inside the queue crate, the handlers of one server
share one `Arc<Mutex<PersistentQueue>>` with three background tasks, and the
`QueueRuntime` beside it.

The hazards of this code, each at its line with the properties that cover it,
are listed in `PROJECT.json`.

## 2. The plan

The queue comes first: it is the largest engine, the only one with durable
state, and the one whose claims (at least once, no job lost, limits, timeouts)
are hardest to test.

1. Done: `QueueOps`, `Queue`, `PersistentQueue`, `QueueRuntime`, their runs, and
   their first proofs.
2. Done: `CircuitBreaker`, `LoadBalancer`, `HttpServer` and `JsServer`,
   `TokenBucket` with `MultiTierLimiter` and `DistributedLimiter`, `ProxyCache`,
   `Gateway`, and their runs.
3. Done: proofs about all of these: the breaker, the limiters, the gateway, the
   proxy, the balancer, the HTTP server and its Node slot; of the queue, its
   order, budgets and times; of the queue server, its completions; of the
   persistent queue, exact recovery and its refinement of `Queue`; and of the
   three compositions.
4. Left: cron and subscriptions of the queue server, as modules.

## 3. The modules

    QueueOps  <-- Queue  <-- QueueRuntime      <-- MCQueueRuntime
        ^           ^
        |           | (refinement)
        +------ PersistentQueue                <-- MCPersistentQueue

`QueueOps` has the value of `Queue` and its operations as functions from queue
values to queue values, because the same code runs live and in recovery. A job
is an id; its queue name, `max_attempts` and `scheduled_at` are constant
functions of it, since nothing changes them after `Job::new`. What varies is
its place and its attempts. `completed` and `dead_letter` are counted per job,
so that completing a job twice would show. The heap of scheduled jobs is
represented by the set of its rows and by all the orders in which its pops may
come (by time, ties in any order).

`Queue` makes each operation one atomic step. It is the model of the Node
binding, where every call runs under one mutex, the abstract specification of
`PersistentQueue`, and what `QueueRuntime` puts a server around.

`PersistentQueue` splits each call into its file operations. `pc` is the next
one:

| `pc` | code | action |
|---|---|---|
| idle | no call in progress | `BeginEnqueue`, `BeginDequeue`, `BeginAck`, `BeginNack`, `BeginCompact` |
| append | `Wal::append` | `AppendRecord` |
| apply | `Queue::apply_event`, or its error returned | `ApplyEvent` |
| rotate | `rotate_and_compact`: length, `fs::rename` | `SkipRotation`, `RenameActive` |
| truncate | `File::create(snapshot.bin)` | `TruncateSnapshot` |
| write | contents and `sync_all` of the snapshot | `WriteSnapshot` |
| delete | `delete_old_segments`, one file at a time; then `wal.log` is created | `DeleteSegment`, `ResetActive` |
| down | process not running, or just started | `Open` |
| recover | `load_queue` | `ReplayRecord`, `EndOfFile`, `Recovered` |
| failed | `open` returned an error | (none) |

`Crash` and `IoError` may strike at the steps that `CrashPoints` and `IoFaults`
name. `TornFaults` says which faults, by number, may leave a partial record.
The bytes of a record are not modelled; what reading a partial record can lead
to is (`ReadRecord`): at the end of a file it is `UnexpectedEof` and the rest is
skipped; with records behind it, the missing bytes come from those, and the
result is any of: the intended event, no known event, or a decoding error. A
decoded job with an id that nobody issued is left out.

`QueueRuntime` puts the server around the queue. The handlers of ack and nack
release the queue before `finish_job`, so each is two steps (`AckRequest` or
`NackRequest`, then `Finish`), and the monitor is three (`MonitorScan`,
`MonitorNack`, `MonitorFinish`). A dequeue is one step: the handler holds the
queue from before it takes the permit until after it has registered the job
(lib.rs:1379-1403), and what can run meanwhile, a `finish_job`, only gives
permits back.

The queue behind the mutex is the persistent one, with the snapshot (`saved`) and
the log since (`records`). A call logs its event and applies it (`Applies`), with or
without compacting, or it leaves the queue as it was (`Ignores`: the queue rejects
the event, or the log fails). Either may return an error, and then the handler
skips the rest: an ack or nack whose compaction failed (lib.rs:592, 605) is not
followed by `finish_job`, and a dequeue that failed so (lib.rs:584) drops its permit
and registers nothing, though its job is in processing. `Restart` opens the queue
from snapshot and log (`unread`, `ReplayRecord`), where promotions
(`run_scheduled_job_promoter`) are not recorded, so that it need not be the queue
from before. A file operation is all or nothing here: torn records and half a
compaction are the subject of `PersistentQueue` and of its runs. A compaction may
come at any call; in the code it is a matter of bytes, which events do not tell.

Completions are counted, not pruned after a second (lib.rs:1113-1120), which can
only make the property on them stricter. Workers answer only jobs they were handed
(`held`), however long ago.

The other engines have a module each, with no state in common:

    CircuitBreaker                                  TokenBucket
    Gateway       <-- MCGateway                      ^       ^
    HttpServer    <-- MCHttpServer     MultiTierLimiter     DistributedLimiter
    LoadBalancer  <-- MCLoadBalancer
    ProxyCache, JsServer

    MCLimits    = MultiTierLimiter, DistributedLimiter, MCGateway, CircuitBreaker
    MCServices  = CircuitBreaker, MCGateway, MCHttpServer, MCLoadBalancer
    MCFrontend  = ProxyCache, MCLoadBalancer, MCHttpServer, JsServer

In each of the last three, a behavior is one of one of its components, which the
variable `limiter`, `service` or `front` chooses at the start; the others stay in an
initial state.
The components do not act on each other, so nothing is lost by not interleaving
them, and a component's states are added to those of the others, not multiplied.

`CircuitBreaker`. A call is `AcquireClosed` or `AcquireProbe` (the state lock),
`Finish` (the result enters the ring under the metrics lock, and the snapshot is
taken along as `verdict`) and `Judge` (the state lock again). `Abandon` is the
future dropped at its await, or an operation that returns a breaker's own error,
for which `record_result_at` returns at once. The failure rate is compared
without division. A `now` taken just before a lock is read at the lock.

`TokenBucket` is arithmetic only. Like the code it counts tokens in units of
time: a token is worth `perToken` units, and a unit that passes earns a unit.
Rates that are not one token in a whole number of units, and the rounding of
floating-point numbers, are not modelled. `MultiTierLimiter` has the read of a
rule and the check of a bucket as two steps (`ReadRule`, `CheckBucket`), since
`rule_for` gives back the rule's lock before the bucket's is taken.
`DistributedLimiter` has the Lua script as one step (Redis runs it so), and apart
from it the stamp (`CheckKeyAt`), NOSCRIPT and the reload of the script, errors, a
lost reply, the fallback, expiry of the key, and restarts of Redis with or
without its data. All nodes use one key.

`Gateway` has the steps of one request between the points where another can come
in: `Accept` (the pipeline in service is loaded, authentication, the limit),
`FindLimiter` and `CreateLimiter` (the get and the insert of `limiter_for`),
`CheckKey` (the sliding window, under its lock, with the stamp taken before), then
`Respond`, `Fail`, `Resend` and `FinishBody` of the forwarder. `DropHandler` is the
timeout of the HTTP server around it. The limiters of an old pipeline live on as
long as requests use it; `windows` has every limiter ever made.

`ProxyCache` is about requests that may be cached. `Lookup` ends with the cache's
answer; `DropExpired`, `ResponseHead` (the upstream makes its response), `Fetch` (the last
byte of it is here), `IndexCacheKey` and `Insert` are apart, as there is an await or
another lock between any two. An invalidation takes the proxy in service
(`LoadRuntime`), then the keys from that proxy's index (`InvalidatePath`), and drops
them one by one (`InvalidateKey`). Handlers and invalidations keep the proxy they
were given (`current`): after `Reload` they write into, or clear, a cache nobody
reads. An entry may expire at any time (`EntryExpires`); how long it lives is not modelled.

`HttpServer` sees bytes as pieces: a head, a body, a frame. A read may return any
number of them (`ParseRequest(p, k)`); a body that came with the head is taken from
the buffer and one that did not from the connection (`ReadBody`); what else was
in the buffer is lost, as in `parse_request`. No read splits a piece, and a body that
is left over where a head is expected is answered 400: that its bytes may read as
a request is left out, as are bodies longer than the limit, malformed chunks and
wrong lengths. `Closed` is the end of a
connection's task on every path and gives the permit back.

`JsServer` has `listen` in the three parts that its two locks make of it
(`ListenReserve`, `ListenSpawn`, `ListenStore`), the task (`Bind`, `RunReturns`,
`ClearSlot`), and `close`. That `listen` also takes the routes with it, so that a later
`listen` serves none, is left out: no property is about routes.

`LoadBalancer` keeps two locks across steps. A selection that finds its session
keeps the shard (`holder`) until it has read the backend vector
(`FollowSession`), and `remove` keeps the vector (`writer`) until it has been through
the shards (`StartRemove`, `SweepShard`, `FinishRemove`). Every other lock is taken
and given back in a step. Each session key is in a shard of its own; in the code
keys share shards, which only makes more of them wait. Whether a backend's
health is read with the snapshot or just after is not told apart.

The proofs are in modules of their own, which extend these:

    QueueOpsProofs        on QueueOps
    QueueProofs           on Queue, with QueueOpsProofs
    QueueRuntimeProofs    on QueueRuntime, with QueueProofs
    PersistentQueueProofs on PersistentQueue, with QueueOpsProofs
    LimitProofs           on MultiTierLimiter, DistributedLimiter, Gateway, CircuitBreaker
    HttpServerProofs      on HttpServer and JsServer
    UpstreamProofs        on ProxyCache and LoadBalancer
    CompositionProofs     on MCLimits, MCServices, MCFrontend, with the last three

## 4. The runs

Two jobs are enough for order, duplication and loss between jobs; every
operation names one job, and a second one is what it can be confused with.
The queue's MC modules use model values for jobs, workers and queues, and no
symmetry, because the jobs differ in budget or time. `limits` and `frontend` use
the symmetry of checkers and request handlers, and of clients, selectors and
promises; they check invariants only.

| run | what it asks | bounds | result |
|---|---|---|---|
| `persist_exact` | Is recovery exact? Is the persistent queue an atomic queue? Does every restart serve? | two jobs in two queues, one with two attempts; rotation after one record, at most two in `wal.log`; two crashes, the last of which may tear an append; crashes anywhere except `write` and `delete` | holds, 627,110 states |
| `persist_lossless` | Is no accepted job ever lost, and can every restart read its files? | as above with a scheduled job and a clock, one attempt each; crashes also at `delete`; I/O errors at every step but `write` | holds, 5.2 million states |
| `persist_torn` | Can every restart read its files with two torn appends? | as `persist_exact`, up to five records | violated |
| `persist_resurrect` | Do acks of scheduled jobs survive? | one crash, up to three records, rotation after two | violated |
| `runtime` | Do jobs, permits, completions, retries, order and timeouts hold under all interleavings, failing calls and a restart? | two jobs of one queue, one with two attempts and one scheduled with a single one; two workers, one of which dequeues unnamed; limit two; a log of one record, one I/O error, one restart | holds, 621,647 states |
| `runtime_limit` | Is the limit on processing jobs kept? | as `runtime`, named dequeues only, limit one, no error, no restart | violated |
| `runtime_stuck` | Does a silent worker's job come back? | as `runtime`, named dequeues only, no error | violated |
| `limits` | Do windows, buckets and the breaker bound what they are to bound? | tiers: two threads, two buckets, two rules, two changes, time to 3; Redis: two nodes, one clock a unit behind, calls for 2 of 3 tokens, time to 3; gateway: two requests at a time, limits 2 and 0, one reload, two limiters, time to 2, windows of length 2; breaker: three callers, ring of 2, time to 1 | holds, 1.94 million states |
| `services` | What must happen in the end? | breaker as above with two callers and time to 2; gateway as above without time; HTTP: two peers, one request each, two permits; balancer: one address added up to two times, one selector, one session, one connection, one change of health | holds, 466,127 states |
| `frontend` | Are caches, sessions, answers and the listening server right? | proxy: two clients, a purger, one path with two keys, two configurations, one change at the origin; balancer: two selectors, two addresses of which the second may be down, one session; HTTP: two peers, two requests each; Node server: two promises, three servers | holds, 2.12 million states |
| `balancer_drain` | Do drains end? | as the balancer in `services` | violated |
| `http_abort` | Are requests in flight finished by a shutdown? | as the server in `services` | violated |

Every bound is a constant of its module: `MaxRecords`, `MaxCrashes`, `MaxTime`,
`MaxLog`, `MaxErrors`, `MaxRestarts`. Rotation after one record makes every
rotation step happen on nearly every call; two crashes are what it takes to
crash during the recovery from a crash, or to come back from a log that was
left by a crash and crash again. Two attempts are one retry and one death. A
limit of two is needed for two active entries of one queue; of one, for the
limit to bite.

`persist_lossless` uses a VIEW that drops `logged` and `acked`, history that
neither its properties nor any action it takes reads.

The bounds of the other components are small on purpose and name what they need.
The breaker's ring wraps around after two results, and a third caller comes late
to what the other two do. Limits of two let a request be the last that is
admitted and the first that is not, in a window that slides by less than its
length. Two rule changes are what it takes to go back to an earlier rule. In
`frontend` two requests of one peer can arrive in one read, with the body of the
first in front of the head of the second, and one peer does not wait for answers.
A second backend is added while sessions are held, and its weight differs.
`MaxSetBack` bounds how far stamps go back in all, and `MaxLimiters` how many
limiters are made; requests that wait for one more are named in
`RequestsAnswered`.

The three runtime runs turn the deadlock check off: their jobs, errors and
restarts run out, and the server may then rest with every job completed or
dead. So do the runs over the other components, whose peers, callers and clocks
may stop. The persistent runs keep it on.

### What the violations show

* `persist_torn`: `docs/docs/architecture/wal-format.md:57` says that "a torn
  final write does not poison the entire queue". The torn write itself does not,
  but nothing removes it: later records are appended behind it, and the open
  after that reads across the boundary.
* `persist_resurrect`: the test `persistent_queue_recovers_ack_state_after_restart`
  (lib.rs:1783) asserts that an acked job is completed after a reopen. For a
  scheduled job whose promotion fell between a snapshot and the crash it is not,
  because promotion is not logged and the replayed ack finds the job scheduled.
* `runtime_limit`: `.agents/workflows/phase.txt:752` wants "only N jobs processing
  simultaneously per queue". A nacked job can be delivered again before the
  `finish_job` of its first delivery, which then frees the second one's permit.
  Without a second attempt it cannot happen: `ServerKeepsLimit` (section 6).
* `runtime_stuck`: `.agents/workflows/phase.txt:754` wants a job without
  heartbeats to return to pending. After a restart `active_jobs` is empty and the
  monitor does not look at the queue, so recovered processing jobs stay.

* `balancer_drain`: `.agents/workflows/phase.txt:530` wants "force-remove after 60s
  even if connections remain". A sticky selection holds its session's shard while
  it waits to read the backends, `remove` holds the backends while it waits for
  the shard, and both wait for ever. `OnlyDeadlockStopsDrain` shows that nothing
  else keeps a drain from ending, and `HealthFollows` makes the same exception.
* `http_abort`: `crates/engine/http-server/src/lib.rs:693` says that `run` "waits for
  every in-flight connection to finish before returning". The connection's task
  selects on the token and is dropped in the middle of a request.

### What is excluded, and would fail

* A crash while `snapshot.bin` is being written (`write`): the file was emptied in
  place, and `open` fails on it from then on, though
  `.agents/workflows/phase.txt:691` wants "`kill -9` the process mid-enqueue,
  restart, verify zero jobs lost": an enqueue that rotates rewrites the snapshot.
  Both passing runs exclude it; with `"write"` in `CrashPoints`, TLC finds
  `OpenSucceeds` violated.
* A crash after the new snapshot is complete and before the log it replaces is
  gone (`delete`): the log is replayed over the snapshot, and jobs can appear
  twice. `persist_lossless` includes it (nothing is lost); `persist_exact`
  excludes it, since recovery is not exact there.
* I/O errors are in `persist_lossless` only: a call whose `sync_all` failed has
  logged an event that memory does not have. Errors of the other steps up to
  `truncate` do no harm to exact recovery, and neither they nor failing syncs nor
  schedules ever put a job into the queue twice; that is proved (section 6), not
  run.
* `StickyStable` ends a session's claim when any backend is removed: the index
  then means another backend. It also excludes two selections for one session at
  once, and two backends of one address.
* `WindowBound` is stated for each limiter. Two requests that both miss make two,
  and a reload makes new ones: for a path, the limit is then exceeded.
* `SharedRateBound` allows for stamps that arrive out of order, as the script sets
  `last_refill` back to them, and speaks of what Redis grants; a node's fallback
  has a full bucket of its own. `ReplacementsAccounted` allows two replacements of
  a bucket for each check made with a rule that has changed since it was read.
* `RecoveryDecided` excepts a probe whose caller has gone: the breaker then stays
  half open and rejects for ever.
* `SlotTracksServer` speaks of calls of `listen` and `close` made one after the other.
  Two at once can start two servers, one of which no `close` reaches.
* `InvalidationHolds` excepts responses that were on their way from the upstream, or
  here and not yet stored, when an invalidation took the keys of their path: they
  are stored after it, and nothing removes them before they expire.
* `FifoServed` leaves out the step of the restart. A promoted job is then back where
  its `Enqueue` record, or the snapshot, puts it, behind or before others.
* `NoPermitLeak` excepts the entry of an ack or nack that took effect and returned an
  error (`orphaned`). The heartbeat timeout removes it, which `TrackedIsReleased` shows.
  A dequeue that failed after it took effect has no entry at all: its job stays in
  processing, and no timeout returns it.

## 5. Fairness

`PersistentQueue!FairSpec`: weak fairness of recovery and of the steps of a call
once begun. They run synchronously on one thread that nothing blocks. Clients
owe nothing, nor does the clock.

`QueueRuntime!FairSpec`: weak fairness of recovery, of `finish_job` in a handler, of
the monitor's steps, and of a heartbeat growing old. The tasks are spawned on the
tokio runtime and each awaits only mutexes that are held briefly. Workers owe
nothing. `TrackedIsReleased` and `SilentJobReturns` speak of workers that have gone
silent (`GoesSilent`, their premise); one that beats for ever keeps its job, by
design.

`CircuitBreaker!BreakerFairness`: an operation under `call_with_timeout` ends, and
a result is judged. Nobody has to call, and a plain `call` may run for ever.

`Gateway!GatewayFairness`: a handler goes on; sending ends by the client's
timeout, and a backoff passes. Nothing is assumed about bodies, and nothing of
`DropHandler`.

`HttpServer!HttpFairness`: a connection's task goes on where a timeout or its own
code drives it, sees a cancelled token, and `run` does as well. Peers need not
send, read, finish a handshake or leave a WebSocket.

`LoadBalancer!BalancerFairness`: the drain tasks and the health checker run, the
time of a drain passes, and a selection that holds a shard goes on as soon as it
can. Fairness of `FollowSession` is weak and does not help in the deadlock, where
it is not enabled.

## 6. What is proved

The proofs hold for every value of the constants that the named assumption of
each module allows: any finite set of jobs and any sets of workers, callers,
threads, nodes, peers, selectors, keys and backends; any budgets, times, limits,
thresholds and bounds. Most of the assumptions give the constants their types.
Those that say more say what the code does: `MultiTierAssumption` has at most one
base rule for a tier, `GatewayAssumption` finitely many limits in a pipeline,
`HttpAssumption` the routes in a sequence, `BalancerAssumption` a value that is not
a session key, for "none"; `ProxyAssumption` and `BalancerAssumption` want at least
one key, upstream or address.

A property is seldom inductive as it stands. What follows names, for each, the
invariant that is, and why it is needed. Where an argument would go by induction,
it takes the least counterexample instead (the library's well-founded minimum on
the naturals, which needs no operator parameter).

### The queue (`QueueOpsProofs`, `QueueProofs`)

`QueueOpsProofs` says what each operation on queue values does to types, to
uniqueness and to the set of known jobs; on these the other three modules of the
queue rest.

* `QueueTyped`, and `QueueUnique` (`OnePlace` is inductive with the type invariant).
* `QueueAccountsForRetries`: `Accounts`, which adds to `RetryAccounting` that a
  scheduled job has no reason on record and an unknown one neither, so that a job
  that becomes pending starts right. With `OnePlace`, as reasons are kept by id.
* `QueueNotEarly`: inductive with the type; `DueBy` states it of any queue value and
  time, so that each operation can be shown to keep it.
* `QueueFifo`, a step property: from the type and from `OnePlace`, because "before"
  and "after" in the pending queue mean nothing for a job that is in it twice.

### The queue server (`QueueRuntimeProofs`)

* `ServerTyped` goes action by action, with `QueueSide`: what each step does to the queue
  and its files, whichever handler makes it.
* `ServerOnePlace`, `ServerAccountsForRetries` and `ServerNotEarly` cannot rest on the theorems
  about `Queue`, because a restart comes back on another queue than the one that was
  lost. The invariant is `Recoverable`: the queue in memory and the one in the snapshot
  are good (`Good` in `QueueProofs`: one place, budgets and reasons, nothing early), and
  the records written since, as those still unread, enqueue no job that the snapshot,
  or what has been replayed, has already, and none twice (`Fresh`). From there the
  replay of any event keeps a good queue good.
* `ServerFifo` states `FifoServed`: every step but the restart, replay included. It takes
  `Recoverable`, for the same reason as `QueueFifo` takes `OnePlace`.
* `ServerNoPermitLeak` (`EntriesTracked`) needs uniqueness, as a call that has failed after
  it took effect leaves an entry behind, and the next delivery of the same job takes
  that entry over.
* `ServerPermitsConserved` needs the cardinalities of the active sets, one element at a
  time.
* `ServerCompletionsReal`: `CompletionsOwed` (a handler that has still to count a
  completion has one in the queue that is not counted) and `CompletionsCounted`
  (counted and owed together are at most the completed ones).
* `ServerKeepsLimit` says how far the limit holds that `runtime_limit` breaks. It assumes
  `DeliveredOnce`: no job has a second attempt, every dequeue names its queue, the
  server does not restart. Each is needed: a second delivery loses its entry to the
  `finish_job` of the first (`runtime_limit`), an unnamed dequeue takes a job without
  asking for a permit, and a restart forgets the entries of the jobs in processing.
  Then there are at most as many jobs in processing as the limit and the I/O errors
  so far make together (`LimitUpToErrors`), and without errors the limit holds. An
  error can add one: a dequeue that took effect and failed gives its permit back, and
  a nack that the monitor could not log is followed by `finish_job` all the same.
  The invariant is `EntriesStand`: a job in processing has its entry or is one of the
  `Unguarded`, at most one for each error; and what a handler or the monitor is about
  to finish is over, or unguarded. With `PermitsConserved` the entries are as many as
  the permits that are out.

### The persistent queue (`PersistentQueueProofs`)

* `PersistentTyped` holds under every fault model.
* `PersistentOpens` and `PersistentLosesNothing` assume `CleanFaults`: a torn append is
  the last fault, and the write of the snapshot neither crashes nor fails. Without
  the first, `persist_torn` is the counterexample; without the second, the emptied
  snapshot. The strengthening is `Legible` (a partial record is only ever the last
  of a file that nothing is appended to, and the snapshot is whole unless it is
  being written) and `Kept` (a job that is due, because its enqueue returned Ok or
  its record is on disk, is in memory while the process serves, and always in the
  snapshot or in a record that recovery has still to read). `Kept` is needed because
  `NoAcceptedJobLost` speaks of memory only while the queue serves: between a crash
  and the end of recovery, what keeps the job is on disk.
* `PersistentDuplicatesNothing` assumes `UniqueFaults`, that is `CleanFaults` with
  neither a crash nor an error at `delete`. Schedules, failing syncs and torn last
  records are allowed, so that memory need not be what the log makes, and the
  argument is another than that of exact recovery. It rests on `OneCopy`: the files
  record each enqueue once, only of jobs that some call has issued, and none of a
  job that the snapshot has (but while the log is being deleted); during recovery,
  memory has no job of what is still unread; and the job of an enqueue is nowhere
  before its record. Promotion, which no record tells of, moves a job and makes
  none, so it changes nothing in this (`Onward`: a step adds no job but the one of its
  event).
* `PersistentIsLogged`, `PersistentAcksSurvive` and `PersistentImplementsQueue`:
  recovery is exact. They assume `ExactFaults`, that is
  `CleanFaults` with nothing failing between the rewriting of the snapshot and the
  deletion of the log it replaces, and no failing `sync_all`; and `NoSchedules`. Each
  is needed: a crash at `delete` has the log replayed over the snapshot; a failed
  `sync_all` leaves a record that memory does not have; a promotion is not logged
  (`persist_resurrect`). What is left is any number of crashes at any other step,
  during recovery too, a torn append as the last of them, and errors of append,
  rename and `File::create`, which go further than the faults of `persist_exact`.

  The invariant is `Exact`. While the process serves, memory is what the logged
  events make (with the event of the call in progress, once its record is
  written); the files make it as well; during recovery, what has been replayed
  and what is still unread make it together. "These files make w of v" is not a
  recursive function here but the existence of a trace, a sequence of queue values
  one event apart (`FileMakes`, `FilesMake`, `DiskMakes`). A trace can be extended at
  its end when a record is appended, and shortened at its beginning when one is
  replayed, without induction over the log.

  In the refinement, a call takes effect when its record is on disk, and
  rotation, compaction, crashes and recovery are stutters. The theorem is the
  whole of `ImplementsQueue`, whose abstract specification has no fairness.

### Limiters, the gateway and the circuit breaker (`LimitProofs`)

* `DistIsTyped`, `SharedRateIsBounded`: `SharedInv`, with the books of a key (`Books`):
  spent and left together are at most a full bucket, the time that has passed, and
  what late stamps have set back.
* `MultiTierIsTyped`, `TierRateIsBounded`, `TierReplacementsAccounted`: `TierInv`, with
  `TierBooks` (the same for a bucket since it was last replaced) and `TierDebts` (a
  bucket whose rule is no longer its tier's has a replacement left on account).
* `GatewayIsTyped`, `GatewayWindowIsBounded`: `GateInv`, with `LogsRight`, which relates a
  limiter's log of stamps to the requests it has let through.
* `BreakerIsTyped`.
* `BreakerWindowIsRecent`: with `RingHolds` (the ring holds the last results in their order, and
  the next index is behind the last of them), so that the result whose count goes
  down is the oldest one.
* `BreakerHasOneProbe`: `ProbersAgree`, with the type: no probe but the one of the step that
  leaves the open state.
* `BreakerClosedIsHealthy`: `JudgePending` (while a closed circuit's window calls for
  opening, some caller that has still to judge carries exactly that window).

### The HTTP server (`HttpServerProofs`)

* `HttpIsTyped`, `HttpAnswersInOrder`, `HttpStopIsComplete`: `HttpInv`, which relates, for
  each peer, what it has sent, the pieces that are still unread, the body that is
  owed, the request in hand and the answers given. Bytes of a later request may be
  lost with the buffer, so answers are in order, none twice, for every peer, and
  without a gap for one that waits.
* `JsSlotTracksServer`: `JsInv`. Unless two calls have overlapped, a call in progress is
  the only one, and every server that has not ended is the slot's or that call's.

### The proxy and the balancer (`UpstreamProofs`)

* `ProxyIsTyped`, `ProxyCacheMatchesConfig` (with `RoutedRight`: a handler's fetch goes
  where the configuration it was given says), `ProxyInvalidationHolds` (with
  `PurgesReach`: a response that no invalidation caught is as new as the last one of
  its path, its key is in the index before it is stored, and what is stored is
  indexed, about to be swept, or was caught). An invalidation whose proxy was
  replaced before it took any key is made on the old cache; that it still counts
  rests on `NewerThanStale`: whatever the proxy in service has was asked for after the
  reload, and so after the invalidation began.
* `BalancerIsTyped` (`BalancerShape`: the vector is in order, each lock has one holder,
  tasks and selectors agree with it), `BalancerStaysSticky` (`Sticky`: no session has
  moved, none would by a step that is under way, and what a selector has read still
  stands or a removal is on record).

### The compositions (`CompositionProofs`)

The components' theorems above are about their specifications without fairness
(`GatewaySafety` and the like, where there is fairness), so that they also hold
where a composition has none.

* `LimitsImplementEach`, `ServicesImplementEach`, `FrontendImplementsEach`: each step of a
  composition is one component's step and a stutter of the others, so the
  composition implements the specification of each component. That of `MCServices`
  has the fairness of all four, and implements them with it.
* `LimitsAreTyped`, `FrontendIsTyped` and, for the other invariants
  of two of the runs, `LimitsHold` and `FrontendHolds` follow from these and the theorems
  about each component. The components share no variable, so nothing is added by
  the composition; what is proved is that nothing is lost by it.

### Only model-checked

* Liveness, which is out of the provers' reach: `RestartsServe`, `TrackedIsReleased`,
  `RecoveryDecided`, `RequestsAnswered`, `ShutdownEnds`, `ConnectionsEnd`,
  `OnlyDeadlockStopsDrain`, `HealthFollows`.
* What fails: the violated runs are counterexamples on small instances.

No theorem says that recovery is exact under schedules, or that it succeeds under
faults outside `CleanFaults`: `persist_resurrect` shows that the first does not hold,
`persist_torn` that the second does not.

## 7. Not modelled

Cron jobs (beyond the enqueues they make), subscriptions and statistics of the queue
server; encoding of records beyond its outcomes; payloads, result formatting, logs
and metrics. `set_concurrency` is a method of the server, which `bind` consumes, so it
cannot be called any more when requests are served: limits are constant.

Of the other engines: bytes and headers of HTTP (decoding is abstracted to its
outcome), JWT verification, `TransformPlugin`, static files and WebSocket proxying
of the proxy, floating-point rounding and the 64-bit range of the rate limiter's
nanoseconds, the status routers, and the Node bindings other than those of the
queue and the HTTP server. They change no state the properties read, or compute
a value that is only passed on.

`fundamentals`, `observability`, `pulsar-server`, the CLI, the SDK, the tests and the
fuzz targets have no protocol of their own (`PROJECT.json`, "components").
