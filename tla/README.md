# Matei in TLA+

Matei is a monitoring service for SQL Server: a Node.js backend collects
metrics from every registered instance on an interval, stores them in
PostgreSQL, raises alerts, and serves a React web client. This directory models
the control logic of the backend and of the client's data in TLA+, checks it with
TLC on small instances and proves the most important properties with TLAPS for all
instances.

Paths without a prefix are relative to `src/server/src/`.

## 1. The system

All of the backend is one process and one event loop: code runs without
interruption from one `await` (or callback) to the next, so the steps of the
models are what runs between two awaits. Concurrency comes from the interleaving
of those steps: collection cycles, the workers inside a cycle, three background
jobs, HTTP handlers and signal handlers share module-level maps and the
PostgreSQL pool. Outside are the monitored SQL Servers (they restart, they fail
to answer) and PostgreSQL (a statement may fail; what it stored survives a
restart of the backend).

| Component | Source | State it keeps | Operations | Talks to |
|---|---|---|---|---|
| Process lifecycle | `index.ts`, `db.ts` | signal handlers, pool | boot, `shutdown`, `extendedShutdown`, `closePool` | everything |
| Scheduler | `collector/scheduler.ts` | `running`, `timer`, `cycling` | `start`, `stop`, `tick` | `collectAll` (await) |
| Worker pool | `collector/worker-pool.ts` 265-289 | `index`, `results` per call | `runWithConcurrency` | `collectFromInstance` (await) |
| Collection cycle | `collector/worker-pool.ts` | `cycleCount`, `hostInfoCollected` | `collectFromInstance`, `collectAll`, 19 batch inserts, `updateStatuses` | collectors, PostgreSQL, alert engine |
| Delta collectors | `collector/collectors/{wait-stats,file-io-stats,perf-counters,query-stats,procedure-stats,database-metrics}.ts` | last snapshot per instance | collect, compute delta | SQL Server |
| Event collectors | `collector/collectors/{deadlocks,blocking-events}.ts` | watermark per instance, session bookkeeping | collect, `ensureBlockingXeSession` | SQL Server |
| Other collectors | the rest of `collector/collectors/` | none | one query each | SQL Server |
| Alert engine | `alerts/engine.ts` | `consecutiveCounts`, `lastAlertTime` | `evaluateAlerts`, `writeAlerts` | cycle, PostgreSQL |
| Webhook | `alerts/webhook.ts` | `cachedConfig`, `cacheTime` | `resolveWebhookUrl`, `fireWebhook` | settings table, HTTP |
| Instance routes | `routes/instances.ts` | `instances` rows | create, update, delete, test | PostgreSQL, SQL Server |
| Shared pools | `lib/mssql.ts` | `poolCache` with idle timers | `getSharedPool`, `closeSharedPool` | metric, query and blocking routes |
| Authentication, users | `lib/auth.ts`, `middleware/auth.ts`, `routes/{auth,users}.ts` | `users` rows, signed tokens | login, refresh, create, delete, passwords | web client |
| Groups, settings, alert routes | `routes/{groups,settings,alerts}.ts` | their rows | CRUD, acknowledge | PostgreSQL |
| Read-only API | `routes/{metrics,queries,blocking,deadlocks}.ts` | none | queries | PostgreSQL, shared pools |
| Partition manager | `jobs/partition-manager.ts` | partitions | create ahead, drop old | PostgreSQL |
| Aggregator | `jobs/aggregator.ts` | `lastHourlyRun` | 5-minute and hourly roll-ups | PostgreSQL |
| Baseline job | `jobs/baseline-job.ts` | none | 4 UPSERT statements | PostgreSQL |
| Migrations | `migrations/run.ts` | `schema_migrations` | apply what is missing | PostgreSQL |
| Web client session | `src/web/src/lib/auth.ts` | two tokens in local storage | `authFetch`, refresh, login, logout | API |
| Web UI | `src/web/src/` | React state | pages and charts | API |

What is hard to test here, and makes each component correct:

- **Lifecycle and scheduler.** Cycles share snapshots and counters, so they must
  never overlap, however slow one is. A shutdown must let the cycle and the
  requests in flight finish before it ends the pool, start nothing new, and end
  the process, also when two signals arrive or one arrives during the boot. No
  failing cycle may leave `cycling` set.
- **Worker pool.** Every item once, at most `concurrency` at a time, every
  result at its place, always an end, for any limit including zero.
- **Collection cycle.** In-memory marks (snapshots, `hostInfoCollected`) move
  forward before their rows are stored. No work may be stored twice; without
  faults nothing may be lost; a failed statement must not take others with it;
  a status must follow the last cycle. Instances may be deleted, servers may
  restart and the backend may crash at any point of a cycle.
- **Alert engine.** Counters of different levels must not mix; a cooldown must
  suppress repeats but not silence a condition that lasts.
- **Delta collectors.** A difference must be what the server really counted, over
  restarts, cleared statistics, evicted plans, rows that share a key and the `TOP` of a query.
- **Event collectors.** A stored event must not be returned again and none may be lost without a
  reason, though events become visible late, the watermark is rounded on its way to the server and
  moves before the rows are stored, and either side restarts. The process must not believe in a
  session that does not run.
- **Blocking graphs.** Reports of different moments contradict each other, so the graphs
  have circles; no session may vanish from the picture or appear in it twice.
- **Retention and roll-ups.** Nothing dropped within its retention; every bucket complete
  when it is rolled up, though samples come late, the two roll-ups of a tick interleave and
  maintenance runs overlap.
- **Read-only API.** No table has a cycle number: which rows belong together is told by
  their stamps, while cycles store, replace and drop rows between two statements of a handler.
- **Shared pools.** Two requests that miss connect twice; any failing request closes the
  pool of the others; every pool must be closed some day.
- **Access.** A deleted user and a logged-out browser must lose their access although
  tokens are not listed anywhere, tabs share them, and either token of a pair passes for the other.
- **Web UI.** What is shown after a mutation must not be older than it, whatever fetches
  were in flight.

`PROJECT.json` lists these hazards at their lines with the properties that cover
them, or the reason why none does.

## 2. The modules

| Module | Role |
|---|---|
| `ParallelMap` | abstract: what a bounded parallel map promises its caller |
| `WorkerPool` | `runWithConcurrency`; implements `ParallelMap` |
| `Backend` | the process: boot, signals, scheduler, job timers, requests, pool |
| `CollectCycle` | what cycles do to PostgreSQL and to the collectors' memory |
| `AlertEngine` | `evaluateAlerts` and the write of its alerts |
| `XeCapture` | deadlock and blocking events: watermarks, session bootstrap |
| `Deltas` | the differences of the six delta collectors |
| `BlockingGraph` | chains (from reports) and trees (from a snapshot) of blocked sessions |
| `Rollup` | five-minute and hourly roll-ups |
| `Retention` | partitions ahead and behind; the table a time range is read from |
| `Readings` | which rows the read-only routes answer |
| `SharedPool` | `poolCache`, its timers and the routes that use it |
| `SignIn` | tokens, login, refresh, logout, users, the tabs of a browser |
| `Views` | the query cache behind every page, mutations, plans, the webhook form |
| `MC*` | small instances for TLC |
| `WorkerPoolProofs`, `BackendProofs`, `AlertEngineProofs`, `CollectCycleProofs` | theorems about the module they are named after |
| `EventProofs` | theorems about `XeCapture` and `BlockingGraph` |
| `HistoryProofs` | theorems about `Deltas`, `Rollup` and `Retention` |
| `WebProofs` | theorems about `Readings`, `SharedPool`, `SignIn` and `Views` |
| `NaturalTheorems` | lemmas about numbers that these use: greatest and least elements, induction, recursion |

The models rest on each other by assume and guarantee: `Backend` treats a cycle as
one await and shows that cycles do not overlap; `WorkerPool` shows that every
instance of a cycle is collected once and its result kept; `CollectCycle` uses
both facts, running one cycle after another with the instances of a cycle
settling in any order; `AlertEngine` is what the last phase of a cycle does for
one instance. `XeCapture` is the same cycle seen from one instance's two event
collectors, and `Deltas` what stands behind the units of work of `CollectCycle`.
The jobs of `Backend` are opened in `Rollup` and `Retention`, which meet in the tables:
`Retention` says which rows are still there, `Rollup` what they count, `Readings` what an
answer makes of them, `Views` how long the answer is shown.

`MCAlgorithms`, `MCHistory` and `MCWeb` each compose modules that share no state: a
behaviour exercises one of them (chosen in the first state) and the others stay in one
initial state, so the state spaces add up instead of multiplying.

A definition whose name is another definition's followed by an underscore and a
word (`TickBody_unguarded`) is a plausible bug in it. No specification uses them;
each breaks one property, which shows that the property depends on the code it is
about.

### WorkerPool

The workers share `index`; `Complete(w)` is the step from the settlement of one
`await fn(...)` to the next call of `fn` by that worker (lines 280-283). The first
items are taken while the array of workers is built, so `Init` has them called.
`Throw` is a rejecting `fn`: `collectFromInstance` catches everything, but
the function is exported and generic, so its contract is checked with
rejections (`MayReject`). The item's value is its own number, so
`results[i] = i` says "in place"; `calls` counts the calls per item. Limits are any
integers, `Array.from({length})` makes no worker for zero or less.

### Backend

`boot` says where the top-level code of `index.ts` waits: `migrating` (before the
handlers exist, a signal kills the process), `listening`, `admin`
(`ensureDefaultAdmin`), `up`. `sig[s]` is how far the shutdown started by signal
`s` has come: in `stop()`, in `app.close()`, in `pool.end()`. `stop()` polls
`cycling`; when no cycle runs the loop body is not entered and `app.close()` is called
at the next microtask, so that is one step (`AwaitCycle`). `closePool` has three
cases: end an open pool; throw, hence an unhandled rejection, while another call
is ending it; nothing to do. A signal between `listen` and `scheduler.start()`
stops a scheduler that does not run yet; `start()` then still happens. The history
variable `early` marks those behaviours: the shutdown properties exclude them and
say so, the other properties include them. `Tick` counts `selecting` and
`collecting` cycles as numbers, not flags, so that an overlap can be seen.

### CollectCycle

The phases of a cycle are those of `collectAll`: collect, `updateStatuses`, the
inserts in their order, alerts. Of the nineteen inserts three are kept, one of each
kind:

- `wait_stats`: a delta against a snapshot in memory, one statement for all
  instances. Five more tables are of this kind. The work of a server is a count
  of units of one wait type, a row is the set of units its delta accounts for, and
  `stored` counts per unit the rows that account for it: "twice" and "never" can be told.
- `os_host_info`: collected once per process, tracked in a set.
- `permissions`: replaced instance by instance with a DELETE and an INSERT without a
  transaction, each its own step.

The tables left out fail like one of these: most are a single statement for all
instances; `server_config` and the database properties are written instance by
instance; deadlocks and blocking events have a watermark instead of a snapshot and
are modelled in `XeCapture`. A statement is all or
nothing; a row of an instance deleted since the SELECT fails the foreign key and
with it the whole statement (`InsertRefused`). `updateStatuses` runs outside any `try`, so
an error there ends the cycle (`StatusError`). `CollectPartly` is the case where one
of the collectors run by `Promise.all` rejects after `collectWaitStats` has replaced
its snapshot. `Delete`, `Create` and `TestEnds` are the instance routes and may happen
between any two steps; `SqlRestart` and `Crash` likewise. Rows that reference an instance vanish
with the instance, the memory of the collectors keeps what it has (`clearSnapshot` has no
caller in the program). `first` remembers where the accounting of an instance
starts in this process, for `NothingLost`. The start time of the server is read by
the first query of a collection and taken to be that of the whole collection: a
server that restarts in between drops the connections.

### AlertEngine

One instance (every key holds the instance id). A sample is what a cycle hands to
`evaluateAlerts`: not reached, or reached with CPU data of a level or without, and with a
disk problem or without. The rules for memory, disk, file I/O and blocking have
no counter and are the same code path (`push`, then deduplicate); `disk` stands for them.
`age` is the time since `lastAlertTime` in collection intervals, up to the cooldown, where
the code no longer tells ages apart; counters are kept up to `Needed` for the same
reason. `TimePasses` may happen any number of times between evaluations: cycles are
skipped or end before the alerts. `recorded` is what the last INSERT stored.

### XeCapture

One instance, the two streams `deadlocks` (`system_health`, always recording) and
`blocking` (`matei_blocking`, which `ensureBlockingXeSession` creates). An event gets its
time when it happens (`Happens`) and enters the ring buffer when the server dispatches it,
in any order (`Dispatch`); its `place` is the server's buffer, the ring, or gone. `pc` is
the await at which the instance's collection stands: `ensure` (the check), `stop`, `drop`,
`create`, `collect` (the two collectors side by side under one `Promise.all`), `failed` (another
collector has rejected and answers may still come) and `insert`. `Answer` does what the
collectors do with a result: take what is later than the watermark or the look-back, move the
watermark, return the rows; `Insert` stores either stream or not. `SqlRestart`,
`BackendRestart` and `Touch` (an administrator stops, drops or creates the session) happen at any
step.

The two streams differ in two ways that matter. The watermark of the deadlocks is bound as a `DATETIME`,
a multiple of 1/300 s, and compared by the server with the exact time of an event (`Sent`); that of
the blocking events is compared by the process. And a blocking report has a `form`: of a
pair of sessions, of a session that waits for itself, or void (empty, or without the number of
a session). Void reports are skipped and do not move the watermark; of the others `Chained` says
which reach a row: any choice, but at least one pair if there is one, because chains that share a head
are merged and a circle beside a head makes no chain. `BlockingGraph` says which ones exactly.

`excused` collects, at the step where it happens, each event lost for a reason: shown behind the
watermark, older than the first look-back, its cycle failed, its INSERT failed, or left out of
the chains. So `AccountedFor` says that there is no reason beside these and the void form. `FetchedOnce` says when
a stored event is returned again: a deadlock within the rounding of the watermark, in every cycle
until a later one comes; and after a restart of the backend what the look-back reaches. `past` keeps what
earlier lives stored.

### Deltas

One behaviour is one collector (`kind`). The rows of a DMV count (`Works`), shrink or leave it
(`Shrinks`, `Vanishes`, in the way each view allows: waits fall to zero, the plans of a
procedure go away one by one) and vanish with a restart. Counters are of three sorts by what the
code does with them: `time`, by which rows are filtered, ordered and compared; `runs`, the executions, which are
compared too; and `rest`, which is subtracted without a look. `Answers` are the rows a query
may return: all, those with waits, or the `TOP` of the plans by time. `Leads` is the row of a key
that the snapshot keeps, its first, and so the one with most time. `Collect` computes the
difference by the collector's own test, keeps the snapshot and answers null or not. With `shared` the rows
have one key, as the plans of one `query_hash` have; there the code compares every row with the
lead of the last snapshot, and `DeltasAreWork` says what still holds: no row is given more time than it spent, none
is negative in what the code tests. What is not tested may be negative then. `done` counts the work
itself, independently of the counters.

### BlockingGraph

`buildBlockingChains` groups reports by the time between them, finds the heads of each
group and walks breadth first; `Merged` is the merging by head in `collectBlockingEvents`.
`buildBlockingTrees` walks up from each session and deletes the parents of the
sessions on circles. Both are functions of the variables `reports` and `blockedBy`, which
take every value within the bounds. Every loop of the code (the walk from a head, the walk up, the
pass over the sessions with its set of visited ones, the descent from a root) is a recursive
function of the number of its rounds, which the number of sessions bounds. `ForestExact` and `LatestGroupShown` compare them with what the wait-for
relation says.

### Rollup

Time counts five-minute windows. `Sample` and `Store` are the collection cycles: a sample
belongs to the window in which it was read and is stored later. `Tick` is the callback of
the interval: it starts the five-minute job and, when `getHours()` differs from
`lastHourlyRun`, the hourly job too, without waiting; their statements interleave
(`FiveMinStatement`, `HourlyStatement`), each may fail alone. `lastHourlyRun` starts as 0,
so a process whose first tick falls into the hour 0 leaves out an hour. A row is the
set of the samples its figures are made of, so that a sample counted twice, or one of another
window, can be told. `late` and `raced` record, at the step where it happens, the
samples stored after their window was rolled up and the five-minute rows
written after their hour was.

### Retention

A day has several moments; a partition is known by its first day. A maintenance run creates the daily or
monthly partitions and drops the old ones, each stage (`BeginCreate`, `Create`, `BeginDrop`, `Drop`) with the moment at
which it read the clock; nothing keeps the next run from beginning meanwhile (`runs`). Statements
fail one by one (`Failing`); a query for the old partitions may throw and end the run (`RunThrows`). What the
migrations create is the first state (`Migrated`). `Expired` compares the first moment of a
partition with the cutoff, as lines 208 and 275 do, also for a month, which is the reason for the
violation of `RangesComplete`. `queryTier`, `rangeToInterval` and `Since` are the readers' side: the
routes of cpu, memory and waits choose a table (`tiered`), the others read the raw rows whatever
they are asked for (`plain`); with `from` and `to` any moment may be asked for. `RetentionWindow` promises a
request of raw rows all of them as far back as a day less than they are kept, which is what the
dropping of whole days leaves.

### Readings

A table is described by its rows per cycle, by whether they share a stamp and by whether a
cycle adds to it or replaces it; a handler by its table, the form of its query and
whether old rows count. 40 handlers take eight forms. The cycle side stamps
(`Stamps`: one stamp, or non-decreasing stamps that may straddle a tick of the clock),
stores, replaces with DELETE and INSERT, and drops partitions; handlers with two statements
(`newestInTwo`, `top`) may be overtaken between them. Aggregates and filters are left out:
they act on the rows this model selects. So are the two routes of `deadlocks.ts`, which select by the
time of the deadlock itself, whatever cycle stored it.

### SharedPool

One instance. `GetHit` and `GetMiss` are `getSharedPool` up to its await, `Connected` and
`ConnectFails` what follows it, `TimerFires` the idle timer, `QueryFails` the error path of a
route; `Routes` says which routes close the shared pool in which case. `closeSharedPool` closes
whatever pool the map holds when it runs, not the one the caller used. `orphans` are pools
whose entry was replaced by a second request that had missed too. `closeAllSharedPools` has no
caller in the program and is left out.

### SignIn

A token is a user and the hour it ends; the two of a pair differ in nothing else, and
`verifyToken` accepts either for a request and for a refresh. The web client bears each where it
belongs (`access`, `refresh`, shared by the tabs of a browser); `other` is a client of the API that
bears a refresh token for everything, which is what bounds the access of a deleted user. Requests are
objects of their own, any number per tab: `asking` is the await at which `authFetch`, a login or
a refresh stands and `holds` the token it bears. `Answer` and `AnsweredAgain` are `registerAuthHook` and the
handler behind it (`Serve`), `Renews` and `Refreshed` the refresh route and `tryRefresh`, which writes its
pair over whatever local storage holds by then. `Logout` removes the tokens and starts a navigation; the tab's requests go on
until `Unload`. `racing` are the requests that were waiting for a refresh when a tab of the browser
logged out, the same tab or another: their answers sign the browser in again, which `LogoutEnds`
leaves out by name.

### Views

A view is described by the root of its query key, its page, the facts it reads that a
mutation of its page writes, and whether it polls; a mutation by what it writes and which roots it
invalidates. The cache is the library's (external): one fetch in flight per key, stale at
once (`main.tsx`), an invalidation replaces the fetch in flight unless it is
the first of its key. `ServerReads` and `Written` are the moments at which the server reads and
writes, so an answer may be older than a mutation that was answered before it; several mutations may be
on their way. `Strict` are the views whose query throws an HTTP error; for the others an error is an answer, usually
an empty one, that replaces the last (`Refused`). `Careless` mutations call `onSuccess` whatever the
status. `seen` is the newest version among the answered mutations. The two plan panels and the webhook form, which copy
data out of the cache, are forms of their own. Left out: that each key names all its request depends on, which was
read from the code and is no property here; and the baseline query of the overview, the one with a
`staleTime`.

## 3. What is checked

| Run | Instance | Distinct states |
|---|---|---|
| `worker_pool` | 0..5 items, limits -1..6, rejections allowed | 3 245 |
| `backend` | 2 signals, an eager and a lazy job, 2 runs per job, 2 requests | 1 466 |
| `collect_cycle` | 2 instances, 2 units of work, 1 fault, permissions every 2nd cycle | 603 967 |
| `alerts` | CPU sums 75, 76, 90, 91; 3 cycles; cooldown 5 | 7 658 |
| `xe_capture` | 2 events, 1 restart, 1 change by hand, look-back 1, DATETIME 3, clock 0..3 | 4 696 776 |
| `algorithms` | 2 rows, 3 counters to 2, 2 and 1, TOP 1 or 2, 2 starts; 3 sessions, 3 reports | 950 193 |
| `history` | 2 tables, 7 windows, 2 samples, 1 fault; 4 days of 3 moments, 2 runs, 1 failure | 2 142 284 |
| `web` | 2 rows, 3 cycles; 3 requests; 2 tabs with a request each, 3 users; 2 arguments, 2 writes | 2 389 872 |
| `host_info` | 1 instance, 1 restart | violation |
| `consecutive` | as `alerts`, cooldown 3 | violation |
| `retention` | as `history` | violation |
| `webhook_form` | as `web` | violation |

**worker_pool.** `CalledAtMostOnce`, `ResolvedInPlace`, `RejectionStaysLocal` (what happens behind the back of a
rejected call: every worker that did not throw goes on to the last item),
`ImplementsMap` (the refinement, which includes the limit) and `CallReturns`.
Five items with up to five workers let workers overlap, overtake and throw at different
times; limits cover no worker, fewer and more workers than items.

**backend.** `OneCycleAtATime`; `CycleOutlivedByPool`, `RequestsOutlivedByPool` and
`StoppedForGood` for the shutdown; `SignalEndsProcess` and `KeepsCollecting` as
liveness. Two signals are enough for every race of two shutdowns (a third can only
repeat one's role); job runs and requests matter only as "none" or "some", and two
let one end while another goes on.

**collect_cycle.** `WorkStoredOnce`, `NothingLost`, `StatusReflectsCycle`, `InsertsIsolated`,
`PermissionsOneCollection`, `KeepsCollecting`. Two instances give one that fails beside
one that does not. `MaxFaults` bounds PostgreSQL errors, crashes, restarts,
rejections and deletions during a cycle together to one per behaviour; deletions
between cycles and failed connections are not bounded. `MaxWork` 2 gives a
first snapshot and a delta, or two deltas after it. `PermEvery` 2 replaces 2880; the counter is
folded above twice that value, because only "is 1" and "divisible" are asked. One instance may
be tested (`Probed`). The cfg turns deadlock checking off: when every id of the finite
set has been used and deleted there is nothing left to collect, and the model stops there.

**alerts.** `CountersCountSamples`, `UnreachableInARow`, `NoRepeatInCooldown`,
`KeepsAlerting`. CPU sums lie on both sides of each threshold; `Needed` is the code's 3; a
cooldown of 5 intervals instead of 30 is longer than `Needed` and than a retry.

**xe_capture.** `FetchedOnce`, `AccountedFor`, `EnsuredMeansRunning`. Two events are the least
that let one become visible behind the other; in one stream or in each, as a pair, a self-wait or a void report. A
look-back of 1 in a run of 3 makes events that are older than it. A DATETIME of three units rounds a
watermark of 1 down and one of 2 up, so that an event is returned again and another passed over. One
restart, of either side, and one change of the session by hand fall at every step. More of each is a matter of
the proofs, which have no bound.

**algorithms.** `DeltasAreWork` and `WorkIsReported` for all six collectors: two rows let one
vanish while the other stays or takes its key, and a `TOP` of 1 leave one out; a counter of 2 can fall to a
value that is not zero; the untested counter needs only one step to disagree with the tested ones; two starts
are a restart. `MaxShrunk` 0 lets a row shrink while no other is broken. `ForestExact` and
`LatestGroupShown`: three sessions make every shape that matters (a chain, two blocked by one, a circle of two with a
tail, a circle of three, a session that blocks itself), three reports with gaps inside
and beyond the window make groups of one to three and rows of one head to be merged.

**history.** `RollupsAccountFor`: hours of two windows, days of two hours, and seven windows,
which pass midnight; the process starts in the first window or in the last one before midnight. Two tables let a
statement of one job fall between two of the other. `RetentionWindow`: the scaled
calendar has months of 3, 2 and 3 days for 2 days of raw and of five-minute rows and 3 of hourly ones, so the
longest month is one day longer than the five-minute rows are kept, as a month of 31 days is; four days
pass the end of such a month and both ages at which it is dropped;
three moments a day make a partition that is partly older than the cutoff, the migration looks less far ahead
than maintenance, and two runs with a stage of up to one moment each overlap in every way.

**web.** `AnswersAreCycles`: two rows are enough for a cycle to be torn, three cycles for one
to be stored, one to be overtaken and one to be dropped; the clock of 7 exceeds the span (3) and
the age of dropped partitions (4). `PoolsAccountedFor`: three requests are two that both miss
and one that uses what they leave; a clock of 3 passes the idle time of 2. `DeletionHolds` and
`LogoutEnds`: two tabs of one browser with one request each, and three users (two to start with and one to
create); an access token lives 1 tick, a refresh token 2, so the clock of 2 outlives both. That a tab has one
request only is a bound of this run: the tab that logs out with its own refresh on the way is in it, two requests
of one tab are in the proof. `SettledIsCurrent`: two arguments
make a switch back and forth, two writes a stale answer that is older than one and not the other, and two
mutations in flight. Tabs with their requests and arguments are symmetric; of the views that no
mutation changes the run has one of each behaviour (polling or not, strict or not, `Different`), the theorem all of them.

CHECK_DEADLOCK is FALSE in the runs whose bounds end every behaviour: a clock, a calendar or
a count of requests runs out. Each of these modules has its bounds named as constants.

**host_info**, **consecutive**, **retention** and **webhook_form** check what a document, a
comment or a message of the code says and find it violated:

- `os_host_info` "re-collected if sqlserver_start_time changes"
  (`migrations/006_os_host_info.sql:3`): the id is never removed from `hostInfoCollected`. The property supposes
  what a correct program would need: that collections of the instance which succeed and are stored
  whole go on for ever (`GoesWell`), and it is violated all the same.
- "CPU usage > 90% for N consecutive cycles" (`alerts/engine.ts:77`): cycles without CPU
  data neither count nor reset.
- The retention of 30 days and one year: a month is dropped when its first day is
  old (`jobs/partition-manager.ts:275`), so up to a month of rows that are young enough goes with it.
- "Initialize form from fetched data" (`AlertsSettings.tsx:38`): the form that is opened
  again after a save shows the configuration from before it.

The other findings need no run: they are read off the code while it was modelled and are listed with
their lines in `PROJECT.json`. The weightier ones: two partitioned tables are in no maintenance list
(`deadlocks`, `os_host_info`), so inserts into them fail once the partitions of their migration are
used up; a blocking session that exists but is stopped is never started;
two requests that both miss leave a pool whose timer closes another one; the watermark of the
deadlocks is rounded to a `DATETIME`, so the newest one may be returned in every cycle; most readers have only raw
rows, kept a week, for the ranges of a month and a year;
the hourly roll-up does not wait for the last five-minute rows; the menu entry that disables an
instance sends a request the route refuses; an update without credentials erases them.

### Fairness

- Event loop: every continuation that is ready runs, every interval fires again (`WF` on
  the steps of a cycle, ticks, boot steps, shutdown steps).
- Awaited work ends: connections and requests to SQL Server have timeouts
  (`lib/mssql.ts:22-40`), and a PostgreSQL query ends or its connection does. A call of `fn`
  ends by `Complete` in the worker pool's fairness; rejecting is never forced.
- Nothing forces signals, requests, routes, faults, restarts or crashes.
- The modules written for safety (`XeCapture` to `Views` in the table above) state no fairness: they
  make no liveness claim.
- `AlertEngine` alone assumes strong fairness: an INSERT that holds an alert of
  a type succeeds if tried infinitely often. `KeepsAlerting` says that
  a failed write delays an alert and does not lose it for good; a PostgreSQL that
  refuses every such write records nothing, whatever the code does.

## 4. What is proved

TLAPS checks these for all values of the constants, from the named assumptions
of each module only (sizes are naturals, limits integers, bounds naturals).

**WorkerPoolProofs.** `TypeCorrect`, `CalledOnce`, `ResolvesInPlace`, `RejectionIsLocal` and
`PoolImplementsMap`. The stated invariants are not inductive: that an item is called once
depends on no two workers holding the same item and on all held items lying below
`index`. `IInv` adds `HoldsInv` (holds are distinct, below `index`, and a worker exits only at
the end), `StoreInv` (an item was called exactly if it is below `index`, and its value is stored
exactly if it is below and no worker holds it) and `OutcomeInv`. The
refinement maps the first state by a lemma on the cardinality of the items in
flight, `Complete` and `Throw` to `Advance`, the two outcomes to `Resolve` and `Reject`.

**BackendProofs.** `TypeCorrect`, `CyclesNeverOverlap`, `PoolOutlivesCycle`,
`PoolOutlivesRequests`, `StopIsFinal`. `IInv` ties the flag to the facts: `cycling` is true
exactly when one cycle is selecting or collecting; the timer runs only after the
boot; a shutdown that is not early has stopped it for good; one past `stop()` found no
cycle and none began since; `app` is closed with no request left before a
shutdown ends the pool; an ended pool has such a shutdown behind it.

**AlertEngineProofs.** `TypeCorrect`, `CountersAreExact`, `UnreachableIsConsecutive`,
`CooldownHolds`. `IInv` adds that the cooldown map agrees with when alerts were really
returned and that the unreachable counter is the length of the run of failed cycles.

**CollectCycleProofs.** `TypeCorrect`, `StoredOnce`, `NothingIsLost`, `StatusesReflectCycle`,
`InsertsAreIsolated`, `PermissionsOfOneCollection`, for any set of instances, any number of
faults and any amount of work. That no unit of work is stored twice needs three facts at once: what is
stored, or carried by a result, was read before (`StoredIsBehind`), what a result carries before
its INSERT is not stored yet (`PendingIsNew`), and a snapshot of the running server names all that
was read of it (`SnapshotsCurrent`), so the next delta begins behind it. `OnItsWay` says where
an unstored unit is while a cycle without faults is under way (in a result of
the batch, or still to be read), which makes `NothingLost` inductive; `ReplacedIsEmpty`,
`StatusesWritten` and `InsertsKept` do the same for permissions, statuses and inserts;
`BatchKnown` bounds what a cycle may hold in each phase. There is one lemma per action.

**EventProofs, XeCapture.** `TypeCorrect`, `ReturnedAgain`, `EventsAccounted`, `EnsuredRuns`, for any number of
events, restarts and interventions, and any rounding. The invariant has two halves that do not need each other:
`SessionInv` (while the session is being replaced nothing is taken for ensured) and `EventInv`,
whose core is `BehindWatermark`: all that this process returned lies at or before the
watermark. That rounding moves the watermark back by less than one multiple is a lemma (`SentFacts`); so what is
returned again is a deadlock that lies that close to it, or was stored by an earlier life.

**EventProofs, BlockingGraph.** `ForestsAreExact` and `LatestGroupIsShown`, for any finite set of sessions,
any wait-for relation and any sequence of reports. The invariant is small (`GraphInv`: reports come
by time), the work is in what the recursive functions compute:

- *Forests.* A set of sessions that the parents map into itself is a circle (`Closed`). One
  round of the loop keeps that what is visited is closed upwards and that every circle in it has a
  session that was found (`Rounds`, `VisitKeeps`): a walk that enters a circle comes back to
  itself before it runs out of sessions, by the pigeonhole principle (`WalkUpIs`). So no
  circle is left after the cut (`CirclesFound`, `NoCircleLeft`). The tree of a root is closed
  downwards, because as many rounds as there are sessions are enough (`TreeFacts`). Two trees that
  share a session would share a circle, and the sessions in no tree would form one; hence
  exactly one (`TreesAreExact`).
- *Latest group.* A session that a rank puts above n others is reached from a head within n steps
  (`HeadsReachAll`); groups part the reports into intervals (`GroupFacts`) and their medians lie in
  them (`MedianInGroup`), so the latest group has the latest time (`GroupsFollow`) and its chain is the one that the
  merge by head keeps (`LatestKept`).

**HistoryProofs, Deltas.** `DeltasAreExact`, `NoWorkIsDropped`, for all six collectors, any rows, counters and `TOP`.
`DeltasInv` adds what ties each counter of a row to its own snapshot (`CountedSince`): it is the snapshot plus what
was done since, or less when the row shrank or went away in between; and the row that the snapshot keeps
of a key had at least as much time as any other row of it, answered or cut off by the `TOP` (`LeadHasMost`), so
that a plan compared with another one is never given more time than it spent. The tests of each
collector then decide which rows it may report.

**HistoryProofs, Rollup.** `RollupsAreExact`, for any tables, any hours per day and windows per hour. `RollupInv` says
where each of the two jobs stands (`JobsOfNow`), that the hour's flag is that of the last tick
(`FlagKnown`), that nothing has run for a window that is not over (`RanBehind`), which windows and hours
are already due (`WindowsDue`, `HoursDue`; the latter has a case of its own for an hour whose
ticks were all another process's), and what is in the rows: a five-minute row holds the stored samples
but the late ones (`FiveExact`), an hourly row the samples of its windows but the raced ones
(`HourExact`), which can only be its last window (`RacedIsLast`).

**HistoryProofs, Retention.** `RetentionHolds`, and `LossIsBounded`, which bounds what the finding about
monthly partitions costs: where months are shorter than L days, a dropped row was older than its
retention less L. The invariant follows one row (`RowKept`) and the partitions that the last
creation and the last drop looked at (`CreatedAhead`, `DroppedBehind`), for any number of runs at once, each
working with the clock it read; what is expired for an earlier clock is expired for a later one (`ExpiredStays`).

**WebProofs, Readings.** `AnswersAreWholeCycles`. Stamps of a later cycle are later than all of an earlier
one (`CyclesInOrder`), a table holds a cycle from its newest row down to where partitions were
dropped (`StoredInParts`), one that is replaced holds a single cycle (`OneCycle`), and a handler between two
statements knows the stamps of what was the newest cycle (`HalfKnows`).

**WebProofs, SharedPool.** `PoolsAreAccountedFor`. The invariant says which request made a
pool and that it connects exactly while the pool does (`OwnPool`), that the entry of the map has a
timer within the idle time (`EntryTimed`), that what is open or has a timer is in the map or was
pushed out of it by a rival (`OthersPushedOut`), that a request under way is younger than the idle
time and set the timer of its pool (`UsersInTime`), which is why a pool in use never meets
its own timer, and that each pool closed under a request has one of the named reasons
(`UsersExcused`).

**WebProofs, SignIn.** `DeletionIsFinal`, `LogoutIsFinal`, for any number of tabs, browsers, requests and
users. `DeletionIsFinal` gives two bounds: through the web client a deleted user is served for the life of an
access token, by any client for that of a refresh token, since either passes for the other. A token of a
deleted user ends within its life of the deletion (`TokensHonest`), a request holds a token that fits the await
it stands at (`CallsFit`), the last account went within that time of the deletion of the user who removed it
(`LastGoesByDeleted`), and a browser that was signed out holds nothing, and has no request outside `racing`
that will write a pair (`SignedOutIsEmpty`). `LogoutIsFinal` exempts the refreshes that were on their way at the
logout, in any tab: those do sign the browser in again.

**WebProofs, Views.** `SettledViewsAreCurrent`. A fetch in flight brings at least what the last answered
mutation wrote, unless it was on its way when that mutation was answered and was not dropped
(`FetchBrings`); so what is shown without a fetch in flight is current, or excused by the fetch that brought it or by one
that failed after it (`ShownIsCurrent`). Mutations in flight are of the view's page (`MutationOfView`). That each mutation of a
page invalidates every view beside it that it changes is a lemma over the code's lists, case by case (`MutationsInvalidate`).

**NaturalTheorems.** The library states induction and recursion for operators, which the provers cannot
instantiate. Here induction is stated for a set of numbers (`SetInduction`) and recursion for a function that
yields the function of each step (`BoundedRecursion`), and both are proved from the well-foundedness
of the naturals. That is what puts `BlockingGraph`, whose definitions are recursive functions, within reach.

What a proof covers is the model with all its assumptions: one await is one
step, faults are those modelled. TLC checks each stated property on a small instance as well.

**Only model-checked**: liveness (`CallReturns`, `SignalEndsProcess`, the two `KeepsCollecting`,
`KeepsAlerting`), which needs fairness and ENABLED and is out of TLAPS's reach. Every safety property that
a passing run checks is a theorem.

## 5. Not modelled

- **Query plan persistence**: plans are upserted row by row after the alerts, each in a `try` of its
  own; a plan has no version, so there is no order to get wrong.
- **Webhook**: `fireWebhook` posts once and forgets, `resolveWebhookUrl` caches a
  configuration for a minute; only its form is modelled, in `Views`.
- **Credential encryption** is a call of a library without state; **passwords** are the success of
  a check.
- **Stateless collectors**: their queries and rows are data; they appear as the success or
  failure of an instance's collection.
- **Baseline job**: four independent UPSERT statements over what the tables hold; its
  timer and overlaps are in `Backend`, its figures are left out.
- **Migrations**: the SQL of the files; as steps they are in `Backend` and as first partitions in `Retention`.
- **Contents of `instances` rows**: an update replaces connection data that no model tells
  apart. Two findings come from reading that route.
- **Groups, settings, alert routes**: one or two statements each, modelled as facts that mutations
  write and views read.
- **Web UI**: charts, sorting, formatting and layout. **Deployment**: configuration.

The contents of alerts, rows and logs are abstracted everywhere.

## 6. What is left

1. The columns of an `instances` row: partial updates from four places of the web client against one
   route that writes them all.
2. Liveness of the collectors (an event that is visible and not behind the watermark is stored, with
   strong fairness of its INSERT) and of the views (a view that polls shows the last version).
3. `Migrations`: a crash between a file and its version row, with the SQL that may or may not run twice.
4. The webhook's configuration cache against saves, and delivery of an alert at most once.
