# fastCRW: TLA+ models, model checks and proofs

fastCRW is a Rust workspace: a scraping, crawling and extraction server that
renders pages over plain HTTP, LightPanda or Chrome. Most of its code transforms
documents; what is hard to get right is the small concurrent core that hands out
scarce resources (Chrome slots, per-host permits, circuit-breaker probes, job
slots) to tasks that fail, time out and are cancelled at any await. This
directory models that core.

## Inventory

Paths are under `src/crates/`.

| component | state | operations | talks to | hard part |
|---|---|---|---|---|
| Browser-context pool, `crw-renderer/src/browser_pool.rs` | semaphore, idle deque, Weak registry, per-slot state machine, terminator flag, inflight counter | acquire, record_target, release, Drop, shutdown | CDP connection, fetch tasks, SIGTERM path | every await may be a cancellation; release, Drop and shutdown race for the same slot |
| Circuit breaker, `crw-renderer/src/breaker.rs` | per-breaker window, Closed/Open/HalfOpen, probe counters; registry of global and per-host breakers | try_acquire, record_outcome, cancel_probe, guards | renderer ladder | outcomes arrive after the state they were admitted in; probes are lost on cancellation |
| Reserved lane, `crw-core/src/reserved_sem.rs` | shared semaphore, batch gate | acquire by class, drop | host limiter, pool, extract, pdf, llm lanes | batch must never take the interactive share; two semaphores taken in order |
| Per-host limiter, `crw-renderer/src/host_limiter.rs` | map host -> (rate limiter, reserved semaphore, last use) | get_host_limiter with GC, acquire, next_sleep | every fetch | permit and slot in time are two resources; concurrent callers share one clock |
| Crawl and batch jobs, `crw-server/src/state.rs`, `routes/crawl.rs`, `routes/batch.rs` | job map, a watch channel and an abort handle per job, crawl and batch semaphores | start, poll, cancel, clean up | crawl loop, single scrape | abort is asynchronous: a task being polled still publishes |
| Extract jobs, `crw-server/src/state.rs` | job records with URL outcomes and credits | start, cancel, get, finalise, prune | renderer, extractor, LLM | a cancel races completion; terminal states must not move |
| Crawl loop, `crw-crawl/src/crawl.rs` | visited set, frontier, counters | enqueue, fetch batch, publish progress | renderer, robots, limiter | bounds and counters across concurrent fetches |
| CDP connection, `crw-renderer/src/cdp_conn.rs` | pending map, closed flag, writer behind a mutex, event broadcast | send_recv, close, event loop and its drain, Drop | Chrome WebSocket | replies race the end of the connection, timeouts and cancellation |
| CDP renderer, `crw-renderer/src/cdp.rs` | interception records, child sessions, target and connection of a render | fetch_inner, run_intercept_pump, teardown, reaper | CDP connection, pool | every request must be judged although events are dropped and answers are lost |
| Page cache, `crw-crawl/src/page_cache.rs` | bounded map with timestamps | lookup, store | single scrape | slow old fetch against newer entry |
| Render ladder, `crw-renderer/src/lib.rs` | host preferences, tiers, hedge | fetch, fetch_with_js, hedge | breaker, pool, limiter | fallback order under deadlines |
| Host preferences, clearance and egress, `crw-renderer/src/preference.rs`, `clearance.rs`, `egress.rs` | learned tier per host, cookies, proxies | learn, promote, expire | ladder | stale learning |
| Interactive sessions, `crw-browse/src/session.rs`, `server.rs`, `tools/` | the default session's slot, attach lock, target and CDP session, element references, listener and guard tasks | open, attach, goto, tree, hear a navigation | CDP connection, browser | concurrent calls on one session; attaching takes seven commands of which any may fail; references outlive their page |
| Extraction, `crw-extract/`, diff `crw-diff/` | none | pure document transformations | - | text processing |
| Search and research, `crw-search/`, `crw-server/src/routes/search.rs` | result sets | fan-out, merge, rank | HTTP | external engines |
| MCP, `crw-mcp/`, `crw-mcp-proto/` | none kept between requests | JSON-RPC dispatch | server | protocol text |
| CLI, SDKs, docs, bench | - | - | - | client side |

What makes each component correct:

- Pool: a slot has one user; at most `size` slots; each connection is closed
  once; the context is clean at checkout; inflight counts exactly; waiters are
  served; shutdown returns and leaves nothing open.
- Breaker: Open admits nobody before its back-off; HalfOpen hands out at most
  `max_probes` slots; more probes are live only where an outcome or a
  cancellation freed a slot that was not its own; a lost probe does not block
  recovery.
- Reserved lane: batch holds at most `total - reserved` shared permits; an
  interactive caller is never blocked by batch alone; no deadlock between the
  two semaphores.
- Host limiter: a request starts at least one interval after those it was paced behind.
- Jobs: terminal states are final; a cancelled job stops and can be evicted;
  what a poll shows agrees with itself; no job is called completed before it is.
- Crawl loop: no page lost or taken twice, page and depth bounds, breadth-first
  order, termination, counters that agree with what became of the pages.
- CDP connection: each waiter gets the answer to its own command, or an error
  at the latest when its time is up; nothing stays in the map.
- Interactive sessions: concurrent calls share one session and one target; the
  target is guarded before it shows a page; a reference never names a document
  that has gone without the server being about to know.
- CDP renderer: no request leaves the browser before its destination was judged
  fit, no frame runs without its guard, and the target goes before the
  connection does, whatever fails or is cancelled.

## Plan

The pool and the breakers are the heart of the renderer and came first; the
per-host limiter shares their callers; extract jobs are the one part where money
is counted. In order:

1. **BrowserPool**, with **SlotLease** as what it promises. *Done,
   theorems and refinement proved.*
2. **CircuitBreaker**: the global and host breakers of a tier together with the
   request that consults them. *Done, theorems proved.*
3. **HostLimiter**, with **ReservedLanes** as what the two semaphores promise.
   *Done, refinement proved.*
4. **ExtractJobs**, with **JobLifecycle**. *Done, refinement proved.*
5. **CrawlJobs**: the record and watch channel of a crawl or batch job, its
   task (the breadth-first loop or the batch stream), the asynchronous abort of
   DELETE, the clean-up. One module, because what matters is the task writing
   the record while DELETE does. *Done, theorems proved.*
6. **CdpConn**: replies, timeouts, cancelled callers and a closing connection
   against one pending map, with **CdpCalls** as what a command promises.
   *Done, refinement proved.*
7. **Interception**: one render's pump, children, teardown and close, above the
   commands of `CdpCalls`. *Done, theorems proved.*
8. **BrowseSession**: concurrent tool calls on the default interactive session.
   *Done, theorems proved.*
9. *Left out, after reading the code:* the order of the tiers in
   `fetch_with_js` and the page cache (reasons under "Not modelled").

Every safety invariant, every action property and every refinement that a
passing run checks is also a theorem (see "Proofs"). What is left is liveness,
which stays with TLC.

Runs are kept few: each module gets one run, and another where the question
needs a smaller instance or contradicts a comment.

## The modules

| module | is |
|---|---|
| `BrowserPool` | the pool and its clients; `MCBrowserPool` adds symmetry and a view for TLC; `BrowserPoolProofs` the theorems |
| `SlotLease` | abstract: at most `Size` clients admitted, a slot leased to one client, a closed pool admits nobody |
| `CircuitBreaker` | the breakers of one tier and their callers; `MCCircuitBreaker`, `CircuitBreakerProofs` |
| `HostLimiter` | one host's reserved semaphore and rate limiter under `fetch_inner`; `MCHostLimiter`, `HostLimiterProofs` |
| `ReservedLanes` | abstract: at most `Total` requests let through, at most `Total - Reserved` of them batch |
| `ExtractJobs` | one extract job, its worker, its requests and the clean-up; `ExtractJobsProofs` |
| `JobLifecycle` | abstract: answers are final, the verdict follows the answers, an ended job does not change |
| `CrawlJobs` | a crawl or batch job: record, channel, task, DELETE, clean-up; `CrawlJobsProofs` |
| `CdpConn` | one connection to a browser and the calls made on it; `CdpConnProofs` |
| `CdpCalls` | abstract: a command is carried out once at most, and its caller gets the browser's answer to it or an error |
| `Interception` | one render: page, frames, workers and requests in the browser, the pump, the end of the render; `InterceptionProofs` |
| `BrowseSession` | the default interactive session and the calls made on it; `BrowseSessionProofs` |

Operators whose names begin with `M_` are deliberate faults: each is what a
plausible mistake would make of the definition that follows it, and shows that
the property named for it in `PROJECT.json` notices. Nothing refers to them.

### BrowserPool

One step is one critical section (a slot's mutex, the deque's mutex, one atomic
operation) with the local code around it; an await separates two steps, and at
every await the task may be dropped.

| model | code (`browser_pool.rs`) |
|---|---|
| `pc`, `attempt`, `slot` | a task in `acquire`/`release`/`Drop`, its retry index, the `Arc` it holds |
| `idle` | the free deque |
| `st`, `term`, `target` | a slot's state, its terminator flag, `CheckedOut.target_id` |
| `dirty`, `closes` | history: the context showed a page; calls of `close_conn` |
| `reap` | connections owned by detached close tasks |
| `inflight` | the counter `shutdown` drains |
| `spc`, `todo`, `cur`, `own` | `shutdown` and where its loops are |
| `Request` ... `CountInflight` | `acquire`: permit, pop, stale check, health check, creation, check-out, count |
| `RecordTarget`, `Snapshot` ... `Commit` | `record_target`, `release` and its recycle |
| `CancelRelease`, `DropTake`, `AbandonAcquire` | futures and guards dropped in between |
| `BeginShutdown` ... `Sweep` | the phases of `shutdown` |

A failing CDP call is a choice in the step that makes it. Slot names are reused
once nothing refers to the old slot, which is when the registry's `Weak` is dead.

### CircuitBreaker

A breaker is the record behind one mutex, and each method of `breaker.rs` a
function of that record: `LazyEvaluate`, `Permit`, `RecordOutcome`,
`CancelProbe`. A request consults two breakers in two critical sections
(`TryGlobal`, `TryHost`, `GiveBack`), builds its guard (`MakeGuard`), runs, and
reports (`Finish`, `RecordGlobal`, `RecordHost`, `EndAttempt`), or is dropped at
an await (`Abort`, `DropGlobal`, `DropHost`). `Leak` and `NoLeak` are the
leak-through attempt after every tier was rejected, `ArmCheck` the recovery arm
that records without a permit, `ArmOpted` the same for a request that opted into
the metered tier, whose arm does not ask the host's breaker, `Evict` the cache dropping a host's breaker,
`Observe` any other call that evaluates it. Durations are counted down in
ticks; rates are integer percentages. `ticket` and `orphans` are history: who
owns a probe slot, and how many were lost with a dropped future.

### HostLimiter

`AskGate` and `AskShared` are the two acquisitions of a batch request (an
interactive one makes only the second), `Pace` is `next_sleep` under the
limiter's lock, `Fetch` the end of the sleep, `Release` and `DropGate` the
fields of the permit dropped in their order, `CancelGate` and `CancelShared` the
deadline dropping `acquire`. The queue and the direct hand-over of a released
permit are tokio's, modelled as external. `ahead` is `last_request - now`.
A sleep ends on its tick: a timer that fires late can bring a fetch
closer to the next one, which a limiter that only computes sleeps cannot prevent.

### ExtractJobs

Every step holds the write lock of the job map; the worker gives it up while it
scrapes. `Skip`, `Claim`, `Persist`, `Finalize` are the worker's loop, `Delete`
is DELETE, `LookUpExpired` the removal any request makes on an expired job,
`Prune` the clean-up task, `Expire` the TTL. `FinishCancellation`,
`CompleteFromOutcomes` and `FinishProcessing` are the record's methods of those
names. What a scrape returns is a status and a cost; contents are left out.

### CrawlJobs

One job, with `w` for the value in its watch channel, `present` and `handle` for
the map's record, and `pc` for its task. What makes the module is `run`: tokio's
`abort()` takes effect when the task next yields, so a task that a thread is
polling goes on, while `DELETE` writes on another thread, through every await
whose result is ready. `Await` ends a step at an await, `Wake` has the task
polled again unless it was aborted, `Stop` drops it. `BeginCancel` and
`MarkCancelled` are the two halves of DELETE, which holds the map's write lock
in between; the task never takes that lock.

The crawl loop is `SetupFails`/`SetupDone`, `Break`/`Skip`/`Pop` at the head,
`FetchFails`/`Fetched`, `ExtractFails`/`Extracted`/`Read`, `Complete`; a batch is
`Launch`, `Document`, `StreamEnds`. A site is whatever `Discoveries` chooses:
any links, in any order, that pass the filters. `fate` is history: what became
of each page. Other jobs are the time this one waits for its permits. The arm
for an empty batch is left out, since both handlers refuse one.

### CdpConn

A call is its command id, which is never used again. `Check`, `Register`,
`Written`/`WriteFails`, `Return`/`Timeout` are the stretches of `send_recv`
between its awaits, `Cancel` its future being dropped, `Leave` what its
`PendingCleanup` does. The event loop reads (`Dispatch`), ends (`ReadEnds`),
reads the map's keys shard by shard (`Collect`) and tells each waiter
(`DrainOne`). Only the wait for the answer is timed: the write is not, and
neither is the wait for the writer's mutex, whose queue is `lock` (tokio's, and
external, as `Without` is, a task leaving that queue). The browser may stop
reading (`Stall`). `stragglers` is history: the calls that had passed the closed
flag, and were not yet in the map, when the event loop ended.

### Interception

The browser is external: `Ask`, `Spawn`, `Vanish`, `Serve`, `Release` are what
its Fetch and Target domains do to a page that asks for things and has frames
and workers, held at attachment where auto-attach is on. The comments disagree
on service workers (see "Findings"), so `Begets` lets one attach to the page or
not; whatever kind a child has, the pump treats all but dedicated workers as
frames. Names of children are taken in turn (`Fresh`). A command is what
`CdpCalls` promises: in `wire` until it is carried out or refused, perhaps never;
its answer in `back` until the handler looks or gives up. `ring` is the event
broadcast, which drops the oldest event when the pump is too slow.

`EnableFetch`, `AutoAttach`, `WorkEnds`, `FailLeftover`, `TeardownEnds`,
`CloseTarget`, `CloseConnection` are `fetch_inner` and its caller; `Receive` and
the handlers `Judge`, `Answered`, `Guarded`, `LetGo`, `Unguarded`, `Resumed` are
`run_intercept_pump`; `Cancel` and `CancelLate` drop the render. A render that is
cancelled leaves its target to the task `LegacyTargetReaper` spawns, whose write
is a step of its own (`Reap`) and may wait for the socket without a limit. All
that the page's work does between navigation and snapshot is the time until
`WorkEnds`. Shared workers do not attach to the page and are outside the guard.

### BrowseSession

`Begin`, `TakeSlot` and `Connect` are the two looks at the default session, under
the read and the write lock; `Attached` ... `Guard` are `ensure_attached`, its
second look under `attach_lock` and its commands, each of which may fail with
`GiveUp`, carried out or not (`Perhaps`). `Navigate` and `Loaded` are `goto`;
`Target`, `ReadTree` and `Store` are `tree`; `Hear` and `Lag` the listener. The
browser is external: `Shows`, `Strays` and `Break` are a document replaced, a
page that goes elsewhere by itself or through a click, and a lost connection. Of
the references only the document matters whose nodes they name. `failed`,
`lagged` and `late` are history, and the exceptions of `RefsFollow`.

## The runs

| run | instance | shows |
|---|---|---|
| `pool_safety` | 3 clients, 2 permits, 3 slot names | exclusive, bounded, clean, closed once, counted exactly; implements `SlotLease` |
| `pool_liveness` | 2 clients, 1 permit | waiters are served, `shutdown` returns |
| `breaker` | 2 requests, quota of 2 probes, window of 2 calls | quotas are kept, slots accounted for, live probes exceed the quota only where named, cooldowns kept; closing needs evidence |
| `breaker_live` | 1 request, 2 generations of the host's breaker, recovery arm | half-open periods end, also after an eviction |
| `breaker_leak` | 3 requests, quota of 1 | **violated**: see findings |
| `host_lanes` | 3 requests, 2 permits, a reserve larger than that, interval 2 | lanes, pacing, service |
| `extract_jobs` | 3 URLs, costs up to 2 | lifecycle, billing, settlement, eviction |
| `crawl_jobs` | crawls of 4 pages, limits up to 4, depth up to 2; batches of up to 3 URLs, any width | books, limits, honest reports, final verdicts, the task's end |
| `crawl_cancel` | 2 pages | **violated** |
| `cdp_conn` | 2 calls and a `close()` | the map is exact, everyone is told, `CdpCalls` is implemented, calls end |
| `interception` | 1 request, 2 children of any kind, nested or not, a ring of 1 | nothing goes out unjudged, frames are guarded, records cover, the target goes first, nothing stays paused |
| `browse_session` | 3 calls, 2 targets so that one attachment may fail, 2 documents in each | one session, one guarded target; stale references only where named; calls end |

Some properties have parts that belong to one question, and are checked under
one name:

| property | parts |
|---|---|
| `SlotsSound` (pool) | `TypeOK`; `SlotExclusive`: a slot has one user |
| `SlotsCounted` (pool) | `PoolBound`; `InflightExact` |
| `LanesKept` (limiter) | `LanesSound`, that is `TypeOK`: no permit is made or lost, and `InteractiveReserve`; `ImplementsLanes`: the refinement of `ReservedLanes` |
| `RecoverySound` (breaker) | `TypeOK`; `ProbeQuota`: the quota and no sitting on a complete verdict; `OutageMemory`: a tripped breaker remembers that it was ejected |
| `RecordSound` (extract) | `TypeOK`; `ClaimMatchesWorker`: the claim is what the worker has in hand |
| `JobSettles` (extract) | a cancelled job reaches its verdict; an ended one is forgotten |
| `Bookkeeping` (crawl) | `TypeOK`; `PagesAccounted`: no page lost or taken twice, counters agree with fates |
| `ReportHonest` (crawl) | `ReportAgrees`: what a poll shows agrees with itself; `CompletedWhole`: completed means nothing left to do |
| `JobEnds` (crawl) | the task ends; the record is evicted, unless a crawl's abort was begun |
| `WaitersSound` (connection) | `TypeOK`; `MapExact` |
| `RenderSound` (interception) | `TypeOK`; `RecordsCover`: what was received and is still paused is on record |
| `ServerSound` (sessions) | `TypeOK`; `OneOfEach`: one session, one target behind it, and every other target is that of a failed attachment |

Where the code itself keeps a promise only in part, the property names the part
it leaves out, and the hazards that lie there are listed without a property:

| property | leaves out |
|---|---|
| `SlotsCounted` (pool) | a slot checked out and not yet counted, which `shutdown` cannot wait for |
| `RecoverySound` (breaker) | it bounds the slots taken, not the live probes; `ExcessExplained` says when these are more |
| `GlobalSlotsGuarded` (breaker) | a future dropped between its permit and its guard |
| `CooldownKept` (breaker) | a host's breaker replaced by a fresh one in the cache |
| `Paced` (limiter) | fetches that began after the request was paced |
| `JobEnds` (crawl) | the record of an aborted crawl, which is the second finding |
| `OthersTold` (connection) | calls between the closed flag and the map, which end by their timeout |
| `CallsEnd` (connection) | a browser that never reads again |
| `NothingUnjudged` (interception) | a connection that is down; a child that never attached |
| `ClosedBeforeDetach`, `PausedResolved` (interception) | a close the socket does not take |
| `ServerSound` (sessions) | targets of failed attachments |
| `RefsFollow` (sessions) | a listener left with a failed attachment (`Deaf`), a snapshot stored late, a lost event |

### Why these bounds are enough

- Pool: with two permits and three clients somebody always waits while two slots
  are in use; three slot names let a slot die and be replaced while its old
  connection is still being closed. `MayExpire` allows the drain deadline.
  The view leaves out only fields of dead names and of places where they are not
  read, and no step changes those alone, so it is sound for liveness too.
- Breaker: two requests are enough for a stale outcome, a lost slot and a
  concurrent probe; the finding needs a third. One host: host breakers do not
  interact but through the global one. A window of two calls and a quota of two
  probes let counts be partial, which a window of one would not; the rate
  arithmetic is the code's. The back-off does not grow in this instance
  (`MaxCooldown` is the base): what holds of its growth is proved for all
  constants. A host has one breaker in this run, so that nothing is evicted: a
  second one makes the instance too large. Evictions happen in the liveness run,
  and the theorems hold for any number of breakers. The liveness run uses no
  view, because the view hides ticks.
- Limiter: three requests on two permits put one in a queue; an interval of two
  ticks separates "at once", "within the interval" and "after it".
- Extract: three URLs are one answered, one under way and one not begun, the
  three kinds a cancellation meets.

- Crawl: with four pages a page can add two links of which one was there
  before, and the limit can fall between what is found and what is answered;
  three depths make the order of the queue matter; three URLs of width two keep
  one waiting, and the last document can come while another is under way.
- Connection: of two calls one can wait for the writer the other holds, answer
  or be told while the other is registered, and `close()` is the third in the
  queue. Ids are not reused, so more calls repeat this.
- Interception: one request and two children make a frame within a frame, a
  worker whose requests pause on the page, a service worker, and a request of
  each; a ring of one loses an event as soon as two come. Requests do not interact.
- Sessions: of three calls one attaches, one waits for the lock and one reads or
  navigates; with two targets an attachment can fail and be repeated; two
  documents make one stale.

`CHECK_DEADLOCK FALSE` is set where the system really stops: the pool when
`shutdown` has returned, a job when it is forgotten, a connection when it is
dropped, a render when it has ended, a session when all its calls have. Breakers and limiter never stop, and their
runs check it.

## Fairness

- Pool: `FairSpec` assumes only that `shutdown` is scheduled. `WaiterServed`
  assumes `ClientFairness`: tokio runs ready tasks, every CDP
  call and fetch has a timeout, and the semaphore is first come first served,
  which without the queue in the model is strong fairness of `GetPermit`.
  `ShutdownReturns` assumes nothing of the clients.
- Breaker: time passes and the breaker keeps being asked (its state is evaluated
  lazily, so a breaker nobody asks never changes). Nothing is assumed of the
  requests: half-open periods end although every probe is lost.
- Limiter: time passes, ready tasks run, a fetch ends by its deadline. The queue
  is in the model, so weak fairness is enough, and no request that waits is
  assumed to give up.
- Extract: time passes. That a cancellation settles assumes the worker runs and
  scrapes end by their deadline; that an ended job is forgotten assumes only the
  clean-up task, so it holds of a job whose worker panicked.
- Crawl: tokio polls ready tasks and drops aborted ones; fetches, extractions
  and model calls have deadlines, and permits come back with the futures that
  hold them; a handler that has begun ends; the clean-up task wakes for ever.
  Nobody has to cancel.
- Connection: tokio polls ready tasks. The browser promises nothing, and
  `CallsEnd` is conditional on its reading what is written
  (`<>[]~stalled`): the write has no deadline, so a call, and every call queued
  behind it, waits as long as a browser that stopped reading.
- Sessions: every command has a timeout, and so has the wait for the page; tokio
  polls ready tasks. Locks are not assumed to be given back: that they are is
  what `CallsEnd` shows. The listener and the browser promise nothing.
- Interception: every step of `fetch_inner` has a deadline, and a render that is
  stuck at the last one is cancelled by its caller; the browser sees the socket
  end. `PausedResolved` is conditional on the browser serving what it is sent
  and on the reaper's write being taken
  (`[]<>(wire = {} /\ phase # "reaping")`). Handlers, events and the pump are
  assumed to do nothing: what they leave paused dies with the target.

## Findings

1. A leak-through attempt holds no global probe, yet recording its outcome
   cancels one: if the global breaker has become half-open meanwhile, the slot
   of another request's probe is freed (`breaker_leak`).
2. DELETE aborts a crawl and writes `Cancelled`, but a task that is being polled
   runs on to its next pending await, and its progress send replaces the whole
   state by `InProgress`. Then it stops: nobody writes the status again, polls
   say "scraping" for ever and the clean-up keeps the record (`crawl_cancel`).
   The batch task checks the status before it writes; `VerdictKept` shows that
   this is enough.

Observed while modelling, without a run of their own:

- `shutdown`'s doc comment promises, on return, no slot in use and an empty
  pool; an `acquire` that already has its permit is counted nowhere until it has
  checked its slot out, and may do so after the last phase has read the
  registry. The process exits soon after.
- `host_limiter.rs:114` speaks of a minimum interval. While a request sleeps
  with its permit `last_request` lies in the future, `elapsed()` saturates at
  zero, and a second request is given a sleep from now instead of from the slot
  handed out: both may start together. What does hold is `Paced`, which excepts
  the requests that began since (`late`).
- `session.rs:303` says that `ensure_attached` never opens two targets. An
  attachment that fails after `createTarget` leaves its target open, and the
  next call opens another; if it fails after the listener was started, the
  listener stays with the first target, and navigations of the second clear no
  references and record no console or network events (`Deaf`).
- `tree` stores the references of the document it read, although the listener
  may have cleared the map for the next one meanwhile (`late`).
- `cdp.rs:1305` counts service workers among the children that attach to the
  page; `cdp.rs:1413` and `cdp.rs:3588` say that they do not. The model lets
  them, and finds them guarded when they do.
- The default session is used for ever although its connection has ended:
  `is_closing` is set by `close` only, and nothing but tests calls it, nor
  `start_cleanup`, of which `docs/docs/crw-browse.md:45` says that it sweeps
  idle sessions.

## Proofs

tlapm checks every theorem for all values of the constants that satisfy the
named assumptions. `PROJECT.json` lists the theorems; each `*Proofs` module
states its inductive invariant `IInv`, proves `Initially`, one lemma per action
or kind of fact, and derives the rest.

- **BrowserPool** (`NoSlotAssumption`, `SizeAssumption`, `MayExpireAssumption`):
  `SlotsAreSound`, `ClosedOnce`, `Clean`, `SlotsAreCounted`, `OpenWhileUsed`,
  `LeaseImplemented`. `SlotExclusive` is not
  inductive alone: one must know which program points hold a slot. The closing
  property needs `ConnOwned` (a connection is in its slot, or with a close task,
  or closed), cleanliness needs `ContextClean` (an idle slot is clean). That at
  most `Size` slots are pooled needs two counts: `PermitsKept`, no more permits
  held than there are, and `PlacesKept`, by which a client that found the free
  list empty already has a place in the pool when it begins to create; that is
  why taking the permit before looking at the list is enough. Nothing is assumed
  of the number of clients: the holders are finitely many because the permits
  are. A connection stays open under its user because until the forced phase a
  guard's terminator is its own (`GuardsOwnTerm`), phase 2 closes only slots out
  of everybody's reach (`TakenApart`), and a slot keeps its connection on the
  way into and out of the list (`Connected`). Each step is then a step of
  `SlotLease` or a stutter.
- **CircuitBreaker** (`ConfigAssumption`, `NameAssumption`):
  `RecoveryIsSound`, `CooldownKeptAlways`, `EvidenceNeeded`, `SlotsAccounted`,
  `GlobalIsGuarded`, `ExcessIsExplained`. A breaker changes
  only by the code's methods, so the invariant is `Sound` of each breaker, and
  the first lemmas show each method keeps it. On top of it `Ledger` follows the
  probe slots: `Tickets` says which tickets a request may hold at each place,
  so that it returns only what it took, and `Accounted` says that what a
  breaker has admitted and not yet heard of (`Debt`) is at most its owners and
  its orphans. The leak-through attempt cancels a slot it never took, which
  makes a debt smaller; the ledger is therefore an inequality. By how much it is
  one is `Excess`, the probes live or counted beyond the slots taken. For it one
  needs that tickets are only of half-open breakers (`HalfTickets`) and what a
  step may do to debt and tickets together (`TicketStep`): admit one probe, or
  settle, which takes at most one off the debt and the settler's ticket with it.
  So the excess grows only when somebody settles who holds no ticket.
- **HostLimiter** (`LimitAssumption`): `PacedAlways` and `LanesAreKept`, which
  joins `LanesAreSound` and `LanesImplemented`. `Conserved` counts permits: free plus held
  is the total, and nobody waits for a free permit. `Timely` relates every
  sleeper to `last_request` and to the starts it knew of.
- **ExtractJobs** (`JobAssumption`): `RecordIsSound`, `LifecycleImplemented`,
  `BillIsExact`.
  Besides `ClaimMatchesWorker` the invariant says which URLs have an answer
  (`Answered`: those behind the worker do, those ahead do not) and that an ended
  job's verdict is that of its answers (`Settled`). `Answered` also shows that
  the worker's test for an already answered URL never succeeds. The bill is
  stated with a running total of the costs; it is kept because a URL that has
  cost anything is "completed" (`Unbilled`), so the one whose outcome is stored
  was not billed before, and its cost is added once to every total from it on.
- **CrawlJobs** (`SiteAssumption`, `RequestAssumption`): `BooksBalance`,
  `LimitsAreKept`, `ReportsAreHonest`, `VerdictsAreKept`. `Counted` says what
  the counters count at every place of the task, as cardinalities of sets of
  pages; `Lined` that the queue holds each waiting page once and that one page
  at most is in hand; `Bounded` that depths along the queue never fall and
  differ by one at most, which is what breadth-first order rests on; `Shown`
  relates the channel to the task. A verdict stays because the task that sent it
  has ended, or because a batch looks before it writes.
- **CdpConn** (`CallsAssumption`): `MapIsExact`, `OthersAreTold`,
  `CallsImplemented`. `Mutex` says who is in the writer's queue, so that a
  caller that leaves takes nobody's place; `Carried` follows a command through
  socket, browser and channel (it is in one place, and an answer in the channel
  is the browser's); `Ending` says what the drain has yet to do: every waiter
  but the stragglers is unread, among the keys, or not in the map. Each step of
  the connection is then a step of `CdpCalls` or a stutter.
- **Interception** (`RenderAssumption`): `RecordsAreSound`,
  `NothingGoesUnjudged`, `FramesAreGuarded`, `TargetIsClosedFirst`. A command
  and an event cross on their way, so none of the properties is inductive alone.
  `Unheard` says that an event happens once and before the pump acts on it,
  `Addressed` that a command goes to a thing of its kind, `Frames` and `Asked`
  what is known of each child and each request at every point of its way round
  (ring, pump, wire, browser, answer), `Ends` what remains to be done of the
  render: from the moment it is closing and while the connection is up, the
  target is closed or the command to close it is on the wire.
- **BrowseSession** (`BrowseAssumption`): `ServerIsSound`, `GuardComesFirst`,
  `ReferencesFollow`. `Locks` says who is at work under the two locks, and that
  what they protect is not there yet; from it `OneTarget`, `Guarded` and
  `Listening` follow the target in hand until it is recorded, and `Referring`
  needs all of them: references exist only once a target is recorded, and from
  then on nothing attaches and the listener stays whose it is.

Each inductive invariant was also checked by TLC on the run's instance before it
was proved.

Only model-checked: every liveness property (`WaiterServed`, `ShutdownReturns`,
`HalfOpenResolves`, `Served`, `JobSettles`, `JobEnds`, both `CallsEnd`,
`PausedResolved`), since the prover reasons about neither fairness nor
`ENABLED`; and the two findings, which are counterexamples.

## Not modelled

- Pool: metrics, the phase label of the recycle token, a second call of
  `shutdown` (there is one caller), the release of a slot whose pool was dropped
  (the pool lives as long as the process).
- Breaker: `reset` and `reset_all`, which only tests call; the cache's own
  policy beyond "an entry may go at any time"; the tier's name and reasons.
- Limiter: the table of limiters, whose entries go only after an idle hour; the
  `BatchGate` in front of a pool, which takes its permits in the same two steps.
- Extract: the merged document, tokens and evidence carried along with a result.
- Crawl: what robots.txt says (any page may be forbidden), the parsing and
  filtering of links, `discover_urls` and sitemaps, webhooks.
- Connection: the WebSocket handshake, the parsing of messages, `/json/version`.
- Interception: the auth, capture and idle pumps, which only observe or answer
  their own events; the retry in another country, which is a second render; what
  the page is asked for once it is there.
- Render ladder beyond its use of breakers and limiter: one request goes through
  its tiers in order, with arithmetic on the time left and rules about what
  counts as a good page; no other task reads its state.
- Page cache: a moka map read once and written once per scrape. An older page
  stored late is still no older than the reader allows, since the reader checks
  its age.
- Interactive sessions: the tools that only read the page or act on one element,
  whose effect is the page going elsewhere; the console and network buffers; the
  connection of its own that `screenshot` may use; `begin_action`, the TTL sweep
  and `close`, which only tests call.
- Everything under `not_modelled` in `PROJECT.json`, each with its reason: text
  processing, stateless protocol bridges and clients.
