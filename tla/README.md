# Verification of CLEXWHALE_BOT

The bot watches the Hyperliquid exchange, detects what large traders ("whales") do and
sends Telegram alerts to administrators and, in public mode, to subscribers. It is one
Python process: an asyncio event loop, one PostgreSQL or SQLite database, websockets and REST calls to
the exchange, long polling to Telegram. What makes it hard is not parallelism but
*awaits*: every `await` is a place where a worker, a loop, a websocket reader or a
command handler may change what the suspended task has already read.

The modules here are translated from the code under `src/app`. In all of them one action
is the code between two awaits of one task; a task that suspends is resumed by a later
action, and everything else may happen in between.

- [Inventory](#inventory)
- [Modules](#modules)
- [Runs](#runs)
- [Fairness](#fairness)
- [What is proved](#what-is-proved)
- [Disagreements between code and comments](#disagreements-between-code-and-comments)
- [What is left out](#what-is-left-out)
- [Plan](#plan)

## Inventory

| Component | Code | State | Operations | What is hard |
|---|---|---|---|---|
| Detection pipeline | `whale/engine.py` `_emit`, `_already_recorded`, `_persist`; `whale/dedup.py` | identity and cooldown caches, write lock, `whale_events` | emit, warm, purge | several tasks emit; gate query and insert are apart; commits whose answer is lost; restarts |
| Caches and keys | `utils/cache.py`, `whale/dedup.py` | TTL and LRU entries | get, set, age, pop, purge | eviction at `maxsize`, entries that expire |
| Alert filters | `whale/filters.py` | none | predicates over an event and the configuration | thresholds |
| Ingest queue and workers | `whale/engine.py` `_offer`, `_worker` | bounded queue | offer, process a trade or a frame | drops at the limit, FIFO per wallet |
| Position lifecycle | `whale/tracker.py` `apply_positions`, `whale/engine.py` `_position_loop` | positions per wallet | apply a clearinghouse snapshot | snapshots that arrive out of order, baselines |
| Order tracking | `whale/tracker.py` `apply_orders`, `apply_order_state`; `whale/detector.py`; `whale/engine.py` `_ingest_open_orders` | resting orders per wallet | frames, snapshots, status lookups | live frames against snapshots in flight |
| Wallet tracker | `whale/tracker.py` | scores, schedule | touch, rank, prune | capacity |
| Feed control | `whale/engine.py` universe loop, focus loop, `_on_config_change` | universe, focus sockets | refresh, apply slate, apply pause | loop against handler; connections per IP |
| Websocket client | `hyperliquid/websocket.py` | desired and active sets, socket | subscribe, unsubscribe, replace, replay, reconnect | replay against callers, sends that return late |
| REST client, limits | `hyperliquid/rest.py`, `utils/ratelimit.py`, `utils/backoff.py` | sliding window of weights | acquire, post with retries | window bound, retries |
| Detector | `whale/detector.py`, `whale/lifecycle.py` | none | snapshots and frames to events | boundaries |
| Parsers, models | `hyperliquid/parser.py`, `models.py` | none | decode | — |
| Alert delivery | `services/alert_service.py` | queue, buckets, thread roots, `alert_history` | enqueue, dispatch, send twice, record, warm | timeouts that hide a delivery, deleted roots, restarts |
| Alert recipients | `services/alert_service.py` `_resolve_recipients` | cached list and its time | resolve, invalidate | a handler invalidates during a resolve |
| Settings | `services/settings_service.py` | configuration snapshot | set, reload, reset, notify | failing writes, listeners |
| Administrators | `services/admin_service.py`, `bot/middleware/permissions.py` | roles | add, remove, refresh | commit without refresh |
| Conversations | `bot/handlers/*`, `bot/application.py` | pending prompts | commands, callbacks | expiry, stale buttons |
| Rendering | `bot/messages`, `bot/views.py`, `bot/keyboards` | none | texts | — |
| Runtime | `main.py`, `container.py` | started components | start, retry, stop | order, partial failure |
| Database | `database/*` | tables | sessions and queries | commit without an answer |
| Configuration, logging | `config.py`, `utils/logging.py` | constants | — | — |

How they meet: websocket readers hand messages to the engine (`_on_market_message`,
`_on_user_message`), which puts them into the ingest queue; workers and poll loops
derive events and call `_emit`; `_emit` calls `AlertService.enqueue` through a callback
that never suspends; the one sender task takes jobs from there. Command handlers run one
at a time (the application does not process updates concurrently) and reach the engine by
a settings listener and the alert service by `invalidate_recipients`.

What makes each component correct:

- *pipeline*: one fact of the exchange is recorded once an hour at most, however often it
  is delivered; no alert without a row; the lock is always released;
- *delivery*: order of detection, no duplicate that the bot could have known of, replies
  in the right thread, a history that tells the truth;
- *recipients*: a stale list is bounded in time, in both directions (who must not be
  reached, who must be);
- *feed control*: the connection limit, and agreement with a configuration that stays;
- *websocket client*: no wanted subscription lost, no unwanted one hidden;
- *order tracking*: endings that are told are true, and the ending of an order that was
  announced is told;
- *position lifecycle*: no change told between positions that there never were, and the told
  changes add up;
- *REST*: never more weight than the budget in any minute;
- *ingest*: one alert per execution however many feeds deliver it, and nothing in an alert or
  in the positions table that was not so on the exchange; watched wallets stay tracked;
- *settings, administrators, conversations*: memory follows the tables, what was set survives
  a restart, and nobody writes on a right that was taken away since;
- *runtime*: nothing runs without what it uses, and every end is a clean one.

`PROJECT.json` lists the hazards at their lines, each with the properties that would
catch it. Four that no property covers are named under
[What is left out](#what-is-left-out).

## Modules

| Module | Models | Proofs | Instance |
|---|---|---|---|
| `RecordOnce` | abstract: an observation is recorded once per `IDENTITY_TTL` | | |
| `EmitPipeline` | the detection pipeline; implements `RecordOnce` | `EmitPipelineProofs` | `MCEmitPipeline` |
| `TellOnce` | abstract: alerts are told one at a time, in order, and once | | |
| `AlertDelivery` | queue, sender, threads, history; implements `TellOnce` | `AlertDeliveryProofs` | `AlertDelivery.cfg` |
| `RecipientCache` | who an alert goes to | `AlertDeliveryProofs` | `MCRecipientCache` |
| `FeedControl` | what the engine keeps connected | `ConnectionProofs` | `MCFeedControl` |
| `WsClient` | one websocket client | `ConnectionProofs` | `MCWsClient` |
| `OrderTracking` | resting orders of a wallet and what is told of them | `OrderTrackingProofs` | `MCOrderTracking` |
| `PositionTracking` | positions of a wallet and what is told of them | `PositionTrackingProofs` | `MCPositionTracking` |
| `Whale` | the stateless rules: event kinds, filter, keys, detector | `IngestProofs` | |
| `Ingest` | feeds, ingest queue, workers, tracker capacity, positions table; uses `Whale`, implements `RecordOnce` | `IngestProofs` | |
| `WhaleChecks` | what the rules of `Whale` promise, over bounded inputs; extends `Ingest` | `IngestProofs` | `MCIngest` |
| `SlidingWindow` | abstract: no minute holds more weight than the budget, and each request counts for a minute | | |
| `RateLimiter` | the REST budget and the requests under it; implements `SlidingWindow` | `RateLimiterProofs` | `MCRateLimiter` |
| `Console` | settings, administrators, permissions, commands, buttons and prompts | `ConsoleProofs` | `MCConsole` |
| `Runtime` | start and stop of the process | `ConnectionProofs` | `MCRuntime` |

Components are proved about together where they are neighbours: `AlertDeliveryProofs` extends
`AlertDelivery` and `RecipientCache`, `ConnectionProofs` extends `WsClient`, `FeedControl` and
`Runtime`. For that the definitions every module has are named for the component in the guests:
`RecipientSpec`, `FeedSpec`, `FeedTypeOK`, `RuntimeSpec`, `StartRuntime`, `StopRuntime`.

They are joined where one hands over to the next and abstract the neighbour there.
`Ingest` follows an execution from the feeds to the row and the alert with a pipeline that
never forgets; `EmitPipeline` has the forgetting: cooldown, expiry, eviction, durable gate,
restarts. It ends in the alert queue whose consumer (`Deliver`) is any delivery or failure;
`AlertDelivery` starts from that queue and takes its recipients as any set;
`RecipientCache` says which set. `FeedControl` calls `replace_subscriptions`, whose frames
are in `WsClient`. `OrderTracking` and `PositionTracking` end where an event is handed to
`_emit`. The requests that loops and workers make are those of `RateLimiter`. `Console`
says what a handler writes; what `FeedControl`, `RecipientCache` and `Ingest` do with a
changed configuration is theirs. `Runtime` brings all of them up and takes them down, as
parts that are up or not.

**EmitPipeline.** `pc[w]` is the await at which a task stands in `_emit`: the gate query,
the wait for `_write_lock`, the transaction, the return of the commit. `Admit` is
`filter.evaluate` and `Deduplicator.check` in one step, because nothing suspends between
the check and the stamp; `Suppress` is the branch of `check` that stamps the identity
although the cooldown rejects the event. `CommitUnknown` is a commit that took effect and
raised. `GiveUp` is `dedup.forget`. Ages replace clocks: they are counted up to `TTL + 1`,
"older than the TTL". The caches are shared with wallets outside the model, so `Evict`
takes an oldest entry at any time. *Timing assumption*: an emission, which is a few
database calls, ends before its identity entry has aged by `IDENTITY_TTL` (an hour) or
been pushed out by 16384 later ones (`InFlight` guards `Tick` and `Evict`, nothing else).
`created_at` is taken as the commit's time, and the cooldown is a constant of an instance.
Counters are omitted.

**AlertDelivery.** `stage` is the sender's await. Telegram may accept, accept without an
answer, refuse, report a missing reply root, or be blocked. `_send`'s two rounds are
`attempt1` and `attempt2`. Which chat has no token left is open in each round; whether a pause
drops an alert before it is queued is in `Ingest`. `ThreadExpires` stands for
`THREAD_TTL` and `THREAD_MAX`; a restart rebuilds the roots from the history rows with
`_warm_threads`' first-row-wins rule.

**RecipientCache.** `sender` is the await inside `_resolve_recipients`, `draft` what it has
gathered; `handler` the await inside `/start`, `/stop`, `/public`, `/addadmin`,
`/removeadmin`, the settings reset. A handler commits and then invalidates. `offFor`,
`outFor`, `dueFor` are histories: for how long a fact has held. The properties speak of a
list while `_resolve_recipients` would serve it (age below the TTL); a resolve that itself
takes longer than the TTL hands out its list once, which they do not cover. A failed write
of public mode changes nothing and is left out.

**FeedControl.** The engine is running: `_config_changed` wakes the universe loop, and as
`UNIVERSE_REFRESH` may end at any time the event itself is not needed. `_paused_seen`
always equals `paused` outside the handler. REST answers or gives nothing; it never
raises. The two tasks of `_apply_focus_slate` share `_user_ws` and forget sockets from it
with a wait after each; a `KeyError` on a socket the other task took ends the call.

**WsClient.** `link` is the connection as it is, `connected` as the client believes;
`server` is what the exchange has subscribed. A send puts its frame on the wire at once and
may return late. Between two keys a task may yield even when it did not send, which is more
interleaving than the code has.

**OrderTracking.** The order book of the exchange is the environment; frames reach the
worker late or never (full queue, reconnecting socket, wallet out of the slate).
`ApplyOrders` installs the snapshot as the live dictionary and returns that very object:
`same` says that a reader still looks at it, and `now` follows the frames while its events
are emitted. Prices are equal, so the notional is the size; sizes are left out of the told
events, and the dust limit is ignored. The first emission of a snapshot is a step of its own
although the code reaches its await in the step before: nothing it reads changes between.
`overlooked` is a history of what the code leaves out on purpose. A frame slot holds one
frame; a frame that does not fit is one of the lost.

**PositionTracking.** The trader's positions are the environment. `Poll` is the request of a
reader, the poll loop or a worker; `Apply` is `apply_positions` and `_ingest_account_state` up
to its first await, which is in the emission of the first change; `Report` is each later
round of the coin loop. `apply_positions` returns the old dictionary as a copy and the new one
as it is, but no code changes it in place, so a reader keeps both sizes (`prev`, `snap`). The
mark price is constant, so the notional is the size of the change; what an event says beside
its two sizes (context, profit, leverage) is left out. `had` and `ledger` are histories; a
reader whose wallet was dropped meanwhile no longer counts towards the new ledger (`current`).
A failed request changes only the wallet's schedule and is no step. A wallet evicted by
`touch` itself is `Apply` followed by `Forget`. Nothing makes a reader come to this wallet: the
poll loop serves the best-scored wallets that are due and cuts the list (tracker.py:335-343), it
does nothing under a pause (engine.py:926), and a dropped wallet is in no list. So `Settles` has
the reading as its premise: from whatever was applied in whatever order, a reader that goes on
reading the wallet brings what is tracked, and what was told of it, to what is held.

**Whale and Ingest.** `Whale` holds operators only: what passes the filter, which two events are
one, what the detector reads out of an execution, a liquidation, trigger orders, a book. An event
is a record of the fields these rules read. `Ingest` puts them to work. The exchange matches
executions (`market`, in order), so what a wallet held when is known (`HeldAfter`); an execution
may be delivered on the market feed and on either participant's, in any order and repeatedly.
A worker suspends in `clearinghouseState` (`fetch`) and in the write (`persist`); the pause
between the two is `context`, where the detector reads the tracker again. The answer to a
request is any position the wallet had since it was sent. The last part of `Whale` is about
prefilters: of each source of events the threshold the engine hands to its detector (`Prefilter`),
the figure the detector compares with it (`Compared`) and the figure of the event it makes
(`OrderNotional`), which is what the filter asks. For an order they differ, as `_as_execution`
measures what executed. Within one source both take the same price, so sizes stand for values. There is one coin with price 1, so a
size is its value. Scores are left open between wallets that traded, while a wallet that never
did scores 0: that is what `_enforce_capacity` turns on. `max(8, ...)` wallets become two. Jobs
of orders and books are left to `OrderTracking` and to `FromBook`, the poll loop to
`PositionTracking`, the cooldown and the durable gate to `EmitPipeline`.

**RateLimiter.** `queue` is the asyncio lock with its holder first; `call[c]` is the request a task
is in. `Expired`, `Kept` and `KeptSpent` are `_evict`, which every reader of the books runs first.
A holder sleeps with the lock (`sleep`), while `try_acquire` takes from the same books without
it. Times are ages and remaining times, so nothing grows; the smallest sleep of 0.01 s is "not
yet due". `recent` is a history: what was admitted inside the window, whatever `_events` says.
After admission a request is sent up to `MaxRetries` times (`Answered`, `Throttled`, `Failed`,
`Again`); `Cancel` is the engine's stop.

**Console.** A handler is a list of writes (`todo`) that commit to the tables and then bring what
they wrote back into memory, as `set_value`, `add_coin`, `reset_to_defaults` and the rest do. A
request is accepted on memory: capability, pause, prompt. `pending` is `user_data`, where a
question waits across other requests. A commit may fail, or take effect and raise; a refresh
may fail after it; the process may stop between any two. `Loaded` is both services' `load`
with its seeding. Every switch of `_ALERT_TOGGLES` is written alike, so `enable_order_alerts`
stands for them; audit rows go with the same session and decide nothing. `Void` keeps the
difference between coins (asked of the table) and `all_coins` (asked of memory).

**Runtime.** `todo` is what is left of `Runtime.start` or `stop`, a step per awaited call; `up` is
the set of parts that are up. Any step of start may raise (`Fail`), the exchange's two only
degrade (`Degrade`), and uvicorn's failure to bind is a `SystemExit` that no handler catches
(`CannotBind`). A handler of an update runs beside, opens the pool with its session, and may
apply a configuration to the engine. uvicorn takes the signal as well (`ServerLeaves`).
`DB_WAIT_ATTEMPTS` is 2 instead of 12.

## Runs

| Run | Instance | Distinct states | What it shows |
|---|---|---|---|
| `emit` | 2 emitters, 2 observations sharing a cooldown key, TTL 1, 2 rows | 260 k | exclusion, one alert per row, implementation of `RecordOnce`, every emission ends |
| `delivery` | a subscriber and an administrator, 1 thread and alerts without one, 2 alerts, 1 deletion | 577 k | replies stay in their thread, order, implementation of `TellOnce`, a truthful history, the only duplicates are unacknowledged ones, every job leaves the queue |
| `recipients` | main administrator and one user, TTL 2, failing database | 4.0 M | stop and privacy honoured, administrators reached, within the TTL |
| `feeds` | 3 wallets, slate of 2, 2 coins, 2 changes | 425 k | connection limit; feeds and slate follow the configuration |
| `ws` | 2 keys, 2 callers, cap 1, 3 calls, 2 lost connections | 80 k | nothing wanted is lost, nothing unwanted hidden, all is subscribed in the end |
| `orders` | one order of 3 units, threshold 2, two readers, 1 drop | 4.7 M | endings are true and told |
| `positions` | 2 coins, sizes -2 to 2, threshold 2, two readers, 2 moves, 1 drop | 1.1 M | only what was held is told, the changes add up; if a reader keeps coming, the tracked position settles |
| `ingest` | 3 wallets of which 2 are kept, 2 executions, 2 frames, 2 workers, queue of 1, 2 changes | 281 k | one alert per execution, alerts and rows are true, watched wallets stay tracked, jobs end, the rules hold |
| `limiter` | 2 waiting and 2 polling requests of weight 1 and 3, budget 4, minute of 3 ticks, timeout 2 | 81 k | no window overspent, no budget withheld, implementation of `SlidingWindow`, nobody waits beyond its timeout, every request ends |
| `console` | 2 users, 2 coins, 1 wallet, 2 environments, failing database, 3 requests | 1.4 M | memory follows the tables, restarts keep what was set, no stale authority, a pause freezes |
| `runtime` | 2 attempts at the database, 2 updates | 3.4 k | nothing runs without what it uses, every end is clean |
| `emit_retry` | 2 observations with cooldown keys of their own | | a counterexample, see [below](#disagreements-between-code-and-comments) |

Why the bounds are enough for what they show. Two emitters are needed for a race and two
observations for a shared cooldown; a TTL of 1 distinguishes now, within and beyond. Two
rows let an observation be recorded, expire and be recorded again. In `delivery` two alerts and a
restart let a thread have a root, a reply and a rebuilt root, and two chats one that answers
while the other does not. One user and the main administrator
are every role a recipient can have, and users do not interact; TTL 2 lets the age of the
draft differ from that of the cache. A slate of two with three candidates can be replaced
while both tasks close a socket, which is the worst case for connections: the limit is exact
(with `Limit + 1` the run fails). Two callers over a cap of one compete for it. An order of 3
units with threshold 2 can be partially filled above and below the threshold, and the orders
of a wallet are independent but for the todo sets; the proofs cover any number. In `positions`
two moves of one coin let a reader overtake another's snapshot, two coins let a reader have a
change left to tell while the other applies, and a size of 2 separates an opening and a
closing (told) from a change of 1 (not told). In `ingest` two executions share a seller, one of
them is a liquidation, and three participants compete for two places of the tracker; two frames
are a repetition on one feed, the two feeds of one execution, or two executions in two workers;
the three configurations differ in what the filter, the pins and the pause look at. In `limiter`
a request of weight 3 and two of weight 1 under 4 can fill a window, starve the heavy one and
leave room for the light one; with a timeout below the window a waiter gives up while its
events are still counted. In `console` three requests are a promotion or a question, the
demotion or pause, and the answer. `runtime` has two updates because the second is still
waiting when `telegram.stop` meets the first one's handler.

Deadlock is checked everywhere except in `WsClient`, `Ingest` and `Runtime`, whose behaviours
really end: the client is stopped and its callers have used up their calls; every frame was
delivered and worked off; the process has exited.

Every property is broken by a mutant of the code: `*Unstamped`, `*Requeues`,
`*Backdated`, `AnswerUnchecked`, `ServeOversleeps` and so on, kept next to the definition they change.

## Fairness

Liveness is claimed under what the code's scheduling gives, no more:

- `EmitPipeline`: database calls return or raise (the pool and the driver have timeouts):
  weak fairness on each of an emitter's awaits; `asyncio.Lock` is FIFO, so a waiter that
  is passed over finitely often gets it: strong fairness on `TakeLock`.
- `AlertDelivery`: the sender task is scheduled and Telegram answers or times out: weak
  fairness on `Sender` as a whole, none on the environment.
- `FeedControl`: loops wake up, requests and `stop()` end: weak fairness on each task. The
  handler's `Change` has none.
- `WsClient`: the reader task runs and a connection attempt ends. Callers have none: what
  they asked for must not depend on their going on.
- `PositionTracking`: a reader that has applied a snapshot goes on through its coins, as each
  emission ends: weak fairness on `Ingest`. None on `Poll`: a wallet with a low score may never be
  read again, nor one that was dropped, nor any under a pause. `Settles` supposes the reading
  (`[]<><<Poll(r)>>_vars`, of any one reader) and promises nothing without it; both kinds of
  behaviour are among those TLC checks.
- `RateLimiter`: time passes (weak fairness on `Tick`), a task that is due runs (`Serve`), a
  request is answered or times out (`Exchange`), a sleep ends (`Again`). That polls leave any
  budget over is not assumed: a starved waiter ends by its timeout.
- `Ingest`: weak fairness on each worker, whose requests and commits time out. Feeds, settings
  and the exchange have none.
- `Runtime`: weak fairness on start, on stop and on the handlers, since every awaited call of
  theirs ends: the clients have timeouts and stop gives the server ten seconds. That the
  migrations end is assumed. Signals have none.

`RecipientCache`, `Console` and `OrderTracking` have no liveness property: the first's bounds are in
time, a handler of the second may be cut off by any error, and the third's promise is that an
ending always has somebody who will tell it.

## What is proved

The proofs hold for every value of the constants that meets the named assumptions of the
modules. Each property is one TLC had found to hold on the instance above.

- **EmitPipelineProofs** (`TypeCorrect`, `Exclusion`, `Implementation`, `AlertsHaveRows`). The invariant is the
  type invariant with *Carrying* (past the memory gate there is an observation),
  `OneEmitterPerObservation`, *Fresh* (the identity of an observation in flight is in the
  cache and not expired) and *GateHolds* (while an emitter is past the durable gate and has not
  committed, no live row of its observation exists, unless its gate query failed). Exclusion needs *Fresh*: the second emitter is
  stopped by the first one's stamp, and it is here that the timing assumption is used. The
  refinement needs both: a `Commit` is a `Record` because the row cannot have appeared since
  the gate, as nobody else carries the observation. `OneAlertPerRow` is inductive with the
  invariant: the jobs of an observation in the queue, its alerts sent and the emitters that
  hold its stored row never exceed its rows; Exclusion makes the last at most one, and `Return`
  moves it into the queue.
- **AlertDeliveryProofs** (`OrderKept`, `DeliveryImplements`, `ThreadsKept`, `HistoryKept`). *OrderInv*: job numbers grow
  along the queue, and all that arrived comes before all that waits; a chat the job at hand has
  not been tried on has only older alerts, and one it failed on once has at most one copy, the
  last message of the chat, not acknowledged. So the second attempt cannot make a third copy,
  nor a second one after an acknowledgement. The same invariant says that nothing in any chat is later
  than the job at hand, which `TellOnce` asks for across chats and `InOrder` does not: an arrival is a
  `Tell`, an enqueued job a `Detect`, everything else a stutter. *ThreadInv*: every thread root in memory, and the
  root and reply of the send at hand, is a message of that very thread in that very chat; every
  result of the job at hand and every history row names an acknowledged message of its alert.
  A restart rebuilds the roots from such rows, whichever the cut leaves out.
- **AlertDeliveryProofs** on `RecipientCache` (`CacheTypeCorrect`, `StopIsHonoured`,
  `PrivateIsHonoured`, `AdminsAreReached`). All times grow by `Tick` only, those of facts and those
  of lists alike. So whoever was not opted out when the opt-outs were read has been out no longer
  than the draft is old, and this passes to the list made from it. The invariant says so for each
  of the resolver's awaits.
- **ConnectionProofs** on `WsClient` (`WsTypeCorrect`, `NothingLost`, `LeaksAreActive`). *LinkInv*
  ties the connection to `connected` and the reader's place; with it `NoLostSubscription` is
  inductive. *LeakInv* adds the keys of sends that have not returned to `_active`.
- **ConnectionProofs** on `FeedControl` (`FeedTypeCorrect`, `WithinConnections`). The invariant is
  that `Cardinality(userWs)` plus the sockets being closed never exceeds `Limit + 1`: a slate is
  filled only by a task that has stopped closing, and a socket is forgotten before it is closed.
- **ConnectionProofs** on `Runtime` (`RuntimeNeedsAreUp`). `NeedsAreUp` alone is not inductive: a step
  of start brings a part up without looking whether what it needs is there. *Came* says that while
  start is at its k-th step everything the earlier ones bring is up (but for `http`, which may have
  left by itself), *Went* that of the parts that need others those which the done steps of stop take
  down are down, and that the tasks do not outlive the ingest.
- **OrderTrackingProofs** (`TypeCorrect`, `Truthful`, `EndsTold`). *FramesFit*: a final status
  in a frame is still the order's status, however late the frame; that makes told endings
  true. *ReadersFit*: a reader that looks at the live dictionary sees what is tracked. For
  `EndsTold` the property is strengthened to orders that are *about* to be announced, since
  one may vanish before its announcement is made; *ToldFit* gives that an announced order was
  placed above the threshold, so a frame with its end is never below it.
- **PositionTrackingProofs** (`TypeCorrect`, `Honest`, `Balanced`). Everything the tracking holds was held:
  the tracked positions if there is a baseline, a snapshot under way, and both ends of the
  changes a reader has left. The baseline is what makes it inductive: without it `tracked` is
  the empty dictionary, which nobody need ever have held. `Balanced` (*LedgerInv*): what a reader has
  still to tell of a coin changes with what is tracked or with what was told, by the same amount, and
  a reader whose wallet was dropped has nothing to tell towards the next baseline. The sum over
  any finite number of readers is the number of units they owe one way less those owed the other
  way; how it changes with one reader's share is a lemma about the cardinality of disjoint sets.
- **IngestProofs** (`IngestOneAlertPerExecution`, `IngestAlertIsTrue`, `IngestRowWasHeld`,
  `IngestWatchedAreTracked`). What was matched is never undone, so a position once held (`Past`) stays
  one. *FeedInv*: every job in the queue is of an execution there was, and whatever the tracker
  holds of a wallet is a position of its past. *WorkersInv*: so is the job of a worker, and the event
  it is about to write is true. That needs no order between workers: an event made from a stale
  snapshot is still about a position there was, which is just what `AlertIsTrue` promises. *ClaimsInv*:
  the identity of a row, or of a worker in its write, is in the cache, and no other row or worker
  has it; `check` stamps it before the worker suspends. *RowsInv*: rows are true and written once,
  the alerted ones among them. `WatchedAreTracked` needs that pinned wallets survive eviction, pruning
  and `replace_watchlist` in whichever order wallets are touched. Registries and positions are
  recursive functions; that they have values is proved from the least number without one.
  `IngestRecordsOnce`: with rows that are never too old to count, `Ingest` implements the same
  `RecordOnce` as `EmitPipeline`, for the identities of trades and liquidations. So the
  two models of `_emit` promise one and the same thing: `Ingest` for ever and without exception,
  `EmitPipeline` within `IDENTITY_TTL` and unless the gate's query failed. A write is a `Record` because no row has the identity that its worker holds.
- **IngestProofs** on the rules of `Whale` (`FilterKeepsItsPromises`, `PrefiltersDropNothing`,
  `FeedsTellAlike`, `TenfoldIsNews`, `FirstLevelsAreTold`, `BookIsTold`, `IngestRulesHold`). What `RulesHold` checks over
  small sets is proved for any thresholds, switches, executions, contexts, finite sets of trigger orders
  and books of any size, and `RulesHold` follows from that. `PrefiltersDropNothing`: executions,
  liquidations and books are prefiltered by the very threshold the filter applies to them, position
  changes and orders by the lowest; and of an order the event's figure is at most the one compared,
  because a frame is admitted by the larger of what rests and what was ordered, of which what
  executed is a part. It supposes that no size exceeds what was ordered. A part that a *snapshot*
  shows to have executed is the exception, and `LargePartIsDropped` one that is dropped, see
  [below](#disagreements-between-code-and-comments). A bucket is the number of decades that a value
  has reached, so ten times the value has reached one more. `FromBook` is a recursive function over
  the levels; *FoundTo* says what it holds after the first of them (the large ones so far, at most
  `MaxEvents`), and *LargeAdd* that the large bids and asks add up. For the direction of a fill the
  lemma is that, where the words say that something closes, the first side named decides, and that
  there is none otherwise; the table of examples is its cases.
- **ConsoleProofs** (`ConsoleFull`, `ConsoleMemoryIsDatabase`, `ConsoleRestartRestores`,
  `ConsoleNoStaleAuthority`, `ConsolePausedIsFrozen`). *Full*: every setting is present and in the
  range of its column, in the tables and in memory. That is why `Loaded` seeds nothing when a process
  restarts and memory comes back as it was. *MayWrite*: what a handler has left to write it may
  write on memory *as it is now*, not as it was when the request was accepted. Requests are handled
  one after another and a list of several writes is about coins only, so nothing a handler has
  written takes its own rights away before it ends.
- **RateLimiterProofs** (`NoWindowOverspent`, `BudgetIsNotWithheld`, `WindowSlides`,
  `NobodyOverstays`). *BooksInv*: what was admitted
  inside the window is the end of `_events`, everything before it is exactly a window old, ages
  never increase along the books, and `_spent` is the sum of their weights. Then `_evict`
  removes just what left the window and subtracts just its weight, so what `Fits` compares with
  the budget is the sum over the window, whoever asks. That gives both directions, no window overspent
  and no budget withheld, and the refinement: the window of `SlidingWindow` is what `_evict` would
  leave of the books, so an eviction alone is a stutter, an admission is an `Admit`, and a tick, which
  does not touch `_events`, is a `Pass`. The sums are a recursive function; that it
  exists, that it is monotone, and how it changes with an append, a suffix and a tick is proved
  from the least length for which it would fail, as induction rules cannot be instantiated.
  *WaitInv*: whoever waits is in the queue once, the queue is ordered by the time that is left
  (timeouts are equal and the lock is FIFO), and nobody sleeps beyond its own. A tick needs the
  holder to be asleep, so the holder has time left, and so has everybody behind it.

The theorems of type correctness (`TypeCorrect` of the pipeline, the order and the position tracking,
`WsTypeCorrect`, with the cap on subscriptions, `CacheTypeCorrect`, `FeedTypeCorrect`), `ConsoleFull` and the
theorems about rules other than `IngestRulesHold` state no property of a run: the former are
strengthenings that other theorems rest on, the latter go beyond the bounded sets of `RulesHold`.
`IngestRecordsOnce` states `RecordsOnce` of `Ingest`, which no run checks beside `OneAlertPerExecution`:
it says of steps what that says of states.

The assumptions, besides constants being numbers or subsets of what they name: in `Ingest` an
execution has two different participants and the one that is forced, if any, is among them (the
exchange does not match a wallet with itself); watch lists are finite; `None` is no number, wallet
or side. In `PositionTracking` the readers are finitely many (`FETCH_WORKERS` and the poll loop).
In `Console` the environment holds what its parser lets through and `NotSet` is no setting. In
`RateLimiter` weights are positive. Timing is assumed in `EmitPipeline` only, as said there.

So every invariant, action property and refinement that holds in the runs is proved. Every liveness
property (`EmissionEnds`, `JobLeaves`, `FeedsFollow`, `SlateDrains`, `GetsSubscribed`, `Settles`,
`JobsEnd`, `EveryCallEnds`, `StopsClean`) stays with TLC: liveness under fairness and `ENABLED` are out
of the prover's reach. `RECURSIVE` operators are too; the modules with proofs use recursive functions, and
what is said of these for every size is proved from the least size that fails it. `RulesHold` looks at
the rules before the first execution only, where TLC evaluates it once per configuration; its theorem
proves the rules themselves, which depend on no state.

## Disagreements between code and comments

`emit_retry` is a run in which TLC finds the counterexample: after a failed write, "forget the
identity so a retry can still alert" (engine.py:744), but `forget` leaves the cooldown entry that
`check` stamped, and the retry is suppressed.

Noted while modelling, without a run.

Alerts:

- A thread root that was reported gone is installed again: "only remember this one when there is
  nothing to reply to yet" (alert_service.py:970), but `_dispatch` passes on the root it looked up
  before (:971). A root found missing on the second attempt costs the alert.
- An invalidation between two awaits of `_resolve_recipients` is undone when it stores its list
  (alert_service.py:1180), although `/stop` promises that nothing more is delivered; `/stop` also
  confirms when its write failed.
- A pause does not hold back alerts already queued. It is read when an alert is queued
  (alert_service.py:279) while the filter looks at `monitoring_enabled` only (filters.py:120): a job
  queued before the pause is recorded and its identity spent although its alert is dropped.
- A redeploy loses queued alerts while the durable gate blocks their repetition.

Detection:

- `min_notional` "is only a cheap prefilter so we do not allocate events for retail-sized activity"
  (detector.py:205-207), but `from_open_order` compares what is *left* of an order with it (:812) and
  measures what *executed* afterwards (:852-857). Two units of an order of three execute, every threshold
  is two, one unit rests: the snapshot is applied, nothing is told, and the next snapshot shows no
  difference. A frame of the same change is told, as it is admitted by the larger of both figures.
  `LargePartIsDropped`, a part of `RulesHold`, is this case.
- "A close is terminal; a later entry is a *new* OPENED position" (lifecycle.py:109), and a
  liquidation may write no position since that "would restore a position the exchange has just closed"
  (:142-143). A trade may: its worker holds an event stated from a snapshot with a position while another
  worker applies a flat one, tells `POSITION_CLOSED` and closes the row; then the first writes the row
  open again (engine.py:853), with nothing held. `RowWasHeld` excludes only a side the wallet
  never had.
- The side of a liquidated wallet is read off the fill even when the fill is its counterparty's
  (detector.py:581-592 with :502-511, against the docstring at :482-484). `AlertIsTrue` says so for
  the wallet's own feed only.
- `children` of an order, the nested take-profit and stop legs, are parsed (parser.py:233-257) and
  then dropped, while `_flatten` and a test (test_detector_positions.py:219) expect them.
- With a margin gate no `POSITION_CLOSED` passes, since a closed position has no margin: closings
  are neither told nor stored, and the positions table keeps the position open.
- At capacity a wallet that is new is the one evicted, as it scores 0 (tracker.py:183-185, 380-391),
  against tracker.py:7-9. Pinning a list may evict a wallet further down the list, which loses its
  baseline.
- `_offer` drops the newest job, not "the oldest candidate" of the architecture notes.
- Two closings of the same side within an hour have one identity key; an overtaken snapshot makes
  a closed position come back and close again, with both told; a fill seen by a frame and by a
  disappearance has two keys, as their sizes differ; `ORDER_FILLED` and `WHALE_TRADE` of one
  execution are two alerts; a replayed fill counts twice in an order's progress.
- A snapshot that misses a new order makes it vanish and be told as having left the book.
  `_process_order_update` returns before it tracks anything when order alerts are off, although the
  comment at engine.py:170-171 says the tracking still runs. `apply_order_state` sets `orders_at` on
  the first live frame, before any snapshot (tracker.py:281).

Feeds and requests:

- A focus loop that waits for a socket to stop opens a wanted socket after a pause was applied
  (engine.py:1014), which "must take effect now" (engine.py:204-206).
- A websocket key dropped between the replay's snapshot and its frame stays subscribed until the
  connection breaks.
- "Every call is metered" (rest.py:5), but retries are sent without asking the budget again. A 429
  on the last attempt ends the request without clearing `connected`. Light polls may starve a heavy
  waiter until its timeout.

Console and runtime:

- `/addcoin` leaves ALL COINS on, the prompt for coins switches it off; resetting the settings by
  its button does not invalidate the recipients; a command menu that could not be revoked is not
  tried again, although the docstring of commands.py says so.
- "The engine keeps retrying in the background" (main.py:182-183), but nothing retries an
  `engine.start` that raised: `_running` stays true while `ingest_started` is false, so stop skips
  the engine, and the REST client and the sockets that a configuration handler opened stay open.
  A handler that is applying a configuration while the engine stops leaves focus sockets
  (engine.py:257-267). `StopsClean` is about the parts that act by themselves and the pool.
- A port that is taken ends the process by `SystemExit` without `stop`.

## What is left out

Rendering, JSON parsing, logging and configuration loading are data without control. The rows of
wallets and orders that `_persist` writes in the same transaction as the event are read by views
only. Migrations and connection retries of the database are not modelled beyond start; a session
commits, fails, or commits without an answer. Scores and the poll schedule rank wallets; the
modules leave the ranking open. The transition tables of `lifecycle.py` are used by tests only.

Hazards without a property: a queue of alerts that is lost in a restart (alert_service.py:300), a
deleted root that is met on the last attempt (:1019), the context of an event that is read later
than the snapshot it tells of (engine.py:672), a snapshot older than a placed order that is applied
after its frame (engine.py:682), a row that is opened again after its close (engine.py:853). Each is what the code does, noted above; a property that excluded
it would fail, and one that allowed it would say nothing.

## Plan

Done, in the order of what an operator of the bot would miss first: pipeline, delivery, recipients,
feeds, websocket client, order and position tracking, console, request budget, the rules and the
ingest, runtime.

Still wanted: an alert system that composes `EmitPipeline` and `AlertDelivery` over one crash.
