------------------------------- MODULE Ingest -------------------------------
(***************************************************************************)
(* From a frame of the exchange to a row and an alert: the feeds of        *)
(* WhaleEngine offer jobs to its bounded queue, the workers take them,     *)
(* enrich them from the WalletTracker, let the detector state an event,    *)
(* filter it, claim its identity and persist it.                           *)
(*                                                                         *)
(* Everything runs on one event loop; a worker is interrupted where it     *)
(* awaits, that is while clearinghouseState is asked for and while a row   *)
(* is written.  An execution of the exchange may reach the bot on the      *)
(* market feed and on the feed of either participant, in any order and     *)
(* more than once.                                                         *)
(*                                                                         *)
(* There is one coin.  The price is 1, so a size is its value.  The gates  *)
(* that forget, the cooldown and the durable duplicate gate, are           *)
(* EmitPipeline's; orders and their frames are OrderTracking's; what       *)
(* becomes of an alert is AlertDelivery's.                                 *)
(***************************************************************************)
EXTENDS Whale, SequencesExt

CONSTANTS
  Wallets,
  Executions,  \* what may be matched: tid, coin, notional, buyer, seller, side, forced
  Coin,
  Initial,     \* the position of each wallet at the start
  Configs,     \* the settings an administrator switches between
  Workers,
  Capacity,    \* max_wallets
  QueueMax,
  MaxFrames,   \* bound: fills and trades that are delivered
  MaxChanges   \* bound: changes of the settings

\* Of the exchange: it says which side the taker was on, matches two different
\* wallets, and forces one of them or none.
ASSUME IngestAssumption ==
  /\ None \notin Int \cup Wallets \cup {"LONG", "SHORT"}
  /\ Initial \in [Wallets -> Int]
  /\ Executions \subseteq
       [tid : Nat, coin : {Coin}, notional : Nat, buyer : Wallets, seller : Wallets,
        side : {"A", "B"}, forced : Wallets \cup {None}]
  /\ \A x \in Executions : x.buyer # x.seller /\ x.forced \in {x.buyer, x.seller, None}
  /\ \A c \in Configs : c.watch \subseteq Wallets /\ IsFiniteSet(c.watch)
  /\ Capacity \in Nat /\ QueueMax \in Nat /\ MaxFrames \in Nat /\ MaxChanges \in Nat

VARIABLES
  market,      \* the exchange: what was matched, in order
  cfg,         \* RuntimeConfig
  tracked,     \* WalletTracker._wallets, in the order of insertion
  queue,       \* WhaleEngine._queue
  worker,      \* what each _worker is doing
  identities,  \* the keys Deduplicator holds
  recorded,    \* rows of whale_events, as a bag
  alerts,      \* events handed over to the alert queue
  table,       \* the positions table: side and is_open per wallet
  frames,      \* how many were delivered
  changes      \* how often the settings changed

rows == <<recorded, alerts, table>>
vars == <<market, cfg, tracked, queue, worker, identities, recorded, alerts, table,
          frames, changes>>

NoRow   == [side |-> None, open |-> FALSE]
NoJob   == [kind |-> "none"]
Idle    == [at |-> "idle", job |-> NoJob, asked |-> 0, event |-> None]

-----------------------------------------------------------------------------
(* The exchange.                                                           *)

Effect(x, w) ==
  (IF w = x.buyer THEN x.notional ELSE 0) - (IF w = x.seller THEN x.notional ELSE 0)

\* The positions w had: HeldAfter(w)[n] is the one after the first n executions.
HeldAfter(w) ==
  LET p[n \in 0 .. Len(market)] == IF n = 0 THEN Initial[w] ELSE p[n - 1] + Effect(market[n], w)
  IN  p

Held(w)      == HeldAfter(w)[Len(market)]
SidesHeld(w) == {SideOf(p) : p \in Range(HeldAfter(w))} \ {None}

IndexOf(x)  == CHOOSE i \in DOMAIN market : market[i] = x

\* startPosition and dir of a participant's fill; of dir, the words that count.
Start(x, w) == HeldAfter(w)[IndexOf(x) - 1]
Direction(x, w) ==
  LET closes == IF w = x.buyer THEN Start(x, w) < 0 ELSE Start(x, w) > 0
      side   == IF (w = x.buyer) = closes THEN "short" ELSE "long"
  IN  <<IF closes THEN "close" ELSE "open", side>>

\* The execution as the fills of its participants report it.
Reported(x) ==
  [part \in DOMAIN x \cup {"start", "dir"} |->
     CASE part = "start" -> [w \in {x.buyer, x.seller} |-> Start(x, w)]
       [] part = "dir"   -> [w \in {x.buyer, x.seller} |-> Direction(x, w)]
       [] OTHER          -> x[part]]

-----------------------------------------------------------------------------
(* WalletTracker.  A wallet that was never seen in a large trade scores 0; *)
(* how the scores of the others compare is left open.  snap is the last    *)
(* snapshot, None before the first.                                        *)

Addresses(ts) == {ts[i].address : i \in DOMAIN ts}
Without(ts, gone) ==
  LET kept[n \in 0 .. Len(ts)] ==
        IF n = 0 THEN <<>>
        ELSE IF ts[n].address \in gone THEN kept[n - 1] ELSE Append(kept[n - 1], ts[n])
  IN  kept[Len(ts)]
Amended(ts, w, Change(_)) ==
  [i \in DOMAIN ts |-> IF ts[i].address = w THEN Change(ts[i]) ELSE ts[i]]

\* Mutant of Evictable: a pinned wallet may go too.
EvictableAll(ts) == DOMAIN ts

Evictable(ts) == {i \in DOMAIN ts : ~ts[i].pinned}

\* Whether i may go before j: the sort by score is stable.
GoesFirst(ts, i, j) ==
  \/ ~ts[i].traded /\ (ts[j].traded \/ i < j)
  \/ ts[i].traded /\ ts[j].traded

\* _enforce_capacity: the registries it may leave behind.
Enforced(ts) ==
  LET free     == Evictable(ts)
      overflow == Len(ts) - Capacity
      Victims  == {V \in SUBSET free :
                     /\ Cardinality(V) = Min({overflow, Cardinality(free)})
                     /\ \A i \in V, j \in free \ V : GoesFirst(ts, i, j)}
  IN  IF overflow <= 0 THEN {ts}
      ELSE {Without(ts, {ts[i].address : i \in V}) : V \in Victims}

\* touch: a wallet that is new may itself be evicted at once.
Touched(ts, w, pinned) ==
  IF w \in Addresses(ts)
  THEN {Amended(ts, w, LAMBDA t : [t EXCEPT !.pinned = @ \/ pinned])}
  ELSE Enforced(Append(ts, [address |-> w, pinned |-> pinned, traded |-> FALSE, snap |-> None]))

\* observe_trade for both participants, the buyer first.
Scored(ts, w)   == Amended(ts, w, LAMBDA t : [t EXCEPT !.traded = TRUE])
Observed(ts, w) == {Scored(t, w) : t \in Touched(ts, w, FALSE)}
ObservedBoth(ts, x) == UNION {Observed(t, x.seller) : t \in Observed(ts, x.buyer)}

\* pin: the watch list is touched in any order, then it alone is pinned.
TouchedInTurn(ts, order) ==
  LET after[n \in 0 .. Len(order)] ==
        IF n = 0 THEN {ts} ELSE UNION {Touched(t, order[n], TRUE) : t \in after[n - 1]}
  IN  after[Len(order)]
OnlyPinned(ts, watch) == [i \in DOMAIN ts |-> [ts[i] EXCEPT !.pinned = ts[i].address \in watch]]
Pinned(ts, watch) ==
  {OnlyPinned(t, watch) : t \in UNION {TouchedInTurn(ts, order) : order \in SetToSeqs(watch)}}

\* apply_positions.
Applied(ts, w, position) ==
  {Amended(t, w, LAMBDA e : [e EXCEPT !.snap = position]) : t \in Touched(ts, w, FALSE)}

\* context_for: a flat position is no position, and has no margin.
Known(ts, w) == IF w \in Addresses(ts)
                THEN ts[CHOOSE i \in DOMAIN ts : ts[i].address = w].snap ELSE None
Magnitude(n) == IF n < 0 THEN -n ELSE n
MarginOf(position) == IF position \in {None, 0} THEN None ELSE Magnitude(position)
ContextFor(ts, w) == [position |-> Known(ts, w), margin |-> MarginOf(Known(ts, w))]

-----------------------------------------------------------------------------
Init ==
  /\ market = <<>>
  /\ cfg \in Configs
  /\ tracked \in Pinned(<<>>, cfg.watch)
  /\ queue = <<>>
  /\ worker = [k \in Workers |-> Idle]
  /\ identities = {}
  /\ recorded = EmptyBag /\ alerts = {} /\ table = [w \in Wallets |-> NoRow]
  /\ frames = 0 /\ changes = 0

\* The exchange matches an execution.  Only a position there is gets liquidated.
Match(x) ==
  /\ x \notin Range(market)
  /\ x.forced = x.seller => Held(x.seller) >= x.notional
  /\ x.forced = x.buyer => Held(x.buyer) <= -x.notional
  /\ market' = Append(market, x)
  /\ UNCHANGED <<cfg, tracked, queue, worker, identities, rows, frames, changes>>

\* Mutant of Offer: the queue has no bound.
OfferUnbounded(job) == queue' = Append(queue, job)

\* _offer: a job that finds the queue full is dropped.
Offer(job) == queue' = IF Len(queue) < QueueMax THEN Append(queue, job) ELSE queue

\* Who the alert of a trade is about: the taker, if the feed says who that is.
Subject(x) == IF Taker(x) # None THEN Taker(x) ELSE x.buyer

\* _on_trade.  A trade of half the threshold has its participants tracked.
MarketFrame(x) ==
  LET relevant == /\ MonitoringActive(cfg)
                  /\ "trade" \in cfg.detectors
                  /\ 2 * x.notional >= ThresholdFor(cfg, "trade")
                  /\ CoinEnabled(cfg, x.coin)
  IN
  /\ frames < MaxFrames
  /\ frames' = frames + 1
  /\ IF relevant /\ cfg.tracking THEN tracked' \in ObservedBoth(tracked, x) ELSE UNCHANGED tracked
  /\ IF relevant /\ x.notional >= ThresholdFor(cfg, "trade")
     THEN Offer([kind |-> "trade", x |-> x, wallet |-> Subject(x)])
     ELSE UNCHANGED queue
  /\ UNCHANGED <<market, cfg, worker, identities, rows, changes>>

\* The userEvents part of _on_user_message.  A liquidation passes whatever the
\* settings say.
UserFrame(x, w) ==
  LET wanted == \/ x.forced # None
                \/ /\ MonitoringActive(cfg)
                   /\ "trade" \in cfg.detectors
                   /\ CoinEnabled(cfg, x.coin)
                   /\ x.notional >= ThresholdFor(cfg, "trade")
      kind   == IF x.forced # None THEN "liquidation" ELSE "fill"
  IN
  /\ frames < MaxFrames
  /\ frames' = frames + 1
  /\ IF wanted THEN Offer([kind |-> kind, x |-> x, wallet |-> w]) ELSE UNCHANGED queue
  /\ UNCHANGED <<market, cfg, tracked, worker, identities, rows, changes>>

-----------------------------------------------------------------------------
(* The workers.                                                            *)

Fetching(job) == [at |-> "fetch", job |-> job, asked |-> Len(market), event |-> None]
Stating(job)  == [at |-> "context", job |-> job, asked |-> 0, event |-> None]

\* What a worker does after an event of its job: after a change of position that
\* enrichment found it states the job's own event, after a liquidation it
\* fetches.
Afterwards(job, event) ==
  CASE event.type \in PositionEvents /\ job.kind # "liquidation" -> Stating(job)
    [] event.type = "WHALE_LIQUIDATED" -> Fetching(job)
    [] OTHER -> Idle

\* _emit in worker k up to its first await: filter and identity.
Emit(k, job, event) ==
  LET passes == Accepts(event, cfg) /\ IdentityKey(event) \notin identities IN
  /\ identities' = IF passes THEN identities \cup {IdentityKey(event)} ELSE identities
  /\ worker' = [worker EXCEPT ![k] =
       IF passes THEN [at |-> "persist", job |-> job, asked |-> 0, event |-> event]
       ELSE Afterwards(job, event)]

\* The event the detector states of a job, from the context there is now.
Stated(job) ==
  LET ctx == ContextFor(tracked, job.wallet) IN
  {CASE job.kind = "trade"       -> FromTrade(job.x, job.wallet, ctx)
     [] job.kind = "fill"        -> FromFill(job.x, job.wallet, ctx)
     [] job.kind = "liquidation" -> FromLiquidation(Reported(job.x), job.wallet, ctx)}

\* _process_trade and _process_fill ask for a snapshot first;
\* _process_liquidation states its event from the snapshot there is.
Take(k) ==
  /\ worker[k].at = "idle" /\ queue # <<>>
  /\ UNCHANGED <<market, cfg, tracked, rows, frames, changes>>
  /\ queue' = Tail(queue)
  /\ LET job == Head(queue) IN
     IF job.kind = "liquidation"
     THEN \E event \in Stated(job) : Emit(k, job, event)
     ELSE worker' = [worker EXCEPT ![k] = Fetching(job)] /\ UNCHANGED identities

\* from_position_change, with the context the tracker then has.
PositionChange(w, before, after) ==
  [type |-> CASE before = 0 -> "POSITION_OPENED"
              [] before # 0 /\ after = 0 -> "POSITION_CLOSED"
              [] before * after < 0 -> "POSITION_FLIPPED"
              [] before * after > 0 /\ Magnitude(after) > Magnitude(before) -> "POSITION_INCREASED"
              [] OTHER -> "POSITION_DECREASED",
   coin |-> Coin, wallet |-> w, size |-> Magnitude(after),
   side |-> SideOf(IF after = 0 THEN before ELSE after), pos |-> SideOf(after),
   notional |-> IF after = 0 THEN Magnitude(before) ELSE Magnitude(after - before),
   margin |-> MarginOf(after)]

\* The change a snapshot tells of, if any: the first one is a baseline.
Changes(w, before, after) ==
  {event \in {PositionChange(w, before, p) : p \in IF before = None THEN {} ELSE {after} \ {before}} :
     "position" \in cfg.detectors /\ event.notional >= LowestThreshold(cfg)}

\* The enrichment of a trade or a fill goes on to state its event; the one after
\* a liquidation ends the job.
Enriched(job) == IF job.kind = "liquidation" THEN Idle ELSE Stating(job)

\* _enrich and _ingest_account_state: the answer is a position the wallet had
\* since it was asked for.
Fetched(k) ==
  LET job == worker[k].job IN
  /\ worker[k].at = "fetch"
  /\ UNCHANGED <<market, cfg, queue, rows, frames, changes>>
  /\ \E position \in {HeldAfter(job.wallet)[n] : n \in worker[k].asked .. Len(market)} :
     \E told \in {Changes(job.wallet, Known(tracked, job.wallet), position)} :
       /\ tracked' \in Applied(tracked, job.wallet, position)
       /\ IF told = {}
          THEN worker' = [worker EXCEPT ![k] = Enriched(job)] /\ UNCHANGED identities
          ELSE \E event \in told : Emit(k, job, event)

\* The snapshot is recent enough, or the request failed or was over budget.
NotFetched(k) ==
  /\ worker[k].at = "fetch"
  /\ worker' = [worker EXCEPT ![k] = Enriched(worker[k].job)]
  /\ UNCHANGED <<market, cfg, tracked, queue, identities, rows, frames, changes>>

\* The rest of _process_trade or _process_fill: the context is read now.
StateEvent(k) ==
  /\ worker[k].at = "context"
  /\ UNCHANGED <<market, cfg, tracked, queue, rows, frames, changes>>
  /\ \E event \in Stated(worker[k].job) : Emit(k, worker[k].job, event)

\* _persist_position: a side that is not LONG or SHORT is not written; the last
\* verified side of the row stands in for it.
RowAfter(event) ==
  LET stated == IF event.pos # None THEN event.pos ELSE event.side
      side == IF stated \in {"LONG", "SHORT"} THEN stated ELSE table[event.wallet].side
  IN  IF MayModifyPosition(event) /\ side # None
      THEN [side |-> side, open |-> event.type # "POSITION_CLOSED"]
      ELSE table[event.wallet]

\* _persist commits, and the alert is handed over; under a pause it is dropped.
Persist(k) ==
  LET event == worker[k].event IN
  /\ worker[k].at = "persist"
  /\ UNCHANGED <<market, cfg, tracked, queue, identities, frames, changes>>
  /\ recorded' = recorded (+) SetToBag({event})
  /\ table' = [table EXCEPT ![event.wallet] = RowAfter(event)]
  /\ alerts' = IF cfg.paused THEN alerts ELSE alerts \cup {event}
  /\ worker' = [worker EXCEPT ![k] = Afterwards(worker[k].job, event)]

\* _persist fails: the identity is given back.
PersistFails(k) ==
  LET event == worker[k].event IN
  /\ worker[k].at = "persist"
  /\ identities' = identities \ {IdentityKey(event)}
  /\ worker' = [worker EXCEPT ![k] = Afterwards(worker[k].job, event)]
  /\ UNCHANGED <<market, cfg, tracked, queue, rows, frames, changes>>

\* Mutant of Fails: the exception ends the worker.
FailsForGood(k) ==
  /\ worker[k].at \in {"fetch", "context"}
  /\ worker' = [worker EXCEPT ![k].at = "dead"]
  /\ UNCHANGED <<market, cfg, tracked, queue, identities, rows, frames, changes>>

\* An exception in the processing of a job ends the job.
Fails(k) ==
  /\ worker[k].at \in {"fetch", "context"}
  /\ worker' = [worker EXCEPT ![k] = Idle]
  /\ UNCHANGED <<market, cfg, tracked, queue, identities, rows, frames, changes>>

-----------------------------------------------------------------------------
\* SettingsService notifies _on_config_change, which pins before it awaits.
ConfigChange ==
  /\ changes < MaxChanges
  /\ changes' = changes + 1
  /\ cfg' \in Configs \ {cfg}
  /\ tracked' \in Pinned(tracked, cfg'.watch)
  /\ UNCHANGED <<market, queue, worker, identities, rows, frames>>

\* prune: unpinned wallets without positions that were quiet for long enough.
Prune ==
  /\ \E gone \in SUBSET {t \in Range(tracked) : ~t.pinned /\ t.snap \in {None, 0}} :
       /\ gone # {}
       /\ tracked' = Without(tracked, {t.address : t \in gone})
  /\ UNCHANGED <<market, cfg, queue, worker, identities, rows, frames, changes>>

Work(k) ==
  \/ Fails(k) \/ PersistFails(k) \/ NotFetched(k)
  \/ Take(k) \/ Fetched(k) \/ StateEvent(k) \/ Persist(k)

Next ==
  \/ \E x \in Executions : Match(x)
  \/ \E x \in Range(market) : MarketFrame(x)
  \/ \E x \in Range(market) : \E w \in {x.buyer, x.seller} : UserFrame(x, w)
  \/ \E k \in Workers : Work(k)
  \/ ConfigChange \/ Prune

\* A worker runs on: requests and commits time out, the loop is shared fairly.
Spec == Init /\ [][Next]_vars /\ \A k \in Workers : WF_vars(Work(k))

-----------------------------------------------------------------------------
(* Properties.                                                             *)

Rows == BagToSet(recorded)

\* One execution is one row per participant's part in it, and one liquidation is
\* one row, though each may come on three feeds, more than once, and be enriched
\* differently each time.
OneAlertPerExecution ==
  \A e, f \in Rows :
    e.type \notin PositionEvents /\ f.type = e.type /\ f.tid = e.tid /\ f.role = e.role
      => e = f /\ recorded[e] = 1

\* What there is to record of the executions: either participant's part in one,
\* and that one was forced.
PartKeys ==
  {<<"trade", x.tid, role>> : x \in Executions, role \in {"taker", "maker"}}
    \cup {<<"liquidation", x.tid>> : x \in Executions}

\* The rows that were written of a part.
Copies(part) == UNION {{e} \X (1 .. recorded[e]) : e \in {f \in Rows : IdentityKey(f) = part}}

\* The workers implement what EmitPipeline implements, for identities that are not
\* forgotten: of every part one row, never a second, and none is taken back.
Recorder == INSTANCE RecordOnce WITH
  Keys <- PartKeys, TTL <- 0, unread <- {},
  row  <- [part \in PartKeys |-> IF Copies(part) = {} THEN -1 ELSE 0],
  rows <- [part \in PartKeys |-> Cardinality(Copies(part))]
RecordsOnce == Recorder!Spec

\* What an alert says of an execution is so: its wallet had the part it is given,
\* on the side it is given, and the position shown beside it is one it had.  A
\* liquidation names the wallet that was liquidated; on that wallet's own feed
\* the side is one it was on.  A position event gives a side the wallet was on.
AlertIsTrue ==
  /\ alerts \subseteq Rows
  /\ \A e \in Rows :
       /\ e.pos \in SidesHeld(e.wallet) \cup {None}
       /\ e.type = "WHALE_TRADE" =>
            \E x \in Range(market) :
              /\ x.tid = e.tid
              /\ e.wallet = IF e.role = "taker" THEN Taker(x) ELSE Maker(x)
              /\ e.side = IF e.wallet = x.buyer THEN "BUY" ELSE "SELL"
       /\ e.type = "WHALE_LIQUIDATED" =>
            /\ \E x \in Range(market) : x.tid = e.tid /\ e.wallet = x.forced
            /\ e.own => e.side \in SidesHeld(e.wallet) \cup {None}
       /\ e.type \in PositionEvents => e.side \in SidesHeld(e.wallet)

\* The positions table only ever shows a wallet on a side it was on: what was
\* bought or sold, or the wrong wallet's side of a liquidation, gets no further
\* than its alert.
RowWasHeld == \A w \in Wallets : table[w].side \in SidesHeld(w) \cup {None}

\* A wallet on the watch list stays tracked and pinned, through eviction, pruning
\* and the replacement of the list.
WatchedAreTracked ==
  \A w \in cfg.watch : \E t \in Range(tracked) : t.address = w /\ t.pinned

\* Every job is got over with, whatever fails in it: the queue runs dry, and every
\* worker is back to wait for the next one.
JobsEnd == <>[](queue = <<>> /\ \A k \in Workers : worker[k] = Idle)
=============================================================================
