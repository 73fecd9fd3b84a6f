------------------------------- MODULE Whale -------------------------------
(***************************************************************************)
(* The rules of detection that keep no state: what kinds of event there    *)
(* are (whale/events.py), which of them pass (whale/filters.py with the    *)
(* thresholds of RuntimeConfig), what makes two of them one observation    *)
(* (whale/dedup.py), which may write a position (whale/lifecycle.py), and  *)
(* what the detector reads out of an execution, a liquidation, trigger     *)
(* orders and a book (whale/detector.py).                                  *)
(*                                                                         *)
(* An event is a record with the fields the rules read.  Prices and values *)
(* are small integers; a field that is not available is None.              *)
(***************************************************************************)
EXTENDS Integers, Sequences, FiniteSetsExt

CONSTANT None   \* no value: an unavailable data point, an unknown participant

-----------------------------------------------------------------------------
(* Events.                                                                 *)

PositionEvents == {"POSITION_OPENED", "POSITION_INCREASED", "POSITION_DECREASED",
                   "POSITION_CLOSED", "POSITION_FLIPPED"}
OrderEvents == {"ORDER_PLACED", "ORDER_CANCELLED", "ORDER_FILLED",
                "ORDER_PARTIALLY_FILLED", "ORDER_MODIFIED", "ORDER_REJECTED"}
ExecutionEvents == {"WHALE_TRADE", "WHALE_LIQUIDATED", "ORDER_FILLED",
                    "ORDER_PARTIALLY_FILLED"}
RestingOrderEvents == OrderEvents \ ExecutionEvents
EventTypes == PositionEvents \cup OrderEvents \cup ExecutionEvents \cup {"BOOK_LEVEL"}

\* WhaleEvent.category: a fill is a trade before it is an order event.
Category(type) ==
  CASE type \in ExecutionEvents -> "execution"
    [] type \in PositionEvents  -> "position"
    [] type \in OrderEvents \ ExecutionEvents -> "order"
    [] OTHER -> "book"

\* THRESHOLD_CLASS.
ThresholdClass(kind) ==
  CASE kind = "TRADE_VALUE"    -> "trade"
    [] kind = "POSITION_DELTA" -> "position_delta"
    [] kind \in {"POSITION_NOTIONAL", "MARGIN", "LIQUIDATION_VALUE"} -> "position"
    [] kind \in {"ORDER_NOTIONAL", "BOOK_LEVEL_NOTIONAL"} -> "order"

\* The value kind the detector gives each type of event; what executed of an
\* order is measured as a trade (_as_execution).
KindOf(type) ==
  CASE type = "WHALE_LIQUIDATED" -> "LIQUIDATION_VALUE"
    [] type \in ExecutionEvents \ {"WHALE_LIQUIDATED"} -> "TRADE_VALUE"
    [] type = "POSITION_CLOSED"  -> "POSITION_NOTIONAL"
    [] type \in PositionEvents \ {"POSITION_CLOSED"} -> "POSITION_DELTA"
    [] type \in RestingOrderEvents -> "ORDER_NOTIONAL"
    [] type = "BOOK_LEVEL" -> "BOOK_LEVEL_NOTIONAL"

-----------------------------------------------------------------------------
(* RuntimeConfig and the filter.                                           *)

Classes == {"trade", "position", "position_delta", "order"}

\* threshold_for: an override that is not set, or 0, means min_whale_value.
ThresholdFor(cfg, class) ==
  IF cfg.overrides[class] \in {None, 0} THEN cfg.whale ELSE cfg.overrides[class]

\* lowest_threshold, what the detectors prefilter with.
LowestThreshold(cfg) == Min({ThresholdFor(cfg, class) : class \in Classes})

CoinEnabled(cfg, coin) == cfg.all_coins \/ coin \in cfg.coins

MonitoringActive(cfg) == cfg.monitoring /\ ~cfg.paused

\* DETECTOR_OF_EVENT.  Detectors that are on are members of cfg.detectors.
DetectorOf(type) ==
  CASE type = "WHALE_TRADE" -> "trade"
    [] type \in PositionEvents \cup {"WHALE_LIQUIDATED"} -> "position"
    [] type \in OrderEvents -> "order"
    [] type = "BOOK_LEVEL" -> "book"

MarginExemptEvents == OrderEvents \cup {"BOOK_LEVEL", "WHALE_LIQUIDATED"}

\* _margin_gate: an unknown margin is a rejection.
MarginGate(event, cfg) ==
  \/ cfg.margin = 0
  \/ event.type \in MarginExemptEvents
  \/ event.margin # None /\ event.margin >= cfg.margin

\* WhaleFilter._evaluate.  It asks for monitoring_enabled, not for the pause.
Accepts(event, cfg) ==
  /\ cfg.monitoring
  /\ CoinEnabled(cfg, event.coin)
  /\ DetectorOf(event.type) \in cfg.detectors
  /\ event.type \in RestingOrderEvents => cfg.order_alerts
  /\ event.type = "ORDER_CANCELLED" => cfg.cancel_alerts
  /\ event.notional >= ThresholdFor(cfg, ThresholdClass(KindOf(event.type)))
  /\ MarginGate(event, cfg)

-----------------------------------------------------------------------------
(* Identity, cooldown and the right to write a position.                   *)

\* Mutant of IdentityKey: the position shown beside a trade is part of it.
IdentityKeyEnriched(event) ==
  <<event.type, event.wallet, event.side, event.pos, event.notional>>

\* identity_key of the events that carry an identifier of the exchange, and of
\* position events, whose quantised state is the identity.
IdentityKey(event) ==
  CASE event.type = "WHALE_TRADE"      -> <<"trade", event.tid, event.role>>
    [] event.type = "WHALE_LIQUIDATED" -> <<"liquidation", event.tid>>
    [] event.type \in OrderEvents ->
         <<"order", event.oid, event.type, event.status, event.size>>
    [] event.type = "BOOK_LEVEL" -> <<"book", event.coin, event.side, event.price, event.notional>>
    [] event.type \in PositionEvents ->
         <<"position", event.type, event.coin, event.wallet, event.side, event.size>>

\* magnitude_bucket: the decades that are reached.
Decades == {10, 100, 1000, 10000, 100000, 1000000, 10000000, 100000000}
MagnitudeBucket(value) == Cardinality({d \in Decades : d <= value})

\* stable_side: what the feed said, not what enrichment made of it.
StableSide(event) ==
  IF event.type \in {"WHALE_TRADE", "WHALE_LIQUIDATED"} THEN event.trade_side ELSE event.side

CooldownKey(event) ==
  <<event.type, event.coin, event.wallet, StableSide(event), MagnitudeBucket(event.notional)>>

\* Mutant of MayModifyPosition: a liquidation counts as position news.
MayModifyPositionLiquidated(event) ==
  /\ event.type \notin OrderEvents \cup {"BOOK_LEVEL"}
  /\ event.type \in PositionEvents \cup {"WHALE_LIQUIDATED"} \/ event.pos # None

\* may_modify_position: a change of position always, an execution only with a
\* verified snapshot, an order, a book level or a liquidation never.
MayModifyPosition(event) ==
  /\ event.type \notin OrderEvents \cup {"BOOK_LEVEL", "WHALE_LIQUIDATED"}
  /\ event.type \in PositionEvents \/ event.pos # None

-----------------------------------------------------------------------------
(* Executions.  One is what the exchange matched: who bought, who sold, on *)
(* which side the taker was, who was forced, if anyone.  x.start is the    *)
(* position each participant had before.                                   *)

\* The side of a position, if there is one.
SideOf(position) ==
  IF position \in {None, 0} THEN None ELSE IF position > 0 THEN "LONG" ELSE "SHORT"

\* Trade.taker and Trade.maker; side "B" means that the buyer took.
Taker(x) == CASE x.side = "B" -> x.buyer [] x.side = "A" -> x.seller [] OTHER -> None
Maker(x) == CASE x.side = "B" -> x.seller [] x.side = "A" -> x.buyer [] OTHER -> None

SideLabel(side) == CASE side = "B" -> "BUY" [] side = "A" -> "SELL" [] OTHER -> None
Opposite(label) == CASE label = "BUY" -> "SELL" [] label = "SELL" -> "BUY" [] OTHER -> None

\* from_trade about the wallet given: the executed side, never a position's.
FromTrade(x, wallet, ctx) ==
  LET isTaker == wallet = Taker(x)
      side == IF ~isTaker /\ wallet = Maker(x) THEN Opposite(SideLabel(x.side)) ELSE SideLabel(x.side)
  IN  [type |-> "WHALE_TRADE", tid |-> x.tid, coin |-> x.coin, notional |-> x.notional,
       role |-> IF isTaker THEN "taker" ELSE "maker", wallet |-> wallet,
       side |-> side, trade_side |-> side, pos |-> SideOf(ctx.position),
       margin |-> ctx.margin, own |-> TRUE]

\* from_fill: the fill on a participant's own feed says its side and whether it
\* crossed the book.
FromFill(x, wallet, ctx) ==
  LET side == SideLabel(IF wallet = x.buyer THEN "B" ELSE "A")
  IN  [type |-> "WHALE_TRADE", tid |-> x.tid, coin |-> x.coin, notional |-> x.notional,
       role |-> IF wallet = Taker(x) THEN "taker" ELSE "maker", wallet |-> wallet,
       side |-> side, trade_side |-> side, pos |-> SideOf(ctx.position),
       margin |-> ctx.margin, own |-> TRUE]

\* _stated_direction of a description given as its words, in order.
ClosingWords == {"close", "liquidat", ">"}
StatedDirection(words) ==
  LET sides == {i \in DOMAIN words : words[i] \in {"long", "short"}}
  IN  IF (\E i \in DOMAIN words : words[i] \in ClosingWords) /\ sides # {}
      THEN IF words[Min(sides)] = "long" THEN "LONG" ELSE "SHORT"
      ELSE None

\* _liquidated_side: the last verified snapshot, else the sign of
\* startPosition, else the direction the fill states.
LiquidatedSide(position, start, words) ==
  CASE position \notin {None, 0} -> SideOf(position)
    [] position \in {None, 0} /\ start \notin {None, 0} -> SideOf(start)
    [] OTHER -> StatedDirection(words)

\* Mutant of FromLiquidation: the subscribed wallet is taken for the one that
\* was liquidated.
FromLiquidationSubscriber(x, subscribed, ctx) ==
  LET side == LiquidatedSide(ctx.position, x.start[subscribed], x.dir[subscribed])
  IN  [type |-> "WHALE_LIQUIDATED", tid |-> x.tid, coin |-> x.coin, notional |-> x.notional,
       role |-> None, wallet |-> subscribed, side |-> side,
       trade_side |-> SideLabel(IF subscribed = x.buyer THEN "B" ELSE "A"),
       pos |-> None, margin |-> None, own |-> TRUE]

\* from_liquidation: the fill of either participant names the one that was
\* liquidated; only on its own feed does the snapshot count.  startPosition and
\* dir are those of the wallet whose feed it is, whoever was liquidated.
FromLiquidation(x, subscribed, ctx) ==
  LET own  == x.forced = subscribed
      side == LiquidatedSide(IF own THEN ctx.position ELSE None,
                             x.start[subscribed], x.dir[subscribed])
  IN  [type |-> "WHALE_LIQUIDATED", tid |-> x.tid, coin |-> x.coin, notional |-> x.notional,
       role |-> None, wallet |-> x.forced, side |-> side,
       trade_side |-> SideLabel(IF subscribed = x.buyer THEN "B" ELSE "A"),
       pos |-> None, margin |-> None, own |-> own]

-----------------------------------------------------------------------------
(* Trigger orders and books.                                               *)

\* extract_tpsl: the levels of each kind.  A trigger whose type is not known
\* counts by where it lies, if the position's side and the mark are known.
Takes(order, side, mark) ==
  \/ order.kind = "TP"
  \/ /\ order.kind = "TRIGGER" /\ side # None /\ mark # None
     /\ IF side = "LONG" THEN order.px > mark ELSE order.px <= mark
Stops(order, side, mark) ==
  \/ order.kind = "SL"
  \/ order.kind = "TRIGGER" /\ side # None /\ mark # None /\ ~Takes(order, side, mark)

\* The level that would fire first, of the side's take profits or stops.
Nearest(levels, side, isTp) ==
  IF levels = {} THEN None
  ELSE IF (side = "LONG") = isTp THEN Min(levels) ELSE Max(levels)

ExtractTpSl(orders, coin, side, mark) ==
  LET mine == {o \in orders : o.coin = coin /\ o.px # None}
  IN  [tp |-> Nearest({o.px : o \in {p \in mine : Takes(p, side, mark)}}, side, TRUE),
       sl |-> Nearest({o.px : o \in {p \in mine : Stops(p, side, mark)}}, side, FALSE)]

\* What from_book goes through: the bids before the asks.
BookLevels(bids, asks) ==
  [i \in 1 .. Len(bids) + Len(asks) |->
     IF i <= Len(bids) THEN [side |-> "BUY", notional |-> bids[i]]
     ELSE [side |-> "SELL", notional |-> asks[i - Len(bids)]]]

\* from_book: those at or above the threshold, until max_events were found.
MaxEvents == 4
FromBook(bids, asks, minimum) ==
  LET all   == BookLevels(bids, asks)
      count == Len(bids) + Len(asks)
      events[i \in 0 .. count] ==
        IF i = 0 THEN <<>>
        ELSE IF all[i].notional >= minimum /\ Len(events[i - 1]) < MaxEvents
        THEN Append(events[i - 1], all[i])
        ELSE events[i - 1]
  IN  events[count]

-----------------------------------------------------------------------------
(* Prefilters.  A detector drops what falls short of the threshold the     *)
(* engine hands it before it makes an event, and the filter asks the event *)
(* it made.  Of everything but an order the two look at the same figure.   *)

\* What each source is made into.  fill is a wallet's own feed, trade the
\* market's; frame, snapshot and vanished are the sources of order events.
OrderSources == {"frame", "snapshot", "vanished"}
TypesFrom(source) ==
  CASE source \in {"trade", "fill"} -> {"WHALE_TRADE"}
    [] source = "liquidation" -> {"WHALE_LIQUIDATED"}
    [] source = "position" -> PositionEvents
    [] source = "book" -> {"BOOK_LEVEL"}
    [] source \in OrderSources -> OrderEvents

\* The threshold that the engine hands the detector of a source.
Prefilter(source, cfg) ==
  CASE source \in {"trade", "fill"} -> ThresholdFor(cfg, "trade")
    [] source = "liquidation" -> ThresholdFor(cfg, "position")
    [] source = "book" -> ThresholdFor(cfg, "order")
    [] source \in OrderSources \cup {"position"} -> LowestThreshold(cfg)

\* An order as it is seen: the size it was last seen with (None: never), the
\* size that rests, the size it was placed with and what has become of it.  Of
\* one source both figures take the same price, so a value is its size here: the
\* limit of a frame, the price of a snapshot's order (its trigger's, if it has
\* one), that of the state the vanished order was kept with.  An order that rests
\* was modified if its price or its size is another; so is said of one whose
\* trigger a frame reports and of one that left the book unresolved.
OrderType(source, order) ==
  CASE order.status = "open" /\ source # "vanished" ->
         IF order.was = None THEN "ORDER_PLACED"
         ELSE IF order.was > order.rest THEN "ORDER_PARTIALLY_FILLED" ELSE "ORDER_MODIFIED"
    [] order.status = "filled"   -> "ORDER_FILLED"
    [] order.status = "canceled" -> "ORDER_CANCELLED"
    [] order.status = "rejected" -> "ORDER_REJECTED"
    [] order.status = "triggered" /\ source = "vanished" -> "ORDER_FILLED"
    [] OTHER -> "ORDER_MODIFIED"

\* Mutant of Compared: a frame is admitted by what rests, as a snapshot is.
ComparedByRest(source, order) == IF source = "vanished" THEN order.was ELSE order.rest

\* The figure the prefilter of each order source compares.
Compared(source, order) ==
  CASE source = "frame"    -> Max({order.rest, order.orig})
    [] source = "snapshot" -> order.rest
    [] source = "vanished" -> order.was

\* The figure of the event, which the filter asks.  What executed is measured
\* by _as_execution: what rested a moment ago, or the part of it that is gone.
FrameNotional(order) ==
  LET type == OrderType("frame", order)
  IN  CASE type = "ORDER_PARTIALLY_FILLED" -> order.was - order.rest
        [] type = "ORDER_FILLED" -> IF order.was \in {None, 0} THEN order.orig ELSE order.was
        [] type = "ORDER_CANCELLED" -> order.orig
        [] type \in {"ORDER_PLACED", "ORDER_MODIFIED", "ORDER_REJECTED"} -> order.rest

SnapshotNotional(order) ==
  IF OrderType("snapshot", order) = "ORDER_PARTIALLY_FILLED" THEN order.was - order.rest
  ELSE order.rest

OrderNotional(source, order) ==
  CASE source = "frame"    -> FrameNotional(order)
    [] source = "snapshot" -> SnapshotNotional(order)
    [] source = "vanished" -> order.was
=============================================================================
