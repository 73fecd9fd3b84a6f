----------------------------- MODULE WhaleChecks -----------------------------
(***************************************************************************)
(* What the rules of Whale promise, over small inputs: the filter against  *)
(* the switches it must not look at, the detectors' prefilters against the *)
(* filter, the two feeds of one execution against each other, the levels   *)
(* of trigger orders against a price that moves until one of them fires,   *)
(* the book against all of its levels.                                     *)
(***************************************************************************)
EXTENDS Ingest

SomeConfigs ==
  [whale : {1, 3}, overrides : [Classes -> {None, 0, 2}], all_coins : {FALSE}, coins : {{"BTC"}},
   monitoring : {TRUE}, paused : BOOLEAN, detectors : {{"trade", "position", "order", "book"}},
   order_alerts : BOOLEAN, cancel_alerts : {FALSE}, margin : {0, 2}]

SomeEvents == [type : EventTypes, coin : {"BTC"}, notional : 0 .. 3, margin : {None, 1, 2}]

\* What has executed is judged alike whether or not resting orders are alerted;
\* a higher threshold lets nothing more through; and no liquidation, order or
\* book level is lost to the margin gate, whose figure they never have.
FilterHolds ==
  \A conf \in SomeConfigs, event \in SomeEvents :
    /\ Category(event.type) = "execution" =>
         (Accepts(event, conf) <=> Accepts(event, [conf EXCEPT !.order_alerts = TRUE]))
    /\ Accepts(event, [conf EXCEPT !.whale = @ + 1]) => Accepts(event, conf)
    /\ event.type \in OrderEvents \cup {"WHALE_LIQUIDATED", "BOOK_LEVEL"} =>
         (Accepts(event, conf) <=> Accepts(event, [conf EXCEPT !.margin = 2]))

\* The threshold of the filter for a type of event.
Asked(type, conf) == ThresholdFor(conf, ThresholdClass(KindOf(type)))

\* What each source can show of an order, no part of which is more than was
\* ordered: a snapshot what rests, a look for one that left what it was.
Shows(source, order) ==
  /\ order.rest <= order.orig
  /\ order.was # None => order.was <= order.orig
  /\ source = "frame"    => order.status # None
  /\ source = "snapshot" => order.status = "open"
  /\ source = "vanished" => order.was # None

\* A partial fill in a snapshot is admitted by what it left of the order and
\* told by what executed: the one exception to what follows.
PartOfSnapshot(source, order) ==
  source = "snapshot" /\ OrderType(source, order) = "ORDER_PARTIALLY_FILLED"

SomeSources == {"trade", "fill", "liquidation", "position", "book"}
SomeThresholds == {conf \in SomeConfigs : ~conf.paused /\ conf.order_alerts /\ conf.margin = 0}
SomeOrders ==
  [was : {None} \cup 0 .. 3, rest : 0 .. 3, orig : 0 .. 3,
   status : {None, "open", "filled", "canceled", "rejected", "triggered"}]

\* No prefilter drops what would reach the filter's threshold.  Of everything but
\* an order the prefilter compares the event's own figure, so its threshold must
\* not be the higher.  Of an order it compares another: that one must reach the
\* prefilter whenever the event's reaches the filter's, but for the exception.
PrefiltersHideNothing ==
  \A conf \in SomeThresholds :
    /\ \A source \in SomeSources : \A type \in TypesFrom(source) :
         Prefilter(source, conf) <= Asked(type, conf)
    /\ \A source \in OrderSources, order \in SomeOrders :
         Shows(source, order) /\ ~PartOfSnapshot(source, order)
         /\ OrderNotional(source, order) >= Asked(OrderType(source, order), conf)
           => Compared(source, order) >= Prefilter(source, conf)

\* And it is an exception: a part that reaches the filter's threshold is dropped
\* when what it leaves does not reach the prefilter, which is not "only a cheap
\* prefilter" (WhaleDetector) there.
LargePartIsDropped ==
  \E conf \in SomeThresholds, order \in SomeOrders :
    /\ Shows("snapshot", order) /\ PartOfSnapshot("snapshot", order) /\ order.rest > 0
    /\ OrderNotional("snapshot", order) >= Asked("ORDER_PARTIALLY_FILLED", conf)
    /\ Compared("snapshot", order) < Prefilter("snapshot", conf)

SomeExecutions ==
  [tid : {1, 2}, coin : {"BTC"}, notional : {5, 50}, buyer : {"a"}, seller : {"b"}, side : {"A", "B"}]
SomeContexts == [position : {None, 0, 2, -2}, margin : {None}]

\* The market feed and the taker's own tell one execution alike, however it was
\* enriched; the two participants' and two executions are kept apart; and a move
\* ten times the size is not cooled down with the first.
FeedsAgree ==
  \A x, y \in SomeExecutions, ctx, other \in SomeContexts :
    LET public == FromTrade(x, Taker(x), ctx)
        own    == FromFill(x, Taker(x), other)
        maker  == FromFill(x, Maker(x), other)
        next   == FromTrade(y, Taker(y), other)
    IN  /\ IdentityKey(public) = IdentityKey(own) /\ CooldownKey(public) = CooldownKey(own)
        /\ public.side = own.side /\ own.side # maker.side
        /\ IdentityKey(maker) # IdentityKey(own)
        /\ x.tid # y.tid => IdentityKey(public) # IdentityKey(next)
        /\ x.notional # y.notional => CooldownKey(public) # CooldownKey(next)

\* The sides read off what Hyperliquid writes on a fill.
DirectionsRead ==
  /\ StatedDirection(<<"open", "long">>) = None
  /\ StatedDirection(<<"close", "long">>) = "LONG"
  /\ StatedDirection(<<"liquidat", "short">>) = "SHORT"
  /\ StatedDirection(<<"long", ">", "short">>) = "LONG"
  /\ StatedDirection(<<"short", ">", "long">>) = "SHORT"
  /\ StatedDirection(<<"close">>) = None

\* The price moves from the mark in one direction until it meets a level.
Prices == 1 .. 5
FiresFirst(level, levels, mark, up) ==
  /\ level \in levels
  /\ \A other \in levels : IF up THEN level <= other ELSE other <= level

\* Of a position's trigger orders, the take profit told is the first that fires
\* as the price moves in its favour and the stop the first as it moves against
\* it, and a trigger of unknown type counts as the one that it can be.
LevelsFireFirst ==
  \A orders \in SUBSET [coin : {"BTC"}, kind : {"TP", "SL", "TRIGGER"}, px : {2, 4, 5}],
     side \in {"LONG", "SHORT"} :
    LET mark  == 3
        told  == ExtractTpSl(orders, "BTC", side, mark)
        up    == side = "LONG"
        ahead == {o.px : o \in {p \in orders : p.kind # "SL" /\ (p.kind = "TP" \/ (p.px > mark) = up)}}
        back  == {o.px : o \in {p \in orders : p.kind # "TP" /\ (p.kind = "SL" \/ (p.px < mark) = up)}}
    IN  /\ told.tp = None <=> ahead = {}
        /\ told.sl = None <=> back = {}
        /\ ahead # {} => FiresFirst(told.tp, ahead, mark, up)
        /\ back # {} => FiresFirst(told.sl, back, mark, ~up)

\* A book tells its large levels, bids before asks, and four at most.
BookTold ==
  \A bids, asks \in UNION {[1 .. n -> {1, 2}] : n \in 0 .. 5} :
    LET told == FromBook(bids, asks, 2)
        large(levels) == Cardinality({i \in DOMAIN levels : levels[i] >= 2})
        ofBids == Cardinality({i \in DOMAIN told : told[i].side = "BUY"})
    IN  /\ Len(told) = IF large(bids) + large(asks) > 4 THEN 4 ELSE large(bids) + large(asks)
        /\ ofBids = IF large(bids) > 4 THEN 4 ELSE large(bids)
        /\ \A i \in DOMAIN told : told[i].notional >= 2 /\ (told[i].side = "BUY" <=> i <= ofBids)

\* The rules hold what they promise: of the filter, of the detectors' prefilters
\* (but for the parts that a snapshot shows, some of which they do drop),
\* of the two feeds of an execution, of the direction of a fill, of trigger orders
\* and of books.  They keep no state, so the states before the first execution
\* are enough.
RulesHold ==
  market = <<>> /\ changes = 0 =>
    /\ FilterHolds /\ PrefiltersHideNothing /\ LargePartIsDropped
    /\ FeedsAgree /\ DirectionsRead /\ LevelsFireFirst /\ BookTold
=============================================================================
