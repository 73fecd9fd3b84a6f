----------------------------- MODULE FeedControl -----------------------------
(***************************************************************************)
(* How a running WhaleEngine (src/app/whale/engine.py) decides what is     *)
(* connected: the coins market_ws is asked for, and the focus slate, one   *)
(* websocket per focus wallet.                                             *)
(*                                                                         *)
(* Three tasks act on them: _universe_loop, _focus_loop and the handler of *)
(* a configuration change, which applies both at once when the global      *)
(* pause was switched.  _apply_focus_slate waits only while a released     *)
(* socket stops: it computes what is wanted, forgets sockets one at a time *)
(* with a wait after each, and then opens the missing ones without a wait. *)
(* replace_subscriptions may wait after each key; WsClient has the frames. *)
(* The tracker's choice of wallets is any choice of at most Limit.         *)
(***************************************************************************)
EXTENDS Integers, FiniteSets

CONSTANTS
  Wallets,         \* wallets the tracker may elect
  Coins,           \* coins of the universe
  NoWallet,        \* no socket is closing
  Limit,           \* min(ws_focus_wallets, MAX_FOCUS_WALLETS)
  MaxConnections,  \* MAX_WS_CONNECTIONS
  MaxChanges       \* bound: configuration changes

ASSUME FeedAssumption ==
  /\ NoWallet \notin Wallets
  /\ IsFiniteSet(Wallets)
  /\ Limit \in Nat /\ MaxChanges \in Nat
  /\ MaxConnections \in Nat /\ Limit <= MaxConnections - 2

VARIABLES
  paused, monitoring,  \* the configuration; _paused_seen is the same as paused
  universe,            \* _universe
  market,              \* market_ws._desired
  feed,                \* per task: where its replace_subscriptions stands
  userWs,              \* keys of _user_ws
  slate,               \* per task: where its _apply_focus_slate stands
  changes              \* configuration changes so far

config == <<paused, monitoring, changes>>
marketVars == <<universe, market, feed>>
focusVars == <<userWs, slate>>
feedVars == <<config, marketVars, focusVars>>

Tasks == {"loop", "handler"}

NoFeed  == [at |-> "idle", drop |-> {}, add |-> {}]
NoSlate == [wanted |-> {}, drop |-> {}, closing |-> NoWallet]

\* monitoring_active
Active == monitoring /\ ~paused

\* _desired_market_subscriptions: the trades of the universe's coins.
Desired(active, coins) == IF active THEN coins ELSE {}

Busy(task) == slate[task].closing # NoWallet

FeedInit ==
  /\ paused \in BOOLEAN /\ monitoring \in BOOLEAN
  /\ universe \in SUBSET Coins
  /\ market = Desired(Active, universe)
  /\ feed = [task \in Tasks |-> NoFeed]
  /\ userWs = {}
  /\ slate = [task \in Tasks |-> NoSlate]
  /\ changes = 0

-----------------------------------------------------------------------------
(* The focus slate.                                                        *)

\* The sockets after the last loop of _apply_focus_slate: wanted ones are
\* opened, in an order the tracker chose, until the slate is full.
Filled(open, wanted) ==
  {ws \in SUBSET (open \cup wanted) :
     /\ open \subseteq ws
     /\ Cardinality(ws) <= Limit
     /\ ws = open \cup wanted \/ Cardinality(ws) = Limit}

\* Mutant of Proceed: all the sockets to release are forgotten before the first
\* of them is stopped, and the missing ones opened at the same time.
ProceedAtOnce(task, wanted, drop) ==
  IF drop \cap userWs = {}
  THEN /\ userWs' \in Filled(userWs, wanted)
       /\ slate' = [slate EXCEPT ![task] = NoSlate]
  ELSE \E w \in drop \cap userWs :
         /\ userWs' \in Filled(userWs \ drop, wanted)
         /\ slate' = [slate EXCEPT ![task] =
                        [wanted |-> wanted, drop |-> {}, closing |-> w]]

\* From here to the next wait: the next socket that is not wanted is forgotten
\* and stopped; popping one that the other task has already forgotten raises
\* KeyError and ends the task's call; with none left, the missing are opened.
Proceed(task, wanted, drop) ==
  \/ /\ drop = {}
     /\ userWs' \in Filled(userWs, wanted)
     /\ slate' = [slate EXCEPT ![task] = NoSlate]
  \/ \E w \in drop \cap userWs :
       /\ userWs' = userWs \ {w}
       /\ slate' = [slate EXCEPT ![task] =
                      [wanted |-> wanted, drop |-> drop \ {w}, closing |-> w]]
  \/ /\ drop \ userWs # {}
     /\ slate' = [slate EXCEPT ![task] = NoSlate]
     /\ UNCHANGED userWs

\* Mutant of Elected: an inactive engine leaves the slate as it is.
ElectedKeepsInactive ==
  IF Active THEN {s \in SUBSET Wallets : Cardinality(s) <= Limit} ELSE {userWs}

\* What _apply_focus_slate may want: the tracker's best, or nothing while the
\* engine is not active (or the order detector is off).
Elected == IF Active THEN {s \in SUBSET Wallets : Cardinality(s) <= Limit} ELSE {{}}

ApplySlate(task) == \E wanted \in Elected : Proceed(task, wanted, userWs \ wanted)

\* The minute is over.
FocusTick ==
  /\ ~Busy("loop")
  /\ ApplySlate("loop")
  /\ UNCHANGED <<config, marketVars>>

\* The socket has stopped.
SocketStopped(task) ==
  /\ Busy(task)
  /\ Proceed(task, slate[task].wanted, slate[task].drop)
  /\ UNCHANGED <<config, marketVars>>

-----------------------------------------------------------------------------
(* The market feed.                                                        *)

\* replace_subscriptions starts: what is desired and not wanted will go.
Replacing(wanted) == [at |-> "replace", drop |-> market \ wanted, add |-> wanted]

\* A configuration change or, at any other time, UNIVERSE_REFRESH wakes the
\* universe loop; it asks the exchange for the coins.
Wake ==
  /\ feed["loop"].at = "idle"
  /\ feed' = [feed EXCEPT !["loop"].at = "refresh"]
  /\ UNCHANGED <<config, universe, market, focusVars>>

\* Mutant of Refreshed: a loop that leaves an inactive engine alone.
RefreshedIfActive ==
  /\ feed["loop"].at = "refresh"
  /\ universe' \in SUBSET Coins
  /\ feed' = [feed EXCEPT !["loop"] = IF Active THEN Replacing(universe') ELSE NoFeed]
  /\ UNCHANGED <<config, market, focusVars>>

\* The answer, or its absence, gives a universe; the configuration is read now.
Refreshed ==
  /\ feed["loop"].at = "refresh"
  /\ universe' \in SUBSET Coins
  /\ feed' = [feed EXCEPT !["loop"] = Replacing(Desired(Active, universe'))]
  /\ UNCHANGED <<config, market, focusVars>>

DropCoin(task, coin) ==
  /\ coin \in feed[task].drop
  /\ market' = market \ {coin}
  /\ feed' = [feed EXCEPT ![task].drop = @ \ {coin}]
  /\ UNCHANGED <<config, universe, focusVars>>

AddCoin(task, coin) ==
  /\ feed[task].drop = {}
  /\ coin \in feed[task].add
  /\ market' = market \cup {coin}
  /\ feed' = [feed EXCEPT ![task].add = @ \ {coin}]
  /\ UNCHANGED <<config, universe, focusVars>>

Replaced(task) == feed[task].at = "replace" /\ feed[task].drop \cup feed[task].add = {}

LoopReplaced ==
  /\ Replaced("loop")
  /\ feed' = [feed EXCEPT !["loop"] = NoFeed]
  /\ UNCHANGED <<config, universe, market, focusVars>>

-----------------------------------------------------------------------------
(* The handler of a configuration change; handlers run one at a time.      *)

HandlerIdle == feed["handler"].at = "idle" /\ ~Busy("handler")

\* The configuration is replaced and _on_config_change runs to its first wait:
\* a switched pause starts to replace the market's subscriptions.
Change(p, m) ==
  /\ HandlerIdle
  /\ changes < MaxChanges
  /\ changes' = changes + 1
  /\ paused' = p /\ monitoring' = m
  /\ feed' = IF p = paused THEN feed
             ELSE [feed EXCEPT !["handler"] = Replacing(Desired(m /\ ~p, universe))]
  /\ UNCHANGED <<universe, market, focusVars>>

\* Then it applies the slate.
HandlerReplaced ==
  /\ Replaced("handler")
  /\ feed' = [feed EXCEPT !["handler"] = NoFeed]
  /\ ApplySlate("handler")
  /\ UNCHANGED <<config, universe, market>>

-----------------------------------------------------------------------------
ReplaceMarket(task) == \E coin \in Coins : DropCoin(task, coin) \/ AddCoin(task, coin)

UniverseLoop == Wake \/ Refreshed \/ ReplaceMarket("loop") \/ LoopReplaced

Handler == ReplaceMarket("handler") \/ HandlerReplaced

FeedNext ==
  \/ UniverseLoop \/ Handler \/ FocusTick
  \/ \E task \in Tasks : SocketStopped(task)
  \/ \E p, m \in BOOLEAN : Change(p, m)

FeedSpec == FeedInit /\ [][FeedNext]_feedVars

\* The event loop runs the tasks, timers end, requests and sockets time out.
Fairness ==
  /\ WF_feedVars(UniverseLoop) /\ WF_feedVars(Handler) /\ WF_feedVars(FocusTick)
  /\ \A task \in Tasks : WF_feedVars(SocketStopped(task))

FeedFairSpec == FeedSpec /\ Fairness

-----------------------------------------------------------------------------
(* Properties.                                                             *)

Closing == {task \in Tasks : Busy(task)}

\* Types; never more sockets in the slate than its limit.
FeedTypeOK ==
  /\ paused \in BOOLEAN /\ monitoring \in BOOLEAN
  /\ universe \subseteq Coins /\ market \subseteq Coins
  /\ feed \in [Tasks -> [at : {"idle", "refresh", "replace"}, drop : SUBSET Coins,
                         add : SUBSET Coins]]
  /\ userWs \subseteq Wallets /\ Cardinality(userWs) <= Limit
  /\ slate \in [Tasks -> [wanted : SUBSET Wallets, drop : SUBSET Wallets,
                          closing : Wallets \cup {NoWallet}]]
  /\ changes \in 0..MaxChanges

\* The market socket, the slate and the sockets on their way to a stop stay
\* within the exchange's connections per IP, although the loop and the handler
\* may each be closing one while the slate is full: the spare connection is
\* exactly what that takes.
ConnectionCeiling ==
  1 + Cardinality(userWs) + Cardinality(Closing) <= MaxConnections

\* An engine that stays inactive closes every focus socket in the end, also
\* after a race between the loop and the handler left one open.
SlateDrains == <>[]~Active => <>[](userWs = {} /\ Closing = {})

\* Whatever the races between loop and handler left behind, the market's
\* subscriptions agree with a configuration that stays.
FeedsFollow ==
  /\ <>[]~Active => <>[](market = {})
  /\ <>[]Active => []<>(market = universe)

=============================================================================
