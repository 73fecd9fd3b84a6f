------------------------------ MODULE MCIngest ------------------------------
EXTENDS WhaleChecks

CONSTANTS buyer, holder, closer

MCWallets == {buyer, holder, closer}

\* The holder is long and sells to a short that becomes long; then it is
\* liquidated against a short that closes.
MCInitial == buyer :> -1 @@ holder :> 4 @@ closer :> -2

Sale == [tid |-> 1, coin |-> "BTC", notional |-> 2, buyer |-> buyer, seller |-> holder,
         side |-> "B", forced |-> None]
ForcedSale == [tid |-> 2, coin |-> "BTC", notional |-> 2, buyer |-> closer, seller |-> holder,
               side |-> "A", forced |-> holder]
MCExecutions == {Sale, ForcedSale}

Base == [whale |-> 2, overrides |-> [c \in Classes |-> None], all_coins |-> TRUE, coins |-> {},
         monitoring |-> TRUE, paused |-> FALSE, detectors |-> {"trade", "position"},
         order_alerts |-> FALSE, cancel_alerts |-> FALSE, margin |-> 0, tracking |-> TRUE,
         watch |-> {}]

\* Watching the closer under a pause; trades count from 4, a liquidation does
\* from 2, and margins are asked for.
Watching == [Base EXCEPT !.watch = {closer}, !.paused = TRUE, !.tracking = FALSE]
Strict   == [Base EXCEPT !.overrides["trade"] = 4, !.margin = 2, !.watch = {holder, closer}]
MCConfigs == {Base, Watching, Strict}
=============================================================================
