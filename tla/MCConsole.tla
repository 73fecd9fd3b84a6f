----------------------------- MODULE MCConsole -----------------------------
(* Two environments: a cautious one and one for a deployment in the open.  *)
EXTENDS Console, TLC

CONSTANTS alice, bob, btc, hype, whale, none

MCUsers == {alice, bob}
MCCoins == {btc, hype}
MCWallets == {whale}

Environment(open, threshold, margin, seeds) ==
  [p \in Keys \cup {"coins"} |->
     CASE p = "monitoring_enabled"     -> TRUE
       [] p = "paused"                 -> FALSE
       [] p = "public_mode"            -> open
       [] p = "min_whale_value"        -> threshold
       [] p = "min_margin_value"       -> margin
       [] p = "alert_cooldown_seconds" -> 1
       [] p = "all_coins"              -> open
       [] p = "enable_order_alerts"    -> FALSE
       [] p = "coins"                  -> seeds]

MCEnvs == {Environment(FALSE, 1, 0, {btc}), Environment(TRUE, 2, 1, {})}

MCAmounts == {0, 5}
MCSeconds == {9}
=============================================================================
