--------------------------- MODULE MCRateLimiter ---------------------------
EXTENDS RateLimiter, TLC

CONSTANTS universe, orders, positions

MCCallers == {universe, orders, positions}

\* metaAndAssetCtxs (20) of the universe loop and orderStatus (2) of the order
\* loop wait; frontendOpenOrders (20) and clearinghouseState (2) do not.
MCWaits == {<<universe, 3>>, <<orders, 1>>}
MCPolls == {<<orders, 3>>, <<positions, 1>>}
=============================================================================
