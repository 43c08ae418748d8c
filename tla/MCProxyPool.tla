----------------------------- MODULE MCProxyPool -----------------------------
(* Two goroutines beside the scheduler's, and two proxies: enough for a load *)
(* to overtake another load, a result or an admin call.                      *)
EXTENDS ProxyPool

CONSTANTS w1, w2, p1, p2

MCWorkers == {w1, w2}
MCProxies == {p1, p2}

===============================================================================
