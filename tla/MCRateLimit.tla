----------------------------- MODULE MCRateLimit -----------------------------
(* The limiter on one exit with three callers: enough for two callers to    *)
(* create the exit's slot at once while a third finds it, for every limit    *)
(* to refuse, and for both windows to expire before the clock stops.  From   *)
(* one record of limits to another each limit goes up, down and to 0, so a   *)
(* save between two reads of a decision can turn any of its comparisons.     *)
EXTENDS RateLimit, TLC

CONSTANTS c1, c2, c3, e1

MCCallers == {c1, c2, c3}
MCExits == {e1}
MCLimits == {[conc |-> 2, rpm |-> 2, rph |-> 3],
             [conc |-> 1, rpm |-> 0, rph |-> 3],
             [conc |-> 0, rpm |-> 1, rph |-> 0]}
Sym == Permutations(MCCallers)

===============================================================================
