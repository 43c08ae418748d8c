---------------------------- MODULE MCCookieRefresh ----------------------------
(* The scheduler and one goroutine of a request or the admin, on two         *)
(* accounts: each may overtake the other at every step of a rotation, and    *)
(* the session of either may be set by an answer to the other.               *)
EXTENDS CookieRefresh

CONSTANTS t1, s

MCTasks == {t1}
MCAccounts == {1, 2}

===============================================================================
