---------------------------- MODULE MCAccountPool ----------------------------
(* Two accounts and two goroutines: picks and results of two requests with   *)
(* an admin's toggle between their statements, over three seconds.           *)
EXTENDS AccountPool, TLC

CONSTANTS t1, t2

MCTasks == {t1, t2}
MCAccounts == {1, 2}
Sym == Permutations(MCTasks)

===============================================================================
