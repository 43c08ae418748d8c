------------------------------ MODULE MCRequest ------------------------------
(* Two requests that compete for the places of two proxies.  The jobs are    *)
(* the ones that take different ways through the code.                       *)
EXTENDS Request, TLC

CONSTANTS r1, r2, a1, a2, p1, p2

MCRequests == {r1, r2}
OneRequest == {r1}
MCAccounts == {a1, a2}
MCProxies == {p1, p2}

Chat == [login |-> TRUE, pending |-> 0, long |-> FALSE, stream |-> TRUE]
Anonymous == [login |-> FALSE, pending |-> 0, long |-> FALSE, stream |-> FALSE]
Pictures == [login |-> TRUE, pending |-> 2, long |-> FALSE, stream |-> FALSE]
LongChat == [login |-> TRUE, pending |-> 1, long |-> TRUE, stream |-> FALSE]

AllJobs == {Chat, Anonymous, Pictures, LongChat}
TwoJobs == {Chat, LongChat}

Sym == Permutations(MCRequests) \cup Permutations(MCAccounts) \cup Permutations(MCProxies)

===============================================================================
