----------------------------- MODULE MCExitChoice -----------------------------
(* Two requests, a static proxy, and a remote pool with two exits, one of     *)
(* which is the static proxy as well, the way a synchronised table has it.     *)
(* Two attempts per exit, so that an exit may have failed and be usable; one   *)
(* change of exit.  The settings: every way to choose, with both exits where   *)
(* only the remote pool counts and with the shared one where both do.          *)
EXTENDS ExitChoice, TLC

CONSTANTS r1, r2, p1, u1, u2

MCRequests == {r1, r2}
MCStatic == {p1}
MCUrls == {u1, u2}
MCUrlOf == [p \in MCStatic |-> u1]
Strategies == {"sticky", "round_robin"}
MCSettings ==
    [mode : {"dynamic_only"}, strategy : Strategies, fallback : {FALSE}, pool : {{u1, u2}}]
    \cup [mode : {"auto"}, strategy : Strategies, fallback : {TRUE}, pool : {{u1}}]
    \cup [mode : {"pool_only", "auto"}, strategy : {"sticky"}, fallback : {FALSE}, pool : {{}}]
    \cup [mode : {"static_only", "direct_only"}, strategy : {"sticky"}, fallback : {FALSE},
          pool : {{u1}}]
Alike == Permutations(MCRequests)

===============================================================================
