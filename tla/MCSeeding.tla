------------------------------ MODULE MCSeeding ------------------------------
(* Two values a row can be made of and one it cannot, one refresh, and one   *)
(* thing that goes wrong: a start that is cut short or a statement that fails *)
(* needs a second start to show its consequences, and a third to see what a   *)
(* stale record does then.                                                    *)
EXTENDS Seeding, TLC

CONSTANTS u1, u2, bad

MCNames == {u1, u2, bad}
MCBad == {bad}
Alike == Permutations({u1, u2})

===============================================================================
