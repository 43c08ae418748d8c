----------------------------- MODULE MCConversation -----------------------------
(* Instances of Conversation for TLC. *)
EXTENDS Conversation, TLC

CONSTANTS h1, h2, c1, c2, c3, c4, e1, e2

HandlersDef == {h1, h2}
ConvsDef == {c1, c2, c3, c4}
ExitsDef == {e1, e2}
Symmetric == Permutations(ExitsDef) \cup Permutations(HandlersDef) \cup Permutations(ConvsDef)

===============================================================================
