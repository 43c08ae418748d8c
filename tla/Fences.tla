-------------------------------- MODULE Fences --------------------------------
(***************************************************************************)
(* Texts, and what the program cuts out of them: the blocks the model      *)
(* fences off for a tool call or for code it ran (messages.go, gemini.go), *)
(* and the gate that keeps half a fence from a client who is already being *)
(* sent the text.                                                          *)
(*                                                                         *)
(* A text is a sequence of characters.  Only the characters that the code  *)
(* looks for are told apart: the backtick, the words that make three of    *)
(* them the start of a block (cut in two, as a frame may end inside), a    *)
(* white space, and the text of a tool call that can be parsed.            *)
(***************************************************************************)
EXTENDS Naturals, Sequences, SequencesExt

CONSTANTS Tick,             \* `
          Tool1, Tool2,     \* the two halves of the word tool_call
          Ran,              \* python?code_stdout&code_event_index=0
          Python,           \* the same word when the mark is taken off it
          Blank,            \* white space
          Json,             \* a tool call that json.Unmarshal accepts
          Other             \* every other character

Char == {Tick, Tool1, Tool2, Ran, Python, Blank, Json} \cup Other

ASSUME CharAssumption == Tick # Blank

FenceClose == <<Tick, Tick, Tick>>
FenceOpen == FenceClose \o <<Tool1, Tool2>>
CodeOpen == FenceClose \o <<Ran>>

-------------------------------------------------------------------------------
\* Where the text m begins in s for the first time, 0 if nowhere (strings.Index).
First(s, m) ==
    LET hits == {i \in 1 .. Len(s) - Len(m) + 1 : SubSeq(s, i, i + Len(m) - 1) = m}
    IN  IF hits = {} THEN 0 ELSE Min(hits)

Upto(s, i) == SubSeq(s, 1, i - 1)
After(s, i) == SubSeq(s, i + 1, Len(s))

\* strings.TrimSpace
Trim(s) ==
    LET solid == {i \in DOMAIN s : s[i] # Blank}
    IN  IF solid = {} THEN <<>> ELSE SubSeq(s, Min(solid), Max(solid))

\* op(op(... op(x))), by the number of times.
Rounds(op(_), x) == LET r[n \in Nat] == IF n = 0 THEN x ELSE op(r[n - 1]) IN r

\* A loop over s that takes a fence off it in every round, until there is none
\* and op changes nothing any more.
Exhaust(op(_), x, s) == Rounds(op, x)[Len(s) \div Len(FenceClose) + 1]

\* One match of a pattern that begins with open and ends at the next close.
\* With eats, a white space behind it belongs to it (\n? at its end).
CutBlock(st, open, eats) ==
    LET i == First(st.rest, open)
        inner == After(st.rest, i + Len(open) - 1)
        j == First(inner, FenceClose)
        tail == After(inner, j + Len(FenceClose) - 1)
        eaten == eats /\ tail # <<>> /\ Head(tail) = Blank
    IN  IF i = 0 \/ j = 0 THEN st
        ELSE [text |-> st.text \o Upto(st.rest, i),
              rest |-> IF eaten THEN Tail(tail) ELSE tail,
              blocks |-> Append(st.blocks, Upto(inner, j))]

Cut(s, open, eats) ==
    LET Once(st) == CutBlock(st, open, eats)
        end == Exhaust(Once, [text |-> <<>>, rest |-> s, blocks |-> <<>>], s)
    IN  [text |-> end.text \o end.rest, blocks |-> end.blocks]

\* What parseToolCalls leaves of a text, and which blocks are calls.
Unfenced(s) == Cut(s, FenceOpen, FALSE).text
ToolCalls(s) ==
    LET found == Cut(s, FenceOpen, FALSE).blocks
    IN  {i \in DOMAIN found : Trim(found[i]) = <<Json>>}

\* cleanGeminiText: without the code that the model ran.
Clean(s) == Trim(Cut(s, CodeOpen, TRUE).text)

\* When nothing would be left, only the marks of that code are taken off.
Unmarked(s) == Trim([i \in DOMAIN s |-> IF s[i] = Ran THEN Python ELSE s[i]])

-------------------------------------------------------------------------------
\* A mutant of Held: nothing is held back at the end of the text.
HeldNothing(s) == 0

\* partialPrefixLen: how much of the end of s may be the start of a fence.
Held(s) ==
    LET starts == {k \in 1 .. Len(FenceOpen) - 1 :
                     k <= Len(s) /\ IsSuffix(SubSeq(FenceOpen, 1, k), s)}
    IN  IF starts = {} THEN 0 ELSE Max(starts)

\* toolFenceGate
NewGate == [buf |-> <<>>, sent |-> <<>>, inFence |-> FALSE]

\* A round of the loop of Push: leave a fence, enter one, or send what is
\* certain not to belong to one.
Sift(g) ==
    LET close == First(g.buf, FenceClose)
        open == First(g.buf, FenceOpen)
        keep == Len(g.buf) - Held(g.buf)
    IN  IF g.inFence
        THEN IF close = 0 THEN g
             ELSE [g EXCEPT !.buf = After(g.buf, close + Len(FenceClose) - 1),
                            !.inFence = FALSE]
        ELSE IF open # 0
        THEN [buf |-> After(g.buf, open + Len(FenceOpen) - 1),
              sent |-> g.sent \o Upto(g.buf, open), inFence |-> TRUE]
        ELSE [g EXCEPT !.buf = After(g.buf, keep),
                       !.sent = @ \o SubSeq(g.buf, 1, keep)]

Push(g, delta) == Exhaust(Sift, [g EXCEPT !.buf = @ \o delta], g.buf \o delta)

\* remainingOf: what of a text is still to be sent.  Nothing, when something
\* else was sent already and cannot be taken back.
Remaining(full, emitted) ==
    IF IsPrefix(emitted, full) THEN After(full, Len(emitted)) ELSE <<>>

===============================================================================
