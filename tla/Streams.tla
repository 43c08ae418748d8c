------------------------------- MODULE Streams -------------------------------
(***************************************************************************)
(* How an answer of Google reaches the client: handleChatCompletions and   *)
(* handleResponses of server.go with their writers, callGemini, and the    *)
(* frames of one answer as streamGenerateWithFiles reads them.             *)
(*                                                                         *)
(* Google writes frames, each with the whole text so far, and may cut the  *)
(* text anywhere.  Every frame is cleaned and compared with what was sent; *)
(* what is new goes to the client at once, through the gate of Fences when *)
(* the client offered tools.  At the end the whole text is parsed and the  *)
(* rest is sent, with the tool calls and the closing events.               *)
(*                                                                         *)
(* Frames of an answer may stop at any point, the connection may break,    *)
(* and Google may send one draft that its text does not go on from.        *)
(* Which exits and accounts are tried, and how often, is in Request: here  *)
(* a failed attempt is repeated or is the last.                            *)
(*                                                                         *)
(* out is what the client has received, with deltas of the same kind that  *)
(* follow each other joined: how the text is cut does not matter to it.    *)
(***************************************************************************)
EXTENDS Fences

CONSTANTS Answers,          \* what the model may write: a text, before it some
                            \* reasoning, and a draft the text does not go on
                            \* from (<<>>: none)
          Doc,              \* a document (canvas) or a picture (media)
          Requests          \* [api, stream, tools, kind] as a client may ask for

ASSUME AnswersAssumption ==
    /\ Answers \subseteq [text : Seq(Char), thought : Seq(Char), draft : Seq(Char)]
    /\ Doc \in Char \ {Blank}

ASSUME RequestsAssumption ==
    Requests \subseteq [api : {"chat", "responses"}, stream : BOOLEAN,
                        tools : BOOLEAN, kind : {"text", "media", "canvas"}]

VARIABLES req,      \* the request
          answer,   \* what Google is writing
          frame,    \* the last text received that is not white space only, or
                    \* the last if all are; empty if there was none
          thought,  \* the longest reasoning received
          drafted,  \* Google has sent a draft
          tracker,  \* tracker.emitted: the text handed on
          rtracker, \* rtracker.emitted: the reasoning handed on
          gate,     \* the fence gate, if the client offered tools
          out,      \* what the client has received
          pc        \* "asked", "reading" or "done"

upstream == <<frame, thought, drafted>>
vars == <<req, answer, frame, thought, drafted, tracker, rtracker, gate, out, pc>>

-------------------------------------------------------------------------------
\* Events.

Event(kind, index, text) == [kind |-> kind, index |-> index, text |-> text]

Deltas == {"content", "reasoning", "output_text.delta"}

\* A delta is joined to one of its kind that was the last event.
Sent(es, e) ==
    IF e.kind \in Deltas /\ es # <<>> /\ Last(es).kind = e.kind
    THEN [es EXCEPT ![Len(es)].text = @ \o e.text]
    ELSE Append(es, e)

Indexes(es, kind) == {es[i].index : i \in {j \in DOMAIN es : es[j].kind = kind}}
Count(es, kind) == Cardinality({i \in DOMAIN es : es[i].kind = kind})

\* The first chunk of a chat stream (start), before any other.
Started(es) == IF es = <<>> THEN <<Event("role", 0, <<>>)>> ELSE es

\* nextIdx: the index of the next item.
NextIndex(es) == Count(es, "output_item.added")

\* msgIndex: the index of the message item, -1 if it is not there yet.
MessageIndex(es) ==
    IF Indexes(es, "content_part.added") = {} THEN -1
    ELSE Min(Indexes(es, "content_part.added"))

\* Mutants of EnsureMessage: the item is never declared, or for every delta.
EnsureMessageNever(es) == es
EnsureMessageAgain(es) ==
    es \o <<Event("output_item.added", NextIndex(es), <<>>),
            Event("content_part.added", NextIndex(es), <<>>)>>

\* ensureMsg
EnsureMessage(es) ==
    IF MessageIndex(es) # -1 THEN es
    ELSE es \o <<Event("output_item.added", NextIndex(es), <<>>),
                 Event("content_part.added", NextIndex(es), <<>>)>>

SendReasoning(es, text) ==
    IF text = <<>> THEN es ELSE Sent(Started(es), Event("reasoning", 0, text))

\* SendContent, and emitDelta of the responses API
SendContent(api, es, text) ==
    IF text = <<>> THEN es
    ELSE IF api = "chat" THEN Sent(Started(es), Event("content", 0, text))
    ELSE LET ready == EnsureMessage(es)
         IN  Sent(ready, Event("output_text.delta", MessageIndex(ready), text))

\* What of the text has reached the client (sentText).
SentText(g, emitted) == IF req.tools THEN g.sent ELSE emitted

-------------------------------------------------------------------------------
Init ==
    /\ req \in Requests
    /\ answer \in Answers
    /\ frame = <<>>
    /\ thought = <<>>
    /\ drafted = FALSE
    /\ tracker = <<>>
    /\ rtracker = <<>>
    /\ gate = NewGate
    /\ out = <<>>
    /\ pc = "asked"

Json400 == Event("json", 400, <<>>)

Handled(api, from, to) ==
    /\ req.api = api
    /\ pc = from
    /\ pc' = to
    /\ UNCHANGED <<req, answer, upstream, tracker, rtracker, gate>>

\* The request cannot be served: no such model, a picture without an account,
\* an empty prompt.  Nothing has been written yet.
RejectChat == Handled("chat", "asked", "done") /\ out' = <<Json400>>
RejectResponses == Handled("responses", "asked", "done") /\ out' = <<Json400>>

\* The request goes to Google.  The stream of a chat is opened by the first
\* thing to send, a responses stream at once.
AcceptChat == Handled("chat", "asked", "reading") /\ out' = <<>>
AcceptResponses ==
    /\ Handled("responses", "asked", "reading")
    /\ out' = IF req.stream THEN <<Event("created", 0, <<>>)>> ELSE <<>>

\* A mutant of NewIn: no comparison with what was handed on.
NewInAnyway(emitted, text) ==
    IF Len(text) <= Len(emitted) THEN <<>> ELSE After(text, Len(emitted))

\* deltaTracker.Push: what a cleaned text adds to the text handed on.
NewIn(emitted, text) ==
    IF Len(text) <= Len(emitted) THEN <<>> ELSE Remaining(text, emitted)

\* A line with more of the reasoning.  It is not for the responses API.
ReadReasoning ==
    /\ pc = "reading"
    /\ frame = <<>>
    /\ \E n \in Len(thought) + 1 .. Len(answer.thought) :
         LET told == SubSeq(answer.thought, 1, n)
             new == IF req.stream /\ req.api = "chat"
                    THEN NewIn(rtracker, Clean(told)) ELSE <<>>
         IN  /\ thought' = told
             /\ rtracker' = rtracker \o new
             /\ out' = SendReasoning(out, new)
    /\ UNCHANGED <<req, answer, frame, drafted, tracker, gate, pc>>

\* A text is received: what is new in it is sent, through the gate if there
\* are tools.
Receive(text) ==
    LET new == IF req.stream THEN NewIn(tracker, Clean(text)) ELSE <<>>
        pushed == IF req.tools THEN Push(gate, new) ELSE gate
        sent == IF req.tools THEN After(pushed.sent, Len(gate.sent)) ELSE new
    IN  /\ frame' = IF Trim(text) = <<>> /\ Trim(frame) # <<>> THEN frame ELSE text
        /\ tracker' = tracker \o new
        /\ gate' = pushed
        /\ out' = SendContent(req.api, out, sent)

\* A line with more of the text.
ReadText ==
    /\ pc = "reading"
    /\ thought = answer.thought
    /\ \E n \in 1 .. Len(answer.text) :
         /\ (drafted /\ frame = answer.draft) \/ n > Len(frame)
         /\ Receive(SubSeq(answer.text, 1, n))
    /\ UNCHANGED <<req, answer, thought, drafted, rtracker, pc>>

\* A line with a draft.
ReadDraft ==
    /\ pc = "reading"
    /\ ~drafted
    /\ answer.draft # <<>>
    /\ drafted' = TRUE
    /\ Receive(answer.draft)
    /\ UNCHANGED <<req, answer, thought, rtracker, pc>>

-------------------------------------------------------------------------------
\* The end.

\* extractResponseText
ResponseText == IF Clean(frame) # <<>> THEN Clean(frame) ELSE Unmarked(frame)

\* extractReasoning
Reasoning == Clean(thought)

\* The whole text and the tool calls, as callGemini returns them.  What was
\* made for the request comes behind the text, except for a document that
\* holds the text.
Whole(holds) ==
    [text |-> CASE req.kind = "canvas" /\ (ResponseText = <<>> \/ holds) -> <<Doc>>
                [] req.kind = "canvas" /\ ~(ResponseText = <<>> \/ holds)
                     -> ResponseText \o <<Blank, Doc>>
                [] req.kind = "media" -> Trim(ResponseText \o <<Blank, Doc>>)
                [] req.kind = "text" -> IF req.tools THEN Trim(Unfenced(ResponseText))
                                        ELSE ResponseText,
     calls |-> IF req.kind = "text" /\ req.tools THEN Cardinality(ToolCalls(ResponseText))
              ELSE 0]

\* The events of one tool call of a responses stream.
CallEvents(es) ==
    es \o <<Event("output_item.added", NextIndex(es), <<>>),
            Event("arguments.done", NextIndex(es), <<>>),
            Event("output_item.done", NextIndex(es), <<>>)>>

\* The events that close the message of a responses stream.
MessageEvents(es, text) ==
    LET ready == EnsureMessage(es)
        i == MessageIndex(ready)
    IN  ready \o <<Event("output_text.done", i, text), Event("content_part.done", i, text),
                   Event("output_item.done", i, <<>>)>>

\* The rest of the text, then output item by item: calls, then the message.
ResponsesEnd(es, text, calls, rest) ==
    LET filled == SendContent("responses", es, rest)
        called == Rounds(CallEvents, filled)[calls]
    IN  Append(IF text # <<>> \/ calls = 0 THEN MessageEvents(called, text) ELSE called,
               Event("completed", 0, text))

\* The end of a chat stream.
SendToolCalls(es, calls) ==
    IF calls = 0 THEN es ELSE Append(Started(es), Event("tool_calls", calls, <<>>))
FinishStream(es) == Started(es) \o <<Event("finish", 0, <<>>), Event("[DONE]", 0, <<>>)>>
FailStream(es) == Started(es) \o <<Event("error", 0, <<>>), Event("[DONE]", 0, <<>>)>>

\* The rest of the reasoning and of the text, the tool calls, the finish.
ChatEnd(es, text, calls, rest) ==
    LET thinking == SendReasoning(es, Remaining(Reasoning, rtracker))
        filled == SendContent("chat", thinking, rest)
    IN  FinishStream(SendToolCalls(filled, calls))

\* A mutant of Rest: compared with what the tracker handed on, fences and all.
RestOfTracker(text) == Remaining(text, tracker)

\* What is sent of the text at the end.
Rest(text) == Remaining(text, SentText(gate, tracker))

\* hasContentFrame: a body without a single frame is no answer; a frame with
\* white space is one.
HasContentFrame == frame # <<>> \/ thought # <<>>

\* What callGemini may return.  A text must not be empty.
Replies ==
    IF HasContentFrame /\ (req.kind = "text" => ResponseText # <<>>)
    THEN {Whole(holds) : holds \in BOOLEAN} ELSE {}

\* The answer is complete.
CompleteChat ==
    /\ Handled("chat", "reading", "done")
    /\ \E w \in Replies :
         out' = IF req.stream THEN ChatEnd(out, w.text, w.calls, Rest(w.text))
                ELSE <<Event("json", 200, w.text)>>

CompleteResponses ==
    /\ Handled("responses", "reading", "done")
    /\ \E w \in Replies :
         out' = IF req.stream THEN ResponsesEnd(out, w.text, w.calls, Rest(w.text))
                ELSE <<Event("json", 200, w.text)>>

\* No exit (429), a prompt that is too long (400), or the connection breaks,
\* the body ends without a frame, or nothing usable was in it (502).
Failures == {502} \cup (IF HasContentFrame THEN {} ELSE {400, 429})

\* A mutant of FailResponses: an error is always a JSON answer.
FailResponsesAsJson ==
    /\ Handled("responses", "reading", "done")
    /\ \E status \in Failures : out' = Append(out, Event("json", status, <<>>))

\* An error is told by an event if the stream is open, else by a status.
FailChat ==
    /\ Handled("chat", "reading", "done")
    /\ \E status \in Failures :
         out' = IF req.stream /\ out # <<>> THEN FailStream(out)
                ELSE <<Event("json", status, <<>>)>>

FailResponses ==
    /\ Handled("responses", "reading", "done")
    /\ \E status \in Failures :
         out' = IF req.stream THEN Append(out, Event("failed", 0, <<>>))
                ELSE <<Event("json", status, <<>>)>>

\* An attempt that has handed nothing on may be repeated.
MayRetry == tracker = <<>> /\ rtracker = <<>>

Retry ==
    /\ pc = "reading"
    /\ MayRetry
    /\ HasContentFrame
    /\ frame' = <<>>
    /\ thought' = <<>>
    /\ UNCHANGED <<req, answer, drafted, tracker, rtracker, gate, out, pc>>

Next ==
    \/ RejectChat \/ AcceptChat \/ RejectResponses \/ AcceptResponses
    \/ ReadReasoning \/ ReadText \/ ReadDraft \/ Retry
    \/ CompleteChat \/ CompleteResponses \/ FailChat \/ FailResponses

Spec == Init /\ [][Next]_vars

-------------------------------------------------------------------------------
\* Properties.

\* Types of the variables; every event about an item names one.
TypeOK ==
    /\ req \in Requests
    /\ answer \in Answers
    /\ frame = answer.draft \/ IsPrefix(frame, answer.text)
    /\ IsPrefix(thought, answer.thought)
    /\ drafted \in BOOLEAN
    /\ gate.inFence \in BOOLEAN
    /\ \A i \in DOMAIN out : out[i].index \in Nat
    /\ pc \in {"asked", "reading", "done"}

\* The text the client puts together, and whether it was told of its end.
TextOf(es) ==
    LET upto[n \in 0 .. Len(es)] ==
          IF n = 0 THEN <<>>
          ELSE IF es[n].kind \in {"content", "output_text.delta"}
          THEN upto[n - 1] \o es[n].text ELSE upto[n - 1]
    IN  upto[Len(es)]
Received == TextOf(out)
Answered == Count(out, "finish") + Count(out, "completed") > 0

\* Google has changed none of the text it sent before, and neither has the
\* program, which it does when the model ran code.
Unchanged == ~drafted /\ First(answer.text, CodeOpen) = 0

\* What was handed on is always one text that Google wrote, never the start of
\* one and the end of another (deltaTracker.Push), and the gate has let through
\* and holds back what it would have if that text had come in one piece:
\* how Google cuts it has no influence (toolFenceGate.Push).
SentIsOneText ==
    /\ \/ tracker \in {<<>>, Clean(answer.draft)}
       \/ \E n \in 1 .. Len(answer.text) : tracker = Clean(SubSeq(answer.text, 1, n))
    /\ req.tools => gate = Push(NewGate, tracker)

\* The gate lets nothing through that is not in the text a client without a
\* stream would get, however the answer goes on: of a fence not one tick.
NeverTakenBack ==
    req.tools /\ Unchanged => IsPrefix(gate.sent, Unfenced(Clean(answer.text)))

\* A client that reads a stream ends up with the text that the same answer
\* gives in one piece, but for white space at its ends: nothing is missing,
\* nothing is there twice.  Not so when the text without its fences begins
\* with white space (see WholeAnswer), or for a canvas.
StreamEqualsReply ==
    /\ Answered
    /\ Unchanged
    /\ req.kind = "text" \/ (req.kind = "media" /\ ~req.tools)
    /\ req.tools => Unfenced(ResponseText) = <<>> \/ Head(Unfenced(ResponseText)) # Blank
    => Trim(Received) = Whole(FALSE).text

\* Every item of a responses stream is declared once, with an index of its
\* own, before anything else is said of it, and nothing is said after it is
\* done.  At the end every item is done, unless the text is white space only
\* or was changed.
ItemLifecycle ==
    LET At(kind, n) == {i \in DOMAIN out : out[i].kind = kind /\ out[i].index = n}
    IN  req.stream /\ req.api = "responses" =>
          /\ \A i \in DOMAIN out :
               out[i].kind \notin {"created", "completed", "failed", "json", "output_item.added"} =>
                 /\ \E j \in At("output_item.added", out[i].index) : j < i
                 /\ \A j \in At("output_item.done", out[i].index) : i <= j
          /\ \A n \in 0 .. NextIndex(out) - 1 : Cardinality(At("output_item.added", n)) = 1
          /\ Answered /\ Unchanged /\ (Trim(Received) # <<>> \/ Received = <<>>) =>
               \A n \in 0 .. NextIndex(out) - 1 : Cardinality(At("output_item.done", n)) = 1

Closings == {"json", "[DONE]", "completed", "failed"}

\* A client is told once that its answer has ended, and of an error by a
\* status only if nothing else was sent.
EndsOnce ==
    /\ \A i \in DOMAIN out : out[i].kind \in Closings => i = Len(out)
    /\ pc = "done" => Last(out).kind \in Closings
    /\ Count(out, "json") > 0 => Len(out) = 1

\* What CHANGELOG.md:395-405 says of streams with tools: the same text, to the
\* character, as without a stream.
WholeAnswer ==
    Answered /\ Unchanged /\ req.kind = "text" => Trim(Received) = Whole(FALSE).text

===============================================================================
