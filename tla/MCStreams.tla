------------------------------ MODULE MCStreams ------------------------------
(* Instances of Streams for TLC.  Answers are put together from words: an    *)
(* ordinary one, white space, a backtick, a block of code that was run, a     *)
(* tool call that can be parsed and one that cannot.  Every answer may stop   *)
(* early, so blocks that never end are there as well.                         *)
EXTENDS Streams, TLC

CONSTANTS q, tool, call, ran, py, s, json, a, b, doc

MCOther == {a, b, doc}

Words == { <<a>>, <<s>>, <<q>>,
           <<q, q, q, tool, call, json, q, q, q>>, <<q, q, q, tool, call, s, q, q, q>> }
RanCode == <<q, q, q, ran, a, q, q, q>>

Texts(words, most) == {FlattenSeq(ws) : ws \in UNION {[1 .. n -> words] : n \in 1 .. most}}

MCAnswers ==
    [text : Texts(Words, 3), thought : {<<>>}, draft : {<<>>}]
        \cup [text : Texts(Words \cup {RanCode}, 2), thought : {<<a, s, b>>}, draft : {<<>>}]
        \cup [text : Texts(Words \cup {RanCode}, 2), thought : {<<>>}, draft : {<<b, a>>}]

TextRequests ==
    [api : {"chat", "responses"}, stream : {TRUE}, tools : BOOLEAN, kind : {"text"}]
OtherRequests ==
    {[api |-> "chat", stream |-> FALSE, tools |-> TRUE, kind |-> "text"],
     [api |-> "chat", stream |-> TRUE, tools |-> FALSE, kind |-> "media"],
     [api |-> "responses", stream |-> TRUE, tools |-> FALSE, kind |-> "canvas"]}
AllRequests == TextRequests \cup OtherRequests

===============================================================================
