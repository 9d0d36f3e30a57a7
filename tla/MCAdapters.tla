----------------------------- MODULE MCAdapters -----------------------------
(* Answers of up to two pieces of text, one of reasoning and two tool calls. *)
(* Text and reasoning interleave with one call, text with two.               *)
EXTENDS Adapters

ACall == {c \in [given : BOOLEAN, named : BOOLEAN, pieces : 0..2, kind : Kinds] :
            c.pieces = 0 => c.kind # "other"}
MCAnswers ==
  [text : 0..2, think : 0..1, calls : {<<>>} \cup [1..1 -> ACall]]
    \cup [text : 0..1, think : {0},
          calls : {<<a, b>> : a \in ACall, b \in {c \in ACall : c.named /\ c.kind # "other"}}]

\* Streams with and without indexes; the Responses API with and without effort.
MCSetups ==
  [api : {"complete"}, reasoning : {"none", "raw"}, override : {"none"}, effort : {FALSE}, indexed : {TRUE}]
    \cup [api : {"stream"}, reasoning : {"none", "raw"}, override : {"none"}, effort : {FALSE}, indexed : BOOLEAN]
    \cup [api : {"stream"}, reasoning : {"none"}, override : {"raw"}, effort : {FALSE}, indexed : {TRUE}]
    \cup [api : {"responses"}, reasoning : {"none", "raw"}, override : {"none"}, effort : BOOLEAN, indexed : {TRUE}]
=============================================================================
