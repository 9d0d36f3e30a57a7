------------------------------ MODULE Adapters ------------------------------
(***************************************************************************)
(* One model request, from the adapter that sends it to the conversation   *)
(* the executor continues with its response. Three ways lead to the same   *)
(* ModelResponse: a chat completion, a chat completion streamed in pieces, *)
(* and a request of the Responses API, repeated once without "reasoning".  *)
(*                                                                         *)
(* The answer of the provider is text and reasoning of so many pieces and  *)
(* a list of tool calls. Pieces are numbers, so that lost, reordered and   *)
(* mixed pieces show; the pieces of the arguments of call i are <<i, k>>.  *)
(* A stream delivers each of these in its own order, the rest in any; it   *)
(* may raise or end at any point. Chunks without a delta change nothing.   *)
(***************************************************************************)
EXTENDS Naturals, Sequences, FiniteSets, SequencesExt

CONSTANTS
  Answers,  \* the answers a provider may give
  Setups    \* the adapters and options a request may be made with

Kinds == {"object", "other", "malformed"}  \* what the arguments are as JSON
Apis == {"complete", "stream", "responses"}

ASSUME AdaptersAssumption ==
  /\ \A a \in Answers :
       /\ {a.text, a.think} \subseteq Nat
       /\ a.calls \in Seq([given : BOOLEAN, named : BOOLEAN, pieces : Nat, kind : Kinds])
  /\ \A s \in Setups :
       /\ s.api \in Apis /\ {s.reasoning, s.override} \subseteq {"none", "raw"}
       /\ {s.effort, s.indexed} \subseteq BOOLEAN

VARIABLES
  setup,     \* api, reasoning modes, reasoning effort, and whether deltas carry an index
  meant,     \* the answer: what the provider means to say
  requests,  \* the requests sent: with the effort or not, and how they were received
  sent,      \* how many pieces of the text, the reasoning and each call have arrived
  deltas,    \* per channel, the deltas the consumer of events has seen
  parts,     \* content_parts
  thoughts,  \* reasoning_parts
  builders,  \* tool_call_builders
  received,  \* the ModelResponse or the exception
  wire       \* the tool calls and answers of the next request

buffers == <<deltas, parts, thoughts, builders>>
adaptersVars == <<setup, meant, requests, sent, buffers, received, wire>>

\* Ids are empty, given by the provider, or made up from a position.
NoId == <<>>
Given(i) == <<"id", i>>
MadeUp(idx) == <<"call", idx>>

NoName == 0
Open == [kind |-> "open"]
Invalid == [kind |-> "ModelOutputValidationError"]
ProviderError == [kind |-> "ModelProviderError"]
Response(content, reasoning, calls) ==
  [kind |-> "response", content |-> content, reasoning |-> reasoning, calls |-> calls]

-----------------------------------------------------------------------------
(* Normalisation *)

\* The call as the provider means it.
Pieces(n) == [k \in 1..n |-> k]
Whole(i) == [k \in 1..meant.calls[i].pieces |-> <<i, k>>]
MeantCall(i) == [id |-> IF meant.calls[i].given THEN Given(i) ELSE NoId,
            name |-> IF meant.calls[i].named THEN i ELSE NoName,
            args |-> Whole(i)]

\* Part of a JSON object is not JSON, nor are two of them mixed or joined.
Parsed(args) ==
  IF \E i \in DOMAIN meant.calls : args = Whole(i)
  THEN meant.calls[CHOOSE i \in DOMAIN meant.calls : args = Whole(i)].kind
  ELSE "malformed"

\* json.loads(args) if args else {}
ParsedOrEmpty(args) == IF args = <<>> THEN "object" ELSE Parsed(args)

ResolveReasoningMode(s) == IF s.override # "none" THEN s.override ELSE s.reasoning
Raw == ResolveReasoningMode(setup) = "raw"

MeantCalls == [i \in DOMAIN meant.calls |-> MeantCall(i)]

NormalizeLitellmResponse ==
  IF \E i \in DOMAIN MeantCalls : meant.calls[i].kind # "object"
  THEN Invalid
  ELSE Response(Pieces(meant.text), IF Raw THEN Pieces(meant.think) ELSE <<>>, MeantCalls)

NormalizeResponsesResponse ==
  IF \E i \in DOMAIN MeantCalls : ParsedOrEmpty(MeantCalls[i].args) # "object"
  THEN Invalid
  ELSE Response(Pieces(meant.text), <<>>, MeantCalls)

\* A streamed call without a name is dropped; one without an id is given one.
\* Faulty variant of AssembledCall: an empty id stays.
AssembledCall_RawId(idx) == builders[idx]
AssembledCall(idx) ==
  [builders[idx] EXCEPT !.id = IF @ # NoId THEN @ ELSE MadeUp(idx)]
Named == {idx \in DOMAIN builders : builders[idx].name # NoName}
Nth(S, k) == CHOOSE x \in S : Cardinality({y \in S : y <= x}) = k
Assembled ==
  IF \E idx \in Named : ParsedOrEmpty(builders[idx].args) # "object" THEN Invalid
  ELSE Response(parts, thoughts, [k \in 1..Cardinality(Named) |-> AssembledCall(Nth(Named, k))])

-----------------------------------------------------------------------------
(* Requests *)

\* Responses: what was refused with the reasoning effort is asked for without it.
\* Faulty variant of Again: any failure is worth another try.
Again_AnyFailure(request) == request.effort /\ request.reply # "answered"
Again(request) == request.effort /\ request.reply = "refused"

\* The request is answered, refused as invalid, or fails in another way.
Ask(reply) ==
  LET effort == setup.api = "responses" /\ setup.effort /\ requests = <<>>
      request == [effort |-> effort, reply |-> reply]
  IN  /\ received = Open
      /\ requests # <<>> => Again(Last(requests))
      /\ requests' = Append(requests, request)
      /\ received' = IF reply # "answered" THEN IF Again(request) THEN Open ELSE ProviderError
                     ELSE IF setup.api = "complete" THEN NormalizeLitellmResponse
                     ELSE IF setup.api = "responses" THEN NormalizeResponsesResponse
                     ELSE Open
      /\ UNCHANGED <<setup, meant, sent, buffers, wire>>

(* _normalize_stream *)

Streaming == setup.api = "stream" /\ requests # <<>> /\ received = Open
Emit(channel, piece) == deltas' = [deltas EXCEPT ![channel] = Append(@, piece)]

ThinkArrives ==
  /\ Streaming /\ sent.think < meant.think
  /\ sent' = [sent EXCEPT !.think = @ + 1]
  /\ IF Raw
     THEN thoughts' = Append(thoughts, sent'.think) /\ Emit("reasoning", sent'.think)
     ELSE UNCHANGED <<thoughts, deltas>>
  /\ UNCHANGED <<setup, meant, requests, parts, builders, received, wire>>

TextArrives ==
  /\ Streaming /\ sent.text < meant.text
  /\ sent' = [sent EXCEPT !.text = @ + 1]
  /\ parts' = Append(parts, sent'.text)
  /\ Emit("assistant", sent'.text)
  /\ UNCHANGED <<setup, meant, requests, thoughts, builders, received, wire>>

\* A delta without an index counts as one for the first call.
\* Faulty variant of Index: deltas are told apart by no index.
Index_Zero(i) == 0
Index(i) == IF setup.indexed THEN i - 1 ELSE 0
Builder(idx) ==
  IF idx \in DOMAIN builders THEN builders[idx] ELSE [id |-> NoId, name |-> NoName, args |-> <<>>]

\* The id and the name of a call come first, then its arguments.
CallArrives(i) ==
  LET came == sent.calls[i]
      b == Builder(Index(i))
      head == [id |-> IF MeantCall(i).id # NoId THEN MeantCall(i).id ELSE b.id,
               name |-> IF MeantCall(i).name # NoName THEN i ELSE b.name,
               args |-> b.args]
  IN  /\ Streaming /\ came <= meant.calls[i].pieces
      /\ sent' = [sent EXCEPT !.calls[i] = @ + 1]
      /\ builders' = [idx \in DOMAIN builders \union {Index(i)} |->
                       IF idx # Index(i) THEN builders[idx]
                       ELSE IF came = 0 THEN head
                       ELSE [b EXCEPT !.args = Append(@, <<i, came>>)]]
      /\ UNCHANGED <<setup, meant, requests, deltas, parts, thoughts, received, wire>>

StreamEnds ==
  /\ Streaming
  /\ received' = Assembled
  /\ UNCHANGED <<setup, meant, requests, sent, buffers, wire>>

StreamFails ==
  /\ Streaming
  /\ received' = ProviderError
  /\ UNCHANGED <<setup, meant, requests, sent, buffers, wire>>

(* ModelStageExecutor *)

CanonicalToolCallId(call, i) == IF call.id # NoId THEN call.id ELSE MadeUp(i - 1)
Item(type, id) == [type |-> type, id |-> id]
AssistantToolCallMessage(response) ==
  [i \in DOMAIN response.calls |-> Item("function_call", response.calls[i].id)]
\* Each call is answered, by its result or by an error.
ToolMessages(response) ==
  [i \in DOMAIN response.calls |->
     Item("function_call_output", CanonicalToolCallId(response.calls[i], i))]

\* The Responses API takes one item per call and per result; a chat API takes
\* the same ids with the calls inside the assistant message.
BuildInput(response) == AssistantToolCallMessage(response) \o ToolMessages(response)

Converse ==
  /\ received.kind = "response" /\ received.calls # <<>> /\ wire = <<>>
  /\ wire' = BuildInput(received)
  /\ UNCHANGED <<setup, meant, requests, sent, buffers, received>>

AdaptersInit ==
  /\ setup \in Setups /\ meant \in Answers
  /\ requests = <<>> /\ parts = <<>> /\ thoughts = <<>>
  /\ deltas = [assistant |-> <<>>, reasoning |-> <<>>]
  /\ sent = [text |-> 0, think |-> 0, calls |-> [i \in DOMAIN meant.calls |-> 0]]
  /\ builders = <<>> /\ received = Open /\ wire = <<>>

AdaptersNext ==
  \/ \E reply \in {"answered", "refused", "failed"} : Ask(reply)
  \/ ThinkArrives \/ TextArrives \/ \E i \in DOMAIN meant.calls : CallArrives(i)
  \/ StreamEnds \/ StreamFails
  \/ Converse

AdaptersSpec == AdaptersInit /\ [][AdaptersNext]_adaptersVars

-----------------------------------------------------------------------------
(* Properties *)

Answered == received.kind = "response"
AllArrived ==
  /\ sent.text = meant.text /\ sent.think = meant.think
  /\ \A i \in DOMAIN meant.calls : sent.calls[i] = meant.calls[i].pieces + 1

(* Type correctness: buffers hold pieces of the answer, at most two requests *)
(* are made, and only one with an answer leads to a response.                *)
AdaptersTypeOK ==
  /\ setup \in Setups /\ meant \in Answers
  /\ Range(parts) \subseteq 1..meant.text /\ Range(thoughts) \subseteq 1..meant.think
  /\ Len(requests) <= 2
  /\ \A idx \in DOMAIN builders : /\ idx + 1 \in DOMAIN meant.calls
                                  /\ builders[idx].name \in {NoName} \cup DOMAIN meant.calls
  /\ Answered => Last(requests).reply = "answered"

(* Reasoning leaves the adapter only where the adapter or the request asks    *)
(* for it, never through the Responses API, and never as content: neither in  *)
(* what consumers of events see live nor in the response.                     *)
ReasoningIsPrivate ==
  LET asked == setup.reasoning = "raw" \/ setup.override = "raw"
      shown == deltas.reasoning # <<>> \/ (Answered /\ received.reasoning # <<>>)
  IN  /\ shown => asked /\ setup.api # "responses"
      /\ Answered => IsPrefix(received.content, Pieces(meant.text))
      /\ IsPrefix(deltas.assistant, Pieces(meant.text))

(* What a consumer has seen of a streamed response is the response: its text  *)
(* and its reasoning, piece by piece and in order.                            *)
SeenIsAnswered ==
  setup.api = "stream" /\ Answered =>
    deltas.assistant = received.content /\ deltas.reasoning = received.reasoning

(* However the deltas of several calls interleave, and wherever the stream    *)
(* ends, a call has all of the arguments of some call or none, and its own    *)
(* where deltas carry an index.                                               *)
NoHalfArguments ==
  Answered => \A k \in DOMAIN received.calls :
    LET call == received.calls[k]
    IN  /\ call.args = <<>> \/ \E i \in DOMAIN meant.calls : call.args = Whole(i)
        /\ setup.indexed /\ call.args # <<>> /\ call.name # NoName => call.args = Whole(call.name)

(* A regular answer, its calls named and its arguments written out or left   *)
(* out, comes to the same streamed and at once, but for ids that are made up. *)
Regular == \A i \in DOMAIN meant.calls :
  meant.calls[i].named /\ (meant.calls[i].pieces = 0 => meant.calls[i].kind = "object")
WithIds(r) ==
  IF r.kind = "response"
  THEN [r EXCEPT !.calls = [i \in DOMAIN @ |-> [@[i] EXCEPT !.id = CanonicalToolCallId(r.calls[i], i)]]]
  ELSE r
StreamedAlike ==
  received \notin {Open, ProviderError} /\ AllArrived /\ setup.indexed /\ setup.api = "stream" =>
    WithIds(received) = WithIds(NormalizeLitellmResponse)
RegularStreamedAlike == Regular => StreamedAlike

(* The executor tries again after a ModelOutputValidationError: it is raised  *)
(* only for arguments that arrived and are no object, never for a failure of  *)
(* the provider.                                                              *)
InvalidHasCause ==
  received = Invalid => \E i \in DOMAIN meant.calls :
    /\ setup.api = "stream" => sent.calls[i] > 1
    /\ \/ meant.calls[i].kind # "object"
       \/ setup.api = "stream" /\ (sent.calls[i] <= meant.calls[i].pieces \/ ~setup.indexed)

(* A request is repeated only because it was refused with the reasoning       *)
(* effort, once, without it; and it is not given up before that.              *)
RepeatedWithoutEffort ==
  /\ Len(requests) > 1 =>
       /\ requests[1] = [effort |-> TRUE, reply |-> "refused"]
       /\ ~requests[2].effort
  /\ received = ProviderError /\ requests[1].effort /\ requests[1].reply = "refused" =>
       Len(requests) = 2

(* What reaches the executor is what consumers of events saw, text and        *)
(* reasoning piece by piece and in order; reasoning only where it was asked    *)
(* for; each call with all the arguments of some call or none; and a regular  *)
(* answer, its deltas indexed, is the same streamed or at once. Without       *)
(* indices calls may still be merged or lost (_normalize_stream).             *)
AnswerArrivesWhole ==
  SeenIsAnswered /\ NoHalfArguments /\ RegularStreamedAlike /\ ReasoningIsPrivate

(* Retries have their cause: the executor's, after arguments that are no      *)
(* object, and the adapter's, after a refusal of the reasoning effort.        *)
RetriesHaveCause == AdaptersTypeOK /\ InvalidHasCause /\ RepeatedWithoutEffort

(* Each call of a response is answered under the id it was made with, in      *)
(* order, where a stream delivered it or the provider gave it an id.          *)
AnswersNameTheirCalls ==
  LET n == Len(received.calls) IN
  wire # <<>> => \A k \in 1..n :
    wire[k].type = "function_call" /\ wire[k + n] = Item("function_call_output", wire[k].id)
CallsAnsweredById ==
  setup.api = "stream" \/ (\A i \in DOMAIN meant.calls : meant.calls[i].given) =>
    AnswersNameTheirCalls
=============================================================================
