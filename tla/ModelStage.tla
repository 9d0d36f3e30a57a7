----------------------------- MODULE ModelStage -----------------------------
(***************************************************************************)
(* ModelStageExecutor.execute for one stage visit: the conversation with   *)
(* the model, its two budgets (malformed output and tool rounds), and the  *)
(* records its events leave in the trace ledger.                           *)
(*                                                                         *)
(* The adapter is the caller's code: it answers, streams deltas before it  *)
(* answers, or raises. So are the tools. A cancellation or a live sink     *)
(* that raises ends the stage wherever it awaits.                          *)
(***************************************************************************)
EXTENDS TraceIds, FiniteSets

CONSTANTS
  MaxRetries,   \* RunOptions.max_model_retries
  MaxRounds,    \* max_tool_rounds; None is not modelled
  MaxCalls,     \* bound on the tool calls of one response
  MaxDeltas,    \* bound on the deltas of the stage
  MaxRequired   \* bound on the calls that policies put before the model's

ASSUME StageAssumption ==
  /\ MaxRetries \in Nat /\ MaxRounds \in Nat
  /\ MaxCalls \in Nat \ {0} /\ MaxDeltas \in Nat /\ MaxRequired \in Nat

VARIABLES
  pc,           \* where the coroutine is
  streaming,    \* use_streaming
  attempt,      \* model_call_id, the attempt under way
  deltas,       \* the deltas so far
  retry_count,
  tool_rounds,
  tool_calls,   \* the number of tool calls in the response
  next,         \* the index of the tool call being executed
  required,     \* the calls that policies have made so far
  tool,         \* tool_call_id of the call that runs, and whose call it is
  had_tool_error,
  messages,     \* what the stage has added to the conversation
  ids,          \* the recorder's bookkeeping: see TraceIds
  ledger        \* the records: what the id should be and what it is

stageVars == <<pc, streaming, attempt, deltas, retry_count, tool_rounds, tool_calls, next,
               required, tool, had_tool_error, messages, ids, ledger>>

Ended == {"returned", "raised"}
Places == {"request", "waiting", "malformed", "answered", "valid", "invalid", "tools",
           "running"}
          \union Ended

User == [role |-> "user", n |-> 0]            \* a retry message
Assistant(n) == [role |-> "assistant", n |-> n]  \* with n tool calls
Answer(i) == [role |-> "tool", n |-> i]       \* the result of call i
Message == [role : {"user", "assistant", "tool"}, n : Nat]

NoTool == [id |-> 0, own |-> FALSE]

\* "of" is the call the event is about, "id" the call the record names.
Rec(kind, of, id) == [kind |-> kind, of |-> of, id |-> id]
LedgerRecord ==
  [kind : {"model_delta", "model_completed", "parse_retry", "output_retry", "tool_retry",
           "tool_call_started", "tool_call_completed", "tool_call_failed"},
   of : Nat, id : Nat]

budget  == <<retry_count, tool_rounds>>
round   == <<tool_calls, next, required, had_tool_error>>
evidence == <<ids, ledger>>

-----------------------------------------------------------------------------
(* The model.                                                              *)

StageInit ==
  /\ pc = "request"
  /\ streaming \in BOOLEAN
  /\ attempt = 0
  /\ deltas = 0
  /\ retry_count = 0
  /\ tool_rounds = 0
  /\ tool_calls = 0
  /\ next = 1
  /\ required = 0
  /\ tool = NoTool
  /\ had_tool_error = FALSE
  /\ messages = <<>>
  /\ ids = FreshIds
  /\ ledger = <<>>

\* rec.begin_model_call, then the adapter is awaited.
Request ==
  /\ pc = "request"
  /\ pc' = "waiting"
  /\ ids' = BeginModelCall(ids)
  /\ attempt' = ids.models + 1
  /\ UNCHANGED <<streaming, deltas, budget, round, tool, messages, ledger>>

Delta ==
  /\ pc = "waiting" /\ streaming /\ deltas < MaxDeltas
  /\ deltas' = deltas + 1
  /\ ledger' = Append(ledger, Rec("model_delta", attempt, DeltaModel(ids)))
  /\ ids' = CountDelta(ids)
  /\ UNCHANGED <<pc, streaming, attempt, budget, round, tool, messages>>

\* A response: n tool calls, or content that is or is not a valid output. The
\* bytes are filed under the attempt, model_completed under what is popped.
ModelAnswers(n, valid) ==
  /\ pc = "waiting"
  /\ tool_calls' = n
  /\ pc' = IF n > 0 THEN "answered" ELSE IF valid THEN "valid" ELSE "invalid"
  /\ ledger' = Append(ledger, Rec("model_completed", attempt, PoppedModel(ids)))
  /\ ids' = PopModel(ids)
  /\ UNCHANGED <<streaming, attempt, deltas, budget, next, required, had_tool_error, tool,
                 messages>>

\* normalize_stage_output accepts the content.
ReturnOutput ==
  /\ pc = "valid"
  /\ pc' = "returned"
  /\ UNCHANGED <<streaming, attempt, deltas, budget, round, tool, messages, evidence>>

\* A malformed response, or a stream that ends without one.
ModelMalformed ==
  /\ pc = "waiting"
  /\ pc' = "malformed"
  /\ UNCHANGED <<streaming, attempt, deltas, budget, round, tool, messages, evidence>>

\* Both handlers of ModelOutputValidationError: the budget is shared and never
\* refilled.
Retry(place, kind) ==
  /\ pc = place
  /\ \/ /\ retry_count >= MaxRetries
        /\ pc' = "raised"
        /\ UNCHANGED <<retry_count, messages, evidence>>
     \/ /\ ~(retry_count >= MaxRetries)
        /\ retry_count' = retry_count + 1
        /\ ledger' = Append(ledger, Rec(kind, attempt, RetryModel(ids)))
        /\ ids' = CountRetry(ids)
        /\ messages' = Append(messages, User)
        /\ pc' = "request"
  /\ UNCHANGED <<streaming, attempt, deltas, tool_rounds, round, tool>>

-----------------------------------------------------------------------------
(* The tools.                                                              *)

\* The cap is checked outside the try: its error is not retried.
BeginRound ==
  /\ pc = "answered"
  /\ \/ /\ tool_rounds >= MaxRounds
        /\ pc' = "raised"
        /\ UNCHANGED <<tool_rounds, next, had_tool_error, messages>>
     \/ /\ ~(tool_rounds >= MaxRounds)
        /\ pc' = "tools"
        /\ tool_rounds' = tool_rounds + 1
        /\ next' = 1
        /\ had_tool_error' = FALSE
        /\ messages' = Append(messages, Assistant(tool_calls))
  /\ UNCHANGED <<streaming, attempt, deltas, retry_count, tool_calls, required, tool, evidence>>

\* The tool message of call "next", whatever came of it.
Reply(error) ==
  /\ messages' = Append(messages, Answer(next))
  /\ had_tool_error' = (had_tool_error \/ error)
  /\ next' = next + 1

\* Faulty variant of RefuseTool: a refused call gets no answer.
RefuseTool_Silent ==
  /\ pc = "tools" /\ next <= tool_calls
  /\ had_tool_error' = TRUE
  /\ next' = next + 1
  /\ UNCHANGED <<pc, streaming, attempt, deltas, budget, tool_calls, required, tool, messages,
                 evidence>>

\* An unknown tool, a capability outside the stage, arguments that do not
\* normalise, or a policy that denies: the model is told.
RefuseTool ==
  /\ pc = "tools" /\ next <= tool_calls
  /\ Reply(TRUE)
  /\ UNCHANGED <<pc, streaming, attempt, deltas, budget, tool_calls, required, tool, evidence>>

\* rec.begin_tool_call and tool_call_started: for the model's own call, or for
\* one that a policy requires before it.
StartTool(own) ==
  /\ pc = "tools" /\ next <= tool_calls
  /\ ~own => required < MaxRequired
  /\ required' = IF own THEN required ELSE required + 1
  /\ tool' = [id |-> ids.tools + 1, own |-> own]
  /\ LET begun == BeginToolCall(ids)
     IN /\ ids' = PopTool(begun)
        /\ ledger' = Append(ledger,
                       Rec("tool_call_started", ids.tools + 1, StartedTool(begun)))
  /\ pc' = "running"
  /\ UNCHANGED <<streaming, attempt, deltas, budget, tool_calls, next, had_tool_error, messages>>

\* The tool returns, or fails with a ToolInvocationError.
EndTool(failed) ==
  /\ pc = "running"
  /\ ledger' = Append(ledger,
                 Rec(IF failed THEN "tool_call_failed" ELSE "tool_call_completed",
                     tool.id, PeekTool(ids)))
  /\ \/ /\ tool.own \/ failed
        /\ Reply(failed)
     \/ /\ ~(tool.own \/ failed)
        /\ UNCHANGED <<messages, had_tool_error, next>>
  /\ pc' = "tools"
  /\ tool' = NoTool
  /\ UNCHANGED <<streaming, attempt, deltas, budget, tool_calls, required, ids>>

\* Faulty variant of EndRound: tool errors spend the output budget.
EndRound_SpendsRetries ==
  /\ pc = "tools" /\ next > tool_calls
  /\ pc' = "request"
  /\ \/ /\ had_tool_error
        /\ retry_count' = retry_count + 1
        /\ ledger' = Append(ledger, Rec("tool_retry", attempt, RetryModel(ids)))
        /\ ids' = CountRetry(ids)
     \/ ~had_tool_error /\ UNCHANGED <<retry_count, evidence>>
  /\ UNCHANGED <<streaming, attempt, deltas, tool_rounds, round, tool, messages>>

\* Faulty variant of EndRound: the loop only goes on after an error.
EndRound_OnErrorOnly ==
  /\ pc = "tools" /\ next > tool_calls /\ had_tool_error
  /\ pc' = "request"
  /\ ledger' = Append(ledger, Rec("tool_retry", attempt, RetryModel(ids)))
  /\ ids' = CountRetry(ids)
  /\ UNCHANGED <<streaming, attempt, deltas, budget, round, tool, messages>>

\* After the last call. The retry announced here spends nothing.
EndRound ==
  /\ pc = "tools" /\ next > tool_calls
  /\ pc' = "request"
  /\ \/ /\ had_tool_error
        /\ ledger' = Append(ledger, Rec("tool_retry", attempt, RetryModel(ids)))
        /\ ids' = CountRetry(ids)
     \/ ~had_tool_error /\ UNCHANGED evidence
  /\ UNCHANGED <<streaming, attempt, deltas, budget, round, tool, messages>>

\* The adapter or a tool raises anything else (a provider error, a missing
\* capability, a policy that cannot be evaluated), the sink raises, or the task
\* is cancelled.
Abort ==
  /\ \/ pc \in {"waiting", "answered", "valid", "invalid", "tools", "running"}
     \/ pc = "request" /\ ledger # <<>>
          /\ ledger[Len(ledger)].kind \in {"parse_retry", "output_retry", "tool_retry"}
  /\ pc' = "raised"
  /\ UNCHANGED <<streaming, attempt, deltas, budget, round, tool, messages, evidence>>

StageDone == pc \in Ended /\ UNCHANGED stageVars

Model ==
  \/ Request
  \/ Delta
  \/ \E n \in 0 .. MaxCalls, valid \in BOOLEAN : ModelAnswers(n, valid)
  \/ ReturnOutput
  \/ ModelMalformed
  \/ Retry("malformed", "parse_retry")
  \/ Retry("invalid", "output_retry")

Tools ==
  \/ BeginRound
  \/ RefuseTool
  \/ \E own \in BOOLEAN : StartTool(own)
  \/ \E failed \in BOOLEAN : EndTool(failed)
  \/ EndRound

StageNext == Model \/ Tools \/ Abort \/ StageDone

StageSpec == StageInit /\ [][StageNext]_stageVars

\* The event loop runs the coroutine, and the adapter and the tools end.
StageFairSpec == StageSpec /\ WF_stageVars(Model \/ Tools)

-----------------------------------------------------------------------------
(* Properties.                                                             *)

Count(kinds) == Cardinality({n \in DOMAIN ledger : ledger[n].kind \in kinds})

(* Every variable has its type.                                            *)
StageTypeOK ==
  /\ pc \in Places
  /\ streaming \in BOOLEAN /\ had_tool_error \in BOOLEAN
  /\ attempt \in Nat /\ deltas \in 0 .. MaxDeltas
  /\ retry_count \in 0 .. MaxRetries /\ tool_rounds \in 0 .. MaxRounds
  /\ tool_calls \in 0 .. MaxCalls /\ next \in 1 .. MaxCalls + 1 /\ required \in 0 .. MaxRequired
  /\ tool \in [id : Nat, own : BOOLEAN]
  /\ messages \in Seq(Message)
  /\ ids \in Ids
  /\ ledger \in Seq(LedgerRecord)

(* The two budgets are independent and together bound the requests: malformed*)
(* output alone spends retries, tool rounds alone spend rounds, and every    *)
(* request but the first is paid for by one of them.                         *)
BudgetsBound ==
  /\ retry_count = Count({"parse_retry", "output_retry"})
  /\ attempt <= 1 + MaxRetries + MaxRounds

(* A request is only sent with a conversation the provider accepts: every    *)
(* tool call of every assistant message is answered, once and in order, by   *)
(* the messages right after it, errors and refusals included.                *)
ToolCallsAnswered ==
  pc \in {"request", "waiting"} =>
    \A k \in DOMAIN messages :
      /\ messages[k].role = "assistant" =>
           /\ k + messages[k].n <= Len(messages)
           /\ \A i \in 1 .. messages[k].n : messages[k + i] = Answer(i)
      /\ messages[k].role = "tool" =>
           messages[k - 1] \in {Answer(messages[k].n - 1)} \union
             {Assistant(n) : n \in IF messages[k].n = 1 THEN 1 .. MaxCalls ELSE {}}

(* A delta, a retry and a tool record name the call they are about, however  *)
(* many attempts failed before, although the events carry no id.             *)
RecordsNameTheirCall ==
  \A n \in DOMAIN ledger : ledger[n].kind # "model_completed" => ledger[n].id = ledger[n].of

(* No record names a call that was never begun, and no model call completes  *)
(* twice.                                                                    *)
IdsAccounted ==
  /\ ids.models = attempt
  /\ ids.tools = Count({"tool_call_started"})
  /\ \A m, n \in DOMAIN ledger :
       /\ ledger[m].kind = "model_completed" => ledger[m].id <= ledger[m].of
       /\ m < n /\ ledger[m].kind = "model_completed" /\ ledger[n].kind = "model_completed" =>
            ledger[m].id < ledger[n].id

(* The ids the recorder makes up from the order of events can be trusted:     *)
(* those named were begun, and by the call the record is about.               *)
RecordsAccounted == StageTypeOK /\ RecordsNameTheirCall /\ IdsAccounted

(* What "Each attempt gets its own trace model-call id" promises a reader of *)
(* the ledger: model_completed names the attempt that completed.             *)
CompletedNamesAttempt ==
  \A n \in DOMAIN ledger : ledger[n].kind = "model_completed" => ledger[n].id = ledger[n].of

(* The stage ends: neither a model that never gets its output right nor one  *)
(* that never stops calling tools, failing ones included, keeps it going.    *)
StageEnds == <>(pc \in Ended)
=============================================================================
