------------------------------ MODULE TraceIds ------------------------------
(***************************************************************************)
(* How TraceRecorder names the model and tool calls of one stage visit.    *)
(*                                                                         *)
(* A caller gets an id when a call begins, but the events that follow do   *)
(* not carry it: the recorder finds the id of a ledger record from the     *)
(* order of what it has seen. m-n and t-n are n, and 0 is None.            *)
(***************************************************************************)
EXTENDS Naturals, Sequences

Ids == [models : Nat,          \* _model_count
        pending : Seq(Nat),    \* _pending_models[visit]
        last : Nat,            \* _last_model_id.get(visit)
        tools : Nat,           \* _tool_count
        waiting : Seq(Nat),    \* _pending_tools[visit]
        open : Seq(Nat)]       \* _open_tools[visit]

FreshIds == [models |-> 0, pending |-> <<>>, last |-> 0,
             tools |-> 0, waiting |-> <<>>, open |-> <<>>]

Newest(queue) == IF queue = <<>> THEN 0 ELSE queue[Len(queue)]

BeginModelCall(r) ==
  [r EXCEPT !.models = @ + 1, !.pending = Append(@, r.models + 1)]

PeekModel(r) == Newest(r.pending)

\* The id the next model_completed is recorded with: the oldest begun call
\* that has not completed, or a new one.
PoppedModel(r) == IF r.pending # <<>> THEN Head(r.pending) ELSE r.models + 1

PopModel(r) ==
  [r EXCEPT !.pending = IF @ # <<>> THEN Tail(@) ELSE @,
            !.models  = IF r.pending # <<>> THEN @ ELSE @ + 1,
            !.last    = PoppedModel(r)]

\* Faulty variant of RetryModel: the oldest pending call.
RetryModel_Oldest(r) ==
  IF r.pending # <<>> THEN Head(r.pending) ELSE IF r.last # 0 THEN r.last ELSE r.models + 1

\* The id of a model_retry: the newest call still pending, else the last one
\* that completed, else a new one.
RetryModel(r) ==
  IF PeekModel(r) # 0 THEN PeekModel(r) ELSE IF r.last # 0 THEN r.last ELSE r.models + 1

CountRetry(r) ==
  IF PeekModel(r) = 0 /\ r.last = 0 THEN [r EXCEPT !.models = @ + 1] ELSE r

\* A model_delta with no call begun gives the visit one.
DeltaModel(r) == IF PeekModel(r) # 0 THEN PeekModel(r) ELSE r.models + 1

CountDelta(r) == IF PeekModel(r) = 0 THEN BeginModelCall(r) ELSE r

BeginToolCall(r) ==
  [r EXCEPT !.tools = @ + 1, !.waiting = Append(@, r.tools + 1)]

StartedTool(r) == IF r.waiting # <<>> THEN Head(r.waiting) ELSE r.tools + 1

\* tool_call_started moves the id to the open calls, where it stays.
PopTool(r) ==
  [r EXCEPT !.waiting = IF @ # <<>> THEN Tail(@) ELSE @,
            !.tools   = IF r.waiting # <<>> THEN @ ELSE @ + 1,
            !.open    = Append(@, StartedTool(r))]

\* The id of tool_call_completed and tool_call_failed.
PeekTool(r) == Newest(r.open)
=============================================================================
