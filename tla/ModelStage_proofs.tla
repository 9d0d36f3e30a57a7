------------------------- MODULE ModelStage_proofs --------------------------
(* Theorems about ModelStage, for all budgets and every number of calls and  *)
(* deltas: the budgets bound the requests, every request carries a           *)
(* conversation with all its tool calls answered, and the recorder finds the *)
(* right id for every record but model_completed.                            *)
EXTENDS ModelStage, FiniteSetTheorems, TLAPS

-----------------------------------------------------------------------------
(* What the operations of TraceIds do to the bookkeeping.                    *)

LEMMA AppendFact ==
  ASSUME NEW S, NEW s \in Seq(S), NEW e \in S
  PROVE  /\ Append(s, e) \in Seq(S)
         /\ Len(Append(s, e)) = Len(s) + 1
         /\ DOMAIN Append(s, e) = 1 .. Len(s) + 1
         /\ Append(s, e) # <<>>
         /\ Append(s, e)[Len(s) + 1] = e
         /\ \A n \in 1 .. Len(s) : Append(s, e)[n] = s[n]
OBVIOUS

LEMMA TailFact ==
  ASSUME NEW S, NEW s \in Seq(S), s # <<>>
  PROVE  /\ Tail(s) \in Seq(S)
         /\ Len(s) \in Nat \ {0}
         /\ Len(Tail(s)) = Len(s) - 1
         /\ \A n \in 1 .. Len(s) - 1 : Tail(s)[n] = s[n + 1]
         /\ Head(s) = s[1] /\ Head(s) \in S
OBVIOUS

LEMMA NewestType ==
  ASSUME NEW q \in Seq(Nat)
  PROVE  Newest(q) \in Nat
  BY DEF Newest

(* What is left after the head is gone ends the same way.                    *)
LEMMA NewestOfTail ==
  ASSUME NEW q \in Seq(Nat), q # <<>>
  PROVE  IF Tail(q) = <<>> THEN Head(q) = Newest(q) ELSE Newest(Tail(q)) = Newest(q)
<1> DEFINE t == Tail(q)
<1>1. /\ t \in Seq(Nat) /\ Len(q) \in Nat \ {0} /\ Len(t) = Len(q) - 1
      /\ \A n \in 1 .. Len(q) - 1 : t[n] = q[n + 1]
      /\ Head(q) = q[1]
  BY TailFact
<1> HIDE DEF t
<1>2. ASSUME t = <<>> PROVE Head(q) = Newest(q)
  <2>1. Len(q) = 1
    BY <1>1, <1>2
  <2> QED
    BY <1>1, <1>2, <2>1 DEF Newest
<1>3. ASSUME t # <<>> PROVE Newest(t) = Newest(q)
  <2>1. Len(t) \in 1 .. Len(q) - 1
    BY <1>1, <1>3
  <2>2. t[Len(t)] = q[Len(q)]
    BY <1>1, <2>1
  <2> QED
    BY <1>3, <2>2 DEF Newest
<1> QED
  BY <1>2, <1>3 DEF t

LEMMA BeginModelFact ==
  ASSUME NEW r \in Ids
  PROVE  /\ BeginModelCall(r) \in Ids
         /\ BeginModelCall(r).models = r.models + 1
         /\ BeginModelCall(r).pending = Append(r.pending, r.models + 1)
         /\ BeginModelCall(r).tools = r.tools
         /\ BeginModelCall(r).waiting = r.waiting
         /\ BeginModelCall(r).open = r.open
<1>1. r.models + 1 \in Nat /\ r.pending \in Seq(Nat)
  BY DEF Ids
<1>2. Append(r.pending, r.models + 1) \in Seq(Nat)
  BY <1>1
<1> QED
  BY <1>1, <1>2 DEF Ids, BeginModelCall

LEMMA PopModelFact ==
  ASSUME NEW r \in Ids, r.pending # <<>>
  PROVE  /\ PopModel(r) \in Ids
         /\ PopModel(r).models = r.models
         /\ PopModel(r).pending = Tail(r.pending)
         /\ PopModel(r).last = Head(r.pending)
         /\ PopModel(r).tools = r.tools
         /\ PopModel(r).waiting = r.waiting
         /\ PopModel(r).open = r.open
         /\ PoppedModel(r) = Head(r.pending)
<1>1. r.pending \in Seq(Nat)
  BY DEF Ids
<1>2. Tail(r.pending) \in Seq(Nat) /\ Head(r.pending) \in Nat
  BY <1>1
<1> QED
  BY <1>1, <1>2 DEF Ids, PopModel, PoppedModel

LEMMA StartToolFact ==
  ASSUME NEW r \in Ids, r.waiting = <<>>
  PROVE  LET begun == BeginToolCall(r)
             popped == PopTool(begun)
         IN /\ popped \in Ids
            /\ StartedTool(begun) = r.tools + 1
            /\ popped.models = r.models /\ popped.pending = r.pending /\ popped.last = r.last
            /\ popped.tools = r.tools + 1
            /\ popped.waiting = <<>>
            /\ PeekTool(popped) = r.tools + 1
<1> DEFINE begun == BeginToolCall(r)
           popped == PopTool(begun)
<1>1. r.tools + 1 \in Nat /\ r.open \in Seq(Nat)
  BY DEF Ids
<1>2. begun.waiting = <<r.tools + 1>> /\ begun.tools = r.tools + 1 /\ begun.open = r.open
  BY DEF Ids, BeginToolCall
<1>3. begun \in Ids
  <2>1. r.waiting \in Seq(Nat)
    BY DEF Ids
  <2>2. Append(r.waiting, r.tools + 1) \in Seq(Nat)
    BY <1>1, <2>1
  <2> QED
    BY <1>1, <2>2 DEF Ids, BeginToolCall
<1>4. begun.models = r.models /\ begun.pending = r.pending /\ begun.last = r.last
  BY DEF Ids, BeginToolCall
<1> HIDE DEF begun
<1>5. StartedTool(begun) = r.tools + 1
  BY <1>2 DEF StartedTool
<1>6. Append(begun.open, r.tools + 1) \in Seq(Nat)
      /\ Newest(Append(begun.open, r.tools + 1)) = r.tools + 1
  <2> DEFINE opened == Append(r.open, r.tools + 1)
  <2>1. /\ opened \in Seq(Nat) /\ opened # <<>> /\ Len(opened) = Len(r.open) + 1
        /\ opened[Len(r.open) + 1] = r.tools + 1
    BY <1>1, AppendFact
  <2> HIDE DEF opened
  <2>2. Newest(opened) = r.tools + 1
    BY <2>1 DEF Newest
  <2> QED
    BY <1>2, <2>1, <2>2 DEF opened
<1>7. /\ popped.waiting = <<>> /\ popped.tools = r.tools + 1
      /\ popped.open = Append(begun.open, r.tools + 1)
      /\ popped.models = r.models /\ popped.pending = r.pending /\ popped.last = r.last
  BY <1>2, <1>3, <1>4, <1>5 DEF Ids, PopTool
<1>8. popped \in Ids
  <2>1. popped = [begun EXCEPT !.waiting = Tail(begun.waiting), !.tools = begun.tools,
                               !.open = Append(begun.open, r.tools + 1)]
    BY <1>2, <1>5 DEF PopTool
  <2>2. Tail(begun.waiting) \in Seq(Nat)
    BY <1>2
  <2> QED
    BY <1>3, <1>6, <2>1, <2>2 DEF Ids
<1> QED
  BY <1>5, <1>6, <1>7, <1>8 DEF begun, PeekTool

-----------------------------------------------------------------------------
(* Where the coroutine is and what the recorder knows then.                  *)

\* A call runs, or is about to be answered, only while one is left.
PlaceInv ==
  /\ pc = "running" => next <= tool_calls
  /\ pc = "tools" => next <= tool_calls + 1
  /\ pc \in {"answered", "tools", "running"} => tool_calls > 0

\* The newest call the recorder still waits for is the attempt under way; once
\* that has completed nothing newer is pending, and if nothing is pending at
\* all, it is the call that completed last.
CallInv ==
  /\ ids.models = attempt
  /\ ids.waiting = <<>>
  /\ pc \in {"waiting", "malformed", "answered", "valid", "invalid", "tools", "running"} =>
       attempt > 0
  /\ pc \in {"waiting", "malformed"} =>
       ids.pending # <<>> /\ Newest(ids.pending) = attempt
  /\ pc \in {"answered", "valid", "invalid", "tools", "running"} =>
       IF ids.pending = <<>> THEN ids.last = attempt ELSE Newest(ids.pending) = attempt
  /\ pc = "running" => PeekTool(ids) = tool.id

Kept == CallInv /\ PlaceInv /\ StageTypeOK

(* While a stage handles a response, a retry is recorded for the attempt and *)
(* takes no new id; nor does a delta of the response.                        *)
LEMMA RetryNamesAttempt ==
  ASSUME StageTypeOK, CallInv, pc \in {"malformed", "invalid", "tools"}
  PROVE  RetryModel(ids) = attempt /\ CountRetry(ids) = ids
<1>1. ids \in Ids /\ attempt \in Nat /\ attempt > 0
  BY DEF StageTypeOK, CallInv
<1>2. CASE ids.pending = <<>>
  <2>1. PeekModel(ids) = 0 /\ ids.last = attempt
    BY <1>2 DEF CallInv, PeekModel, Newest
  <2> QED
    BY <1>1, <2>1 DEF RetryModel, CountRetry
<1>3. CASE ids.pending # <<>>
  <2>1. PeekModel(ids) = attempt
    BY <1>3 DEF CallInv, PeekModel
  <2> QED
    BY <1>1, <2>1 DEF RetryModel, CountRetry
<1> QED
  BY <1>2, <1>3

LEMMA DeltaNamesAttempt ==
  ASSUME StageTypeOK, CallInv, pc = "waiting"
  PROVE  DeltaModel(ids) = attempt /\ CountDelta(ids) = ids
<1>1. PeekModel(ids) = attempt /\ attempt \in Nat /\ attempt > 0
  BY DEF CallInv, StageTypeOK, PeekModel
<1> QED
  BY <1>1 DEF DeltaModel, CountDelta

(* What each action does to the records and the bookkeeping.                 *)
Quiet == ReturnOutput \/ ModelMalformed \/ BeginRound \/ RefuseTool \/ Abort

LEMMA QuietFact == Quiet => UNCHANGED <<attempt, ids, ledger>>
  BY DEF Quiet, ReturnOutput, ModelMalformed, BeginRound, RefuseTool, Abort, evidence

LEMMA RetryFact ==
  ASSUME Kept, NEW place \in {"malformed", "invalid"},
         NEW kind \in {"parse_retry", "output_retry"}, Retry(place, kind)
  PROVE  /\ pc = place /\ UNCHANGED <<attempt, ids, tool>>
         /\ \/ pc' = "raised" /\ UNCHANGED <<ledger, retry_count>>
            \/ /\ pc' = "request" /\ retry_count' = retry_count + 1
               /\ ledger' = Append(ledger, Rec(kind, attempt, attempt))
<1>1. RetryModel(ids) = attempt /\ CountRetry(ids) = ids
  BY RetryNamesAttempt DEF Kept, Retry
<1> QED
  BY <1>1 DEF Retry, evidence

LEMMA EndRoundFact ==
  ASSUME Kept, EndRound
  PROVE  /\ pc = "tools" /\ pc' = "request" /\ UNCHANGED <<attempt, ids, tool>>
         /\ \/ UNCHANGED ledger
            \/ ledger' = Append(ledger, Rec("tool_retry", attempt, attempt))
<1>1. pc = "tools"
  BY DEF EndRound
<1>2. RetryModel(ids) = attempt /\ CountRetry(ids) = ids
  BY <1>1, RetryNamesAttempt DEF Kept
<1> QED
  BY <1>2 DEF EndRound, evidence

LEMMA DeltaFact ==
  ASSUME Kept, Delta
  PROVE  /\ pc = "waiting" /\ UNCHANGED <<pc, attempt, ids, tool>>
         /\ ledger' = Append(ledger, Rec("model_delta", attempt, attempt))
<1>1. DeltaModel(ids) = attempt /\ CountDelta(ids) = ids
  BY DeltaNamesAttempt DEF Kept, Delta
<1> QED
  BY <1>1 DEF Delta

LEMMA AnswerFact ==
  ASSUME Kept, NEW n \in 0 .. MaxCalls, NEW valid \in BOOLEAN, ModelAnswers(n, valid)
  PROVE  /\ pc = "waiting" /\ pc' \in {"answered", "valid", "invalid"}
         /\ ids.pending # <<>> /\ ids' = PopModel(ids) /\ UNCHANGED <<attempt, tool>>
         /\ ledger' = Append(ledger, Rec("model_completed", attempt, Head(ids.pending)))
<1>1. pc = "waiting" /\ ids.pending # <<>>
  BY DEF ModelAnswers, Kept, CallInv
<1>2. PoppedModel(ids) = Head(ids.pending)
  BY <1>1 DEF PoppedModel
<1> QED
  BY <1>1, <1>2 DEF ModelAnswers

LEMMA StartFact ==
  ASSUME Kept, NEW own \in BOOLEAN, StartTool(own)
  PROVE  /\ pc = "tools" /\ pc' = "running" /\ UNCHANGED attempt
         /\ ids' \in Ids /\ ids'.models = ids.models /\ ids'.pending = ids.pending
         /\ ids'.last = ids.last /\ ids'.waiting = <<>> /\ ids'.tools = ids.tools + 1
         /\ tool' = [id |-> ids.tools + 1, own |-> own] /\ PeekTool(ids') = tool'.id
         /\ ledger' = Append(ledger,
                        Rec("tool_call_started", ids.tools + 1, ids.tools + 1))
<1>1. ids \in Ids /\ ids.waiting = <<>>
  BY DEF Kept, StageTypeOK, CallInv
<1> QED
  BY <1>1, StartToolFact DEF StartTool

LEMMA EndFact ==
  ASSUME Kept, NEW failed \in BOOLEAN, EndTool(failed)
  PROVE  /\ pc = "running" /\ pc' = "tools" /\ UNCHANGED <<attempt, ids>>
         /\ \E kind \in {"tool_call_failed", "tool_call_completed"} :
              ledger' = Append(ledger, Rec(kind, tool.id, tool.id))
<1>1. PeekTool(ids) = tool.id
  BY DEF EndTool, Kept, CallInv
<1> QED
  BY <1>1 DEF EndTool

-----------------------------------------------------------------------------
(* Type correctness and the bookkeeping, which need each other.              *)

LEMMA RecType ==
  ASSUME StageTypeOK, NEW of \in Nat, NEW id \in Nat,
         NEW kind \in {"model_delta", "model_completed", "parse_retry", "output_retry",
                       "tool_retry", "tool_call_started", "tool_call_completed",
                       "tool_call_failed"},
         ledger' = Append(ledger, Rec(kind, of, id))
  PROVE  ledger' \in Seq(LedgerRecord)
<1>1. Rec(kind, of, id) \in LedgerRecord
  BY DEF Rec, LedgerRecord
<1> QED
  BY <1>1, AppendFact DEF StageTypeOK

LEMMA EvidenceType == Kept /\ [StageNext]_stageVars => ids' \in Ids /\ ledger' \in Seq(LedgerRecord)
<1> SUFFICES ASSUME Kept, [StageNext]_stageVars
             PROVE  ids' \in Ids /\ ledger' \in Seq(LedgerRecord)
  OBVIOUS
<1>t. ids \in Ids /\ ledger \in Seq(LedgerRecord) /\ attempt \in Nat /\ tool.id \in Nat
  BY DEF Kept, StageTypeOK
<1>1. CASE Request
  BY <1>1, <1>t, BeginModelFact DEF Request
<1>2. CASE Delta
  BY <1>2, <1>t, DeltaFact, RecType DEF Kept
<1>3. ASSUME NEW n \in 0 .. MaxCalls, NEW valid \in BOOLEAN, ModelAnswers(n, valid)
      PROVE  ids' \in Ids /\ ledger' \in Seq(LedgerRecord)
  <2>1. /\ ids.pending # <<>> /\ ids' = PopModel(ids)
        /\ ledger' = Append(ledger, Rec("model_completed", attempt, Head(ids.pending)))
    BY <1>3, AnswerFact
  <2>2. Head(ids.pending) \in Nat
    BY <2>1, <1>t, TailFact DEF Ids
  <2>3. ledger' \in Seq(LedgerRecord)
    BY <2>1, <2>2, <1>t, RecType DEF Kept
  <2> QED
    BY <2>1, <2>3, <1>t, PopModelFact
<1>4. CASE Quiet
  BY <1>4, <1>t, QuietFact
<1>5. CASE Retry("malformed", "parse_retry") \/ Retry("invalid", "output_retry")
  <2>1. UNCHANGED ids
    BY <1>5, RetryFact
  <2>2. UNCHANGED ledger \/ \E kind \in {"parse_retry", "output_retry"} :
          ledger' = Append(ledger, Rec(kind, attempt, attempt))
    BY <1>5, RetryFact
  <2> QED
    BY <2>1, <2>2, <1>t, RecType DEF Kept
<1>6. ASSUME NEW own \in BOOLEAN, StartTool(own)
      PROVE  ids' \in Ids /\ ledger' \in Seq(LedgerRecord)
  <2>1. ids.tools + 1 \in Nat
    BY <1>t DEF Ids
  <2> QED
    BY <1>6, <2>1, StartFact, RecType DEF Kept
<1>7. ASSUME NEW failed \in BOOLEAN, EndTool(failed)
      PROVE  ids' \in Ids /\ ledger' \in Seq(LedgerRecord)
  BY <1>7, <1>t, EndFact, RecType DEF Kept
<1>8. CASE EndRound
  BY <1>8, <1>t, EndRoundFact, RecType DEF Kept
<1>9. CASE StageDone \/ UNCHANGED stageVars
  BY <1>9, <1>t DEF StageDone, stageVars
<1> QED
  BY <1>1, <1>2, <1>3, <1>4, <1>5, <1>6, <1>7, <1>8, <1>9
     DEF StageNext, Model, Tools, Quiet

LEMMA MessageType ==
  ASSUME StageTypeOK, NEW m, messages' = Append(messages, m),
         \/ m = User
         \/ \E n \in Nat : m \in {Assistant(n), Answer(n)}
  PROVE  messages' \in Seq(Message)
<1>1. m \in Message
  BY DEF User, Assistant, Answer, Message
<1> QED
  BY <1>1, AppendFact DEF StageTypeOK

LEMMA NextKept == Kept /\ [StageNext]_stageVars => Kept'
<1> SUFFICES ASSUME Kept, [StageNext]_stageVars PROVE Kept'
  OBVIOUS
<1>e. ids' \in Ids /\ ledger' \in Seq(LedgerRecord)
  BY EvidenceType
<1>i. ids \in Ids /\ attempt \in Nat
  BY DEF Kept, StageTypeOK
<1>c. /\ MaxRetries \in Nat /\ MaxRounds \in Nat /\ MaxCalls \in Nat \ {0}
      /\ MaxDeltas \in Nat /\ MaxRequired \in Nat
  BY StageAssumption DEF StageAssumption
<1> USE DEF Kept, StageTypeOK, PlaceInv, Places, Ended, budget, round, evidence
<1>1. CASE Request
  <2>1. /\ ids'.models = ids.models + 1 /\ ids'.pending = Append(ids.pending, ids.models + 1)
        /\ ids'.waiting = ids.waiting /\ attempt' = ids.models + 1 /\ pc' = "waiting"
    BY <1>1, <1>i, BeginModelFact DEF Request
  <2>2. ids'.pending # <<>> /\ Newest(ids'.pending) = attempt'
    <3>1. ids.pending \in Seq(Nat) /\ ids.models + 1 \in Nat
      BY <1>i DEF Ids
    <3>2. ids'.pending # <<>> /\ Len(ids'.pending) = Len(ids.pending) + 1
          /\ ids'.pending[Len(ids.pending) + 1] = ids.models + 1
      BY <2>1, <3>1, AppendFact
    <3> QED
      BY <2>1, <3>2 DEF Newest
  <2>3. CallInv'
    BY <2>1, <2>2, <1>i DEF CallInv, Ids
  <2>4. StageTypeOK'
    BY <1>1, <1>e, <2>1, <1>i DEF Request, Ids
  <2> QED
    BY <2>1, <2>3, <2>4
<1>2. CASE Delta
  <2>1. CallInv'
    BY <1>2, DeltaFact DEF CallInv
  <2> QED
    BY <1>2, <1>e, <1>c, <2>1, DeltaFact DEF Delta
<1>3. ASSUME NEW n \in 0 .. MaxCalls, NEW valid \in BOOLEAN, ModelAnswers(n, valid)
      PROVE  Kept'
  <2>1. /\ pc = "waiting" /\ pc' \in {"answered", "valid", "invalid"}
        /\ ids.pending # <<>> /\ ids' = PopModel(ids) /\ UNCHANGED <<attempt, tool>>
    BY <1>3, AnswerFact
  <2>2. /\ ids'.models = ids.models /\ ids'.pending = Tail(ids.pending)
        /\ ids'.last = Head(ids.pending) /\ ids'.waiting = ids.waiting
    BY <1>i, <2>1, PopModelFact
  <2>3. ids.pending \in Seq(Nat) /\ Newest(ids.pending) = attempt
    BY <1>i, <2>1 DEF CallInv, Ids
  <2>4. IF ids'.pending = <<>> THEN ids'.last = attempt' ELSE Newest(ids'.pending) = attempt'
    BY <2>1, <2>2, <2>3, NewestOfTail
  <2>6. CallInv'
    BY <2>1, <2>2, <2>4 DEF CallInv
  <2>7. StageTypeOK' /\ PlaceInv'
    BY <1>3, <1>e, <1>c, <2>1 DEF ModelAnswers
  <2> QED
    BY <2>6, <2>7
<1>4. CASE Quiet
  <2>1. UNCHANGED <<attempt, ids, ledger>>
    BY <1>4, QuietFact
  <2>2. CASE ReturnOutput \/ ModelMalformed \/ Abort
    <3>1. CallInv'
      BY <2>1, <2>2 DEF CallInv, ReturnOutput, ModelMalformed, Abort
    <3> QED
      BY <2>1, <2>2, <3>1 DEF ReturnOutput, ModelMalformed, Abort
  <2>3. CASE BeginRound
    <3>1. CallInv'
      BY <2>1, <2>3 DEF CallInv, BeginRound
    <3>2. messages' \in Seq(Message)
      BY <2>3, MessageType DEF BeginRound
    <3>3. tool_rounds' \in 0 .. MaxRounds /\ next' \in 1 .. MaxCalls + 1
      BY <2>3, <1>c DEF BeginRound
    <3>4. PlaceInv'
      BY <2>3 DEF BeginRound
    <3>5. StageTypeOK'
      BY <2>1, <2>3, <3>2, <3>3 DEF BeginRound
    <3> QED
      BY <3>1, <3>4, <3>5
  <2>4. CASE RefuseTool
    <3>1. CallInv'
      BY <2>1, <2>4 DEF CallInv, RefuseTool
    <3>2. messages' \in Seq(Message)
      BY <2>4, <1>c, MessageType DEF RefuseTool, Reply
    <3> QED
      BY <2>1, <2>4, <3>1, <3>2, <1>c DEF RefuseTool, Reply
  <2> QED
    BY <1>4, <2>2, <2>3, <2>4 DEF Quiet
<1>5. ASSUME NEW place \in {"malformed", "invalid"},
             NEW kind \in {"parse_retry", "output_retry"}, Retry(place, kind)
      PROVE  Kept'
  <2>1. UNCHANGED <<attempt, ids, tool>> /\ pc' \in {"request", "raised"}
    BY <1>5, RetryFact
  <2>2. CallInv'
    BY <2>1 DEF CallInv
  <2>3. messages' \in Seq(Message)
    BY <1>5, MessageType DEF Retry
  <2> QED
    BY <1>5, <1>e, <1>c, <2>1, <2>2, <2>3 DEF Retry
<1>6. ASSUME NEW own \in BOOLEAN, StartTool(own)
      PROVE  Kept'
  <2>1. CallInv'
    BY <1>6, StartFact DEF CallInv
  <2>2. ids.tools + 1 \in Nat
    BY <1>i DEF Ids
  <2> QED
    BY <1>6, <1>e, <1>c, <2>1, <2>2 DEF StartTool
<1>7. ASSUME NEW failed \in BOOLEAN, EndTool(failed)
      PROVE  Kept'
  <2>1. CallInv'
    BY <1>7, EndFact DEF CallInv
  <2>2. messages' \in Seq(Message)
    BY <1>7, <1>c, MessageType DEF EndTool, Reply
  <2> QED
    BY <1>7, <1>e, <1>c, <2>1, <2>2 DEF EndTool, Reply, NoTool
<1>8. CASE EndRound
  <2>1. CallInv'
    BY <1>8, EndRoundFact DEF CallInv
  <2> QED
    BY <1>8, <1>e, <2>1 DEF EndRound
<1>9. CASE StageDone \/ UNCHANGED stageVars
  BY <1>9 DEF StageDone, stageVars, CallInv
<1> QED
  BY <1>1, <1>2, <1>3, <1>4, <1>5, <1>6, <1>7, <1>8, <1>9
     DEF StageNext, Model, Tools, Quiet

LEMMA InitKept == StageInit => Kept
<1> SUFFICES ASSUME StageInit PROVE Kept
  OBVIOUS
<1>1. messages \in Seq(Message) /\ ledger \in Seq(LedgerRecord)
  BY DEF StageInit
<1>2. ids \in Ids /\ ids.models = 0 /\ ids.waiting = <<>>
  <2>1. <<>> \in Seq(Nat)
    OBVIOUS
  <2> QED
    BY <2>1 DEF StageInit, FreshIds, Ids
<1>3. PlaceInv /\ CallInv
  BY <1>2 DEF StageInit, PlaceInv, CallInv
<1>4. tool \in [id : Nat, own : BOOLEAN]
  BY DEF StageInit, NoTool
<1>5. /\ deltas \in 0 .. MaxDeltas /\ retry_count \in 0 .. MaxRetries
      /\ tool_rounds \in 0 .. MaxRounds /\ tool_calls \in 0 .. MaxCalls
      /\ next \in 1 .. MaxCalls + 1 /\ required \in 0 .. MaxRequired
  BY StageAssumption DEF StageInit, StageAssumption
<1>6. StageTypeOK
  BY <1>1, <1>2, <1>4, <1>5 DEF StageInit, StageTypeOK, Places
<1> QED
  BY <1>3, <1>6 DEF Kept

LEMMA KeptInvariant == StageSpec => []Kept
  BY InitKept, NextKept, PTL DEF StageSpec

(* Every reachable state is well typed.                                      *)
THEOREM StageTypeCorrect == StageSpec => []StageTypeOK
<1>1. Kept => StageTypeOK
  BY DEF Kept
<1> QED
  BY <1>1, KeptInvariant, PTL

-----------------------------------------------------------------------------
(* The ledger and the bookkeeping: every step is one of these.               *)

Silent == UNCHANGED <<ledger, attempt, retry_count, ids>>

Begins ==
  /\ ids'.pending = Append(ids.pending, attempt + 1) /\ ids'.tools = ids.tools
  /\ attempt' = attempt + 1
  /\ UNCHANGED <<ledger, retry_count>>

Notes ==
  /\ \E n \in Nat,
        kind \in {"model_delta", "tool_retry", "tool_call_failed", "tool_call_completed"} :
       ledger' = Append(ledger, Rec(kind, n, n))
  /\ UNCHANGED <<attempt, retry_count, ids>>

Retries ==
  /\ \E kind \in {"parse_retry", "output_retry"} :
       ledger' = Append(ledger, Rec(kind, attempt, attempt))
  /\ retry_count' = retry_count + 1
  /\ UNCHANGED <<attempt, ids>>

Starts ==
  /\ ledger' = Append(ledger, Rec("tool_call_started", ids.tools + 1, ids.tools + 1))
  /\ ids'.tools = ids.tools + 1 /\ ids'.pending = ids.pending
  /\ UNCHANGED <<attempt, retry_count>>

Completes ==
  /\ ids.pending # <<>>
  /\ ledger' = Append(ledger, Rec("model_completed", attempt, Head(ids.pending)))
  /\ ids'.pending = Tail(ids.pending) /\ ids'.tools = ids.tools
  /\ UNCHANGED <<attempt, retry_count>>

LEMMA EvidenceStep ==
  Kept /\ [StageNext]_stageVars =>
    Silent \/ Begins \/ Notes \/ Retries \/ Starts \/ Completes
<1> SUFFICES ASSUME Kept, [StageNext]_stageVars
             PROVE  Silent \/ Begins \/ Notes \/ Retries \/ Starts \/ Completes
  OBVIOUS
<1>i. ids \in Ids /\ ids.models = attempt /\ attempt \in Nat /\ tool.id \in Nat
  BY DEF Kept, StageTypeOK, CallInv
<1>1. CASE Request
  BY <1>1, <1>i, BeginModelFact DEF Request, Begins, budget
<1>2. CASE Delta
  BY <1>2, <1>i, DeltaFact DEF Delta, Notes, budget
<1>3. ASSUME NEW n \in 0 .. MaxCalls, NEW valid \in BOOLEAN, ModelAnswers(n, valid)
      PROVE  Completes
  <2>1. UNCHANGED retry_count
    BY <1>3 DEF ModelAnswers, budget
  <2> QED
    BY <1>3, <1>i, <2>1, AnswerFact, PopModelFact DEF Completes
<1>4. CASE Quiet
  <2>1. UNCHANGED retry_count
    BY <1>4 DEF Quiet, ReturnOutput, ModelMalformed, BeginRound, RefuseTool, Abort, budget
  <2> QED
    BY <1>4, <2>1, QuietFact DEF Silent
<1>5. ASSUME NEW place \in {"malformed", "invalid"},
             NEW kind \in {"parse_retry", "output_retry"}, Retry(place, kind)
      PROVE  Silent \/ Retries
  BY <1>5, RetryFact DEF Silent, Retries
<1>6. ASSUME NEW own \in BOOLEAN, StartTool(own)
      PROVE  Starts
  <2>1. UNCHANGED retry_count
    BY <1>6 DEF StartTool, budget
  <2> QED
    BY <1>6, <2>1, StartFact DEF Starts
<1>7. ASSUME NEW failed \in BOOLEAN, EndTool(failed)
      PROVE  Notes
  <2>1. UNCHANGED retry_count
    BY <1>7 DEF EndTool, budget
  <2> QED
    BY <1>7, <1>i, <2>1, EndFact DEF Notes
<1>8. CASE EndRound
  <2>1. UNCHANGED retry_count
    BY <1>8 DEF EndRound, budget
  <2> QED
    BY <1>8, <1>i, <2>1, EndRoundFact DEF Silent, Notes
<1>9. CASE StageDone \/ UNCHANGED stageVars
  BY <1>9 DEF StageDone, stageVars, Silent
<1> QED
  BY <1>1, <1>2, <1>3, <1>4, <1>5, <1>6, <1>7, <1>8, <1>9
     DEF StageNext, Model, Tools, Quiet

(* The ledger with one more record.                                          *)
LEMMA LedgerGrows ==
  ASSUME Kept, NEW kind, NEW of, NEW id, ledger' = Append(ledger, Rec(kind, of, id)),
         Rec(kind, of, id) \in LedgerRecord
  PROVE  /\ Len(ledger) \in Nat
         /\ DOMAIN ledger = 1 .. Len(ledger) /\ DOMAIN ledger' = 1 .. Len(ledger) + 1
         /\ \A n \in 1 .. Len(ledger) : ledger'[n] = ledger[n]
         /\ ledger'[Len(ledger) + 1].kind = kind
         /\ ledger'[Len(ledger) + 1].of = of
         /\ ledger'[Len(ledger) + 1].id = id
<1>1. ledger \in Seq(LedgerRecord)
  BY DEF Kept, StageTypeOK
<1>2. /\ DOMAIN ledger' = 1 .. Len(ledger) + 1
      /\ ledger'[Len(ledger) + 1] = Rec(kind, of, id)
      /\ \A n \in 1 .. Len(ledger) : ledger'[n] = ledger[n]
  BY <1>1, AppendFact
<1> QED
  BY <1>1, <1>2 DEF Rec

(* A record of one of the kinds counts, and no other does.                   *)
LEMMA CountGrows ==
  ASSUME Kept, NEW kind, NEW of, NEW id, ledger' = Append(ledger, Rec(kind, of, id)),
         Rec(kind, of, id) \in LedgerRecord, NEW kinds
  PROVE  /\ Count(kinds) \in Nat
         /\ Count(kinds)' = IF kind \in kinds THEN Count(kinds) + 1 ELSE Count(kinds)
<1> DEFINE S == {n \in DOMAIN ledger : ledger[n].kind \in kinds}
           T == {n \in DOMAIN ledger' : ledger'[n].kind \in kinds}
<1>1. /\ Len(ledger) \in Nat
      /\ DOMAIN ledger = 1 .. Len(ledger) /\ DOMAIN ledger' = 1 .. Len(ledger) + 1
      /\ \A n \in 1 .. Len(ledger) : ledger'[n] = ledger[n]
      /\ ledger'[Len(ledger) + 1].kind = kind
  BY LedgerGrows
<1>2. IsFiniteSet(S)
  <2>1. IsFiniteSet(1 .. Len(ledger))
    BY <1>1, FS_Interval
  <2> QED
    BY <1>1, <2>1, FS_Subset
<1>3. Cardinality(S) \in Nat
  BY <1>2, FS_CardinalityType
<1>4. Len(ledger) + 1 \notin S
  BY <1>1
<1>5. T = IF kind \in kinds THEN S \union {Len(ledger) + 1} ELSE S
  BY <1>1
<1>6. Cardinality(S \union {Len(ledger) + 1}) = Cardinality(S) + 1
  BY <1>2, <1>4, FS_AddElement
<1>7. Cardinality(T) = IF kind \in kinds THEN Cardinality(S) + 1 ELSE Cardinality(S)
  BY <1>5, <1>6
<1> QED
  BY <1>3, <1>7 DEF Count

LEMMA RecordType ==
  ASSUME NEW kind \in {"model_delta", "model_completed", "parse_retry", "output_retry",
                       "tool_retry", "tool_call_started", "tool_call_completed",
                       "tool_call_failed"},
         NEW of \in Nat, NEW id \in Nat
  PROVE  Rec(kind, of, id) \in LedgerRecord
  BY DEF Rec, LedgerRecord

-----------------------------------------------------------------------------
(* Ids.                                                                      *)

LEMMA NextNames == Kept /\ RecordsNameTheirCall /\ [StageNext]_stageVars => RecordsNameTheirCall'
<1> SUFFICES ASSUME Kept, RecordsNameTheirCall, [StageNext]_stageVars
             PROVE  RecordsNameTheirCall'
  OBVIOUS
<1>i. ids.tools + 1 \in Nat /\ attempt \in Nat /\ ids.pending \in Seq(Nat)
  BY DEF Kept, StageTypeOK, Ids
<1>1. ASSUME NEW kind, NEW of, NEW id, ledger' = Append(ledger, Rec(kind, of, id)),
             Rec(kind, of, id) \in LedgerRecord, kind # "model_completed" => of = id
      PROVE  RecordsNameTheirCall'
  <2>1. /\ DOMAIN ledger = 1 .. Len(ledger) /\ DOMAIN ledger' = 1 .. Len(ledger) + 1
        /\ \A n \in 1 .. Len(ledger) : ledger'[n] = ledger[n]
        /\ ledger'[Len(ledger) + 1].kind = kind
        /\ ledger'[Len(ledger) + 1].of = of /\ ledger'[Len(ledger) + 1].id = id
        /\ Len(ledger) \in Nat
    BY <1>1, LedgerGrows
  <2> QED
    BY <1>1, <2>1 DEF RecordsNameTheirCall
<1>2. CASE Silent \/ Begins
  BY <1>2 DEF Silent, Begins, RecordsNameTheirCall
<1>3. CASE Notes
  BY <1>1, <1>3, RecordType DEF Notes
<1>4. CASE Retries
  BY <1>1, <1>4, <1>i, RecordType DEF Retries
<1>5. CASE Starts
  BY <1>1, <1>5, <1>i, RecordType DEF Starts
<1>6. CASE Completes
  <2>1. Head(ids.pending) \in Nat
    BY <1>6, <1>i, TailFact DEF Completes
  <2> QED
    BY <1>1, <1>6, <1>i, <2>1, RecordType DEF Completes
<1> QED
  BY <1>2, <1>3, <1>4, <1>5, <1>6, EvidenceStep

(* The recorder names the call of every delta, retry and tool record.        *)
THEOREM NameTheorem == StageSpec => []RecordsNameTheirCall
<1>1. StageInit => RecordsNameTheirCall
  BY DEF StageInit, RecordsNameTheirCall
<1> QED
  BY <1>1, NextNames, KeptInvariant, PTL DEF StageSpec

\* The calls still pending are in order, and later than all that completed.
OrderInv ==
  /\ \A i, j \in DOMAIN ids.pending : i < j => ids.pending[i] < ids.pending[j]
  /\ \A i \in DOMAIN ids.pending : ids.pending[i] <= attempt
  /\ \A n \in DOMAIN ledger : ledger[n].kind = "model_completed" =>
       /\ ledger[n].id <= attempt /\ ledger[n].id <= ledger[n].of
       /\ \A i \in DOMAIN ids.pending : ledger[n].id < ids.pending[i]
  /\ \A m, n \in DOMAIN ledger :
       m < n /\ ledger[m].kind = "model_completed" /\ ledger[n].kind = "model_completed" =>
         ledger[m].id < ledger[n].id

LEMMA NextOrder == Kept /\ OrderInv /\ [StageNext]_stageVars => OrderInv'
<1> SUFFICES ASSUME Kept, OrderInv, [StageNext]_stageVars PROVE OrderInv'
  OBVIOUS
<1>i. /\ ids.tools + 1 \in Nat /\ attempt \in Nat /\ ids.pending \in Seq(Nat)
      /\ Len(ids.pending) \in Nat /\ DOMAIN ids.pending = 1 .. Len(ids.pending)
      /\ \A i \in DOMAIN ids.pending : ids.pending[i] \in Nat
  <2>1. ids.tools + 1 \in Nat /\ attempt \in Nat /\ ids.pending \in Seq(Nat)
    BY DEF Kept, StageTypeOK, Ids
  <2> QED
    BY <2>1
<1>l. \A n \in DOMAIN ledger : ledger[n].id \in Nat /\ ledger[n].of \in Nat
  <2>1. \A n \in DOMAIN ledger : ledger[n] \in LedgerRecord
    BY DEF Kept, StageTypeOK
  <2> QED
    BY <2>1 DEF LedgerRecord
<1>1. ASSUME NEW kind, NEW of, NEW id, ledger' = Append(ledger, Rec(kind, of, id)),
             Rec(kind, of, id) \in LedgerRecord, kind # "model_completed",
             UNCHANGED attempt, ids'.pending = ids.pending
      PROVE  OrderInv'
  <2>1. /\ DOMAIN ledger = 1 .. Len(ledger) /\ DOMAIN ledger' = 1 .. Len(ledger) + 1
        /\ \A n \in 1 .. Len(ledger) : ledger'[n] = ledger[n]
        /\ ledger'[Len(ledger) + 1].kind = kind /\ Len(ledger) \in Nat
    BY <1>1, LedgerGrows
  <2>2. \A n \in DOMAIN ledger' : ledger'[n].kind = "model_completed" =>
          n \in DOMAIN ledger /\ ledger'[n] = ledger[n]
    BY <1>1, <2>1
  <2> QED
    BY <1>1, <2>2 DEF OrderInv
<1>2. CASE Silent
  BY <1>2 DEF Silent, OrderInv
<1>3. CASE Begins
  <2> DEFINE p == ids.pending
             q == ids'.pending
  <2>1. /\ DOMAIN q = 1 .. Len(p) + 1 /\ q[Len(p) + 1] = attempt + 1
        /\ \A i \in 1 .. Len(p) : q[i] = p[i]
    BY <1>3, <1>i, AppendFact DEF Begins
  <2>2. attempt' = attempt + 1 /\ ledger' = ledger
    BY <1>3 DEF Begins
  <2>3. \A i \in DOMAIN q : q[i] <= attempt'
    BY <1>i, <2>1, <2>2 DEF OrderInv
  <2>4. \A i, j \in DOMAIN q : i < j => q[i] < q[j]
    <3> SUFFICES ASSUME NEW i \in DOMAIN q, NEW j \in DOMAIN q, i < j
                 PROVE  q[i] < q[j]
      OBVIOUS
    <3>1. i \in DOMAIN p /\ q[i] = p[i] /\ p[i] <= attempt
      <4>1. Len(p) \in Nat /\ DOMAIN p = 1 .. Len(p)
        BY <1>i
      <4>2. i \in 1 .. Len(p)
        BY <2>1, <4>1
      <4> QED
        BY <2>1, <4>1, <4>2 DEF OrderInv
    <3>2. CASE j = Len(p) + 1
      BY <1>i, <2>1, <3>1, <3>2
    <3>3. CASE j # Len(p) + 1
      BY <1>i, <2>1, <3>1, <3>3 DEF OrderInv
    <3> QED
      BY <3>2, <3>3
  <2>5. ASSUME NEW n \in DOMAIN ledger, ledger[n].kind = "model_completed"
        PROVE  /\ ledger[n].id <= attempt' /\ ledger[n].id <= ledger[n].of
               /\ \A i \in DOMAIN q : ledger[n].id < q[i]
    <3>1. /\ ledger[n].id <= attempt /\ ledger[n].id <= ledger[n].of
          /\ \A i \in DOMAIN p : ledger[n].id < p[i]
      BY <2>5 DEF OrderInv
    <3>2. ledger[n].id \in Nat /\ ledger[n].id < attempt + 1
      BY <1>i, <1>l, <3>1
    <3>3. ASSUME NEW i \in DOMAIN q PROVE ledger[n].id < q[i]
      <4>1. CASE i = Len(p) + 1
        BY <2>1, <3>2, <4>1
      <4>2. CASE i # Len(p) + 1
        <5>1. i \in DOMAIN p /\ q[i] = p[i]
          BY <1>i, <2>1, <4>2
        <5> QED
          BY <3>1, <5>1
      <4> QED
        BY <4>1, <4>2
    <3> QED
      BY <1>i, <2>2, <3>1, <3>2, <3>3
  <2> QED
    BY <2>2, <2>3, <2>4, <2>5 DEF OrderInv
<1>4. CASE Notes
  BY <1>1, <1>4, RecordType DEF Notes
<1>5. CASE Retries
  BY <1>1, <1>5, <1>i, RecordType DEF Retries
<1>6. CASE Starts
  BY <1>1, <1>6, <1>i, RecordType DEF Starts
<1>7. CASE Completes
  <2> DEFINE p == ids.pending
             q == ids'.pending
  <2>1. /\ DOMAIN q = 1 .. Len(p) - 1 /\ Len(p) \in Nat \ {0}
        /\ \A i \in 1 .. Len(p) - 1 : q[i] = p[i + 1]
        /\ Head(p) = p[1] /\ Head(p) \in Nat
    BY <1>7, <1>i, TailFact DEF Completes
  <2>2. /\ p[1] <= attempt /\ attempt' = attempt
        /\ \A i \in DOMAIN q : i + 1 \in DOMAIN p /\ q[i] = p[i + 1] /\ p[1] < p[i + 1]
    <3>1. attempt' = attempt
      BY <1>7 DEF Completes
    <3>2. 1 \in DOMAIN p
      BY <1>i, <2>1
    <3>3. ASSUME NEW i \in DOMAIN q
          PROVE  i + 1 \in DOMAIN p /\ q[i] = p[i + 1] /\ 1 < i + 1
      <4>1. i \in 1 .. Len(p) - 1
        BY <2>1
      <4>2. i + 1 \in 1 .. Len(p) /\ 1 < i + 1
        BY <2>1, <4>1
      <4> QED
        BY <1>i, <2>1, <4>1, <4>2
    <3> QED
      BY <3>1, <3>2, <3>3 DEF OrderInv
  <2>3. Rec("model_completed", attempt, Head(p)) \in LedgerRecord
    BY <1>i, <2>1, RecordType
  <2>4. /\ DOMAIN ledger = 1 .. Len(ledger) /\ DOMAIN ledger' = 1 .. Len(ledger) + 1
        /\ \A n \in 1 .. Len(ledger) : ledger'[n] = ledger[n]
        /\ ledger'[Len(ledger) + 1].of = attempt /\ ledger'[Len(ledger) + 1].id = p[1]
        /\ Len(ledger) \in Nat
    BY <1>7, <2>1, <2>3, LedgerGrows DEF Completes
  <2>5. \A n \in DOMAIN ledger : ledger[n].kind = "model_completed" => ledger[n].id < p[1]
    BY <1>i, <2>1 DEF OrderInv
  <2>6. ASSUME NEW n \in DOMAIN ledger', ledger'[n].kind = "model_completed"
        PROVE  /\ ledger'[n].id <= attempt' /\ ledger'[n].id <= ledger'[n].of
               /\ \A i \in DOMAIN q : ledger'[n].id < q[i]
    <3>1. CASE n = Len(ledger) + 1
      BY <2>2, <2>4, <3>1
    <3>2. CASE n # Len(ledger) + 1
      <4>1. n \in DOMAIN ledger /\ ledger'[n] = ledger[n]
        BY <2>4, <3>2
      <4> QED
        BY <2>2, <2>6, <4>1 DEF OrderInv
    <3> QED
      BY <3>1, <3>2
  <2>7. ASSUME NEW m \in DOMAIN ledger', NEW n \in DOMAIN ledger', m < n,
               ledger'[m].kind = "model_completed", ledger'[n].kind = "model_completed"
        PROVE  ledger'[m].id < ledger'[n].id
    <3>1. m \in DOMAIN ledger /\ ledger'[m] = ledger[m]
      BY <2>4, <2>7
    <3>2. CASE n = Len(ledger) + 1
      BY <2>4, <2>5, <2>7, <3>1, <3>2
    <3>3. CASE n # Len(ledger) + 1
      BY <2>4, <2>7, <3>1, <3>3 DEF OrderInv
    <3> QED
      BY <3>2, <3>3
  <2>8. ASSUME NEW i \in DOMAIN q, NEW j \in DOMAIN q
        PROVE  /\ q[i] <= attempt'
               /\ i < j => q[i] < q[j]
    <3>1. /\ i + 1 \in DOMAIN p /\ j + 1 \in DOMAIN p
          /\ q[i] = p[i + 1] /\ q[j] = p[j + 1]
      BY <2>2
    <3>2. i < j => i + 1 < j + 1
      BY <2>1
    <3> QED
      BY <2>2, <3>1, <3>2 DEF OrderInv
  <2> QED
    BY <2>6, <2>7, <2>8 DEF OrderInv
<1> QED
  BY <1>2, <1>3, <1>4, <1>5, <1>6, <1>7, EvidenceStep

-----------------------------------------------------------------------------
(* Counters and budgets.                                                     *)

Retried == Count({"parse_retry", "output_retry"})
Started == Count({"tool_call_started"})

CountInv == retry_count = Retried /\ ids.tools = Started

LEMMA NextCount == Kept /\ CountInv /\ [StageNext]_stageVars => CountInv'
<1> SUFFICES ASSUME Kept, CountInv, [StageNext]_stageVars PROVE CountInv'
  OBVIOUS
<1>i. ids.tools + 1 \in Nat /\ attempt \in Nat /\ ids.pending \in Seq(Nat)
  BY DEF Kept, StageTypeOK, Ids
<1>1. ASSUME NEW kind, NEW of, NEW id, ledger' = Append(ledger, Rec(kind, of, id)),
             Rec(kind, of, id) \in LedgerRecord
      PROVE  /\ Retried' = IF kind \in {"parse_retry", "output_retry"}
                           THEN Retried + 1 ELSE Retried
             /\ Started' = IF kind \in {"tool_call_started"} THEN Started + 1 ELSE Started
  BY <1>1, CountGrows DEF Retried, Started
<1>2. CASE Silent \/ Begins
  BY <1>2 DEF Silent, Begins, CountInv, Retried, Started, Count
<1>3. CASE Notes
  <2>1. PICK n \in Nat,
             kind \in {"model_delta", "tool_retry", "tool_call_failed", "tool_call_completed"} :
               ledger' = Append(ledger, Rec(kind, n, n))
    BY <1>3 DEF Notes
  <2>2. Retried' = Retried /\ Started' = Started
    BY <1>1, <2>1, RecordType
  <2> QED
    BY <1>3, <2>2 DEF Notes, CountInv
<1>4. CASE Retries
  <2>1. PICK kind \in {"parse_retry", "output_retry"} :
               ledger' = Append(ledger, Rec(kind, attempt, attempt))
    BY <1>4 DEF Retries
  <2>2. Retried' = Retried + 1 /\ Started' = Started
    BY <1>1, <1>i, <2>1, RecordType
  <2> QED
    BY <1>4, <2>2 DEF Retries, CountInv
<1>5. CASE Starts
  <2>1. Retried' = Retried /\ Started' = Started + 1
    BY <1>1, <1>5, <1>i, RecordType DEF Starts
  <2> QED
    BY <1>5, <2>1 DEF Starts, CountInv
<1>6. CASE Completes
  <2>1. Head(ids.pending) \in Nat
    BY <1>6, <1>i, TailFact DEF Completes
  <2>2. Retried' = Retried /\ Started' = Started
    BY <1>1, <1>6, <1>i, <2>1, RecordType DEF Completes
  <2> QED
    BY <1>6, <2>2 DEF Completes, CountInv
<1> QED
  BY <1>2, <1>3, <1>4, <1>5, <1>6, EvidenceStep

LEMMA CountInvariant == StageSpec => []CountInv
<1>1. StageInit => CountInv
  <2> SUFFICES ASSUME StageInit PROVE CountInv
    OBVIOUS
  <2>1. \A kinds : {n \in DOMAIN ledger : ledger[n].kind \in kinds} = {}
    BY DEF StageInit
  <2>2. Retried = 0 /\ Started = 0
    BY <2>1, FS_EmptySet DEF Retried, Started, Count
  <2> QED
    BY <2>2 DEF StageInit, CountInv, FreshIds
<1> QED
  BY <1>1, NextCount, KeptInvariant, PTL DEF StageSpec

(* No record names a call that was never begun, and no model call completes  *)
(* twice.                                                                    *)
THEOREM IdTheorem == StageSpec => []IdsAccounted
<1>1. StageInit => OrderInv
  BY DEF StageInit, OrderInv, FreshIds
<1>2. Kept /\ OrderInv /\ CountInv => IdsAccounted
  BY DEF Kept, CallInv, OrderInv, CountInv, Started, IdsAccounted
<1> QED
  BY <1>1, <1>2, NextOrder, KeptInvariant, CountInvariant, PTL DEF StageSpec

\* Every request but the first is paid for by a retry or by a round; between
\* two requests there is nothing left to pay.
PayInv ==
  /\ attempt \in {retry_count + tool_rounds, retry_count + tool_rounds + 1}
  /\ pc \in {"request", "tools", "running"} => attempt = retry_count + tool_rounds
  /\ pc \in {"waiting", "malformed", "answered", "valid", "invalid"} =>
       attempt = retry_count + tool_rounds + 1

LEMMA NextPay == Kept /\ PayInv /\ [StageNext]_stageVars => PayInv'
<1> SUFFICES ASSUME Kept, PayInv, [StageNext]_stageVars PROVE PayInv'
  OBVIOUS
<1>i. attempt \in Nat /\ ids.models = attempt /\ retry_count \in Nat /\ tool_rounds \in Nat
  BY StageAssumption DEF Kept, StageTypeOK, CallInv, StageAssumption
<1> USE DEF PayInv, budget
<1>1. CASE Request
  BY <1>1, <1>i DEF Request
<1>2. CASE Delta
  BY <1>2 DEF Delta
<1>3. ASSUME NEW n \in 0 .. MaxCalls, NEW valid \in BOOLEAN, ModelAnswers(n, valid)
      PROVE  PayInv'
  BY <1>3 DEF ModelAnswers
<1>4. CASE ReturnOutput \/ ModelMalformed \/ RefuseTool
  BY <1>4 DEF ReturnOutput, ModelMalformed, RefuseTool
<1>5. CASE Abort
  BY <1>5 DEF Abort
<1>6. CASE BeginRound
  BY <1>6, <1>i DEF BeginRound
<1>7. ASSUME NEW place \in {"malformed", "invalid"},
             NEW kind \in {"parse_retry", "output_retry"}, Retry(place, kind)
      PROVE  PayInv'
  <2>1. /\ pc = place /\ UNCHANGED attempt
        /\ \/ pc' = "raised" /\ UNCHANGED retry_count
           \/ pc' = "request" /\ retry_count' = retry_count + 1
    BY <1>7, RetryFact
  <2>2. UNCHANGED tool_rounds
    BY <1>7 DEF Retry
  <2> QED
    BY <1>i, <2>1, <2>2
<1>8. ASSUME NEW own \in BOOLEAN, StartTool(own)
      PROVE  PayInv'
  BY <1>8 DEF StartTool
<1>9. ASSUME NEW failed \in BOOLEAN, EndTool(failed)
      PROVE  PayInv'
  BY <1>9 DEF EndTool
<1>10. CASE EndRound
  BY <1>10 DEF EndRound
<1>11. CASE StageDone \/ UNCHANGED stageVars
  BY <1>11 DEF StageDone, stageVars
<1> QED
  BY <1>1, <1>2, <1>3, <1>4, <1>5, <1>6, <1>7, <1>8, <1>9, <1>10, <1>11
     DEF StageNext, Model, Tools

(* The two budgets bound the requests of a stage, whatever the model and the *)
(* tools do.                                                                 *)
THEOREM BudgetTheorem == StageSpec => []BudgetsBound
<1>1. StageInit => PayInv
  BY DEF StageInit, PayInv
<1>2. Kept /\ CountInv /\ PayInv => BudgetsBound
  <2> SUFFICES ASSUME Kept, CountInv, PayInv PROVE BudgetsBound
    OBVIOUS
  <2>1. /\ retry_count \in 0 .. MaxRetries /\ tool_rounds \in 0 .. MaxRounds
        /\ MaxRetries \in Nat /\ MaxRounds \in Nat
    BY StageAssumption DEF Kept, StageTypeOK, StageAssumption
  <2>2. attempt <= 1 + MaxRetries + MaxRounds
    BY <2>1 DEF PayInv
  <2> QED
    BY <2>2 DEF CountInv, Retried, BudgetsBound
<1> QED
  BY <1>1, <1>2, NextPay, KeptInvariant, CountInvariant, PTL DEF StageSpec

-----------------------------------------------------------------------------
(* The conversation.                                                         *)

\* The call a tool message answers is the next one of its assistant message.
Follows(s, k) ==
  /\ k > 1
  /\ s[k - 1] \in {Answer(s[k].n - 1)} \union
       {Assistant(n) : n \in IF s[k].n = 1 THEN 1 .. MaxCalls ELSE {}}

Answered(s, k) ==
  /\ k + s[k].n <= Len(s)
  /\ \A i \in 1 .. s[k].n : s[k + i] = Answer(i)

\* The assistant message of the round under way, if there is one.
Opening == Len(messages) + 1 - next

TalkInv ==
  /\ \A k \in DOMAIN messages : messages[k].role = "tool" => Follows(messages, k)
  /\ pc \notin {"tools", "running", "raised"} =>
       \A k \in DOMAIN messages : messages[k].role = "assistant" => Answered(messages, k)
  /\ pc \in {"tools", "running"} =>
       /\ Opening \in DOMAIN messages /\ messages[Opening] = Assistant(tool_calls)
       /\ \A i \in 1 .. next - 1 : messages[Opening + i] = Answer(i)
       /\ \A k \in DOMAIN messages :
            messages[k].role = "assistant" /\ k # Opening => Answered(messages, k)

(* What is said stays said.                                                  *)
LEMMA TalkGrows ==
  ASSUME Kept, NEW m, m \in Message, messages' = Append(messages, m)
  PROVE  /\ Len(messages) \in Nat /\ Len(messages') = Len(messages) + 1
         /\ DOMAIN messages = 1 .. Len(messages) /\ DOMAIN messages' = 1 .. Len(messages) + 1
         /\ messages'[Len(messages) + 1] = m
         /\ \A k \in 1 .. Len(messages) :
              /\ messages'[k] = messages[k]
              /\ Answered(messages, k) => Answered(messages', k)
              /\ Follows(messages, k) => Follows(messages', k)
<1>1. /\ Len(messages) \in Nat /\ Len(messages') = Len(messages) + 1
      /\ DOMAIN messages = 1 .. Len(messages) /\ DOMAIN messages' = 1 .. Len(messages) + 1
      /\ messages'[Len(messages) + 1] = m
      /\ \A k \in 1 .. Len(messages) : messages'[k] = messages[k]
  <2>1. messages \in Seq(Message)
    BY DEF Kept, StageTypeOK
  <2> QED
    BY <2>1, AppendFact
<1>2. \A k \in 1 .. Len(messages) : messages[k] \in Message
  BY <1>1 DEF Kept, StageTypeOK
<1>3. ASSUME NEW k \in 1 .. Len(messages), Answered(messages, k)
      PROVE  Answered(messages', k)
  <2>1. messages[k].n \in Nat /\ messages'[k] = messages[k]
    BY <1>1, <1>2 DEF Message
  <2>2. \A i \in 1 .. messages[k].n : k + i \in 1 .. Len(messages)
    BY <1>1, <1>3, <2>1 DEF Answered
  <2> QED
    BY <1>1, <1>3, <2>1, <2>2 DEF Answered
<1>4. ASSUME NEW k \in 1 .. Len(messages), Follows(messages, k)
      PROVE  Follows(messages', k)
  <2>1. k - 1 \in 1 .. Len(messages)
    BY <1>1, <1>4 DEF Follows
  <2> QED
    BY <1>1, <1>4, <2>1 DEF Follows
<1> QED
  BY <1>1, <1>3, <1>4

LEMMA NextTalk == Kept /\ TalkInv /\ [StageNext]_stageVars => TalkInv'
<1> SUFFICES ASSUME Kept, TalkInv, [StageNext]_stageVars PROVE TalkInv'
  OBVIOUS
<1>i. /\ next \in Nat /\ next > 0 /\ tool_calls \in Nat /\ tool_calls <= MaxCalls
      /\ MaxCalls \in Nat \ {0}
  BY StageAssumption DEF Kept, StageTypeOK, StageAssumption
<1>m. Len(messages) \in Nat /\ DOMAIN messages = 1 .. Len(messages)
  BY DEF Kept, StageTypeOK
\* Nothing is said, and no round begins or ends.
<1>1. ASSUME UNCHANGED messages, pc \notin {"tools", "running"}, pc # "raised",
             pc' \notin {"tools", "running"}
      PROVE  TalkInv'
  BY <1>1 DEF TalkInv, Answered, Follows
<1>2. CASE Request \/ Delta \/ ReturnOutput \/ ModelMalformed
  BY <1>1, <1>2 DEF Request, Delta, ReturnOutput, ModelMalformed
<1>3. ASSUME NEW n \in 0 .. MaxCalls, NEW valid \in BOOLEAN, ModelAnswers(n, valid)
      PROVE  TalkInv'
  BY <1>1, <1>3 DEF ModelAnswers
<1>4. CASE UNCHANGED messages /\ pc' = "raised"
  BY <1>4 DEF TalkInv, Answered, Follows
<1>5. ASSUME NEW place \in {"malformed", "invalid"},
             NEW kind \in {"parse_retry", "output_retry"}, Retry(place, kind)
      PROVE  TalkInv'
  <2>1. CASE messages' = Append(messages, User) /\ pc' = "request"
    <3>1. User \in Message
      BY DEF User, Message
    <3>2. pc \notin {"tools", "running", "raised"}
      BY <1>5 DEF Retry
    <3>3. User.role = "user"
      BY DEF User
    <3> QED
      BY <2>1, <3>1, <3>2, <3>3, TalkGrows DEF TalkInv
  <2>2. CASE UNCHANGED messages /\ pc' = "raised"
    BY <1>4, <2>2
  <2> QED
    BY <1>5, <2>1, <2>2 DEF Retry
<1>6. CASE BeginRound
  <2>1. CASE /\ messages' = Append(messages, Assistant(tool_calls))
             /\ pc' = "tools" /\ next' = 1 /\ pc = "answered" /\ UNCHANGED tool_calls
    <3>1. /\ Assistant(tool_calls) \in Message
          /\ Assistant(tool_calls).role = "assistant"
      BY <1>i DEF Assistant, Message
    <3>2. Opening' = Len(messages) + 1
      BY <2>1, <3>1, TalkGrows DEF Opening
    <3> QED
      BY <1>m, <2>1, <3>1, <3>2, TalkGrows DEF TalkInv
  <2>2. CASE UNCHANGED messages /\ pc' = "raised"
    BY <1>4, <2>2
  <2> QED
    BY <1>6, <2>1, <2>2 DEF BeginRound
\* Call "next" is answered.
<1>7. ASSUME pc \in {"tools", "running"}, pc' = "tools", next <= tool_calls,
             messages' = Append(messages, Answer(next)), next' = next + 1,
             UNCHANGED tool_calls
      PROVE  TalkInv'
  <2> DEFINE last == Len(messages) + 1
  <2>1. Answer(next) \in Message /\ Answer(next).role = "tool" /\ Answer(next).n = next
    BY <1>i DEF Answer, Message
  <2>2. /\ Len(messages') = last /\ DOMAIN messages' = 1 .. last
        /\ messages'[last] = Answer(next)
        /\ \A k \in 1 .. Len(messages) :
             /\ messages'[k] = messages[k]
             /\ Answered(messages, k) => Answered(messages', k)
             /\ Follows(messages, k) => Follows(messages', k)
    BY <1>7, <2>1, TalkGrows
  <2>3. /\ Opening \in 1 .. Len(messages) /\ messages[Opening] = Assistant(tool_calls)
        /\ \A i \in 1 .. next - 1 : messages[Opening + i] = Answer(i)
    BY <1>m, <1>7 DEF TalkInv
  <2>4. Opening' = Opening /\ Opening = last - next
    BY <1>i, <1>m, <1>7, <2>2 DEF Opening
  <2>5. Follows(messages', last)
    <3>1. last > 1 /\ last - 1 \in 1 .. Len(messages)
      BY <1>m, <2>3
    <3>2. CASE next = 1
      <4>1. messages'[last - 1] = Assistant(tool_calls) /\ tool_calls \in 1 .. MaxCalls
        BY <1>i, <1>m, <1>7, <2>2, <2>3, <2>4, <3>1, <3>2
      <4> QED
        BY <2>1, <2>2, <3>1, <3>2, <4>1 DEF Follows
    <3>3. CASE next # 1
      <4>1. next - 1 \in 1 .. next - 1 /\ Opening + (next - 1) = last - 1
        BY <1>i, <1>m, <2>3, <2>4, <3>3
      <4>2. messages'[last - 1] = Answer(next - 1)
        BY <2>2, <2>3, <3>1, <4>1
      <4> QED
        BY <2>1, <2>2, <3>1, <4>2 DEF Follows
    <3> QED
      BY <3>2, <3>3
  <2>6. ASSUME NEW i \in 1 .. next' - 1 PROVE messages'[Opening' + i] = Answer(i)
    <3>1. CASE i = next
      BY <1>i, <1>m, <2>2, <2>3, <2>4, <3>1
    <3>2. CASE i # next
      <4>1. i \in 1 .. next - 1
        BY <1>i, <1>7, <3>2
      <4>2. Opening + i \in 1 .. Len(messages)
        BY <1>i, <1>m, <2>3, <2>4, <4>1
      <4> QED
        BY <2>2, <2>3, <2>4, <4>1, <4>2
    <3> QED
      BY <3>1, <3>2
  <2>7. ASSUME NEW k \in DOMAIN messages', k # last
        PROVE  /\ k \in DOMAIN messages /\ messages'[k] = messages[k]
               /\ messages'[k].role = "tool" => Follows(messages', k)
               /\ messages'[k].role = "assistant" /\ k # Opening => Answered(messages', k)
    <3>1. k \in 1 .. Len(messages)
      BY <1>m, <2>2, <2>7
    <3> QED
      BY <1>m, <1>7, <2>2, <3>1 DEF TalkInv
  <2>8. messages'[last].role # "assistant"
    BY <2>1, <2>2
  <2>9. Opening' \in DOMAIN messages' /\ messages'[Opening'] = Assistant(tool_calls')
    BY <1>m, <1>7, <2>2, <2>3, <2>4
  <2> QED
    BY <1>7, <2>4, <2>5, <2>6, <2>7, <2>8, <2>9 DEF TalkInv
<1>8. CASE RefuseTool
  BY <1>7, <1>8 DEF RefuseTool, Reply
\* Within a round, and nothing is said.
<1>9. ASSUME pc \in {"tools", "running"}, pc' \in {"tools", "running"},
             UNCHANGED <<messages, next, tool_calls>>
      PROVE  TalkInv'
  BY <1>9 DEF TalkInv, Opening, Answered, Follows
<1>10. ASSUME NEW own \in BOOLEAN, StartTool(own)
       PROVE  TalkInv'
  BY <1>9, <1>10 DEF StartTool
<1>11. ASSUME NEW failed \in BOOLEAN, EndTool(failed)
       PROVE  TalkInv'
  <2>1. pc = "running" /\ pc' = "tools" /\ next <= tool_calls /\ UNCHANGED tool_calls
    BY <1>11 DEF EndTool, Kept, PlaceInv
  <2>2. \/ messages' = Append(messages, Answer(next)) /\ next' = next + 1
        \/ UNCHANGED <<messages, next>>
    BY <1>11 DEF EndTool, Reply
  <2> QED
    BY <1>7, <1>9, <2>1, <2>2
<1>12. CASE EndRound
  <2>1. /\ pc = "tools" /\ pc' = "request" /\ UNCHANGED messages
        /\ next = tool_calls + 1
    BY <1>i, <1>12 DEF EndRound, round, Kept, PlaceInv
  <2>2. /\ Opening \in DOMAIN messages /\ messages[Opening] = Assistant(tool_calls)
        /\ \A i \in 1 .. next - 1 : messages[Opening + i] = Answer(i)
        /\ Opening + tool_calls = Len(messages)
    <3>1. Opening + tool_calls = Len(messages)
      <4>1. next = tool_calls + 1 /\ tool_calls \in Nat
        BY <1>i, <2>1
      <4>2. Len(messages) \in Nat
        BY <1>m
      <4> QED
        BY <4>1, <4>2 DEF Opening
    <3> QED
      BY <2>1, <3>1 DEF TalkInv
  <2>3. Answered(messages, Opening)
    <3>1. messages[Opening].n = tool_calls /\ next - 1 = tool_calls
      BY <1>i, <2>1, <2>2 DEF Assistant
    <3>2. Opening + tool_calls <= Len(messages)
      BY <1>m, <2>2
    <3> QED
      BY <2>2, <3>1, <3>2 DEF Answered
  <2>4. \A k \in DOMAIN messages :
          /\ messages[k].role = "assistant" => Answered(messages, k)
          /\ messages[k].role = "tool" => Follows(messages, k)
    BY <2>1, <2>3 DEF TalkInv
  <2> QED
    BY <2>1, <2>4 DEF TalkInv, Answered, Follows
<1>13. CASE Abort
  BY <1>4, <1>13 DEF Abort
<1>14. CASE StageDone \/ UNCHANGED stageVars
  BY <1>14 DEF StageDone, stageVars, TalkInv, Opening, Answered, Follows
<1> QED
  BY <1>2, <1>3, <1>5, <1>6, <1>8, <1>10, <1>11, <1>12, <1>13, <1>14
     DEF StageNext, Model, Tools

(* Every request carries a conversation in which each tool call is answered, *)
(* once and in order.                                                        *)
THEOREM AnswerTheorem == StageSpec => []ToolCallsAnswered
<1>1. StageInit => TalkInv
  BY DEF StageInit, TalkInv
<1>2. TalkInv => ToolCallsAnswered
  BY DEF TalkInv, ToolCallsAnswered, Answered, Follows
<1> QED
  BY <1>1, <1>2, NextTalk, KeptInvariant, PTL DEF StageSpec

(* The ids in the ledger can be trusted.                                     *)
THEOREM AccountedTheorem == StageSpec => []RecordsAccounted
  BY StageTypeCorrect, NameTheorem, IdTheorem, PTL DEF RecordsAccounted
=============================================================================
