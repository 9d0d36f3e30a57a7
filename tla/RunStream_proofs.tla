-------------------------- MODULE RunStream_proofs --------------------------
(* Theorems about RunStream, for every manifest, step budget and event       *)
(* limit: a streamed run is a run, so what WorkflowRun_proofs proves of runs *)
(* holds of it; every event reaches the caller once and in order; the        *)
(* generator's end is the run's end.                                         *)
EXTENDS RunStream, WorkflowRun_proofs

-----------------------------------------------------------------------------
(* A streamed run is a run.                                                  *)

LEMMA StepIsRunStep == [StreamNext]_allVars => [Next]_vars
<1> SUFFICES ASSUME [StreamNext]_allVars PROVE [Next]_vars
  OBVIOUS
<1>1. CASE Put \/ CancelDelivered \/ RunOn
  BY <1>1 DEF Put, CancelDelivered, RunOn, Next, Step, Sink, Executor
<1>2. CASE TaskEnds \/ Generator \/ Caller
  BY <1>2 DEF TaskEnds, Generator, GetEvent, GetDone, Join,
              Caller, Resume, Close, CancelledAgain
<1>3. CASE StreamDone \/ UNCHANGED allVars
  BY <1>3 DEF StreamDone, allVars
<1> QED
  BY <1>1, <1>2, <1>3 DEF StreamNext, Task

(* Whatever the caller does with the generator, the task it runs behaves as  *)
(* a call of run(): the stream adds no behaviour to it.                      *)
THEOREM StreamIsRun == StreamSpec => Spec
<1>1. StreamInit => Init
  BY DEF StreamInit
<1> QED
  BY <1>1, StepIsRunStep, PTL DEF StreamSpec, Spec

-----------------------------------------------------------------------------
(* Type correctness.                                                         *)

LocalTypeOK ==
  /\ queue \in Seq(Item)
  /\ task \in {"running", "done"}
  /\ cancelled \in BOOLEAN
  /\ consumer \in Consumers
  /\ received \in Seq(Nat)
  /\ joined \in BOOLEAN

LEMMA NextLocalType == TypeOK /\ LocalTypeOK /\ [StreamNext]_allVars => LocalTypeOK'
<1> SUFFICES ASSUME TypeOK, LocalTypeOK, [StreamNext]_allVars PROVE LocalTypeOK'
  OBVIOUS
<1> USE DEF LocalTypeOK, Consumers
<1>1. CASE Put
  <2>1. Event(seq) \in Item
    BY DEF Event, Item, TypeOK
  <2> QED
    BY <1>1, <2>1 DEF Put
<1>2. CASE CancelDelivered \/ RunOn
  BY <1>2 DEF CancelDelivered, RunOn, streamVars
<1>3. CASE TaskEnds
  <2>1. \A how \in {"ok", "error"} : RunDone(how) \in Item
    BY DEF RunDone, Item
  <2> QED
    BY <1>3, <2>1 DEF TaskEnds
<1>4. CASE GetEvent
  <2>1. Head(queue) \in Item /\ Tail(queue) \in Seq(Item)
    BY <1>4 DEF GetEvent
  <2>2. Head(queue).seq \in Nat
    BY <2>1 DEF Item
  <2> QED
    BY <1>4, <2>1, <2>2 DEF GetEvent
<1>5. CASE GetDone
  <2>1. Tail(queue) \in Seq(Item)
    BY <1>5 DEF GetDone
  <2> QED
    BY <1>5, <2>1 DEF GetDone
<1>6. CASE Join \/ Caller
  BY <1>6 DEF Join, Caller, Resume, Close, CancelledAgain
<1>7. CASE StreamDone \/ UNCHANGED allVars
  BY <1>7 DEF StreamDone, allVars, streamVars
<1> QED
  BY <1>1, <1>2, <1>3, <1>4, <1>5, <1>6, <1>7 DEF StreamNext, Task, Generator

(* Every reachable state of a streamed run is well typed.                    *)
THEOREM StreamTypeCorrect == StreamSpec => []StreamTypeOK
<1>1. StreamInit => LocalTypeOK
  <2> SUFFICES ASSUME StreamInit PROVE LocalTypeOK
    OBVIOUS
  <2>1. queue \in Seq(Item) /\ received \in Seq(Nat)
    BY DEF StreamInit
  <2> QED
    BY <2>1 DEF StreamInit, LocalTypeOK, Consumers
<1>2. TypeOK /\ LocalTypeOK <=> StreamTypeOK
  BY DEF LocalTypeOK, StreamTypeOK
<1> QED
  BY <1>1, <1>2, NextLocalType, StreamIsRun, TypeCorrect, PTL DEF StreamSpec

-----------------------------------------------------------------------------
(* The inductive invariant.                                                  *)

\* The run, seen from its queue: it has sent what it numbered, and at its end
\* its recorder is finalised.
RunInv ==
  /\ pc = "sink" => seq > 0
  /\ pc = "unmark" => recorder = "finished"
  /\ pc \in {"returned", "raised"} => recorder \in {"noop", "finished", "blocked"}

\* The sentinel is put when the task ends and taken when the generator ends.
EndInv ==
  /\ task = "running" => ~Announced /\ consumer \notin {"ended", "failed"}
  /\ task = "done" => pc \in {"returned", "raised"}
  /\ task = "done" /\ consumer \notin {"ended", "failed"} =>
       Announced /\ queue[Len(queue)].kind = IF pc = "returned" THEN "ok" ELSE "error"
  /\ consumer \in {"ended", "failed"} =>
       queue = <<>> /\ (consumer = "ended" <=> pc = "returned")
  /\ consumer = "closed" /\ joined => task = "done"

StreamIInv == RunInv /\ NothingLostOrReordered /\ EndInv

(* A step of the run between two sinks: an event is numbered on the way to   *)
(* the sink, so the number of events that have been through it stays.        *)
LEMMA RunKeepsSent ==
  ASSUME TypeOK, RunInv, CancelDelivered \/ RunOn
  PROVE  RunInv' /\ Sent' = Sent /\ pc \notin {"returned", "raised", "sink"}
<1> USE DEF RunInv, Sent, TypeOK, trace, files
<1>1. CASE Begin
  BY <1>1 DEF Begin
<1>2. CASE EmitRunStarted \/ CompleteRun \/ EmitRunFailed
  BY <1>2 DEF EmitRunStarted, CompleteRun, EmitRunFailed, Emit
<1>3. CASE EnterStage
  BY <1>3 DEF EnterStage, Emit, Fail
<1>4. CASE SelectTransition
  <2>1. CASE Emit("transition_selected")
    BY <1>4, <2>1 DEF SelectTransition, Emit
  <2>2. CASE Fail("run") /\ UNCHANGED trace
    BY <1>4, <2>2 DEF SelectTransition, Fail
  <2> QED
    BY <1>4, <2>1, <2>2 DEF SelectTransition
<1>5. ASSUME NEW raw \in Values, ExecutorReturns(raw)
      PROVE  RunInv' /\ Sent' = Sent /\ pc \notin {"returned", "raised", "sink"}
  BY <1>5 DEF ExecutorReturns, Emit, Fail
<1>6. CASE ExecutorRaises \/ ExecutorCancelled
  BY <1>6 DEF ExecutorRaises, ExecutorCancelled, Fail, Interrupt
<1>7. CASE Finalize
  BY <1>7 DEF Finalize, FinishNoOp, FinishBlocked, FinishUnwritten, WriteArchive,
              RemoveMarker, FinishFails
<1> QED
  BY <1>1, <1>2, <1>3, <1>4, <1>5, <1>6, <1>7 DEF CancelDelivered, RunOn, Body

(* Sequences with something put at the end or taken from the front.          *)
LEMMA AppendFacts ==
  ASSUME queue \in Seq(Item), NEW item \in Item, queue' = Append(queue, item)
  PROVE  /\ Len(queue') = Len(queue) + 1 /\ queue' # <<>>
         /\ \A n \in 1 .. Len(queue) : queue'[n] = queue[n]
         /\ queue'[Len(queue')] = item
OBVIOUS

LEMMA TailFacts ==
  ASSUME queue \in Seq(Item), queue # <<>>, queue' = Tail(queue)
  PROVE  /\ Len(queue') = Len(queue) - 1 /\ Len(queue) \in Nat \ {0}
         /\ \A n \in 1 .. Len(queue') : queue'[n] = queue[n + 1]
         /\ Head(queue) = queue[1]
OBVIOUS

LEMMA NextStreamInv ==
  StreamTypeOK /\ StreamIInv /\ [StreamNext]_allVars => StreamIInv'
<1> SUFFICES ASSUME StreamTypeOK, StreamIInv, [StreamNext]_allVars PROVE StreamIInv'
  OBVIOUS
<1>t. TypeOK /\ queue \in Seq(Item) /\ Len(queue) \in Nat /\ received \in Seq(Nat)
      /\ Len(received) \in Nat /\ seq \in Nat
  BY DEF StreamTypeOK, TypeOK
<1> USE DEF StreamIInv
<1>1. CASE Put
  <2>1. /\ pc = "sink" /\ pc' \in {"loop", "executing", "after", "finish"}
        /\ UNCHANGED <<seq, recorder, received, task, consumer, joined>>
    BY <1>1 DEF Put, SinkReturns, trace, files
  <2>2. Event(seq) \in Item /\ IsEvent(Event(seq)) /\ Event(seq).seq = seq
    BY <1>t DEF Event, Item, IsEvent
  <2>3. task = "running" /\ ~Announced /\ consumer \notin {"ended", "failed"}
    BY <2>1, <1>t DEF EndInv, StreamTypeOK
  <2>4. /\ Len(queue') = Len(queue) + 1 /\ queue' # <<>>
        /\ \A n \in 1 .. Len(queue) : queue'[n] = queue[n]
        /\ queue'[Len(queue')] = Event(seq)
    BY <1>1, <1>t, <2>2, AppendFacts DEF Put
  <2>5. ~Announced' /\ Queued' = Len(queue) + 1 /\ Queued = Len(queue)
    BY <2>2, <2>3, <2>4 DEF Announced, Queued, IsEvent
  <2>6. seq > 0 /\ Len(received) + Len(queue) = seq - 1 /\ Sent' = seq
    BY <2>1, <2>5, <1>t DEF RunInv, NothingLostOrReordered, Sent
  <2>7. NothingLostOrReordered'
    <3>1. \A n \in DOMAIN received' : received'[n] = n
      BY <2>1 DEF NothingLostOrReordered
    <3>2. ASSUME NEW n \in 1 .. Queued'
          PROVE  IsEvent(queue'[n]) /\ queue'[n].seq = Len(received') + n
      <4>1. CASE n = Len(queue) + 1
        BY <4>1, <2>1, <2>2, <2>4, <2>6, <1>t
      <4>2. CASE n # Len(queue) + 1
        <5>1. n \in 1 .. Len(queue)
          BY <4>2, <2>5, <1>t
        <5> QED
          BY <5>1, <2>1, <2>4, <2>5 DEF NothingLostOrReordered
      <4> QED
        BY <4>1, <4>2
    <3>3. Len(received') + Queued' = Sent'
      BY <2>1, <2>5, <2>6, <1>t
    <3> QED
      BY <3>1, <3>2, <3>3 DEF NothingLostOrReordered
  <2>8. RunInv'
    BY <2>1 DEF RunInv
  <2>9. EndInv'
    BY <2>1, <2>3, <2>5 DEF EndInv
  <2> QED
    BY <2>7, <2>8, <2>9
<1>2. CASE CancelDelivered \/ RunOn
  <2>1. RunInv' /\ Sent' = Sent /\ pc \notin {"returned", "raised", "sink"}
    BY <1>2, <1>t, RunKeepsSent
  <2>2. UNCHANGED streamVars
    BY <1>2 DEF CancelDelivered, RunOn
  <2>3. task = "running"
    BY <2>1 DEF EndInv, StreamTypeOK
  <2>4. NothingLostOrReordered'
    BY <2>1, <2>2 DEF NothingLostOrReordered, Announced, Queued, streamVars
  <2>5. EndInv'
    BY <2>2, <2>3 DEF EndInv, Announced, streamVars
  <2> QED
    BY <2>1, <2>4, <2>5
<1>3. CASE TaskEnds
  <2> DEFINE last == RunDone(IF pc = "returned" THEN "ok" ELSE "error")
  <2>1. /\ pc \in {"returned", "raised"} /\ task = "running" /\ task' = "done"
        /\ queue' = Append(queue, last)
        /\ UNCHANGED <<pc, seq, recorder, consumer, received, joined>>
    BY <1>3 DEF TaskEnds, vars
  <2>2. last \in Item /\ ~IsEvent(last) /\ last.kind = IF pc = "returned" THEN "ok" ELSE "error"
    BY DEF RunDone, Item, IsEvent
  <2>3. /\ Len(queue') = Len(queue) + 1 /\ queue' # <<>>
        /\ \A n \in 1 .. Len(queue) : queue'[n] = queue[n]
        /\ queue'[Len(queue')] = last
    BY <2>1, <2>2, <1>t, AppendFacts
  <2> HIDE DEF last
  <2>4. Announced' /\ Queued' = Len(queue) /\ Queued = Len(queue)
    BY <2>1, <2>2, <2>3, <1>t DEF EndInv, Announced, Queued, IsEvent
  <2>5. NothingLostOrReordered'
    <3>1. \A n \in DOMAIN received' : received'[n] = n
      BY <2>1 DEF NothingLostOrReordered
    <3>2. ASSUME NEW n \in 1 .. Queued'
          PROVE  IsEvent(queue'[n]) /\ queue'[n].seq = Len(received') + n
      BY <2>1, <2>3, <2>4 DEF NothingLostOrReordered
    <3>3. Len(received') + Queued' = Sent'
      BY <2>1, <2>4 DEF NothingLostOrReordered, Sent
    <3> QED
      BY <3>1, <3>2, <3>3 DEF NothingLostOrReordered
  <2>6. RunInv' /\ EndInv'
    BY <2>1, <2>2, <2>3, <2>4 DEF RunInv, EndInv
  <2> QED
    BY <2>5, <2>6
<1>4. CASE GetEvent
  <2>1. /\ consumer = "waiting" /\ consumer' = "yielded" /\ queue # <<>>
        /\ IsEvent(Head(queue)) /\ queue' = Tail(queue)
        /\ received' = Append(received, Head(queue).seq)
        /\ UNCHANGED <<pc, seq, recorder, task, joined>>
    BY <1>4 DEF GetEvent, vars
  <2>2. /\ Len(queue') = Len(queue) - 1 /\ Len(queue) \in Nat \ {0}
        /\ \A n \in 1 .. Len(queue') : queue'[n] = queue[n + 1]
        /\ Head(queue) = queue[1]
    BY <2>1, <1>t, TailFacts
  <2>3. Queued \in Nat \ {0}
    BY <2>1, <2>2 DEF Queued, Announced
  <2>4. queue[1].seq = Len(received) + 1
    BY <2>3 DEF NothingLostOrReordered
  <2>5. /\ Len(received') = Len(received) + 1
        /\ \A n \in 1 .. Len(received) : received'[n] = received[n]
        /\ received'[Len(received) + 1] = Len(received) + 1
        /\ DOMAIN received' = 1 .. Len(received) + 1
    BY <2>1, <2>2, <2>4, <1>t
  <2>6. Announced' = Announced /\ Queued' = Queued - 1
    <3>1. CASE Len(queue) = 1
      <4>1. ~Announced /\ Queued = 1
        BY <3>1, <2>1, <2>2 DEF Announced, Queued
      <4>2. queue' = <<>>
        <5>1. queue' \in Seq(Item) /\ Len(queue') = 0
          BY <3>1, <2>1, <2>2, <1>t
        <5> QED
          BY <5>1
      <4> QED
        BY <4>1, <4>2 DEF Announced, Queued
    <3>2. CASE Len(queue) # 1
      <4>1. Len(queue') \in Nat \ {0} /\ queue' # <<>>
        BY <3>2, <2>1, <2>2, <1>t
      <4>2. queue'[Len(queue')] = queue[Len(queue)]
        BY <4>1, <2>2
      <4> QED
        BY <4>1, <4>2, <2>1, <2>2 DEF Announced, Queued
    <3> QED
      BY <3>1, <3>2
  <2>7. NothingLostOrReordered'
    <3>1. ASSUME NEW n \in DOMAIN received' PROVE received'[n] = n
      <4>1. CASE n = Len(received) + 1
        BY <4>1, <2>5
      <4>2. CASE n \in 1 .. Len(received)
        BY <4>2, <2>5, <1>t DEF NothingLostOrReordered
      <4> QED
        BY <4>1, <4>2, <2>5, <1>t
    <3>2. ASSUME NEW n \in 1 .. Queued'
          PROVE  IsEvent(queue'[n]) /\ queue'[n].seq = Len(received') + n
      <4>1. n + 1 \in 1 .. Queued /\ n \in 1 .. Len(queue')
        BY <2>2, <2>3, <2>6 DEF Queued
      <4>2. IsEvent(queue[n + 1]) /\ queue[n + 1].seq = Len(received) + (n + 1)
        BY <4>1 DEF NothingLostOrReordered
      <4> QED
        BY <4>1, <4>2, <2>2, <2>5, <1>t
    <3>3. Len(received') + Queued' = Sent'
      BY <2>1, <2>3, <2>5, <2>6, <1>t DEF NothingLostOrReordered, Sent
    <3> QED
      BY <3>1, <3>2, <3>3 DEF NothingLostOrReordered
  <2>8. EndInv'
    <3>1. Announced => queue'[Len(queue')] = queue[Len(queue)]
      <4>1. Announced => Len(queue') \in Nat \ {0}
        BY <2>1, <2>2 DEF Announced
      <4> QED
        BY <4>1, <2>2
    <3> QED
      BY <3>1, <2>1, <2>6 DEF EndInv
  <2> QED
    BY <2>1, <2>7, <2>8 DEF RunInv
<1>5. CASE GetDone
  <2>1. /\ consumer = "waiting" /\ queue # <<>> /\ ~IsEvent(Head(queue))
        /\ queue' = Tail(queue)
        /\ consumer' = IF Head(queue).kind = "ok" THEN "ended" ELSE "failed"
        /\ UNCHANGED <<pc, seq, recorder, task, received, joined>>
    BY <1>5 DEF GetDone, vars
  <2>2. /\ Len(queue') = Len(queue) - 1 /\ Len(queue) \in Nat \ {0}
        /\ Head(queue) = queue[1]
    BY <2>1, <1>t, TailFacts
  <2>3. Queued \in Nat /\ Queued = 0
    <3>1. Queued \in Nat
      BY <2>2 DEF Queued
    <3> QED
      BY <3>1, <2>1, <2>2 DEF NothingLostOrReordered
  <2>4. Announced /\ Len(queue) = 1
    BY <2>2, <2>3 DEF Queued, Announced
  <2>5. queue' = <<>> /\ ~Announced' /\ Queued' = 0
    <3>1. queue' \in Seq(Item) /\ Len(queue') = 0
      BY <2>1, <2>2, <2>4, <1>t
    <3>2. queue' = <<>>
      BY <3>1
    <3> QED
      BY <3>2 DEF Announced, Queued
  <2>6. task = "done"
    BY <2>4 DEF EndInv, StreamTypeOK
  <2>7. Head(queue).kind = IF pc = "returned" THEN "ok" ELSE "error"
    BY <2>1, <2>2, <2>4, <2>6 DEF EndInv
  <2>8. NothingLostOrReordered'
    BY <2>1, <2>3, <2>5 DEF NothingLostOrReordered, Sent
  <2>9. EndInv'
    BY <2>1, <2>5, <2>6, <2>7 DEF EndInv
  <2> QED
    BY <2>1, <2>8, <2>9 DEF RunInv
<1>6. CASE Join \/ Caller
  <2>1. /\ UNCHANGED <<pc, seq, recorder, queue, task, received>>
        /\ consumer \notin {"ended", "failed"} /\ consumer' \notin {"ended", "failed"}
    BY <1>6 DEF Join, Caller, Resume, Close, CancelledAgain, vars
  <2>2. NothingLostOrReordered' /\ RunInv'
    BY <2>1 DEF NothingLostOrReordered, Queued, Announced, Sent, RunInv
  <2>3. consumer' = "closed" /\ joined' => task = "done"
    BY <1>6 DEF Join, Caller, Resume, Close, CancelledAgain
  <2>4. EndInv'
    BY <2>1, <2>3 DEF EndInv, Announced
  <2> QED
    BY <2>2, <2>4
<1>7. CASE StreamDone \/ UNCHANGED allVars
  <2>1. UNCHANGED <<pc, seq, recorder, queue, task, consumer, received, joined>>
    BY <1>7 DEF StreamDone, allVars, streamVars, vars
  <2>2. RunInv' /\ EndInv'
    BY <2>1 DEF RunInv, EndInv, Announced
  <2>3. NothingLostOrReordered'
    BY <2>1 DEF NothingLostOrReordered, Queued, Announced, Sent
  <2> QED
    BY <2>2, <2>3
<1> QED
  BY <1>1, <1>2, <1>3, <1>4, <1>5, <1>6, <1>7 DEF StreamNext, Task, Generator

LEMMA StreamInvariant == StreamSpec => []StreamIInv
<1>1. StreamInit => StreamIInv
  BY DEF StreamInit, Init, StreamIInv, RunInv, EndInv, NothingLostOrReordered,
         Queued, Announced, Sent
<1> QED
  BY <1>1, NextStreamInv, StreamTypeCorrect, PTL DEF StreamSpec

-----------------------------------------------------------------------------
(* The properties MCRunStream checks.                                        *)

(* Every event reaches the caller once and in order, whatever the interleaving*)
(* of the task and the generator.                                            *)
THEOREM OrderTheorem == StreamSpec => []NothingLostOrReordered
<1>1. StreamIInv => NothingLostOrReordered
  BY DEF StreamIInv
<1> QED
  BY <1>1, StreamInvariant, PTL

(* The generator ends the way the run did, after the last event.             *)
THEOREM EndTheorem == StreamSpec => []EndMatchesRun
<1>1. StreamTypeOK /\ StreamIInv => EndMatchesRun
  <2> SUFFICES ASSUME StreamTypeOK, StreamIInv, consumer \in {"ended", "failed"}
               PROVE  EndMatchesRun
    BY DEF EndMatchesRun
  <2>1. task = "done" /\ queue = <<>> /\ (consumer = "ended" <=> pc = "returned")
    BY DEF StreamIInv, EndInv, StreamTypeOK
  <2>2. pc \in {"returned", "raised"}
    BY <2>1 DEF StreamIInv, EndInv
  <2>3. Queued = 0 /\ Sent = seq
    BY <2>1, <2>2 DEF Queued, Announced, Sent
  <2>4. Len(received) = seq
    BY <2>3 DEF StreamIInv, NothingLostOrReordered, StreamTypeOK, TypeOK
  <2> QED
    BY <2>1, <2>2, <2>4 DEF EndMatchesRun
<1> QED
  BY <1>1, StreamInvariant, StreamTypeCorrect, PTL

(* No run outlives its generator, unless a second cancellation cut the join. *)
THEOREM CloseTheorem == StreamSpec => []ClosedMeansFinalised
<1>1. StreamTypeOK /\ StreamIInv => ClosedMeansFinalised
  BY DEF StreamIInv, EndInv, RunInv, StreamTypeOK, Over, ClosedMeansFinalised
<1> QED
  BY <1>1, StreamInvariant, StreamTypeCorrect, PTL

(* What the caller of the generator sees is the run.                         *)
THEOREM CallerTheorem == StreamSpec => []CallerSeesTheRun
  BY StreamTypeCorrect, OrderTheorem, EndTheorem, PTL DEF CallerSeesTheRun
=============================================================================
