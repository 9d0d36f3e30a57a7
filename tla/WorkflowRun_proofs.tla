------------------------- MODULE WorkflowRun_proofs -------------------------
(* Theorems about WorkflowRun, for every manifest, step budget and event     *)
(* limit: the type invariant, the safety invariants MCWorkflowRun checks and *)
(* the refinement of RunLifecycle.                                           *)
EXTENDS WorkflowRun, TLAPS

-----------------------------------------------------------------------------
(* Type correctness.                                                         *)

(* Emitting an event keeps the types of the emitter and of the ledger.       *)
LEMMA EmitType ==
  ASSUME TypeOK, NEW kind \in Kinds, Emit(kind)
  PROVE  /\ seq' \in Nat
         /\ ledger' \in Seq(Kinds \X Nat)
         /\ limitHit' \in BOOLEAN
         /\ sending' \in Kinds
         /\ pc' = "sink"
<1>1. seq' \in Nat /\ sending' \in Kinds /\ pc' = "sink"
  BY DEF TypeOK, Emit
<1>2. <<kind, seq + 1>> \in Kinds \X Nat
  BY DEF TypeOK
<1>3. Append(ledger, <<kind, seq + 1>>) \in Seq(Kinds \X Nat)
  BY <1>2 DEF TypeOK
<1>4. ledger' \in Seq(Kinds \X Nat) /\ limitHit' \in BOOLEAN
  BY <1>3 DEF TypeOK, Emit, Observe
<1> QED
  BY <1>1, <1>4

(* The target of every transition of a stage is a stage.                     *)
LEMMA TargetIsStage ==
  ASSUME NEW s \in Stages, NEW i \in DOMAIN Transitions[s]
  PROVE  Transitions[s][i].to \in Stages
<1>1. Transitions[s] \in Seq(Transition)
  BY ManifestAssumption DEF ManifestAssumption
<1>2. Transitions[s][i] \in Transition
  BY <1>1
<1> QED
  BY <1>2 DEF Transition

LEMMA InitType == Init => TypeOK
<1> SUFFICES ASSUME Init PROVE TypeOK
  OBVIOUS
<1>1. path \in Seq(Stages) /\ ledger \in Seq(Kinds \X Nat)
  BY DEF Init
<1>2. current \in Stages
  BY ManifestAssumption DEF Init, ManifestAssumption
<1>3. outputs \in [Stages -> Values]
  BY DEF Init, Values
<1> QED
  BY <1>1, <1>2, <1>3
     DEF Init, TypeOK, Points, Terminal, Kinds, Recorders, Statuses, Errors

LEMMA NextType == TypeOK /\ [Next]_vars => TypeOK'
<1> SUFFICES ASSUME TypeOK, [Next]_vars PROVE TypeOK'
  OBVIOUS
<1> USE DEF TypeOK, Points, Terminal, Recorders, Statuses, Errors,
            data, trace, files
<1>1. CASE Begin
  BY <1>1 DEF Begin
<1>2. CASE EmitRunStarted
  BY <1>2, EmitType DEF EmitRunStarted, Kinds
<1>3. CASE EnterStage
  <2>1. CASE steps >= MaxSteps \/ ~ReadsAvailable(current)
    BY <1>3, <2>1 DEF EnterStage, Fail
  <2>2. CASE ~(steps >= MaxSteps \/ ~ReadsAvailable(current))
    <3>1. Emit("stage_started")
      BY <1>3, <2>2 DEF EnterStage
    <3>2. path' \in Seq(Stages)
      BY <1>3, <2>2 DEF EnterStage
    <3> QED
      BY <1>3, <2>2, <3>1, <3>2, EmitType DEF EnterStage, Kinds
  <2> QED
    BY <2>1, <2>2
<1>4. ASSUME NEW raw \in Values, ExecutorReturns(raw)
      PROVE  TypeOK'
  <2>1. CASE Valid(current, raw)
    <3>1. Emit("stage_completed")
      BY <1>4, <2>1 DEF ExecutorReturns
    <3>2. outputs' \in [Stages -> Values] /\ steps' \in Nat
      BY <1>4, <2>1 DEF ExecutorReturns, Normalize, Values
    <3> QED
      BY <1>4, <2>1, <3>1, <3>2, EmitType DEF ExecutorReturns, Kinds
  <2>2. CASE ~Valid(current, raw)
    BY <1>4, <2>2 DEF ExecutorReturns, Fail
  <2> QED
    BY <2>1, <2>2
<1>5. CASE ExecutorRaises \/ ExecutorCancelled
  BY <1>5 DEF ExecutorRaises, ExecutorCancelled, Fail, Interrupt
<1>6. CASE CompleteRun
  BY <1>6, EmitType DEF CompleteRun, Kinds
<1>7. CASE SelectTransition
  <2>1. CASE \E v \in Verdicts(current), i \in DOMAIN Transitions[current] :
               MoveTo(Transitions[current][i].to) /\ Emit("transition_selected")
                 /\ UNCHANGED error
    BY <1>7, <2>1, EmitType, TargetIsStage DEF SelectTransition, MoveTo, Kinds
  <2>2. CASE Fail("run") /\ UNCHANGED <<sending, current, trace>>
    BY <1>7, <2>2 DEF SelectTransition, Fail
  <2>3. \A v \in Verdicts(current) : DOMAIN v = DOMAIN Transitions[current]
    BY DEF Verdicts
  <2> QED
    BY <1>7, <2>1, <2>2, <2>3 DEF SelectTransition
<1>8. CASE Sink
  BY <1>8 DEF Sink, SinkReturns, SinkRaises, SinkCancelled, Fail, Interrupt
<1>9. CASE EmitRunFailed
  BY <1>9, EmitType DEF EmitRunFailed, Kinds
<1>10. CASE Finalize
  BY <1>10 DEF Finalize, FinishNoOp, FinishBlocked, FinishUnwritten,
               WriteArchive, RemoveMarker, FinishFails, Removed
<1>11. CASE Crash \/ Done \/ UNCHANGED vars
  BY <1>11 DEF Crash, Done, vars
<1> QED
  BY <1>1, <1>2, <1>3, <1>4, <1>5, <1>6, <1>7, <1>8, <1>9, <1>10, <1>11
     DEF Next, Step, Body, Executor

(* Every reachable state is well typed.                                      *)
THEOREM TypeCorrect == Spec => []TypeOK
  BY InitType, NextType, PTL DEF Spec

-----------------------------------------------------------------------------
(* The inductive invariant.                                                  *)

\* An archive exists only once finish_run has written it, with its argument.
ArchiveInv ==
  /\ archive # "none" => pc \in {"unmark"} \union Terminal /\ archive = status
  /\ pc = "unmark" => archive = status
  /\ pc = "idle" => marker = "never"
  /\ marker = "removed" => archive # "none" \/ recorder = "blocked"

\* run_failed is the last event ever emitted, and finish_run's argument agrees
\* with the event before it and with the exception in flight.
StatusInv ==
  /\ InLedger("run_failed") => sending = "run_failed"
  /\ sending = "run_failed" => pc \in {"sink", "finish", "unmark"} \union Terminal
  /\ pc \in {"finish", "unmark"} =>
       /\ status = "failed" => sending = "run_failed"
       /\ status = "complete" => sending = "run_completed"
       /\ status = "interrupted" => sending # "run_failed"
       /\ status = "interrupted" <=> error = "cancelled"
  /\ pc = "sink" => error # "cancelled"
  /\ pc \in {"idle", "starting", "loop", "executing", "after", "failing"} =>
       error # "cancelled"
  /\ pc \in {"failing"} \/ (pc \in {"sink", "finish", "unmark"} /\ sending = "run_failed") =>
       error \in {"run", "sink"}

\* The step counter lags the visits exactly while a visit is open.
VisitInv ==
  /\ pc \in {"idle", "starting", "loop", "after"} => steps = Len(path)
  /\ pc = "sink" /\ sending \in {"run_started", "stage_completed", "transition_selected"} =>
       steps = Len(path)
  /\ pc = "executing" \/ (pc = "sink" /\ sending = "stage_started") =>
       steps = Len(path) - 1 /\ ReadsAvailable(current)
  /\ steps \in {Len(path), Len(path) - 1}
  /\ Len(path) <= MaxSteps

\* What finish_run was told stays true of the archive it has written.
StoryInv ==
  archive # "none" =>
    /\ status = "failed" => sending = "run_failed"
    /\ status = "complete" => sending = "run_completed" /\ pc # "raised"
    /\ status = "interrupted" => sending # "run_failed"
    /\ status = "interrupted" <=> error = "cancelled"

Edge(s, t) == \E i \in DOMAIN Transitions[s] : Transitions[s][i].to = t

\* While a visit is open, current is its stage; between visits, it is where a
\* transition of the last visit leads.
PathInv ==
  /\ PathFollowsGraph
  /\ path = <<>> => current = Entry
  /\ pc \in {"idle", "starting"} \/ (pc = "sink" /\ sending = "run_started") => path = <<>>
  /\ pc \in {"executing", "after"} \/ (pc = "sink" /\ sending \in {"stage_started", "stage_completed"}) =>
       path # <<>> /\ path[Len(path)] = current
  /\ path # <<>> /\ (pc = "loop" \/ (pc = "sink" /\ sending = "transition_selected")) =>
       path[Len(path)] \notin Exits /\ Edge(path[Len(path)], current)

IInv == TypeOK /\ ArchiveInv /\ StatusInv /\ StoryInv /\ VisitInv /\ PathInv

-----------------------------------------------------------------------------
(* The inductive step, one part of IInv at a time.                           *)

(* Only emitting run_failed puts a run_failed record in the ledger.          *)
LEMMA EmitLedger ==
  ASSUME TypeOK, NEW kind \in Kinds, Emit(kind), InLedger("run_failed")'
  PROVE  InLedger("run_failed") \/ kind = "run_failed"
<1>1. PICK i \in DOMAIN ledger' : ledger'[i][1] = "run_failed"
  BY DEF InLedger
<1>2. CASE ledger' = ledger
  BY <1>1, <1>2 DEF InLedger
<1>3. CASE ledger' = Append(ledger, <<kind, seq + 1>>)
  <2>1. ledger \in Seq(Kinds \X Nat)
    BY DEF TypeOK
  <2>2. CASE i = Len(ledger) + 1
    BY <1>1, <1>3, <2>1, <2>2
  <2>3. CASE i # Len(ledger) + 1
    <3>1. i \in DOMAIN ledger /\ ledger'[i] = ledger[i]
      BY <1>1, <1>3, <2>1, <2>3
    <3> QED
      BY <1>1, <3>1 DEF InLedger
  <2> QED
    BY <2>2, <2>3
<1> QED
  BY <1>2, <1>3 DEF Emit, Observe

LEMMA LedgerKept == UNCHANGED ledger => InLedger("run_failed")' = InLedger("run_failed")
  BY DEF InLedger

LEMMA InitIInv == Init => IInv
<1> SUFFICES ASSUME Init PROVE IInv
  OBVIOUS
<1>1. TypeOK
  BY InitType
<1>2. Len(path) = 0 /\ MaxSteps \in Nat
  BY ManifestAssumption DEF Init, ManifestAssumption
<1>3. ~InLedger("run_failed")
  BY DEF Init, InLedger
<1> QED
  BY <1>1, <1>2, <1>3
     DEF Init, IInv, ArchiveInv, StatusInv, StoryInv, VisitInv, PathInv,
         PathFollowsGraph, Terminal

LEMMA NextArchive == TypeOK /\ ArchiveInv /\ [Next]_vars => ArchiveInv'
<1> SUFFICES ASSUME TypeOK, ArchiveInv, [Next]_vars PROVE ArchiveInv'
  OBVIOUS
<1> USE DEF ArchiveInv, TypeOK, Points, Terminal, Statuses, files
<1>1. CASE Body
  <2>1. CASE Begin
    BY <2>1 DEF Begin
  <2>2. CASE EmitRunStarted \/ EnterStage \/ CompleteRun \/ EmitRunFailed
    BY <2>2 DEF EmitRunStarted, EnterStage, CompleteRun, EmitRunFailed, Emit, Fail
  <2>3. CASE SelectTransition
    BY <2>3 DEF SelectTransition, Emit, Fail
  <2> QED
    BY <1>1, <2>1, <2>2, <2>3 DEF Body
<1>2. CASE Executor
  BY <1>2 DEF Executor, ExecutorReturns, ExecutorRaises, ExecutorCancelled,
              Emit, Fail, Interrupt
<1>3. CASE Sink
  BY <1>3 DEF Sink, SinkReturns, SinkRaises, SinkCancelled, Fail, Interrupt
<1>4. CASE Finalize
  BY <1>4 DEF Finalize, FinishNoOp, FinishBlocked, FinishUnwritten,
              WriteArchive, RemoveMarker, FinishFails, Removed
<1>5. CASE Crash \/ Done \/ UNCHANGED vars
  BY <1>5 DEF Crash, Done, vars
<1> QED
  BY <1>1, <1>2, <1>3, <1>4, <1>5 DEF Next, Step

LEMMA NextStatus == TypeOK /\ StatusInv /\ [Next]_vars => StatusInv'
<1> SUFFICES ASSUME TypeOK, StatusInv, [Next]_vars PROVE StatusInv'
  OBVIOUS
<1> USE DEF StatusInv, TypeOK, Points, Terminal, Statuses, Errors, trace
<1>1. CASE Begin
  BY <1>1, LedgerKept DEF Begin
<1>2. CASE EmitRunStarted \/ CompleteRun
  BY <1>2, EmitLedger DEF EmitRunStarted, CompleteRun, Emit, Kinds
<1>3. CASE EnterStage
  BY <1>3, EmitLedger, LedgerKept DEF EnterStage, Emit, Fail, Kinds
<1>4. CASE EmitRunFailed
  BY <1>4 DEF EmitRunFailed, Emit
<1>5. CASE SelectTransition
  BY <1>5, EmitLedger, LedgerKept DEF SelectTransition, Emit, Fail, Kinds
<1>6. CASE Executor
  <2>1. ASSUME NEW raw \in Values, ExecutorReturns(raw)
        PROVE  StatusInv'
    BY <2>1, EmitLedger, LedgerKept DEF ExecutorReturns, Emit, Fail, Kinds
  <2>2. CASE ExecutorRaises \/ ExecutorCancelled
    BY <2>2, LedgerKept DEF ExecutorRaises, ExecutorCancelled, Fail, Interrupt
  <2> QED
    BY <1>6, <2>1, <2>2 DEF Executor
<1>7. CASE Sink
  BY <1>7, LedgerKept
     DEF Sink, SinkReturns, SinkRaises, SinkCancelled, Fail, Interrupt
<1>8. CASE Finalize
  BY <1>8, LedgerKept
     DEF Finalize, FinishNoOp, FinishBlocked, FinishUnwritten,
         WriteArchive, RemoveMarker, FinishFails
<1>9. CASE Crash \/ Done \/ UNCHANGED vars
  BY <1>9, LedgerKept DEF Crash, Done, vars
<1> QED
  BY <1>1, <1>2, <1>3, <1>4, <1>5, <1>6, <1>7, <1>8, <1>9
     DEF Next, Step, Body

LEMMA NextStory == TypeOK /\ ArchiveInv /\ StatusInv /\ StoryInv /\ [Next]_vars => StoryInv'
<1> SUFFICES ASSUME TypeOK, ArchiveInv, StatusInv, StoryInv, [Next]_vars
             PROVE  StoryInv'
  OBVIOUS
<1> USE DEF StoryInv
<1>1. CASE WriteArchive
  BY <1>1 DEF WriteArchive, StatusInv
<1>2. CASE RemoveMarker
  BY <1>2 DEF RemoveMarker, ArchiveInv
<1>3. CASE Crash \/ Done \/ UNCHANGED vars
  BY <1>3 DEF Crash, Done, vars, files
<1>4. CASE archive' = "none"
  BY <1>4
<1>5. CASE pc \notin {"unmark"} \union Terminal /\ UNCHANGED archive
  BY <1>5, <1>4 DEF ArchiveInv
<1>6. CASE Step
  BY <1>1, <1>2, <1>5, <1>6
     DEF Step, Body, Executor, Sink, Finalize, Begin, EmitRunStarted, EnterStage,
         CompleteRun, SelectTransition, EmitRunFailed, ExecutorReturns, ExecutorRaises,
         ExecutorCancelled, SinkReturns, SinkRaises, SinkCancelled, FinishNoOp,
         FinishBlocked, FinishUnwritten, Terminal, files
<1> QED
  BY <1>3, <1>6 DEF Next

LEMMA NextVisit == TypeOK /\ VisitInv /\ [Next]_vars => VisitInv'
<1> SUFFICES ASSUME TypeOK, VisitInv, [Next]_vars PROVE VisitInv'
  OBVIOUS
<1> USE ManifestAssumption DEF VisitInv, TypeOK, data, ManifestAssumption
<1>1. CASE EnterStage
  <2>1. CASE UNCHANGED path /\ pc' = "failing"
    BY <1>1, <2>1 DEF EnterStage, ReadsAvailable
  <2>2. CASE /\ steps < MaxSteps /\ ReadsAvailable(current)
             /\ path' = Append(path, current)
             /\ Emit("stage_started")
    <3>1. Len(path') = Len(path) + 1
      BY <2>2
    <3>2. ReadsAvailable(current)'
      BY <1>1, <2>2 DEF EnterStage, ReadsAvailable
    <3> QED
      BY <1>1, <2>2, <3>1, <3>2 DEF EnterStage, Emit
  <2> QED
    BY <1>1, <2>1, <2>2 DEF EnterStage, Fail
<1>2. ASSUME NEW raw \in Values, ExecutorReturns(raw)
      PROVE  VisitInv'
  <2>1. pc = "executing" /\ UNCHANGED path
    BY <1>2 DEF ExecutorReturns
  <2>2. CASE steps' = steps + 1 /\ Emit("stage_completed")
    BY <2>1, <2>2 DEF Emit
  <2>3. CASE UNCHANGED steps /\ Fail("run")
    BY <2>1, <2>3 DEF Fail
  <2> QED
    BY <1>2, <2>2, <2>3 DEF ExecutorReturns
<1>3. CASE SelectTransition
  BY <1>3 DEF SelectTransition, Emit, Fail
<1>4. CASE Begin \/ EmitRunStarted \/ CompleteRun \/ EmitRunFailed
  BY <1>4 DEF Begin, EmitRunStarted, CompleteRun, EmitRunFailed, Emit
<1>5. CASE ExecutorRaises \/ ExecutorCancelled
  BY <1>5 DEF ExecutorRaises, ExecutorCancelled, Fail, Interrupt
<1>6. CASE Sink
  BY <1>6 DEF Sink, SinkReturns, SinkRaises, SinkCancelled, Fail, Interrupt,
              ReadsAvailable
<1>7. CASE Finalize
  BY <1>7 DEF Finalize, FinishNoOp, FinishBlocked, FinishUnwritten,
              WriteArchive, RemoveMarker, FinishFails
<1>8. CASE Crash \/ Done \/ UNCHANGED vars
  BY <1>8 DEF Crash, Done, vars, Terminal, ReadsAvailable
<1> QED
  BY <1>1, <1>2, <1>3, <1>4, <1>5, <1>6, <1>7, <1>8
     DEF Next, Step, Body, Executor

LEMMA NextPath == TypeOK /\ PathInv /\ [Next]_vars => PathInv'
<1> SUFFICES ASSUME TypeOK, PathInv, [Next]_vars PROVE PathInv'
  OBVIOUS
<1> USE DEF PathInv, TypeOK, data
<1>1. CASE EnterStage
  <2>1. CASE UNCHANGED path /\ pc' = "failing"
    BY <1>1, <2>1 DEF EnterStage, PathFollowsGraph
  <2>2. CASE path' = Append(path, current) /\ Emit("stage_started")
    <3>1. pc = "loop" /\ current' = current
      BY <1>1 DEF EnterStage
    <3>2. /\ path' \in Seq(Stages) /\ Len(path') = Len(path) + 1
          /\ path'[Len(path')] = current /\ path' # <<>>
      <4>1. path' \in Seq(Stages) /\ Len(path') = Len(path) + 1
        BY <2>2
      <4>2. path'[Len(path')] = current
        BY <2>2, <4>1
      <4> QED
        BY <4>1, <4>2
    <3>3. \A n \in 1 .. Len(path) : path'[n] = path[n]
      BY <2>2
    <3>4. path'[1] = Entry
      <4>1. CASE path = <<>>
        BY <4>1, <3>2
      <4>2. CASE path # <<>>
        BY <4>2, <3>3 DEF PathFollowsGraph
      <4> QED
        BY <4>1, <4>2
    <3>5. ASSUME NEW n \in 1 .. Len(path') - 1
          PROVE  path'[n] \notin Exits /\ Edge(path'[n], path'[n + 1])
      <4>1. CASE n = Len(path)
        <5>1. path # <<>> /\ n \in 1 .. Len(path)
          BY <4>1
        <5>2. path'[n] = path[Len(path)] /\ path'[n + 1] = current
          BY <4>1, <5>1, <3>2, <3>3
        <5>3. path[Len(path)] \notin Exits /\ Edge(path[Len(path)], current)
          BY <5>1, <3>1
        <5> QED
          BY <5>2, <5>3 DEF Edge
      <4>2. CASE n # Len(path)
        <5>1. n \in 1 .. Len(path) - 1 /\ n + 1 \in 1 .. Len(path)
          BY <4>2, <3>2
        <5>2. path'[n] = path[n] /\ path'[n + 1] = path[n + 1]
          BY <5>1, <3>3
        <5>3. path[n] \notin Exits /\ Edge(path[n], path[n + 1])
          BY <5>1 DEF PathFollowsGraph, Edge
        <5> QED
          BY <5>2, <5>3 DEF Edge
      <4> QED
        BY <4>1, <4>2
    <3> QED
      BY <2>2, <3>1, <3>2, <3>4, <3>5 DEF Emit, PathFollowsGraph, Edge
  <2> QED
    BY <1>1, <2>1, <2>2 DEF EnterStage, Fail
<1>2. ASSUME NEW raw \in Values, ExecutorReturns(raw)
      PROVE  PathInv'
  <2>1. pc = "executing" /\ UNCHANGED <<path, current>>
    BY <1>2 DEF ExecutorReturns
  <2>2. CASE Emit("stage_completed")
    BY <2>1, <2>2 DEF Emit, PathFollowsGraph
  <2>3. CASE Fail("run")
    BY <2>1, <2>3 DEF Fail, PathFollowsGraph
  <2> QED
    BY <1>2, <2>2, <2>3 DEF ExecutorReturns
<1>3. CASE SelectTransition
  <2>1. pc = "after" /\ current \notin Exits /\ UNCHANGED path
    BY <1>3 DEF SelectTransition
  <2>2. CASE Edge(current, current') /\ Emit("transition_selected")
    BY <2>1, <2>2 DEF Emit, PathFollowsGraph
  <2>3. CASE UNCHANGED current /\ Fail("run")
    BY <2>1, <2>3 DEF Fail, PathFollowsGraph
  <2>4. \A v \in Verdicts(current) : DOMAIN v = DOMAIN Transitions[current]
    BY DEF Verdicts
  <2> QED
    BY <1>3, <2>2, <2>3, <2>4 DEF SelectTransition, MoveTo, Edge
<1>4. CASE Begin \/ EmitRunStarted \/ CompleteRun \/ EmitRunFailed
  BY <1>4 DEF Begin, EmitRunStarted, CompleteRun, EmitRunFailed, Emit, PathFollowsGraph
<1>5. CASE ExecutorRaises \/ ExecutorCancelled
  BY <1>5 DEF ExecutorRaises, ExecutorCancelled, Fail, Interrupt, PathFollowsGraph
<1>6. CASE Sink
  BY <1>6 DEF Sink, SinkReturns, SinkRaises, SinkCancelled, Fail, Interrupt, PathFollowsGraph
<1>7. CASE Finalize
  BY <1>7 DEF Finalize, FinishNoOp, FinishBlocked, FinishUnwritten,
              WriteArchive, RemoveMarker, FinishFails, PathFollowsGraph
<1>8. CASE Crash \/ Done \/ UNCHANGED vars
  BY <1>8 DEF Crash, Done, vars, Terminal, PathFollowsGraph
<1> QED
  BY <1>1, <1>2, <1>3, <1>4, <1>5, <1>6, <1>7, <1>8
     DEF Next, Step, Body, Executor

(* IInv holds in every reachable state.                                      *)
THEOREM Invariant == Spec => []IInv
<1>1. IInv /\ [Next]_vars => IInv'
  BY NextType, NextArchive, NextStatus, NextStory, NextVisit, NextPath DEF IInv
<1> QED
  BY <1>1, InitIInv, PTL DEF Spec

-----------------------------------------------------------------------------
(* The properties MCWorkflowRun checks.                                      *)

(* No archive contradicts the ledger inside it.                              *)
THEOREM StatusTheorem == Spec => []StatusMatchesLedger
<1>1. IInv => StatusMatchesLedger
  BY DEF IInv, TypeOK, Statuses, ArchiveInv, StatusInv, StoryInv, StatusMatchesLedger
<1> QED
  BY <1>1, Invariant, PTL

(* The archive and the exception the caller gets tell the same story.        *)
THEOREM ExceptionTheorem == Spec => []ArchiveMatchesException
<1>1. IInv => ArchiveMatchesException
  BY DEF IInv, TypeOK, Statuses, ArchiveInv, StoryInv, ArchiveMatchesException
<1> QED
  BY <1>1, Invariant, PTL

(* A run, crashed or not, leaves its marker or its archive.                  *)
THEOREM EvidenceTheorem == Spec => []EvidenceLeft
<1>1. IInv => EvidenceLeft
  BY DEF IInv, ArchiveInv, EvidenceLeft
<1> QED
  BY <1>1, Invariant, PTL

(* max_steps bounds the visits of every workflow, cyclic or not.             *)
THEOREM BoundTheorem == Spec => []VisitsBounded
<1>1. IInv => VisitsBounded
  BY DEF IInv, VisitInv, VisitsBounded
<1> QED
  BY <1>1, Invariant, PTL

(* A run visits the stages along the transitions of the manifest.            *)
THEOREM PathTheorem == Spec => []PathFollowsGraph
<1>1. IInv => PathFollowsGraph
  BY DEF IInv, PathInv
<1> QED
  BY <1>1, Invariant, PTL

(* The caller's cancellation is never replaced by another exception.         *)
THEOREM CancellationTheorem == Spec => CancellationNeverMasked
<1>1. IInv /\ [Next]_vars => [error = "cancelled" => error' = "cancelled"]_vars
  <2> SUFFICES ASSUME IInv, [Next]_vars, error = "cancelled"
               PROVE  error' = "cancelled"
    OBVIOUS
  <2>1. pc \in {"finish", "unmark"} \union Terminal
    BY DEF IInv, TypeOK, Points, StatusInv
  <2>2. CASE Finalize
    BY <2>2 DEF Finalize, FinishNoOp, FinishBlocked, FinishUnwritten, WriteArchive,
                RemoveMarker, FinishFails, IInv, StatusInv
  <2>3. CASE Crash \/ Done \/ UNCHANGED vars
    BY <2>3 DEF Crash, Done, vars
  <2> QED
    BY <2>1, <2>2, <2>3
       DEF Next, Step, Body, Executor, Sink, Begin, EmitRunStarted, EnterStage,
           CompleteRun, SelectTransition, EmitRunFailed, ExecutorReturns, ExecutorRaises,
           ExecutorCancelled, SinkReturns, SinkRaises, SinkCancelled, Terminal
<1> QED
  BY <1>1, Invariant, PTL DEF Spec, CancellationNeverMasked

(* Nothing is recorded once the archive is in place.                         *)
THEOREM FrozenTheorem == Spec => ArchiveFrozen
<1>1. IInv /\ [Next]_vars => [archive # "none" => UNCHANGED <<archive, ledger, seq>>]_vars
  <2> SUFFICES ASSUME IInv, [Next]_vars, archive # "none"
               PROVE  UNCHANGED <<archive, ledger, seq>>
    OBVIOUS
  <2>1. pc \in {"unmark"} \union Terminal
    BY DEF IInv, ArchiveInv
  <2>2. CASE RemoveMarker \/ Crash \/ Done \/ UNCHANGED vars
    BY <2>2 DEF RemoveMarker, Crash, Done, vars, trace, files
  <2> QED
    BY <2>1, <2>2
       DEF Next, Step, Body, Executor, Sink, Finalize, Begin, EmitRunStarted, EnterStage,
           CompleteRun, SelectTransition, EmitRunFailed, ExecutorReturns, ExecutorRaises,
           ExecutorCancelled, SinkReturns, SinkRaises, SinkCancelled, FinishNoOp,
           FinishBlocked, FinishUnwritten, WriteArchive, Terminal
<1> QED
  BY <1>1, Invariant, PTL DEF Spec, ArchiveFrozen

(* run() implements RunLifecycle: a result only over a complete archive, an  *)
(* exception never over one, one archive at most.                            *)
THEOREM Refinement == Spec => KeepsLifecycle
<1>1. Init => Lifecycle!Init
  BY DEF Init, Lifecycle!Init, Terminal
<1>2. IInv /\ [Next]_vars => [Lifecycle!Next]_(Lifecycle!lifecycleVars)
  <2> SUFFICES ASSUME IInv, [Next]_vars
               PROVE  [Lifecycle!Next]_(Lifecycle!lifecycleVars)
    OBVIOUS
  <2> USE DEF Terminal
  <2>1. CASE WriteArchive
    <3>1. Lifecycle!Seal(status)
      BY <2>1 DEF WriteArchive, Lifecycle!Seal, IInv, ArchiveInv
    <3> QED
      BY <3>1 DEF Lifecycle!Next, IInv, TypeOK
  <2>2. CASE RemoveMarker
    <3>1. archive = status /\ recorder' = recorder /\ pc = "unmark"
      BY <2>2 DEF RemoveMarker, IInv, ArchiveInv
    <3>2. CASE status = "complete"
      BY <2>2, <3>1, <3>2 DEF RemoveMarker, Lifecycle!Next, Lifecycle!Return
    <3>3. CASE status # "complete"
      BY <2>2, <3>1, <3>3 DEF RemoveMarker, Lifecycle!Next, Lifecycle!Raise
    <3> QED
      BY <3>2, <3>3
  <2>3. CASE FinishNoOp
    <3>1. archive = "none"
      BY <2>3 DEF FinishNoOp, IInv, ArchiveInv
    <3> QED
      BY <2>3, <3>1
         DEF FinishNoOp, files, Lifecycle!Next, Lifecycle!Return, Lifecycle!Raise
  <2>4. CASE FinishBlocked \/ FinishUnwritten
    <3>1. archive = "none"
      BY <2>4 DEF FinishBlocked, FinishUnwritten, IInv, ArchiveInv
    <3> QED
      BY <2>4, <3>1
         DEF FinishBlocked, FinishUnwritten, FinishFails, Lifecycle!Next, Lifecycle!Raise
  <2>5. CASE Crash
    BY <2>5 DEF Crash, files, Lifecycle!Next, Lifecycle!Crash
  <2>6. CASE Begin
    <3>1. archive = "none"
      BY <2>6 DEF Begin, IInv, ArchiveInv
    <3> QED
      BY <2>6, <3>1
         DEF Begin, Lifecycle!Next, Lifecycle!Raise, Lifecycle!lifecycleVars
  <2>7. CASE Sink
    <3>1. archive = "none"
      BY <2>7 DEF Sink, SinkReturns, SinkRaises, SinkCancelled, IInv, ArchiveInv
    <3> QED
      BY <2>7, <3>1
         DEF Sink, SinkReturns, SinkRaises, SinkCancelled, Fail, Interrupt, files,
             Lifecycle!Next, Lifecycle!Raise, Lifecycle!lifecycleVars
  <2>8. CASE /\ UNCHANGED files
             /\ pc \notin Terminal /\ pc' \notin Terminal
    BY <2>8 DEF files, Lifecycle!lifecycleVars
  <2>9. CASE Executor
    <3>1. UNCHANGED files /\ pc \notin Terminal /\ pc' \notin Terminal
      BY <2>9 DEF Executor, ExecutorReturns, ExecutorRaises, ExecutorCancelled,
                  Emit, Fail, Interrupt, files
    <3> QED
      BY <2>8, <3>1
  <2>10. CASE EmitRunStarted \/ EnterStage \/ CompleteRun \/ SelectTransition \/ EmitRunFailed
    <3>1. UNCHANGED files /\ pc \notin Terminal /\ pc' \notin Terminal
      BY <2>10 DEF EmitRunStarted, EnterStage, CompleteRun, SelectTransition,
                   EmitRunFailed, Emit, Fail, files
    <3> QED
      BY <2>8, <3>1
  <2>11. CASE Done \/ UNCHANGED vars
    BY <2>11 DEF Done, vars, Lifecycle!lifecycleVars
  <2> QED
    BY <2>1, <2>2, <2>3, <2>4, <2>5, <2>6, <2>7, <2>9, <2>10, <2>11
       DEF Next, Step, Body, Finalize
<1> QED
  BY <1>1, <1>2, Invariant, PTL DEF Spec, KeepsLifecycle, Lifecycle!Spec

(* Archive, ledger and exception tell one story.                             *)
THEOREM StoryTheorem == Spec => []ArchiveTellsTheRun
  BY StatusTheorem, ExceptionTheorem, EvidenceTheorem, PTL DEF ArchiveTellsTheRun

(* A run is a bounded path of the manifest's graph.                          *)
THEOREM ManifestTheorem == Spec => []RunFollowsManifest
  BY TypeCorrect, PathTheorem, BoundTheorem, PTL DEF RunFollowsManifest

(* Neither an archive in place nor a cancellation is taken back.             *)
THEOREM SettledTheorem == Spec => NothingTakenBack
  BY FrozenTheorem, CancellationTheorem DEF NothingTakenBack
=============================================================================
