----------------------------- MODULE WorkflowRun ----------------------------
(***************************************************************************)
(* One call of WorkflowRuntime.run: the stage loop, the event emitter with *)
(* its trace observer and live sink, and the recorder's life from          *)
(* begin_run to finish_run.                                                *)
(*                                                                         *)
(* The coroutine is cut at its awaits, the only points where the caller's  *)
(* code runs and where a cancellation can arrive: "sink" (awaiting the     *)
(* live sink inside emit) and "executing" (awaiting the stage executor).   *)
(* The other control points let a crash fall between two synchronous       *)
(* steps.                                                                  *)
(***************************************************************************)
EXTENDS Naturals, Sequences

CONSTANTS
  Stages,       \* the stage ids of the manifest
  Entry,        \* manifest.entry_stage_id
  Exits,        \* manifest.exit_stage_ids
  Transitions,  \* per stage, its transitions in manifest order
  Requires,     \* per stage, the stages whose output it has a required read of
  Writes,       \* per stage, what it declares to write: see Valid
  MaxSteps,     \* RunOptions.max_steps
  EventLimit    \* LIMIT_EVENT_COUNT, the records the public ledger may hold

\* A stage's output is abstracted to one field: None, an empty array or a value.
Values == {"none", "empty", "some"}
Guards == {"always", "has_value", "missing", "if"}
Transition == [to : Stages, priority : Nat, guard : Guards, node : Stages]

\* What WorkflowRuntime.__init__ has checked before any run.
ASSUME ManifestAssumption ==
  /\ Entry \in Stages
  /\ Exits \subseteq Stages
  /\ Transitions \in [Stages -> Seq(Transition)]
  /\ Requires \in [Stages -> SUBSET Stages]
  /\ Writes \in [Stages -> {"nothing", "required", "optional_array"}]
  /\ MaxSteps \in Nat
  /\ EventLimit \in Nat

VARIABLES
  pc,           \* where the coroutine is
  sending,      \* the kind of the event whose sink is awaited
  current,      \* current_id
  steps,        \* completed stage visits
  outputs,      \* stage_outputs, "none" for a stage that has not completed
  path,         \* the stages visited so far: visit s-n is path[n]
  seq,          \* WorkflowEventEmitter._seq
  ledger,       \* TraceRecorder._events: the kind and sequence of each record
  limitHit,     \* TraceRecorder._event_limit_exceeded
  recorder,     \* the recorder's own state: see Recorders
  marker,       \* the .partial file: "never" written, "present" or "removed"
  archive,      \* the .nemotrace file: "none" or the status it was sealed with
  status,       \* the status finish_run is being called with
  error         \* the exception in flight or raised, "none" if there is none

control == <<pc, sending, status, error>>
data    == <<current, steps, outputs, path>>
trace   == <<seq, ledger, limitHit>>
files   == <<recorder, marker, archive>>
vars    == <<pc, sending, current, steps, outputs, path, seq, ledger, limitHit,
             recorder, marker, archive, status, error>>

Kinds == {"run_started", "stage_started", "stage_completed",
          "transition_selected", "run_completed", "run_failed"}
Statuses == {"complete", "failed", "interrupted"}
Terminal == {"returned", "raised", "crashed"}
Points == {"idle", "starting", "sink", "loop", "executing", "after", "failing", "finish",
           "unmark"} \union Terminal
\* "noop" is NoOpTraceRecorder; "blocked" is a recorder whose finish_run refused
\* to write (event limit or scanner).
Recorders == {"noop", "fresh", "begun", "finished", "blocked"}
Errors == {"none", "run", "sink", "cancelled", "trace"}

-----------------------------------------------------------------------------
(* Transition guards and the order they are tried in.                      *)

\* Index i of stage s's transitions is tried before index j: sorted() on the
\* priority is stable, so a tie keeps manifest order.
TriedBefore(s, i, j) ==
  LET p == Transitions[s][i].priority
      q == Transitions[s][j].priority
  IN p < q \/ (p = q /\ i <= j)

\* The possible results of a guard, given the stage outputs. An "if" (or "eq")
\* guard computes over data that is abstracted away: any result, or an exception.
GuardResults(t) ==
  CASE t.guard = "always"    -> {"yes"}
    [] t.guard = "has_value" -> {IF outputs[t.node] # "none" THEN "yes" ELSE "no"}
    [] t.guard = "missing"   -> {IF outputs[t.node] = "none" THEN "yes" ELSE "no"}
    [] t.guard = "if"        -> {"yes", "no", "raises"}

Verdicts(s) ==
  {v \in [DOMAIN Transitions[s] -> {"yes", "no", "raises"}] :
     \A i \in DOMAIN v : v[i] \in GuardResults(Transitions[s][i])}

\* The transition the loop stops at: the first one tried that is not a "no".
StopsAt(s, v, i) ==
  /\ v[i] # "no"
  /\ \A j \in DOMAIN v : v[j] # "no" => TriedBefore(s, i, j)

-----------------------------------------------------------------------------
(* Stage outputs.                                                          *)

Valid(s, raw) ==
  CASE Writes[s] = "nothing"        -> raw = "none"
    [] Writes[s] = "required"       -> raw # "none"
    [] Writes[s] = "optional_array" -> TRUE

\* An empty list for an optional array output is stored as None.
Normalize(s, raw) ==
  IF Writes[s] = "optional_array" /\ raw = "empty" THEN "none" ELSE raw

ReadsAvailable(s) == \A node \in Requires[s] : outputs[node] # "none"
-----------------------------------------------------------------------------
(* Emitting an event: WorkflowEventEmitter.emit.                           *)

\* TraceRecorder.observe_workflow_event. The scanner may omit any record; once
\* the ledger is full every later event is dropped. Whatever the observer
\* raises is swallowed by emit, so it is an omission too.
Observe(kind) ==
  \/ /\ recorder = "noop"
     /\ UNCHANGED <<ledger, limitHit>>
  \/ /\ recorder # "noop"
     /\ ~limitHit /\ Len(ledger) < EventLimit
     /\ ledger' \in {ledger, Append(ledger, <<kind, seq + 1>>)}
     /\ UNCHANGED limitHit
  \/ /\ recorder # "noop"
     /\ limitHit \/ Len(ledger) >= EventLimit
     /\ limitHit' = TRUE
     /\ UNCHANGED ledger

\* Number the event, let the observer see it, then await the sink.
Emit(kind) ==
  /\ seq' = seq + 1
  /\ Observe(kind)
  /\ sending' = kind
  /\ pc' = "sink"

\* An Exception leaves the body of the try: the handler runs next.
Fail(e) ==
  /\ pc' = "failing"
  /\ error' = e

\* A BaseException (cancellation) leaves the body of the try.
Interrupt ==
  /\ pc' = "finish"
  /\ status' = "interrupted"
  /\ error' = "cancelled"

-----------------------------------------------------------------------------
(* The steps of run().                                                     *)

Init ==
  /\ pc = "idle"
  /\ sending = "run_started"
  /\ current = Entry
  /\ steps = 0
  /\ outputs = [s \in Stages |-> "none"]
  /\ path = <<>>
  /\ seq = 0
  /\ ledger = <<>>
  /\ limitHit = FALSE
  /\ recorder \in {"noop", "fresh", "finished"}  \* "finished": used by an earlier run
  /\ marker = "never"
  /\ archive = "none"
  /\ status = "failed"
  /\ error = "none"

\* rec.begin_run: a used recorder refuses a second run; writing the .partial
\* marker is best effort.
Begin ==
  /\ pc = "idle"
  /\ \/ /\ recorder = "noop"
        /\ pc' = "starting"
        /\ UNCHANGED <<recorder, marker, error>>
     \/ /\ recorder = "fresh"
        /\ pc' = "starting"
        /\ recorder' = "begun"
        /\ marker' \in {"never", "present"}
        /\ UNCHANGED error
     \/ /\ recorder = "finished"
        /\ pc' = "raised"
        /\ error' = "trace"
        /\ UNCHANGED <<recorder, marker>>
  /\ UNCHANGED <<sending, status, data, trace, archive>>

EmitRunStarted ==
  /\ pc = "starting"
  /\ Emit("run_started")
  /\ UNCHANGED <<status, error, data, files>>

\* The head of the loop: the step budget, the stage's required reads, then the
\* visit id and stage_started.
EnterStage ==
  /\ pc = "loop"
  /\ \/ /\ steps >= MaxSteps \/ ~ReadsAvailable(current)
        /\ Fail("run")
        /\ UNCHANGED <<sending, path, trace>>
     \/ /\ ~(steps >= MaxSteps) /\ ReadsAvailable(current)
        /\ path' = Append(path, current)
        /\ Emit("stage_started")
        /\ UNCHANGED error
  /\ UNCHANGED <<status, current, steps, outputs, files>>

\* The executor returns: the output is validated, normalised and stored.
ExecutorReturns(raw) ==
  /\ pc = "executing"
  /\ \/ /\ Valid(current, raw)
        /\ outputs' = [outputs EXCEPT ![current] = Normalize(current, raw)]
        /\ steps' = steps + 1
        /\ Emit("stage_completed")
        /\ UNCHANGED error
     \/ /\ ~Valid(current, raw)
        /\ Fail("run")
        /\ UNCHANGED <<sending, outputs, steps, trace>>
  /\ UNCHANGED <<status, current, path, files>>

ExecutorRaises ==
  /\ pc = "executing"
  /\ Fail("run")
  /\ UNCHANGED <<sending, status, data, trace, files>>

ExecutorCancelled ==
  /\ pc = "executing"
  /\ Interrupt
  /\ UNCHANGED <<sending, data, trace, files>>

\* An exit stage has completed.
CompleteRun ==
  /\ pc = "after" /\ current \in Exits
  /\ Emit("run_completed")
  /\ UNCHANGED <<status, error, data, files>>

MoveTo(s) == current' = s

\* _select_transition, then transition_selected. current_id moves with it: no
\* step reads it between the event and the loop head.
SelectTransition ==
  /\ pc = "after" /\ current \notin Exits
  /\ \E v \in Verdicts(current) :
       \/ \E i \in DOMAIN v :
            /\ StopsAt(current, v, i)
            /\ \/ /\ v[i] = "yes"
                  /\ MoveTo(Transitions[current][i].to)
                  /\ Emit("transition_selected")
                  /\ UNCHANGED error
               \/ /\ v[i] = "raises"
                  /\ Fail("run")
                  /\ UNCHANGED <<sending, current, trace>>
       \/ /\ \A i \in DOMAIN v : v[i] = "no"
          /\ Fail("run")                         \* NoTransitionMatchedError
          /\ UNCHANGED <<sending, current, trace>>
  /\ UNCHANGED <<status, steps, outputs, path, files>>

\* Faulty variant of SinkReturns: the loop goes on after run_completed.
SinkReturns_NoReturn ==
  /\ pc = "sink"
  /\ \/ sending = "stage_started"   /\ pc' = "executing" /\ UNCHANGED status
     \/ sending = "stage_completed" /\ pc' = "after"     /\ UNCHANGED status
     \/ sending = "run_failed"      /\ pc' = "finish"    /\ status' = "failed"
     \/ /\ sending \in {"run_started", "transition_selected", "run_completed"}
        /\ pc' = "loop" /\ UNCHANGED status
  /\ UNCHANGED <<sending, error, data, trace, files>>

\* The sink returns and the coroutine goes on after the emit.
SinkReturns ==
  /\ pc = "sink"
  /\ \/ /\ sending \in {"run_started", "transition_selected"}
        /\ pc' = "loop" /\ UNCHANGED status
     \/ sending = "stage_started"   /\ pc' = "executing" /\ UNCHANGED status
     \/ sending = "stage_completed" /\ pc' = "after"     /\ UNCHANGED status
     \/ sending = "run_completed"   /\ pc' = "finish"    /\ status' = "complete"
     \/ sending = "run_failed"      /\ pc' = "finish"    /\ status' = "failed"
  /\ UNCHANGED <<sending, error, data, trace, files>>

\* The sink raises. run_started is emitted before the try and run_failed inside
\* the handler: those two exceptions leave run() with nothing finalised.
SinkRaises ==
  /\ pc = "sink"
  /\ \/ /\ sending \in {"run_started", "run_failed"}
        /\ pc' = "raised"
        /\ error' = "sink"
     \/ /\ sending \notin {"run_started", "run_failed"}
        /\ Fail("sink")
  /\ UNCHANGED <<sending, status, data, trace, files>>

\* Faulty variant of SinkCancelled: the handler's own await is covered too.
SinkCancelled_AlwaysFinalises ==
  /\ pc = "sink"
  /\ Interrupt
  /\ UNCHANGED <<sending, data, trace, files>>

SinkCancelled ==
  /\ pc = "sink"
  /\ \/ /\ sending \in {"run_started", "run_failed"}
        /\ pc' = "raised"
        /\ error' = "cancelled"
        /\ UNCHANGED status
     \/ /\ sending \notin {"run_started", "run_failed"}
        /\ Interrupt
  /\ UNCHANGED <<sending, data, trace, files>>

\* except Exception: record_run_error, then run_failed.
EmitRunFailed ==
  /\ pc = "failing"
  /\ Emit("run_failed")
  /\ UNCHANGED <<status, error, data, files>>

-----------------------------------------------------------------------------
(* Finalisation: TraceRecorder.finish_run.                                 *)

Removed == IF marker = "present" THEN "removed" ELSE marker

\* Faulty variants of FinishFails: a cancellation is masked; a failed
\* finalisation is attempted again; a failed finalisation is silent.
FinishFails_Masks ==
  /\ pc' = "raised"
  /\ error' = "trace"
FinishFails_Retries ==
  /\ pc' = "finish"
  /\ UNCHANGED error
FinishFails_Silent ==
  /\ pc' = IF status = "complete" THEN "returned" ELSE "raised"
  /\ UNCHANGED error

\* finish_run raises: loud over "complete" and "failed", suppressed over a
\* cancellation, which is what the caller then gets.
FinishFails ==
  /\ pc' = "raised"
  /\ error' = IF status = "interrupted" THEN error ELSE "trace"

\* NoOpTraceRecorder.finish_run.
FinishNoOp ==
  /\ pc = "finish" /\ recorder = "noop"
  /\ pc' = IF status = "complete" THEN "returned" ELSE "raised"
  /\ UNCHANGED <<sending, status, error, data, trace, files>>

\* The event limit or the cleartext scanner refuses: nothing is left on disk.
FinishBlocked ==
  /\ pc = "finish" /\ recorder = "begun"
  /\ recorder' = "blocked"
  /\ marker' \in {Removed, marker}        \* unlink errors are suppressed
  /\ FinishFails
  /\ UNCHANGED <<sending, status, data, trace, archive>>

\* Building or writing the entries raises: the temporary file is unlinked.
FinishUnwritten ==
  /\ pc = "finish" /\ recorder = "begun" /\ ~limitHit
  /\ recorder' = "finished"
  /\ FinishFails
  /\ UNCHANGED <<sending, status, data, trace, marker, archive>>

\* The archive is renamed into place.
WriteArchive ==
  /\ pc = "finish" /\ recorder = "begun" /\ ~limitHit
  /\ recorder' = "finished"
  /\ archive' = status
  /\ pc' = "unmark"
  /\ UNCHANGED <<sending, status, error, data, trace, marker>>

\* The marker goes last, then run() returns its result or re-raises.
RemoveMarker ==
  /\ pc = "unmark"
  /\ marker' \in {Removed, marker}
  /\ pc' = IF status = "complete" THEN "returned" ELSE "raised"
  /\ UNCHANGED <<sending, status, error, data, trace, recorder, archive>>

-----------------------------------------------------------------------------

\* The process is killed between two steps.
Crash ==
  /\ pc \notin Terminal
  /\ pc' = "crashed"
  /\ UNCHANGED <<sending, status, error, data, trace, files>>

Done == pc \in Terminal /\ UNCHANGED vars

Finalize == FinishNoOp \/ FinishBlocked \/ FinishUnwritten \/ WriteArchive \/ RemoveMarker

Executor ==
  \/ \E raw \in Values : ExecutorReturns(raw)
  \/ ExecutorRaises
  \/ ExecutorCancelled

Sink == SinkReturns \/ SinkRaises \/ SinkCancelled

Body == Begin \/ EmitRunStarted \/ EnterStage \/ CompleteRun \/ SelectTransition \/ EmitRunFailed

Step == Body \/ Executor \/ Sink \/ Finalize

Next == Step \/ Crash \/ Done

Spec == Init /\ [][Next]_vars

\* The event loop keeps running the coroutine, and the sink and the executor
\* return, raise or are cancelled in the end.
FairSpec == Spec /\ WF_vars(Step)

-----------------------------------------------------------------------------
(* Properties.                                                             *)

(* Every variable has its type.                                            *)
TypeOK ==
  /\ pc \in Points
  /\ sending \in Kinds
  /\ current \in Stages
  /\ steps \in Nat
  /\ outputs \in [Stages -> Values]
  /\ path \in Seq(Stages)
  /\ seq \in Nat
  /\ ledger \in Seq(Kinds \X Nat)
  /\ limitHit \in BOOLEAN
  /\ recorder \in Recorders
  /\ marker \in {"never", "present", "removed"}
  /\ archive \in {"none"} \union Statuses
  /\ status \in Statuses
  /\ error \in Errors

InLedger(kind) == \E i \in DOMAIN ledger : ledger[i][1] = kind

(* The status an archive is sealed with agrees with the ledger inside it: no *)
(* "complete" or "interrupted" archive records a run_failed, whichever sink, *)
(* executor or finalisation error came when, and a "failed" one is written   *)
(* only after run_failed was emitted.                                        *)
StatusMatchesLedger ==
  /\ archive \in {"complete", "interrupted"} => ~InLedger("run_failed")
  /\ archive = "failed" => sending = "run_failed"
  /\ archive = "complete" => sending = "run_completed"

(* The archive tells the same story as the exception the caller gets: it is  *)
(* "interrupted" exactly when the exception is a cancellation, "failed" when *)
(* it is the run's or the sink's, and there is none under a trace error.     *)
ArchiveMatchesException ==
  pc = "raised" /\ archive # "none" =>
    archive = IF error = "cancelled" THEN "interrupted" ELSE "failed"

(* At every instant, a crash included, a run that left its .partial marker   *)
(* on disk leaves the marker or the finished archive, unless finish_run      *)
(* refused to write: the marker goes only after the archive is in place.     *)
EvidenceLeft == marker = "removed" => archive # "none" \/ recorder = "blocked"

(* The loop's budget: a run visits at most MaxSteps stages, completes at most*)
(* those it has visited, and starts a visit only with its required reads.    *)
VisitsBounded ==
  /\ Len(path) <= MaxSteps
  /\ steps \in {Len(path), Len(path) - 1}
  /\ pc = "executing" => steps = Len(path) - 1 /\ ReadsAvailable(current)

(* The visits follow the manifest's graph from the entry stage: each next    *)
(* visit is a transition of the one before, and nothing follows an exit.     *)
PathFollowsGraph ==
  /\ path # <<>> => path[1] = Entry
  /\ \A n \in 1 .. Len(path) - 1 :
       /\ path[n] \notin Exits
       /\ \E i \in DOMAIN Transitions[path[n]] : Transitions[path[n]][i].to = path[n + 1]

(* The archive left behind, the ledger inside it and the exception the caller *)
(* gets tell one story, whatever failed last and wherever the process died    *)
(* (run, finish_run).                                                         *)
ArchiveTellsTheRun == StatusMatchesLedger /\ ArchiveMatchesException /\ EvidenceLeft

(* A run is a bounded path of the manifest's graph (run, _select_transition). *)
RunFollowsManifest == TypeOK /\ PathFollowsGraph /\ VisitsBounded

(* Once the archive is in place neither it nor the ledger changes again.     *)
ArchiveFrozen == [][archive # "none" => UNCHANGED <<archive, ledger, seq>>]_vars

(* A cancellation reaches the caller: no later error replaces it.            *)
CancellationNeverMasked == [][error = "cancelled" => error' = "cancelled"]_vars

(* What was settled is not taken back: an archive in place, a cancellation on *)
(* its way to the caller (run, finish_run).                                   *)
NothingTakenBack == ArchiveFrozen /\ CancellationNeverMasked

(* The run is over in the end whatever the graph's cycles: max_steps bounds  *)
(* the loop, and every error path ends in a finalisation or leaves it out.   *)
Terminates == <>(pc \in Terminal)

Lifecycle == INSTANCE RunLifecycle WITH
  outcome <- IF pc \in Terminal THEN pc ELSE "running",
  tracing <- recorder # "noop",
  sealed  <- archive

(* The run keeps the promise of RunLifecycle about results and archives.     *)
KeepsLifecycle == Lifecycle!Spec
=============================================================================
