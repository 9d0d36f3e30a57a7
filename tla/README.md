# A TLA+ model of the Nemoir Python runtime

`nemoir_runtime` executes workflow manifests: a graph of stages, each run by a
tool or by a language model, with policies in front of every tool call, a live
event stream for the caller, and a trace archive that can be verified, replayed
and published. This directory holds TLA+ modules that model its parts, the TLC
configurations that check them on small instances, and proofs that TLAPS checks
for every instance.

All source paths below are in `src/src/nemoir_runtime/`.

## 1. Inventory

| Part | State | Operations | Hard behaviour | What makes it correct |
|---|---|---|---|---|
| **Run** (`runtime.py` `WorkflowRuntime.run`, `events.py`) | current stage, step count, stage outputs, event sequence number | begin, emit, enter stage, executor returns/raises, select transition, complete, fail, finalise | sink failures at each event, cancellation at each await, failing finalisation, killed process | archive, ledger, marker and exception agree; budget; path in graph; ends |
| **Stream** (`runtime.py` `stream`) | queue, task, generator | put, get, close, join | two tasks, close racing every state of the run, double cancellation | every event once and in order; caller wakes; no orphan run |
| **Policy gate** (`runtime.py` `_enforce_and_call*`) | recursion, tapes, milestones, evidence | deny loop, before loop, required calls, handler | recursion between capabilities, consent, unavailable data, tapes that run out | no unguarded handler; consent only when allowed; evidence agrees |
| **Guards and expressions** (`runtime.py` `_evaluate_guard`, `_eval_expr_impl`) | none | evaluate over inputs, outputs, arguments | missing data, negation, mixed types, strings and paths | what is allowed, or matches positively, without a datum would not be refused with it |
| **Model stage executor** (`models.py` `ModelStageExecutor`) | conversation, retry and round budgets | request, stream, retry, execute tool calls, return | malformed output, partial tool failure, cancellation | bounded requests; every tool call answered |
| **Model adapters** (`models.py`) | stream builders, repeated request | complete, stream, Responses API, answers sent back | interleaved deltas, streams that end early, missing ids and names | what was seen is what is answered, calls are whole or empty; a call is answered under its id |
| **Trace recorder** (`trace.py` `TraceRecorder`) | ledger, vault records, id queues, path references, marker, counters | begin, observe, semantic hooks, annotate, finish | attribution by order, event limit, bounded masking, hook that fails, scans that disagree, crash | nothing the scanner finds gets in; records name their calls; losses are counted; archive is atomic |
| **Archive** (`trace.py` `verify_archive`, `unlock_archive`) | a file | seal, verify, unlock | edits with and without a new index, writes between two reads, partial evidence | what passes agrees with its index and profile; what unlocks was sealed together |
| **Replay** (`replay.py`) | tapes of model, tool and policy outcomes, cursors | consume, run again, compare paths | exhausted or unused tape, divergence | a faithful replay has the recorded path |
| **Publication** (`publication.py`) | source, report, attestation, published archive and report | scan, attest, prepare | files changed between two reads, by hand or by other runs; killed commands | nothing is published that was not reviewed or is not fit |
| **Publishing** (`publish.py`) | local archive, plan, Gist | plan, verify what is served | an archive rewritten between reads, stale, damaged or missing answers, new revisions | what is cited was verified |
| **Tools** (`tools.py`, `runtime.py` `_select_deterministic_tool`) | registry, bound tool | register, select, call, normalise | several tools that fit, schemas that lie | one tool, whatever the order; it has its arguments |
| **Official tools** (`official_tools.py`) | files, processes, console threads | edit, write, shell, ask, confirm | concurrent runs, timeouts, processes and threads that outlive their call | what a call returned stands |
| **CLI, capabilities, errors** | none | | | exit code |

Interactions: `run` awaits the stage executor; the executor awaits
`ctx.call_tool`, which is the policy gate, which awaits the tool registry and
its handlers; all of them emit through one `WorkflowEventEmitter`, whose `emit`
calls the trace observer synchronously and then awaits the caller's sink.
Semantic hooks of the recorder (`begin_model_call`,
`record_policy_evaluation`, ...) are called directly. `stream` is a `run` whose
sink is a queue. Replay is a `run` with a taped adapter, taped tools and a policy
tape in the recorder. Everything in a run is one asyncio event loop: two tasks
interleave only at awaits. Archives are files: between the commands that verify,
scan, attest, prepare, plan and verify again, and between the reads one command
makes, anybody may write them.

The hazards of this code, each at its line with the properties that cover it,
are listed in `PROJECT.json`.

## 2. Modules

| Module | Models | Checked by | Proofs in |
|---|---|---|---|
| `RunLifecycle` | what `run` promises about archive, result and exception (abstract) | `workflow_run` (`KeepsLifecycle`) | `WorkflowRun_proofs` |
| `WorkflowRun` | `WorkflowRuntime.run`, `WorkflowEventEmitter.emit`, `TraceRecorder.begin_run/finish_run` | `workflow_run` | `WorkflowRun_proofs` |
| `RunStream` | `WorkflowRuntime.stream`, EXTENDS `WorkflowRun` | `run_stream` | `RunStream_proofs` |
| `PolicyGate` | `_enforce_and_call`, `_enforce_policy_call`, `_enforce_and_call_with_policies` | `policy_gate` | `PolicyGate_proofs` |
| `TraceIds` | the recorder's model-call and tool-call id queues (operators) | through `ModelStage` | `ModelStage_proofs` |
| `ModelStage` | `ModelStageExecutor.execute`, `_stream_adapter_response` | `model_stage` | `ModelStage_proofs` |
| `Replay` | a traced run, its vault, `replay_trace`, taped adapter and tools, `_compare_paths` | `replay` | `Replay_proofs` |
| `Ledger` | projection, masking, annotations, vault fixtures and final scans of the recorder | `records` | `Records_proofs` |
| `PathRefs` | `_normalize_path`, `_scrub_vault_text`, the `path_ref`s of a publication | `records` | `Records_proofs` |
| `Archive` | `finish_run`'s archive, `verify_archive`, `unlock_archive` | `archives` | `Archives_proofs` |
| `Publication` | `scan-publication`, `attest-publication`, `prepare-publication` | `archives` | `Archives_proofs` |
| `Publish` | `publish-plan`, `publish-verify` and the Gist | `archives` | `Archives_proofs` |
| `Adapters` | LiteLLM completion, stream and Responses API, to the response and back | `tools` | `Tools_proofs` |
| `Guards` | guards, policy conditions and expressions | `tools` | `Tools_proofs` |
| `ToolBinding` | registry, tool selection and `DeterministicStageExecutor` | `tools` | `Tools_proofs` |
| `OfficialTools` | the handlers, called by concurrent runs | `tools` | `Tools_proofs` |

Each `MC<module>` gives the constants of its module their values for TLC.
`MCArchives`, `MCRecords` and `MCTools` put components that share no state side by
side (section 3).

An operator named `X_Variant` under the comment "Faulty variant of X" is `X` with
a plausible mistake. None is part of a specification: a property that holds of
`X` and fails of the variant is one that the code can break.

### WorkflowRun

The coroutine is cut at its awaits. `pc = "sink"` is the await of the live sink
inside `emit`, with `sending` the event it is given; `pc = "executing"` is the
await of the stage executor. These are the only places where foreign code runs
and where a cancellation can be delivered, so `SinkReturns`, `SinkRaises`,
`SinkCancelled`, `ExecutorReturns`, `ExecutorRaises` and `ExecutorCancelled` are
the environment's moves, and all the rest is synchronous. The other control
points (`starting`, `loop`, `after`, `failing`, `finish`, `unmark`) exist so that
`Crash` can fall between two synchronous steps and so that each action is one
block of the source. `Emit` numbers the event, lets the observer see it
(`Observe`: append, omit, or drop at the event limit) and goes to the sink.
`finish_run` is split at its effects on disk: `WriteArchive` is the rename of the
temporary file, `RemoveMarker` the removal of `.partial`; `FinishBlocked` is the
refusal by the event limit or the scanner, `FinishUnwritten` any other failure
before the rename. A recorder may be the no-op one, a fresh one, or one that
already served a run (`begin_run` refuses it).

A stage output is one field (`none`, `empty` or `some`); `Valid` and
`Normalize` do to it what `_validate_output` and
`_normalize_optional_empty_arrays` do. Guards `always`, `has_value` and
`missing` are computed from the outputs, `if` and `eq` guards may give any
result or raise (what they give is the subject of `Guards`). What a stage emits
while it executes is left to `ModelStage` and `PolicyGate`; those events go
through the same `emit` and do not change the run's control.

### RunStream

The sink of `WorkflowRun` becomes `queue.put` (`Put`), which on an unbounded
queue neither suspends nor raises; a cancellation therefore reaches the run only
in the executor (`CancelDelivered`), and the executor may also swallow it (then
`RunOn` just goes on). The generator takes from the queue (`GetEvent`,
`GetDone`), the caller resumes it or closes it (`Close`), and the close joins
the task (`Join`) unless the caller is cancelled a second time
(`CancelledAgain`). Processes do not crash here: with the process both tasks are
gone. The model lets the two tasks interleave at every step of `WorkflowRun`,
more often than the event loop does. A close before the task's first step is
after it in the event loop's FIFO order, so the task always begins.

### PolicyGate

`stack` holds one frame per activation of `_enforce_and_call_with_policies`:
the loop it is in (`phase`), the policy (`next`), the required capability
(`req`), and the verdict between the milestone and what follows it.
`Conclude` follows the code's order (milestone, evidence, then exception) and
`Refuse` the consent loop's (milestone first, evidence after). Exceptions leave
all activations at once because none catches them. The fields `allowed` and
`met` of a frame, and the depth in a milestone, are history that the code does
not keep. `TopPolicy` and binding are abstracted to any outcome (`BindFails`,
`CheckDeny`, `RequiredArgsFail`). A run starts with arbitrary tapes, empty ones
included, so live, taped and half-taped replays are all covered.

### ModelStage and TraceIds

`ModelStage` is `execute` for one visit. The two `except
ModelOutputValidationError` handlers are the same action `Retry` from two places.
Messages are kept by role and position, which is what providers check. Each
ledger record holds the call the event is about (`of`) beside the id that the
recorder computes for it (`id`) with the operators of `TraceIds`; nested calls
made by policies (`StartTool(FALSE)`) use the same queues.

### Replay

One control flow runs twice. In mode `live` the model, the tools and the
policies answer freely and each answer is written to the `tape` the recorder
would keep; `Unlock` starts the second execution, whose answers come from the
tape through the cursors in `head`. `Emits` appends milestones (the event kinds
of `_COMPARE_KINDS` under the keys of `_live_key`) to `ledger` or `replayed`.
What differs between the two executions is what differs in the code:

- responses are filed per stage, and only those of visits with a
  `stage_snapshot` are (`Queue`, the places of a stage's responses on the tape;
  those not popped yet, `Waiting`, are popped in order);
- tool fixtures are served by order alone (`NextFixture`), a failure of any kind
  comes back as `ToolInvocationError`, a wholly redacted result as
  `TapedReplayError` (`Reproduced`);
- tool names are known from successful calls only (`Named`), and a stub judges
  arguments by the recorded shapes alone (`Refused`): it accepts what the tool itself
  refused, and refuses an argument of another shape than its name was first recorded with
  (`Misjudged`);
- a list among the recorded arguments types a parameter of every stub as a bare list, and
  a tool stage that gives its tool arguments (`Filled`) types the stub's as dict. For
  neither has `tool_schema` a JSON type, so that every model stage that may call such a
  stub fails before it asks (`Unusable`, `RefuseStubs`);
- taped policy outcomes replace evaluation, an unavailable one is taped as a
  denial, an exhausted tape is evaluated again (`Verdicts`);
- secrets are placeholders (`Taped`, `Hidden`), and the scanner may omit a
  ledger record, with which a snapshot is lost.

`flaws` is a history variable: it names what the live run met that the vault
vault does not hold. `FaithfulReplay` says that a run with no flaw, all of whose tools
were named by a success (`CallsNamed`) and no stage of which finds its stubs unusable
(`StubsUsable`), matches. Flaws and the two conditions are together the list of what the
model finds taped replay not to reproduce. It is longer than the limits stated at
`replay.py:18`; these are not about secrets: a response that could not be parsed,
unavailable policy data, a tool that was called but never succeeded, a failure in a
visit that already had a response, arguments that tool and stub judge differently
(refused by the tool's schema, or of another shape than first recorded), a list
among the arguments of any call, if a model stage may call a tool at all, and a model
stage that may call the tool of a tool stage with arguments.

### Ledger

A record is a sequence of fields, a place and what it holds; the texts are the
members of a small set, told apart by the rule of the scanner they meet (`Rule`).
`Masked` is `_scan_and_mask`: one finding is masked per pass, registered secrets
first, and when the passes run out the whole record is given up; a record needs
only as many findings as there are passes to get there (eight in the code, two in
the run). Three users of it behave differently, and the model keeps them apart: `Admit`
for the ledger, `ScrubVaultValue` for the vault, where the credential keys go
first and prohibited keys are excused, and `VaultProblems`/`LedgerProblems`, the scans of
`finish_run`, which may still block the archive. `finish_run` refuses for other reasons
too, and the model tells them apart: the limit of the ledger (`limit`), a vault beyond
`max_vault_bytes` or a text or manifest without canonical form (`Unsealable`, `refused`),
and findings (`blocked`). A result or response that is no safe JSON is not recorded at all: the
call of the recorder raises, and the run can only fail (`RecordFails`, `failing`). Each event is one action with
all that the observer does of it: `StageCompletes` projects the outputs, admits
the record, keeps the snapshot and calls the hook of the host, whose answer
(`Hook`) is refused, admitted or counted as lost. The hook is not called when the record
it would follow was omitted. `vault[i].raw`, `given` and `noted` are history.
The manifest snapshot goes to the vault unscrubbed, as in the code.

### PathRefs

A text names a file and is, or is not, written as resolving it would write it.
`refs` is the table of the recorder. `RecordArgs` records a path argument
(`NormalizePath`) and `RecordVault` a string of a vault payload (`ScrubText`);
`Publish` projects the ledger with a table of its own (`Project`, `PublicRef`).

### Archive

An entry is its parsed content with at most one flaw, and a digest of a content
is the content: hashes and encryption are perfect. `Write` is the end of a run
(`SealAudit`, `SealReplay`) or another writer that goes through `encrypt_vault_records`
with records of its own (`SealUnchecked`); `EditEntry`, `DropEntry` and
`EditIndex` are what anybody can do to a file, with or without a new index.
Nobody who writes measures the archive, so `Write` leaves open whether it fits the
reader's limits (`fits`), and nobody holds the ledger lines to all that the reader asks
of them, so `Sealed` leaves open whether it takes them (`Lines`). The lines of
an archive beyond the limits are never read, so they are not told apart. A vault may hold `max_vault_bytes` of plaintext, by default
(`trace.py:107`) as many bytes as the reader allows a whole archive (`trace.py:115`,
`3191`), and nothing compresses it before it is encrypted: an archive with a vault near its
limit is sealed, and refused by its own reader. So is one with a namespace that is too
long (`trace.py:3668`). `SealedVerifies` says what is left of acceptance, and that the
refusal gives up no record.
`VerifyReport` is the whole of `verify_archive`: which errors it lists and how
the levels are computed from the words of their texts (`IntegrityError`,
`LedgerError`; `trace.py` classifies errors by substrings, and so an error
about one level may fail another). `Verify` and `Unlock` are two actions because
`unlock_archive` reads the path twice.

### Publication

`pc` cuts each command at its reads and writes of files, and between them another
run may rewrite the source, somebody may edit report or attestation, and the
command may be killed. An archive is the texts of its entries and the facts that
publication asks of it; a file that may be missing is a set of at most one
content. `Projected` and `Entries` follow the projection with its options (tool
names, relative paths), `Fit` the conditions on the source, `Covers` the
comparison of a projection with the attestation. `shown` and `written` are
history. The archive and the report next to it are two writes; `orphan` remembers that
a command was killed in between (`SidecarDescribes`).

### Publish

`publish-plan` verifies one read, gates a second and counts a third (`PlanVerify`,
`PlanGate`, `PlanCount`); `publish-verify` asks for metadata, chooses a file and
downloads it. The service (external) may answer with an old revision, damaged
bytes or nothing. `check` is what the last successful verification printed.

### Adapters

The answer a provider means is some text, some reasoning and some tool calls,
all in numbered pieces, so that a lost, reordered or mixed piece shows. A stream
delivers each channel in its order and the channels in any, with or without an
index at its deltas (`TextArrives`, `ThinkArrives`, `CallArrives`), and may end or
raise anywhere (`StreamEnds`, `StreamFails`).
`NormalizeLitellmResponse` is the same answer received at once. `wire` is how
the executor sends calls and results back.

### Guards

Values are tagged; numbers are exact fractions, strings and paths are lengths in
one chain, so that containment and order are those of numbers. `Eval` is
`_eval_expr_impl` as a recursive function on the expressions of the instance,
with its `None` propagation and its exceptions; `GuardRef` and `PolicyRef` are the
two ways a reference that is not there is read. The state is an environment and
the last question; properties compare its answer with the answers of the same
conditions in the environments where the missing data is there.

### ToolBinding

`Register` is `ToolRegistry`, `Build` the constructor of the runtime with
`_select_deterministic_tool`, `Execute` the stage: call, projection of the result
and validation of the outputs. A tool is what reflection tells of its handler,
with the fields its result really has, so a schema may be false.

### OfficialTools

The handlers of concurrent runs on one loop. `edit_file` reads and writes without
an await and so holds `loop` between `EditRead` and `EditWrite`, which commands
(external processes) do not respect. A shell command forks, prints, overwrites the file
and outlives its shell as it pleases; `TimedOut` kills the shell and cancels
`communicate()`, `Drained` is the second `communicate()`, which has no timeout. Prompts
are read by threads that a cancellation leaves alone; a line goes to any of
them, so the yes typed for one prompt may be the consent of another. What is checked of
consent is that each uses up a yes (`ConsentNeedsYes`); that a line reaches the only
prompt that waits does not hold (`QuestionGetsItsAnswer`, section 3).

## 3. Runs

| Run | Instance and bounds | States | Shows |
|---|---|---|---|
| `workflow_run` | 3 stages with a cycle, all guard kinds, equal priorities, a required read that may be missing; `MaxSteps = 4`, `EventLimit = 3` | 898,815 | status, archive, marker, exception and ledger agree at every instant; budget and path; cancellation is never masked; the run ends; it implements `RunLifecycle` |
| `run_stream` | 2 stages with a cycle; `MaxSteps = 2`, `EventLimit = 1` | 52,761 | events arrive once and in order, the end is the run's end, no waiter sleeps for ever, close leaves no orphan |
| `policy_gate` | 3 capabilities, two of which require each other, consent, two deny policies after a before policy, an inert one; 2 calls, tapes of up to 1 | 109,755 | no unguarded handler, consent only for allowed calls, refusals never run, milestones pair, evidence agrees, every call is answered |
| `model_stage` | 2 retries, 2 rounds of up to 2 calls, 1 delta, 1 required call | 1,205,669 | budgets, answered calls, ids, termination |
| `replay` | a model stage that may follow itself, a guarded tool stage as exit; 2 visits, 1 retry, 1 round, one call with arguments (plain, a list, another shape) per answer, the tool stage with arguments, one omitted `stage_completed` | 1,724,305 | runs without a flaw and with usable stubs replay to the last milestone; a match has served every fixture to the call it was recorded for; every replay ends |
| `records` | `Ledger`: 2 passes, 4 entries, 4 events, 1 annotation of the host, 1 warning; `PathRefs`: 5 files under a safe root, a private one and none, 4 texts | 1,171,876 | what gets into ledger and vault, what is lost is counted, what the final scans block; a reference names one file |
| `archives` | `Archive`: 2 traces, 2 passphrases, `MaxWrites = 3`; `Publication`: 5 archives, 2 option sets, `MaxChanges = 2`; `Publish`: 5 archives, 2 file names, `MaxRevisions = 2`, `MaxRewrites = 1` | 834,772 | what is sealed in a form the reader takes is accepted, what passes agrees with its index, what unlocks was sealed together, what is published was reviewed, what is cited was verified |
| `tools` | `Adapters`: up to 2 pieces of text, 1 of reasoning, 2 calls of 2 pieces; `Guards`: 5 names, about 100 conditions; `ToolBinding`: 9 tools, up to 3 registered, 42 stages; `OfficialTools`: 2 runs, `MaxCalls = 2`, `MaxLines = 3` | 621,968 | what was seen is answered, allowed and positively matched data may be missing, the tool does not depend on the order, what a call returned stands, a shell call ends or is held |
| `model_completed_names` | 1 retry | violation expected | finding 1 |
| `replay_missed_fixture` | as `replay` | violation expected | finding 2 |
| `replay_taped_checks` | as `replay` | violation expected | finding 3 |
| `replay_workdir` | as `replay`, working directory in a root | violation expected | finding 4 |

Three runs are sums. The components in them share no variable, so a product of
them would only multiply their states; `SumInit` chooses one component, `part`,
each step is one of that component, and the others keep one of their initial
states. The behaviours are exactly those of the components.

Many properties checked are conjunctions of named parts, for example
`ArchiveTellsTheRun` of `StatusMatchesLedger`, `ArchiveMatchesException` and
`EvidenceLeft`: the parts are stated, and most of them proved, one by one.

Why the bounds are enough. The step budget is hit on a cycle and on the way to
the exit, and the event limit is hit in the middle of the run, so both happen
before and after every error path; two calls through the gate show that nothing
is left behind by the first; two retries and two rounds exhaust each budget with
the other one untouched, half used and used up, and each response can mix a
refused, a failed and a good call. In `replay` two visits of one model stage
show that the responses of a cycle stay in order, and one retry and one round in
each visit mix every kind of answer with every other; the step cap is met by the
second visit. In `Ledger` results of three fields use up two passes with a field
left over, and four entries are exceeded by events or by annotations. Three writes to
an archive allow two archives and an edit (their vaults exchanged), one archive
and two edits, and an edit or an archive between the two reads of an unlock. Two
changes of a publication change the source and the report or the attestation, in
any order with the commands; two revisions of a Gist let the old one be served for the
new one. Two calls of two runs are all that share a loop at one time, and three
lines are enough for an unclear answer to one and a line for each.

Fairness. `WorkflowRun`, `PolicyGate`, `ModelStage` and `Replay` assume weak fairness of
the coroutine's own steps: the event loop runs whatever is ready, and the sink,
executor, adapter and tools end (by returning, raising or being cancelled: no
particular one of these is assumed). Crashes and aborts are not fair. In
`RunStream` the task and the generator are each weakly fair, and the caller is
not fair at all: it may never ask for the next event. In `OfficialTools`
the loop runs what is ready, the timer of `wait_for` fires, and a process that was killed
dies; nothing makes a command end, a user answer or a caller cancel. The
other modules state no liveness: a command that is not run again owes nothing.

Deadlock is checked in the runs of the runtime and of replay; their terminal
states stutter explicitly. It is not in the three sums: bounded environments (writes,
lines, calls) run out, and an unanswered prompt waits.

### Finding 1: `model_completed` names the wrong attempt

`_pop_model` (`trace.py:2043`) gives a `model_completed` the oldest pending id of
the visit. An attempt that fails while its response is parsed never completes
and stays pending, so the completion of the attempt after it is recorded under
the failed attempt's id, without its `response_bytes`, and while its own deltas
carry the right id. `models.py:1382` promises an id of its own for each attempt.
`RecordsNameTheirCall` shows that all other records are right.

### Finding 2: a missed fixture may match

`replay_trace` promises that any fixture miss yields `matched=False`
(`replay.py:766`). The error of the replay is only looked at when the recorded
run was `complete` (`replay.py:914`). When the provider of the recorded run
failed before its first response, the replay asks for a response the vault does
not hold, fails at the same milestone, and matches. `MatchedIsSameRun` shows that
even then every fixture that exists was served to the right call.

### Finding 3: a taped denial that was no denial

A policy condition whose data is unavailable is recorded as `denied`
(`runtime.py:865`). Live, no `policy_denied` follows and the error ends the
stage; replayed, it is an ordinary denial with a `policy_denied`
(`runtime.py:814-838` promises that order and milestones match exactly).

### Finding 4: the working directory turns texts into paths

`_scrub_vault_text` (`trace.py:1676`) joins a relative text to the working
directory before it looks for a root of `path_aliases`, so when the process works
inside a root every string of the vault is taken for a path: contents become
`$workspace/{...}`, tool names `$workspace/...`. The comment at `trace.py:1700`
promises that such texts are kept. No run recorded that way replays.

### Other disagreements

Each of these is stated as a property of its module, where it does not hold of the model;
no run lists it, because the properties that do hold of the same code say what
is left of the promise.

| Property | What is promised | What the code does |
|---|---|---|
| `Archive!ExitMeansPassed` | `README.md:201`: exit code 0 when the requested level passed | a vault record that is no object or has a wrong shape (`trace.py:4037`, `4044`) sets `semantic="failed"` and leaves `ok`; the command exits with 0. No recorder writes such a vault |
| `Archive!VerifiedIsUsed` | `trace.py:3897`: the AAD of "the verified public artifact" | `unlock_archive` verifies one read and opens another (`trace.py:3922`, `3938`): the report is of the first archive, the records of the second |
| `Publication!SourceMatches` | `publication.py:1528`: another source identity is refused | the identity is that of a second read (`publication.py:1249`); `PublishedWasReviewed` still holds of ledger, graph and options |
| `Publish!PlanIsVerified` | `publish.py:91`: "Verified manifest + integrity facts" | the facts are those of later reads (`publish.py:102`, `160`); `CitedIsVerified` still holds |
| `Guards!FailsClosed` | `runtime.py:1427`: "fail-closed for guards" | a comparison with `None` is `False`, and its negation matches; `PositiveMatchIsCertain` holds of comparisons of terms without `not` and equality (a comparison that is itself compared or added up is `False` for missing data, and so a value) |
| `OfficialTools!TimeoutEnds` | `official_tools.py:214`: the timeout is clamped to a sane maximum | the second `communicate()` (`official_tools.py:241`) waits for every process that holds the pipe; `EndsOrHeld` is what holds |
| `OfficialTools!OutputIsReturned` | `official_tools.py:202`: "return stdout, stderr, and exit code" | what was read before a timeout goes with the cancelled `communicate()` |
| `OfficialTools!QuestionGetsItsAnswer` | `official_tools.py:269`: "Ask the user a question and return their answer" | a cancelled prompt leaves its thread in `input()` (`official_tools.py:322`, `360`), and the line typed for the only call that waits may be read by it; `ConsentNeedsYes` is what holds |
| `ToolBinding!ArgsAccepted` | `runtime.py:399`: "all exec args must be present"; `src/README.md:13`: fail-fast | the converse is tested; a tool that does not take an argument is bound and fails in the stage |
| `PathRefs!PublishedRefsNameOneFile` | `publication.py:11`: alias-relative paths become opaque refs | the projection numbers them from 1 again (`publication.py:890`), beside the recorder's numbers |
| `PathRefs!VaultDegrades` | `trace.py:1676`: "degrade unregistered absolutes to refs" | an absolute path outside the roots that is not written as resolved is kept (`trace.py:1699`) |
| `Adapters!StreamedAlike` | `models.py:69`: streaming "is additive" | empty arguments are a call when streamed (`models.py:328`) and an error when not (`models.py:1672`); a nameless call is dropped or kept |
| `Adapters!AnswersNameTheirCalls` | `models.py:361`: results round-trip | a call without an id goes back with an empty one (`models.py:1614`) and its result with one that was made up (`models.py:1331`); `CallsAnsweredById` says when ids do agree |
| the stub types of `Replay` (in `StubsUsable`) | `replay.py:434`: "their JSON shapes are exactly what replay must accept" | a list or a dict is a stub type no model can be offered (`models.py:1078`): the replay fails where the run did not. `FaithfulReplay` requires usable stubs |
| `Ledger!MetricsSurvive` | `trace.py:2517`: "approved scalar metrics survive" | one beyond the safe integers is admitted (`trace.py:4129`) and blocks the archive (`trace.py:3117`) |
| `Ledger!VaultHoldsNoSecret` | `trace.py:1643`: secrets "are still enforced separately" | the value of a prohibited key is never compared with the secrets (`trace.py:467`), and the finding is excused |
| `Ledger!AdmittedIsReadable` | `tests/vectors/schema/README.md:157`: the schema is enforced | a long namespace, or a `mechanism_id` that was masked, is sealed and refused by the reader (`trace.py:3669`, `3677`) |

## 4. Proofs

All of these hold for every value of the constants that satisfies the named
assumptions of the module; TLC evaluates those assumptions in the runs.

- `WorkflowRun_proofs` (`ManifestAssumption`): the type invariant, all safety
  and action properties and the refinement of `RunLifecycle`. The inductive
  invariant adds to the properties what the control point says about the rest: an
  archive exists only from `unmark` on, `status` and `sending` are determined at
  `finish`, `error` is a cancellation exactly on the interrupted path, the
  recorder is `begun` throughout the body. `PathTheorem` needs the extra fact that
  the current stage is the entry, the last visited stage, or a transition's target
  from it. `StoryTheorem`, `ManifestTheorem` and `SettledTheorem` put the parts together.
- `RunStream_proofs`: `StreamIsRun`, that every behaviour of the stream is one of
  the run, so that what is proved of runs holds of streamed ones; then order, end
  and close, from an invariant that relates what was taken, the queue and the
  ledger of sent events, and says when the sentinel may be in the queue
  (`CallerTheorem`).
- `PolicyGate_proofs` (`GateAssumption`): the recursion never exceeds two activations, no
  handler runs unguarded (`HoldsTheorem`), consent is asked only for allowed calls,
  milestones pair (`PairTheorem`), evidence agrees (`EvidenceAgreement`).
  `GateIInv` says of each frame that the deny policies before `next` are in
  `allowed` while the frame is in its deny loop, and all of them afterwards;
  likewise for `met`; and that only the first frame has `allow_before`. `StartInv`,
  `PairInv` and `EvInv` say which milestones and records the frames on the stack still owe.
- `ModelStage_proofs`: types, budgets, ids and answers. `PlaceInv` and `CallInv`
  relate control point and id queues, `OrderInv` orders the pending ids and the
  completions, `CountInv` counts retries and calls in the ledger, `PayInv` is what each request
  and round has cost, `TalkInv` which calls the conversation still has to answer.
- `Archives_proofs`, about `Archive` (`ArchiveAssumption`), `Publication`
  (`PublicationAssumption`) and `Publish` (`PublishAssumption`), for every number of writes,
  edits, kills and revisions.
  - Archive: `FilesInv` says that a file is one of the shapes edits can leave, that `seals`
    are what writers sealed, and that an intact vault is that of a seal; `ReaderInv` says what
    the report and the records are computed from in each state of the reader, the file of the
    second read included. From these: what passes agrees with its own index, identity and
    profile (`PassTheorem`; it may still be a mix that somebody indexed anew), what an unlock
    returns was sealed together (`UnlockTheorem`), what nobody edited, the summary excepted, is
    accepted exactly if its size and its ledger lines are such as the reader takes
    (`AcceptTheorem`).
    The errors of a file are taken apart entry by entry, so that no error means that the index
    and every entry are as sealed.
  - Publication: `ReviewTheorem` and `FitnessTheorem`. The invariant is the way of a digest:
    report, attestation, what prepare loaded, what it made, what it wrote (`Provenance`), with
    what each control point knows of its work (`WorkInv`); `DecisionsInv` and `SidecarInv` add
    types and the pair of archive and report (`SidecarTheorem`).
  - Publish: types, `CitedTheorem` and `GuessTheorem`: the Gist's revisions never change, and a
    check is of the revision and file its metadata cited.
  - `FilesTheorem` is about the sum of the three that the run checks, through `SumImplements`:
    a behaviour of the sum is one of each component. Of the report it says that it is of the
    archive beside it, except between the two writes and after a kill there.
- `Records_proofs`, about `Ledger` (`LedgerAssumption`, `InputAssumption`) and `PathRefs`
  (`PathAssumption`).
  - `LedgerIInv`: types, anchors and the account of the hook (`AccountTheorem`). A step appends
    at most one event and one annotation; the record before a hooked annotation is the
    completion that called it, and every answer of the hook is in one of two counts.
  - `MaskInv`: what is in the ledger is clean and what is in the vault keeps the rest of what
    was given (`CleanTheorem`, `FixtureTheorem`), and the scans at the end agree with those at admission
    (`BlockedTheorem`; the other refusals of `finish_run` are not bounded), for any number of
    passes and of findings. What `Masked` returns is found from the pass that could fail first.
  - `RefsInv` makes the table of references a numbering; `PathInv` says of every entry written
    that its number is that of its file (`RefsTheorem`). That a file has one reference only holds
    under a root whose alias may not be shown.
- `Tools_proofs`, about `ToolBinding` (`BindingAssumption`), `OfficialTools`
  (`ToolsAssumption`), `Adapters` (`AdaptersAssumption`) and `Guards` (`ConditionAssumption`,
  `ExpressionAssumption`).
  - `BindingInv`: the tool bound is the only candidate among the registered tools, and each failure
    says why; arguments and required outputs follow. `OrderTheorem` needs no more than that a
    list in another order has the same tools.
  - `HandlersInv`: a call is of one run and has no result before it returns, a command that
    returned left nobody at its pipe (`QuietTheorem`), a run that edits has the loop and has read
    every edit made (`HandlersTheorem`), consents never outnumber the times "yes" was typed
    (`ConsentTheorem`).
  - `AdaptersInv`: what arrived of each channel is a prefix of what was meant, each builder holds
    the pieces that came for its index, what is received is assembled from them (equality with
    the answer at once is for regular answers with indexed deltas), and a request
    is repeated at most once, after a refusal, without the effort
    (`RetriesTheorem`, `AnswerTheorem`, `AnsweredTheorem`).
  - `GuardsInv` only says that the answer is that of the environment; `VerdictTheorem` is about
    evaluation itself: for every expression, of any depth, what is allowed or matches positively while
    data is missing is neither denied nor passed over whatever values take its place. Guards
    with a negation or an equality do hang on missing data (`FailsClosed`).
- `Replay_proofs` (`WorkflowAssumption`): types (`ReplayTypeCorrect`), `MatchedTheorem` and
  `FaithfulTheorem`, for all stages, tools, policies, budgets and sets of records the scanner
  omits.
  For `MatchedTheorem` the two executions share no variable but the tapes, and are compared only once the milestones are
  equal. `PairInv` therefore counts milestones: of the ledger, what the tapes hold (visits
  entered and left, calls begun and ended against fixtures, completions told against responses,
  in order); of `replayed`, where the cursors are. Equal milestones then make the counts equal:
  every fixture was served, to the same visit and tool, and by cardinality no response is
  waiting. A response without its `model_completed` is the exception the invariant carries: there
  is at most one, and it shows as a turn still pending, a run that broke, or a visit whose
  snapshot was lost (`AnswersKept`).

  For `FaithfulTheorem` (a run with no flaw, whose tools are all known and whose stubs are usable, is reproduced) ends are
  not enough: the replay is followed through the run. A moment of the live run is its
  state with its tapes so far (`Moments`, `Now`); `Follows` relates two moments the code passes
  from one to the other, and a `Story` is a sequence of moments from the start in which each
  follows the one before and each fits the tapes it made (`Fits`). `FaithInv` holds
  while the live run goes on because it is itself such a story (`LiveRun`, one lemma per
  action, `Live...`); after `Unlock` that story is sealed, and the replay stands at one of its
  moments (`Retold`): at the same control point with the same milestones behind it (`Stands`),
  with the same outputs returned (`Returns`), in the same turn (`Turns`) and with as much read
  from the tapes as was recorded on them by then (`Reads`). A step of the replay leads to the next moment (`Reading` and one lemma per action,
  `...Read`), because that moment was made by the answer the cursor now points to. At the end
  no moment is left, and the moments' milestones, outputs and outcome are the replay's
  (`FaithMatched`). With no flaw nothing was omitted, nothing failed late and no two paths are
  confused; each of these would break one of the step lemmas, which is why `flaws` lists them.

Where a definition is recursive over numbers or over expressions (`Masked`, `Eval`, `Sort`),
the proofs take a least counterexample (`LeastNumber`, from `WFMin`) instead of the library's
induction theorems, whose operator parameter the provers cannot instantiate.

Only model-checked:

- liveness (`Terminates`, `WaiterWakes`, `CloseCompletes`, `Answers`, `StageEnds`,
  `ReplayEnds`, `EndsOrHeld`), which needs fairness and `ENABLED`;
- the four findings of section 3, each by a counterexample.

Only proved: `LedgerTypeOK`, `AnchorsBelong` and `NeverGuesses` are in no run.

## 5. Not modelled

- What is inside values: prompts, schemas, texts, the patterns of the scanner,
  encryption. Their outcomes are nondeterministic where control depends on them.
- Two `ctx.call_tool` at once from a custom executor; `max_tool_rounds=None`
  (no bound at all); an adapter that goes on after its `completed` chunk.
- An archive of an earlier run at the same path in `WorkflowRun`;
  `record_run_inputs` raising before `run_started`.
- In `Replay`: several tool calls in a response, before policies, two tools of
  one capability, other options than the live run's, and the checks of the
  archive and the manifest snapshot before the replay starts; the construction of the
  replay's runtime, which fails when stages that require one capability write a name with
  different types (`runtime.py:406`).
- In `Ledger`: `record_run_inputs` and the evidence of transitions and policies,
  which go to the vault like any other value, and the event `run_failed` that ends a run
  whose recording failed. In `PolicyGate` the recorder does not raise: of a call it could not
  record the ledger has a start and no end.
- In `Archive`: canonical JSON and the shape of single fields. Sizes are not counted: a
  sealed archive fits the reader's limits or it does not (`container`).
- In `Adapters`: the keyword arguments of requests, the flattening of schemas,
  `CallableModelAdapter`, which only calls a function.
- In `Guards`: malformed expressions, which the loader refuses, and arithmetic on
  strings. In `OfficialTools`: reads, listings and the rest of the file system.
- Argument parsing and printing of the command line, the tables of capabilities and
  errors, test vectors.

## 6. Plan

Done: all modules of section 2, their runs, and the eight proof modules; every invariant and
action property of a passing run is a theorem.

Left, in the order of what they would add: several calls per response and before policies in
`Replay`; a refinement of the run by the archive's reader (what `finish_run` seals, `Archive`
accepts) stated over one set of variables; the sizes of entries, of which `Archive` only says
that they fit or not.
