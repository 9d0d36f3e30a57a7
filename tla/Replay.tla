------------------------------- MODULE Replay -------------------------------
(***************************************************************************)
(* A recorded run and its taped replay. The same control flow runs twice:  *)
(* "live", where the model, the tools and the policies answer as they      *)
(* like and the recorder fills the tapes of the vault, then in "replay"    *)
(* (replay_trace), where the tapes answer. In the end the milestones, the  *)
(* stage outputs and the outcomes of the two are compared.                 *)
(*                                                                         *)
(* A stage asks the model in a loop or calls one fixed tool. One tool      *)
(* serves each capability, a response holds at most one tool call, and     *)
(* only deny policies are modelled. The replay runs with the options of    *)
(* the live run. An interrupted run is never replayed.                     *)
(***************************************************************************)
EXTENDS Naturals, Sequences, SequencesExt

CONSTANTS
  Stages, Entry, Exits,
  Executes,     \* per stage, the tool it calls, or "model"
  Goto,         \* per stage and output, the selected transition, or "none"
  Tools,
  Allows,       \* per stage, the tools its model may call
  Filled,       \* the tool stages that give their tool arguments
  Guarded,      \* the tools with a deny policy
  Omissible,    \* the kinds of records the scanner may omit
  Aliased,      \* whether the working directory lies in a root of path_aliases
  MaxSteps, MaxRetries, MaxRounds

Values == {"x", "y", "invalid"}    \* "invalid" fails the stage's schema
Hidden == "hidden"                 \* the placeholder of a redacted value

ASSUME WorkflowAssumption ==
  /\ Entry \in Stages /\ Exits \subseteq Stages
  /\ Executes \in [Stages -> Tools \union {"model"}]
  /\ Goto \in [Stages -> [{"x", "y", Hidden} -> Stages \union {"none"}]]
  /\ Guarded \subseteq Tools /\ Filled \subseteq Stages /\ Aliased \in BOOLEAN
  /\ Allows \in [Stages -> SUBSET Tools]
  /\ {MaxSteps, MaxRetries, MaxRounds} \subseteq Nat

VARIABLES
  mode,         \* "live" or "replay"
  pc,
  stage, visit, \* current_id and the number of the visit
  retries, rounds, answer,   \* the model stage's counters and last response
  output,       \* what the stage returns, and whether the vault masks it
  tape,         \* the vault: responses, fixtures, policy outcomes, snapshots
  head,         \* how far the replay has read each of them, and its outputs
  ledger,       \* milestones of the live run, as the archive holds them
  replayed,     \* milestones the replay emits
  outcome,      \* per mode, "none", "complete" or "failed"
  missed,       \* the replay asked for a fixture the vault does not hold
  flaws         \* what the live run met that a replay cannot reproduce

stageVars == <<retries, rounds, answer>>
replayVars == <<mode, pc, stage, visit, retries, rounds, answer, output, tape, head,
                ledger, replayed, outcome, missed, flaws>>

Output(v, secret) == [kind |-> "output", value |-> v, secret |-> secret]
\* A call has arguments the tool accepts, or not; among them is a list, or one
\* of another shape than its name was first recorded with, a null or an object.
Shapes == {"plain", "list", "other"}
Call(t, good, shape) == [kind |-> "call", tool |-> t, good |-> good, shape |-> shape]
\* "ghost" is a tool that does not exist.
Answers ==
  {Output(v, FALSE) : v \in Values} \union {Output("x", TRUE)} \union
  {Call(t, b, h) : t \in Tools, b \in BOOLEAN, h \in Shapes} \union
  {Call("ghost", TRUE, "plain")}

NoAnswer == Output("invalid", FALSE)

Live == mode = "live"
IsModel == Executes[stage] = "model"
Over == mode = "replay" /\ pc = "ended"

-----------------------------------------------------------------------------
(* The vault.                                                              *)

\* A visit has a snapshot once its stage_completed entered the ledger.
Recorded(v) == \E i \in DOMAIN tape.snapshots : tape.snapshots[i].visit = v

\* The places on the tape of the responses the replay serves to stage s. A
\* response whose visit has no snapshot belongs to no stage.
Queue(s) ==
  {i \in DOMAIN tape.responses :
     tape.responses[i].stage = s /\ Recorded(tape.responses[i].visit)}

\* Those not popped yet.
Waiting(s) == Queue(s) \ head.asked[s]

\* What the vault keeps of a response: a content with a secret becomes a
\* placeholder, and with the working directory in a root every text is taken
\* for a path below it.
Taped(a) ==
  IF a.kind = "output" /\ (a.secret \/ Aliased) THEN NoAnswer
  ELSE IF a.kind = "call" /\ Aliased THEN Call("ghost", TRUE, "plain")
  ELSE a

\* The tool names the replay knows: those of the successful calls.
Named(t) == \E i \in DOMAIN tape.fixtures :
              tape.fixtures[i].tool = t /\ tape.fixtures[i].result \in Values

\* A list was recorded among the arguments of a call, whoever made it. Every
\* stub of the replay then has a parameter of type list ...
Lists ==
  \/ \E i \in DOMAIN tape.responses :
       tape.responses[i].answer.kind = "call" /\ tape.responses[i].answer.shape = "list"
  \/ \E i \in DOMAIN tape.fixtures : tape.fixtures[i].shape = "list"

\* ... and the stubs of the tools that tool stages give arguments one of type
\* dict. No model can be offered a tool with either.
Unusable(s) ==
  /\ Executes[s] = "model" /\ Allows[s] # {}
  /\ Lists \/ \E q \in Filled : Executes[q] \in Allows[s]

\* What a fixture gives back.
Reproduced(f) ==
  IF f.mask = "whole" THEN "fatal"
  ELSE IF f.result \in {"error", "fatal"} THEN "error"
  ELSE IF f.mask = "nested" THEN Hidden
  ELSE f.result

FixturesLeft == Len(head.served) < Len(tape.fixtures)

\* Faulty variant of NextFixture: pop() takes the last one.
NextFixture_Last == Len(tape.fixtures) - Len(head.served)

\* pop(0): the first fixture not served yet.
NextFixture == Len(head.served) + 1

\* A run that replays the hidden value may take another path than the run that
\* knew the value.
Diverts(v) == v = "invalid" \/ (stage \notin Exits /\ Goto[stage][v] # Goto[stage][Hidden])
-----------------------------------------------------------------------------
(* Milestones.                                                             *)

Key(kind, detail) == <<kind, stage, detail>>

Retry == Key("model_retry", "")

\* The scanner may omit a record of the live run's ledger: once is enough.
Emits(keys, more) ==
  \/ /\ Live
     /\ ledger' = ledger \o keys
     /\ flaws' = flaws \union more
     /\ UNCHANGED replayed
  \/ /\ Live /\ "omitted" \notin flaws
     /\ \E k \in DOMAIN keys : keys[k][1] \in Omissible /\ ledger' = ledger \o RemoveAt(keys, k)
     /\ flaws' = flaws \union more \union {"omitted"}
     /\ UNCHANGED replayed
  \/ /\ ~Live
     /\ replayed' = replayed \o keys
     /\ UNCHANGED <<ledger, flaws>>

\* The visit in progress has taped responses that no stage will get back.
LateFailure == ~Recorded(visit) /\ \E i \in DOMAIN tape.responses : tape.responses[i].visit = visit

\* An exception leaves the stage: run_failed.
Fail(keys, more) ==
  /\ Emits(Append(keys, <<"run_failed">>),
           more \union (IF LateFailure THEN {"late_failure"} ELSE {}))
  /\ outcome' = [outcome EXCEPT ![mode] = "failed"]
  /\ pc' = "ended"

\* A tool call fails: the model is told, a tool stage fails.
ToolError(keys, more) ==
  \/ /\ IsModel
     /\ Emits(Append(keys, Retry), more)
     /\ pc' = "asking"
     /\ UNCHANGED outcome
  \/ ~IsModel /\ Fail(keys, more)

-----------------------------------------------------------------------------
(* The run, live or replayed.                                              *)

NoOutput == [value |-> "invalid", masked |-> FALSE]

ReplayInit ==
  /\ mode = "live"
  /\ pc = "loop" /\ stage = Entry /\ visit = 0
  /\ retries = 0 /\ rounds = 0 /\ answer = NoAnswer /\ output = NoOutput
  /\ tape = [responses |-> <<>>, fixtures |-> <<>>,
             policies |-> [t \in Guarded |-> <<>>], snapshots |-> <<>>]
  /\ head = [asked |-> [s \in Stages |-> {}], served |-> <<>>,
             checked |-> [t \in Guarded |-> 0], outputs |-> <<>>]
  /\ ledger = << <<"run_started">> >>
  /\ replayed = <<>>
  /\ outcome = [live |-> "none", replay |-> "none"]
  /\ missed = FALSE
  /\ flaws = IF Aliased THEN {"aliased"} ELSE {}

\* replay_trace: the archive of the ended run is unlocked and run again.
Unlock ==
  /\ Live /\ pc = "ended"
  /\ mode' = "replay"
  /\ pc' = "loop" /\ stage' = Entry /\ visit' = 0
  /\ retries' = 0 /\ rounds' = 0 /\ answer' = NoAnswer /\ output' = NoOutput
  /\ replayed' = << <<"run_started">> >>
  /\ UNCHANGED <<tape, head, ledger, outcome, missed, flaws>>

ToolPoint(t) == IF t \in Guarded THEN "policy" ELSE "tool"

EnterStage ==
  /\ pc = "loop"
  /\ \/ /\ visit = MaxSteps
        /\ Fail(<<>>, {})
        /\ UNCHANGED <<visit, stageVars>>
     \/ /\ visit < MaxSteps
        /\ visit' = visit + 1
        /\ Emits(<<Key("stage_started", "")>>, {})
        /\ retries' = 0 /\ rounds' = 0
        /\ \/ IsModel /\ pc' = "asking" /\ answer' = NoAnswer
           \/ /\ ~IsModel
              /\ pc' = ToolPoint(Executes[stage])
              /\ answer' = Call(Executes[stage], TRUE, "plain")
        /\ UNCHANGED outcome
  /\ UNCHANGED <<mode, stage, output, tape, head, missed>>

RetryOrFail(more) ==
  \/ /\ retries < MaxRetries
     /\ retries' = retries + 1
     /\ Emits(<<Retry>>, more)
     /\ pc' = "asking"
     /\ UNCHANGED outcome
  \/ /\ retries = MaxRetries
     /\ Fail(<<>>, more)
     /\ UNCHANGED retries

\* The adapter raises: its response could not be parsed, which leaves no
\* response on the tape, or the provider is down.
ModelRaises ==
  /\ Live /\ pc = "asking"
  /\ \/ RetryOrFail({"malformed"})
     \/ Fail(<<>>, {}) /\ UNCHANGED retries
  /\ UNCHANGED <<mode, stage, visit, rounds, answer, output, tape, head, missed>>

\* The stage goes on with response a.
Take(a, more) ==
  /\ Emits(<<Key("model_completed", "")>>, more)
  /\ answer' = a
  /\ pc' = IF a.kind = "call" THEN "dispatch" ELSE "returned"
  /\ output' = IF a.kind = "call" THEN output ELSE [value |-> a.value, masked |-> a.secret]

\* What the model may answer; the arguments of a call that is not allowed do
\* not matter.
Offered ==
  {a \in Answers :
     a.kind = "call" => /\ a.tool \in Tools
                        /\ a.tool \in Allows[stage] \/ (a.good /\ a.shape # "other")}

ModelAnswers(a) ==
  /\ Live /\ pc = "asking"
  /\ tape' = [tape EXCEPT !.responses = Append(@, [visit |-> visit, stage |-> stage, answer |-> a])]
  /\ Take(a, IF a.kind = "output" /\ a.secret THEN {"secret"} ELSE {})
  /\ UNCHANGED <<mode, stage, visit, retries, rounds, head, outcome, missed>>

\* tool_schema raises for a stub of the replay, before the model is asked.
RefuseStubs ==
  /\ ~Live /\ pc = "asking" /\ Unusable(stage)
  /\ Fail(<<>>, {})
  /\ UNCHANGED <<mode, stage, visit, stageVars, output, tape, head, missed>>

\* TapedModelAdapter.complete with a response left for the stage: pop(0) ...
ServeResponse ==
  /\ ~Live /\ pc = "asking" /\ ~Unusable(stage)
  /\ \E i \in Waiting(stage) :
       /\ \A j \in Waiting(stage) : i <= j
       /\ head' = [head EXCEPT !.asked[stage] = @ \union {i}]
       /\ Take(Taped(tape.responses[i].answer), {})
  /\ UNCHANGED <<mode, stage, visit, retries, rounds, tape, outcome, missed>>

\* Faulty variant of MissResponse: it waits for an answer.
MissResponse_Waits ==
  /\ ~Live /\ pc = "asking" /\ ~Unusable(stage)
  /\ Waiting(stage) = {}
  /\ UNCHANGED replayVars

\* ... and without one: TapedReplayError, which ends the run.
MissResponse ==
  /\ ~Live /\ pc = "asking" /\ ~Unusable(stage)
  /\ Waiting(stage) = {}
  /\ Fail(<<>>, {})
  /\ missed' = TRUE
  /\ UNCHANGED <<mode, stage, visit, stageVars, output, tape, head>>

\* Whether the stage refuses a call before any policy or tool. A stub requires
\* no argument and looks at the recorded shapes alone: what the tool itself
\* would say of the arguments does not count.
Refused(a) ==
  \/ a.tool \notin Allows[stage]
  \/ Live /\ ~a.good
  \/ ~Live /\ (~Named(a.tool) \/ a.shape = "other")

\* The stub will judge the arguments otherwise than the tool.
Misjudged(a) == a.tool \in Allows[stage] /\ (a.good <=> a.shape = "other")

Dispatch ==
  /\ pc = "dispatch"
  /\ \/ /\ rounds = MaxRounds
        /\ Fail(<<>>, {})
        /\ UNCHANGED rounds
     \/ /\ rounds < MaxRounds
        /\ rounds' = rounds + 1
        /\ LET more == IF Misjudged(answer) THEN {"arguments"} ELSE {}
           IN \/ Refused(answer) /\ ToolError(<<>>, more)
              \/ /\ ~Refused(answer)
                 /\ pc' = ToolPoint(answer.tool)
                 /\ flaws' = IF Live THEN flaws \union more ELSE flaws
                 /\ UNCHANGED <<ledger, replayed, outcome>>
  /\ UNCHANGED <<mode, stage, visit, retries, answer, output, tape, head, missed>>

\* Faulty variant of Verdicts: the replay evaluates the condition again.
Verdicts_Reevaluated(t) == {"allowed", "denied", "unavailable"}

\* The outcomes of the policy of tool t: the taped one, if there is one.
Verdicts(t) ==
  IF Live \/ head.checked[t] = Len(tape.policies[t])
  THEN {"allowed", "denied", "unavailable"}
  ELSE {tape.policies[t][head.checked[t] + 1]}

\* The deny policy of the tool. An evaluation without its data is an error
\* beyond the model's reach, taped as "denied".
CheckPolicy ==
  /\ pc = "policy"
  /\ LET t == answer.tool
         checked(denied) == Key("policy_checked", <<t, denied>>)
     IN \E v \in Verdicts(t) :
          /\ \/ v = "allowed" /\ Emits(<<checked(FALSE)>>, {}) /\ pc' = "tool" /\ UNCHANGED outcome
             \/ v = "denied"  /\ ToolError(<<checked(TRUE), Key("policy_denied", t)>>, {})
             \/ v = "unavailable" /\ Fail(<<checked(TRUE)>>, {"unavailable"})
          /\ \/ /\ Live
                /\ tape' = [tape EXCEPT !.policies[t] =
                              Append(@, IF v = "unavailable" THEN "denied" ELSE v)]
                /\ UNCHANGED head
             \/ /\ ~Live
                /\ head' = IF head.checked[t] < Len(tape.policies[t])
                           THEN [head EXCEPT !.checked[t] = @ + 1] ELSE head
                /\ UNCHANGED tape
  /\ UNCHANGED <<mode, stage, visit, stageVars, output, missed>>

\* The call of the tool ends: with "error" (told to the model), with "fatal"
\* (another runtime error) or with a value.
ToolEnds(result, masked, more) ==
  LET milestones(kind) == <<Key("tool_call_started", answer.tool), Key(kind, answer.tool)>>
  IN \/ /\ result = "error"
        /\ ToolError(milestones("tool_call_failed"), more)
        /\ UNCHANGED output
     \/ /\ result = "fatal"
        /\ Fail(milestones("tool_call_failed"), more)
        /\ UNCHANGED output
     \/ /\ result \notin {"error", "fatal"}
        /\ Emits(milestones("tool_call_completed"), more)
        /\ pc' = IF IsModel THEN "asking" ELSE "returned"
        /\ output' = IF IsModel THEN output ELSE [value |-> result, masked |-> masked]
        /\ UNCHANGED outcome

\* What the tool may answer: a model stage's output does not depend on it.
Results == {"error", "fatal"} \union (IF IsModel THEN {"x"} ELSE Values)

\* The vault masks nothing, a part or the whole of a result.
Masks(result) ==
  {"clear"} \union (IF result \in Values THEN {"whole"} ELSE {})
            \union (IF result \in Values /\ ~IsModel THEN {"nested"} ELSE {})

\* The shape of the arguments: a tool stage binds its own.
ArgShapes ==
  IF IsModel THEN {answer.shape} ELSE IF stage \in Filled THEN {"plain", "list"} ELSE {"plain"}

CallTool ==
  /\ Live /\ pc = "tool"
  /\ \E result \in Results : \E mask \in Masks(result), h \in ArgShapes :
       /\ tape' = [tape EXCEPT !.fixtures =
                     Append(@, [visit |-> visit, tool |-> answer.tool, shape |-> h,
                                result |-> result, mask |-> mask])]
       /\ ToolEnds(result, mask # "clear",
                   IF mask = "whole" \/ (mask = "nested" /\ ~IsModel /\ Diverts(result))
                   THEN {"secret"} ELSE {})
  /\ UNCHANGED <<mode, stage, visit, stageVars, head, missed>>

\* TapedToolRegistry.call: the next fixture, whatever tool it was recorded for.
ServeFixture ==
  /\ ~Live /\ pc = "tool"
  /\ \/ /\ FixturesLeft
        /\ head' = [head EXCEPT !.served =
                      Append(@, [visit |-> visit, tool |-> answer.tool, fixture |-> NextFixture])]
        /\ ToolEnds(Reproduced(tape.fixtures[NextFixture]), FALSE, {})
        /\ UNCHANGED missed
     \/ /\ ~FixturesLeft
        /\ ToolEnds("fatal", FALSE, {})
        /\ missed' = TRUE
        /\ UNCHANGED head
  /\ UNCHANGED <<mode, stage, visit, stageVars, tape>>

\* The output of the stage is refused ...
OutputInvalid ==
  /\ pc = "returned" /\ output.value = "invalid"
  /\ \/ IsModel /\ RetryOrFail({})
     \/ ~IsModel /\ Fail(<<>>, {}) /\ UNCHANGED retries
  /\ UNCHANGED <<mode, stage, visit, rounds, answer, output, tape, head, missed>>

\* ... or completes the visit. The snapshot of the live run is taken with its
\* ledger record.
CompleteStage ==
  /\ pc = "returned" /\ output.value # "invalid"
  /\ Emits(<<Key("stage_completed", "")>>, {})
  /\ pc' = "after"
  /\ \/ /\ Live
        /\ tape' = IF ledger' = ledger THEN tape
                   ELSE [tape EXCEPT !.snapshots = Append(@, [visit |-> visit, output |-> output])]
        /\ UNCHANGED head
     \/ /\ ~Live
        /\ head' = [head EXCEPT !.outputs = Append(@, [visit |-> visit, value |-> output.value])]
        /\ UNCHANGED tape
  /\ UNCHANGED <<mode, stage, visit, stageVars, output, outcome, missed>>

\* run_completed after an exit stage, or the next transition.
Leave ==
  /\ pc = "after"
  /\ LET to == Goto[stage][output.value]
     IN \/ /\ stage \in Exits
           /\ Emits(<< <<"run_completed">> >>, {})
           /\ outcome' = [outcome EXCEPT ![mode] = "complete"]
           /\ pc' = "ended"
           /\ UNCHANGED stage
        \/ /\ stage \notin Exits /\ to = "none"
           /\ Fail(<<>>, {})
           /\ UNCHANGED stage
        \/ /\ stage \notin Exits /\ to # "none"
           /\ Emits(<<Key("transition_selected", to)>>, {})
           /\ stage' = to
           /\ pc' = "loop"
           /\ UNCHANGED outcome
  /\ UNCHANGED <<mode, visit, stageVars, output, tape, head, missed>>

ReplayStep ==
  \/ EnterStage \/ ModelRaises \/ (\E a \in Offered : ModelAnswers(a)) 
  \/ RefuseStubs \/ ServeResponse \/ MissResponse
  \/ Dispatch \/ CheckPolicy \/ CallTool \/ ServeFixture
  \/ OutputInvalid \/ CompleteStage \/ Leave \/ Unlock

ReplayNext == ReplayStep \/ (Over /\ UNCHANGED replayVars)

ReplaySpec == ReplayInit /\ [][ReplayNext]_replayVars

\* Every call of the live run ends, and the replay is awaited by its caller.
ReplayFairSpec == ReplaySpec /\ WF_replayVars(ReplayStep)
-----------------------------------------------------------------------------
(* The comparison: _compare_paths and the statuses.                        *)

SameOutput(snap) ==
  \E i \in DOMAIN head.outputs :
    /\ head.outputs[i].visit = snap.visit
    /\ snap.output.masked \/ head.outputs[i].value = snap.output.value

Matched ==
  /\ replayed = ledger
  /\ \A i \in DOMAIN tape.snapshots : SameOutput(tape.snapshots[i])
  /\ outcome.live = outcome.replay

-----------------------------------------------------------------------------
(* Properties.                                                             *)

(* Every variable has its type.                                            *)
ReplayTypeOK ==
  /\ mode \in {"live", "replay"}
  /\ pc \in {"loop", "asking", "dispatch", "policy", "tool", "returned", "after", "ended"}
  /\ stage \in Stages
  /\ visit \in 0 .. MaxSteps /\ retries \in 0 .. MaxRetries /\ rounds \in 0 .. MaxRounds
  /\ answer \in Answers
  /\ output \in [value : Values \union {Hidden}, masked : BOOLEAN]
  /\ outcome \in [{"live", "replay"} -> {"none", "complete", "failed"}]
  /\ missed \in BOOLEAN
  /\ flaws \subseteq {"aliased", "malformed", "unavailable", "arguments", "secret",
                      "late_failure", "omitted"}

\* Every tool the model called properly has succeeded once, so that the replay
\* knows its name.
CallsNamed ==
  \A i \in DOMAIN tape.responses :
    LET a == tape.responses[i].answer
    IN a.kind = "call" /\ a.good /\ a.tool \in Allows[tape.responses[i].stage] => Named(a.tool)

\* No stage would find its stubs unusable.
StubsUsable == \A s \in Stages : ~Unusable(s)

(* A run with none of the known flaws, whose tools were all named and whose  *)
(* stubs can be offered to a model, is reproduced by its archive: with       *)
(* invalid outputs, unknown tools, denials, tool errors and retries, to the  *)
(* last milestone, output and outcome.                                       *)
FaithfulReplay == Over /\ flaws = {} /\ CallsNamed /\ StubsUsable => Matched

(* A replay stays within its types and budgets and, with none of the known    *)
(* flaws, is the run again (replay_trace).                                    *)
ReplayIsFaithful == ReplayTypeOK /\ FaithfulReplay

(* A match is no coincidence: every fixture went to the visit and the tool   *)
(* it was recorded for although they are served by order alone, none was     *)
(* left or missing, and every response of a completed visit was used.        *)
MatchedIsSameRun ==
  Over /\ Matched =>
    /\ head.served = [i \in DOMAIN tape.fixtures |->
                        [visit |-> tape.fixtures[i].visit, tool |-> tape.fixtures[i].tool,
                         fixture |-> i]]
    /\ \A s \in Stages : Waiting(s) = {}

(* The replay of any archive ends: it never waits for a live answer, and the *)
(* budgets bound it even where it leaves the recorded path.                  *)
ReplayEnds == <>Over

(* replay_trace promises that any fixture miss yields matched=False.         *)
FixtureMissReported == Over /\ missed => ~Matched

(* The runtime promises that with a taped outcome order and milestones match *)
(* the live run exactly.                                                     *)
TapedChecksMatch ==
  [][flaws \subseteq {"unavailable"} /\ head'.checked # head.checked /\ IsPrefix(replayed, ledger)
       => IsPrefix(replayed', ledger)]_replayVars

(* A text that is no path is kept as it is: where the process works does not *)
(* decide whether its run replays.                                           *)
WorkdirIrrelevant ==
  Over /\ flaws \subseteq {"aliased"} /\ CallsNamed /\ StubsUsable => Matched
=============================================================================
