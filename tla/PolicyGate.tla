----------------------------- MODULE PolicyGate -----------------------------
(***************************************************************************)
(* The gate every tool call of a stage goes through:                       *)
(* WorkflowRuntime._enforce_and_call. The policies on the capability are   *)
(* read twice in manifest order, first for its deny conditions and then    *)
(* for the capabilities a "before" policy requires; each required          *)
(* capability goes through the gate itself, before the handler runs.       *)
(*                                                                         *)
(* The recursion is a stack of frames, one for each activation of          *)
(* _enforce_and_call_with_policies. Arguments are abstracted: binding them *)
(* or evaluating a condition on them gives any outcome.                    *)
(***************************************************************************)
EXTENDS Naturals, Sequences

CONSTANTS
  Caps,          \* capability ids
  Confirm,       \* user.confirm
  StageRequires, \* stage.requires: what the stage's executor may call
  Policies,      \* _policies_by_trigger: per capability, in manifest order
  MaxCalls,      \* bound on the calls the executor makes
  TapeLength     \* bound on the outcomes a policy's tape holds

\* "conditional" is FALSE for a policy without a condition.
Policy == [kind : {"deny", "before"}, conditional : BOOLEAN, requires : Seq(Caps)]

ASSUME GateAssumption ==
  /\ Confirm \in Caps
  /\ StageRequires \subseteq Caps
  /\ Policies \in [Caps -> Seq(Policy)]
  /\ MaxCalls \in Nat
  /\ TapeLength \in Nat

VARIABLES
  stack,     \* the activations: stack[1] is the executor's call
  tape,      \* the taped outcomes left, per policy: all empty in a live run
  events,    \* the milestones emitted for this call
  evidence,  \* the policy evaluations recorded for this call
  result,    \* how the last call ended, "none" while it is under way
  calls      \* the calls made

gateVars == <<stack, tape, events, evidence, result, calls>>

Outcomes == {"allowed", "denied"}
Results == {"none", "returned", "missing_capability", "policy_denied",
            "policy_evaluation", "tool_error", "aborted"}

\* A policy's id: the capability that triggers it and its place there.
PolicyIds == UNION {{c} \X DOMAIN Policies[c] : c \in Caps}

\* The last two fields are history: the deny policies of this activation that
\* were found to allow, the requirements <<policy, place>> that were met.
Frame == [cap : Caps, allow_before : BOOLEAN,
          phase : {"deny", "before", "require", "declined", "refused",
                   "ready", "running"},
          next : Nat \ {0}, req : Nat \ {0},
          verdict : Outcomes \union {"none", "unavailable"},
          allowed : SUBSET Nat, met : SUBSET (Nat \X Nat)]

Activation(cap, before) ==
  [cap |-> cap, allow_before |-> before, phase |-> "deny", next |-> 1, req |-> 1,
   verdict |-> "none", allowed |-> {}, met |-> {}]

Busy == stack # <<>>
Top == stack[Len(stack)]
TopPolicy == Policies[Top.cap][Top.next]
TopId == <<Top.cap, Top.next>>

\* The two loops pick their policies by kind. A deny policy without a condition
\* is picked by neither.
Applies ==
  \/ Top.phase = "deny" /\ TopPolicy.kind = "deny" /\ TopPolicy.conditional
  \/ Top.phase = "before" /\ TopPolicy.kind = "before" /\ Top.allow_before

InLoop ==
  /\ Busy /\ Top.phase \in {"deny", "before"} /\ Top.verdict = "none"

AtPolicy == InLoop /\ Top.next <= Len(Policies[Top.cap])

\* The depth is history: the event names the capability alone.
Milestone(kind) == events' = Append(events, <<kind, Top.cap, Len(stack)>>)
Record(id, outcome) == evidence' = Append(evidence, <<id, outcome>>)

\* The call is over. An exception leaves every activation: none catches it.
Leave(r) ==
  /\ stack' = <<>>
  /\ result' = r

Goto(frame) ==
  /\ stack' = [stack EXCEPT ![Len(stack)] = frame]
  /\ UNCHANGED result

-----------------------------------------------------------------------------

GateInit ==
  /\ stack = <<>>
  /\ tape \in [PolicyIds -> UNION {[1 .. n -> Outcomes] : n \in 0 .. TapeLength}]
  /\ events = <<>>
  /\ evidence = <<>>
  /\ result = "returned"
  /\ calls = 0

\* ctx.call_tool(cap, ...)
Call(cap) ==
  /\ ~Busy /\ calls < MaxCalls
  /\ calls' = calls + 1
  /\ events' = <<>>
  /\ evidence' = <<>>
  /\ \/ /\ cap \in StageRequires
        /\ stack' = <<Activation(cap, TRUE)>>
        /\ result' = "none"
     \/ /\ cap \notin StageRequires
        /\ result' = "missing_capability"
        /\ UNCHANGED stack
  /\ UNCHANGED tape

\* Faulty variant of PassOver: the loop looks at the same policy again.
PassOver_Stays ==
  /\ AtPolicy /\ ~Applies
  /\ Goto(Top)
  /\ UNCHANGED <<tape, events, evidence, calls>>

PassOver ==
  /\ AtPolicy /\ ~Applies
  /\ Goto([Top EXCEPT !.next = @ + 1])
  /\ UNCHANGED <<tape, events, evidence, calls>>

LoopEnds ==
  /\ InLoop /\ Top.next > Len(Policies[Top.cap])
  /\ \/ Top.phase = "deny"   /\ Goto([Top EXCEPT !.phase = "before", !.next = 1])
     \/ Top.phase = "before" /\ Goto([Top EXCEPT !.phase = "ready"])
  /\ UNCHANGED <<tape, events, evidence, calls>>

\* _bind_trigger_args misses an argument, or the condition raises anything but
\* DataUnavailableError: before any milestone.
BindFails ==
  /\ AtPolicy /\ Applies
  /\ Leave("policy_evaluation")
  /\ UNCHANGED <<tape, events, evidence, calls>>

\* The outcome of a deny policy: the head of its tape, popped, while there is
\* one, and otherwise that of its condition.
CheckDeny ==
  /\ AtPolicy /\ Applies /\ Top.phase = "deny"
  /\ \/ /\ tape[TopId] # <<>>
        /\ Goto([Top EXCEPT !.verdict = Head(tape[TopId])])
        /\ tape' = [tape EXCEPT ![TopId] = Tail(@)]
     \/ /\ tape[TopId] = <<>>
        /\ \E verdict \in Outcomes \union {"unavailable"} :
             Goto([Top EXCEPT !.verdict = verdict])
        /\ UNCHANGED tape
  /\ Milestone("policy_checked")
  /\ UNCHANGED <<evidence, calls>>

\* Faulty variant of Conclude: missing data allows the call.
Conclude_FailOpen ==
  /\ Busy /\ Top.phase = "deny" /\ Top.verdict # "none"
  /\ Record(TopId, IF Top.verdict = "denied" THEN "denied" ELSE "allowed")
  /\ \/ /\ Top.verdict = "allowed"
        /\ Goto([Top EXCEPT !.verdict = "none", !.next = @ + 1,
                            !.allowed = @ \union {Top.next}])
        /\ UNCHANGED events
     \/ /\ Top.verdict = "unavailable"
        /\ Goto([Top EXCEPT !.verdict = "none", !.next = @ + 1])
        /\ UNCHANGED events
     \/ /\ Top.verdict = "denied"
        /\ Goto([Top EXCEPT !.phase = "refused", !.verdict = "none"])
        /\ Milestone("policy_denied")
  /\ UNCHANGED <<tape, calls>>

\* After the milestone: record the outcome and go on, raise or refuse.
Conclude ==
  /\ Busy /\ Top.phase = "deny" /\ Top.verdict # "none"
  /\ Record(TopId, IF Top.verdict = "allowed" THEN "allowed" ELSE "denied")
  /\ \/ /\ Top.verdict = "allowed"
        /\ Goto([Top EXCEPT !.verdict = "none", !.next = @ + 1,
                            !.allowed = @ \union {Top.next}])
        /\ UNCHANGED events
     \/ /\ Top.verdict = "unavailable"
        /\ Leave("policy_evaluation")
        /\ UNCHANGED events
     \/ /\ Top.verdict = "denied"
        /\ Goto([Top EXCEPT !.phase = "refused", !.verdict = "none"])
        /\ Milestone("policy_denied")
  /\ UNCHANGED <<tape, calls>>

\* Faulty variant of Refuse: consent refused is not recorded.
Refuse_Unrecorded ==
  /\ Busy /\ Top.phase = "refused"
  /\ Leave("policy_denied")
  /\ UNCHANGED <<tape, events, evidence, calls>>

\* policy_denied is out. The consent loop records its refusal only now.
Refuse ==
  /\ Busy /\ Top.phase = "refused"
  /\ Leave("policy_denied")
  /\ \/ TopPolicy.kind = "before" /\ Record(TopId, "denied")
     \/ TopPolicy.kind = "deny"   /\ UNCHANGED evidence
  /\ UNCHANGED <<tape, events, calls>>

EnterBefore ==
  /\ AtPolicy /\ Applies /\ Top.phase = "before"
  /\ Goto([Top EXCEPT !.phase = "require", !.req = 1])
  /\ Milestone("policy_checked")
  /\ UNCHANGED <<tape, evidence, calls>>

\* _resolve_required_args or _check_required_args_present raises.
RequiredArgsFail ==
  /\ Busy /\ Top.phase = "require" /\ Top.req <= Len(TopPolicy.requires)
  /\ Leave("policy_evaluation")
  /\ UNCHANGED <<tape, events, evidence, calls>>

\* _enforce_policy_call: the deny policies of the required capability apply, its
\* "before" policies do not, and stage.requires is not consulted.
CallRequired ==
  /\ Busy /\ Top.phase = "require" /\ Top.req <= Len(TopPolicy.requires)
  /\ stack' = Append(stack, Activation(TopPolicy.requires[Top.req], FALSE))
  /\ UNCHANGED <<tape, events, evidence, result, calls>>

PassBefore ==
  /\ Busy /\ Top.phase = "require" /\ Top.req > Len(TopPolicy.requires)
  /\ Goto([Top EXCEPT !.phase = "before", !.next = @ + 1])
  /\ Record(TopId, "allowed")
  /\ UNCHANGED <<tape, events, calls>>

StartTool ==
  /\ Busy /\ Top.phase = "ready"
  /\ Goto([Top EXCEPT !.phase = "running"])
  /\ Milestone("tool_call_started")
  /\ UNCHANGED <<tape, evidence, calls>>

-----------------------------------------------------------------------------

\* The executor's own call: its result is handed back.
ToolReturns ==
  /\ Len(stack) = 1 /\ Top.phase = "running"
  /\ Milestone("tool_call_completed")
  /\ Leave("returned")
  /\ UNCHANGED <<tape, evidence, calls>>

Outer == stack[Len(stack) - 1]
Met(f) == [f EXCEPT !.req = @ + 1, !.met = @ \union {<<f.next, f.req>>}]

\* Faulty variant of RequiredReturns: any answer is taken for a yes.
RequiredReturns_IgnoresAnswer(no) ==
  /\ Len(stack) > 1 /\ Top.phase = "running"
  /\ no => Top.cap = Confirm
  /\ stack' = Append(SubSeq(stack, 1, Len(stack) - 2),
       [Outer EXCEPT !.req = @ + 1,
                     !.met = IF no THEN @ ELSE @ \union {<<Outer.next, Outer.req>>}])
  /\ Milestone("tool_call_completed")
  /\ UNCHANGED <<tape, evidence, result, calls>>

\* A required call returns. Only a False from user.confirm refuses the call.
RequiredReturns(no) ==
  /\ Len(stack) > 1 /\ Top.phase = "running"
  /\ no => Top.cap = Confirm
  /\ stack' = Append(SubSeq(stack, 1, Len(stack) - 2),
                     IF no THEN [Outer EXCEPT !.phase = "declined"] ELSE Met(Outer))
  /\ Milestone("tool_call_completed")
  /\ UNCHANGED <<tape, evidence, result, calls>>

Decline ==
  /\ Busy /\ Top.phase = "declined"
  /\ Goto([Top EXCEPT !.phase = "refused"])
  /\ Milestone("policy_denied")
  /\ UNCHANGED <<tape, evidence, calls>>

\* Faulty variant of ToolFails: no milestone.
ToolFails_Silent ==
  /\ Busy /\ Top.phase = "running"
  /\ Leave("tool_error")
  /\ UNCHANGED <<tape, events, evidence, calls>>

\* The handler raises an Exception: it goes to the executor through every
\* activation.
ToolFails ==
  /\ Busy /\ Top.phase = "running"
  /\ Milestone("tool_call_failed")
  /\ Leave("tool_error")
  /\ UNCHANGED <<tape, evidence, calls>>

\* The live sink raises on a milestone, or the task is cancelled in the sink or
\* in the handler. A milestone reaches the ledger before the sink.
Abort ==
  /\ Busy /\ events # <<>>
  /\ Leave("aborted")
  /\ UNCHANGED <<tape, events, evidence, calls>>

GateDone == ~Busy /\ calls = MaxCalls /\ UNCHANGED gateVars

Loops == PassOver \/ LoopEnds \/ BindFails \/ CheckDeny \/ Conclude \/ Refuse

Required == EnterBefore \/ RequiredArgsFail \/ CallRequired \/ PassBefore

Handler ==
  \/ StartTool
  \/ ToolReturns
  \/ \E no \in BOOLEAN : RequiredReturns(no)
  \/ Decline
  \/ ToolFails

GateStep == Loops \/ Required \/ Handler

GateNext == GateStep \/ Abort \/ (\E cap \in Caps : Call(cap)) \/ GateDone

GateSpec == GateInit /\ [][GateNext]_gateVars

\* The event loop runs the coroutine; handlers and the sink end in the end.
\* Nothing obliges anyone to abort a call.
GateFairSpec == GateSpec /\ WF_gateVars(GateStep)

-----------------------------------------------------------------------------
(* Properties.                                                             *)

DenyOf(cap) == {i \in DOMAIN Policies[cap] :
                  Policies[cap][i].kind = "deny" /\ Policies[cap][i].conditional}
BeforeOf(cap) == {i \in DOMAIN Policies[cap] : Policies[cap][i].kind = "before"}

(* Every variable has its type; a required call never requires another one.  *)
GateTypeOK ==
  /\ stack \in Seq(Frame) /\ Len(stack) <= 2
  /\ tape \in [PolicyIds -> Seq(Outcomes)]
  /\ events \in Seq({"policy_checked", "policy_denied", "tool_call_started",
                     "tool_call_completed", "tool_call_failed"} \X Caps \X Nat)
  /\ evidence \in Seq(PolicyIds \X Outcomes)
  /\ result \in Results
  /\ calls \in 0 .. MaxCalls

Cleared(f) == DenyOf(f.cap) \subseteq f.allowed
Served(f) == \A i \in BeforeOf(f.cap) :
               \A j \in DOMAIN Policies[f.cap][i].requires : <<i, j>> \in f.met

(* No handler runs unguarded: every conditional deny policy on its           *)
(* capability allowed this very call, and before the executor's own call     *)
(* every required capability ran and no person asked answered no.            *)
GuardedCall ==
  \A n \in DOMAIN stack : stack[n].phase = "running" =>
    Cleared(stack[n]) /\ (n = 1 => Served(stack[n]))

(* A required capability runs, and a person is asked, only for a call that   *)
(* all deny policies allow: consent is never sought for a forbidden call.    *)
AskedOnlyIfAllowed ==
  \A n \in DOMAIN stack : n < Len(stack) => Cleared(stack[n])

Started(depth) == \E n \in DOMAIN events :
                    events[n][1] = "tool_call_started" /\ events[n][3] = depth

(* A call that is refused, for whatever reason, never reached its handler,   *)
(* and a call that returns or fails in its tool did.                         *)
RefusedNeverRuns ==
  /\ result \in {"missing_capability", "policy_denied"} => ~Started(1)
  /\ result = "policy_evaluation" => ~Started(1)
  /\ result = "returned" /\ calls > 0 => Started(1)

(* The gate holds on both sides: what runs was let through, and what was not  *)
(* let through did not run (_enforce_and_call_with_policies).                 *)
GateHolds == GateTypeOK /\ GuardedCall /\ RefusedNeverRuns

(* Every tool_call_started in the ledger is followed by its own end, unless  *)
(* the run was cut off in the handler or in a sink: handlers never overlap.  *)
EveryStartHasItsEnd ==
  \A n \in DOMAIN events : events[n][1] = "tool_call_started" =>
    \/ /\ n < Len(events)
       /\ events[n + 1] \in {<<"tool_call_completed", events[n][2], events[n][3]>>,
                             <<"tool_call_failed", events[n][2], events[n][3]>>}
    \/ n = Len(events) /\ (Busy \/ result = "aborted")

Recorded(id, outcome) == \E n \in DOMAIN evidence : evidence[n] = <<id, outcome>>

(* The recorded evidence explains the result: the executor's handler runs    *)
(* with an "allowed" for each of its policies and no "denied" for any, and   *)
(* a refusal leaves a "denied".                                              *)
EvidenceAgrees ==
  /\ Busy /\ stack[1].phase = "running" =>
       /\ \A i \in DenyOf(stack[1].cap) \union BeforeOf(stack[1].cap) :
            Recorded(<<stack[1].cap, i>>, "allowed")
       /\ \A id \in PolicyIds : ~Recorded(id, "denied")
  /\ result = "policy_denied" => \E id \in PolicyIds : Recorded(id, "denied")

(* Every call gets its answer: policies that require each other's            *)
(* capabilities never call in circles.                                       *)
Answers == Busy ~> ~Busy
=============================================================================
