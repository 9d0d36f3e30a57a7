-------------------------- MODULE PolicyGate_proofs --------------------------
(* Theorems about PolicyGate, for every set of capabilities, every list of   *)
(* policies and every tape: no handler runs unguarded, consent is asked only *)
(* for a call that is allowed, a refused call never ran, starts have their   *)
(* ends, and the recorded evidence explains the result.                      *)
EXTENDS PolicyGate, SequenceTheorems, TLAPS

-----------------------------------------------------------------------------
(* The inductive invariant: what each activation's place in the code says    *)
(* about the checks behind it.                                               *)

ServedBefore(f, next) ==
  \A i \in BeforeOf(f.cap) : i < next =>
    \A j \in DOMAIN Policies[f.cap][i].requires : <<i, j>> \in f.met

AtDeny(f) ==
  /\ f.phase = "deny"
  /\ \A i \in DenyOf(f.cap) : i < f.next => i \in f.allowed
  /\ f.verdict # "none" => f.next \in DenyOf(f.cap)

AtBefore(f) ==
  /\ f.phase = "before" /\ f.verdict = "none" /\ Cleared(f)
  /\ f.allow_before => ServedBefore(f, f.next)

AtRequire(f) ==
  /\ f.phase = "require" /\ f.verdict = "none" /\ Cleared(f)
  /\ f.allow_before /\ f.next \in BeforeOf(f.cap)
  /\ ServedBefore(f, f.next)
  /\ \A j \in DOMAIN Policies[f.cap][f.next].requires : j < f.req => <<f.next, j>> \in f.met

AtRefusal(f) ==
  /\ f.phase \in {"declined", "refused"} /\ f.verdict = "none"
  /\ f.next \in DOMAIN Policies[f.cap]

AtTool(f) ==
  /\ f.phase \in {"ready", "running"} /\ f.verdict = "none" /\ Cleared(f)
  /\ f.allow_before => Served(f)

FrameInv(f) == AtDeny(f) \/ AtBefore(f) \/ AtRequire(f) \/ AtRefusal(f) \/ AtTool(f)

\* Only the executor's activation enforces "before" policies, so only it can be
\* waiting for another.
StackInv ==
  /\ stack \in Seq(Frame)
  /\ Len(stack) <= 2
  /\ \A n \in DOMAIN stack : FrameInv(stack[n])
  /\ \A n \in DOMAIN stack : stack[n].allow_before <=> n = 1
  /\ \A n \in DOMAIN stack : n < Len(stack) =>
       /\ AtRequire(stack[n])
       /\ stack[n].req <= Len(Policies[stack[n].cap][stack[n].next].requires)

RestInv ==
  /\ tape \in [PolicyIds -> Seq(Outcomes)]
  /\ events \in Seq({"policy_checked", "policy_denied", "tool_call_started",
                     "tool_call_completed", "tool_call_failed"} \X Caps \X Nat)
  /\ evidence \in Seq(PolicyIds \X Outcomes)
  /\ result \in Results
  /\ calls \in 0 .. MaxCalls

GateIInv == StackInv /\ RestInv

-----------------------------------------------------------------------------
(* What the stack operations preserve.                                       *)

(* The places of a sequence are numbers.                                     *)
LEMMA PlaceType ==
  ASSUME NEW S, NEW s \in Seq(S), NEW i \in DOMAIN s
  PROVE  i \in Nat
  OBVIOUS

(* Stacks of one and of two activations.                                     *)
LEMMA OneFrame ==
  ASSUME NEW f \in Frame
  PROVE  <<f>> \in Seq(Frame) /\ Len(<<f>>) = 1 /\ <<f>>[1] = f /\ DOMAIN <<f>> = {1}
  OBVIOUS

LEMMA TwoFrames ==
  ASSUME NEW s \in Seq(Frame), Len(s) = 1, NEW f \in Frame
  PROVE  /\ Append(s, f) \in Seq(Frame) /\ Len(Append(s, f)) = 2
         /\ Append(s, f)[1] = s[1] /\ Append(s, f)[2] = f /\ DOMAIN Append(s, f) = {1, 2}
<1>1. Append(s, f) \in Seq(Frame) /\ Len(Append(s, f)) = 2
  <2>1. Append(s, f) \in Seq(Frame) /\ Len(Append(s, f)) = Len(s) + 1
    BY AppendProperties
  <2> QED
    BY <2>1
<1>2. Append(s, f)[1] = s[1] /\ Append(s, f)[2] = f
  <2>1. Append(s, f)[1] = s[1]
    OBVIOUS
  <2>2. Append(s, f)[Len(s) + 1] = f
    BY AppendProperties, Zenon
  <2>3. Len(s) + 1 = 2
    OBVIOUS
  <2> QED
    BY <2>1, <2>2, <2>3, Zenon
<1>3. DOMAIN Append(s, f) = 1 .. 2
  BY <1>1, LenProperties
<1>4. 1 .. 2 = {1, 2}
  OBVIOUS
<1> QED
  BY <1>1, <1>2, <1>3, <1>4

(* The activation on top of a stack that satisfies the invariant.            *)
LEMMA TopInv ==
  ASSUME StackInv, Busy
  PROVE  /\ Len(stack) \in {1, 2} /\ Len(stack) \in Nat
         /\ Top \in Frame
         /\ FrameInv(Top)
         /\ Top.allow_before <=> Len(stack) = 1
         /\ Policies[Top.cap] \in Seq(Policy)
<1>1. Len(stack) \in {1, 2}
  <2>1. stack \in Seq(Frame) /\ stack # <<>> /\ Len(stack) <= 2
    BY DEF StackInv, Busy
  <2>2. Len(stack) \in Nat /\ Len(stack) # 0
    BY <2>1, EmptySeq
  <2>3. \A n \in Nat : n # 0 /\ n <= 2 => n \in {1, 2}
    OBVIOUS
  <2> QED
    BY <2>1, <2>2, <2>3
<1>2. Len(stack) \in DOMAIN stack /\ Top \in Frame
  <2>1. stack \in Seq(Frame)
    BY DEF StackInv
  <2>2. Len(stack) \in 1 .. Len(stack)
    BY <1>1
  <2> QED
    BY <2>1, <2>2, LenProperties, ElementOfSeq DEF Top
<1>3. FrameInv(Top) /\ (Top.allow_before <=> Len(stack) = 1)
  BY <1>2 DEF StackInv, Top
<1>4. Policies[Top.cap] \in Seq(Policy)
  BY <1>2, GateAssumption DEF GateAssumption, Frame
<1> QED
  BY <1>1, <1>2, <1>3, <1>4

(* A policy of an activation is a policy, and its id is one.                 *)
LEMMA PolicyType ==
  ASSUME NEW f \in Frame, f.next \in DOMAIN Policies[f.cap]
  PROVE  /\ Policies[f.cap][f.next] \in Policy
         /\ <<f.cap, f.next>> \in PolicyIds
<1>1. f.cap \in Caps /\ Policies[f.cap] \in Seq(Policy)
  BY GateAssumption DEF GateAssumption, Frame
<1>2. <<f.cap, f.next>> \in {f.cap} \X DOMAIN Policies[f.cap]
  OBVIOUS
<1> QED
  BY <1>1, <1>2 DEF PolicyIds

(* From what holds of the activations of a new stack to the invariant.       *)
LEMMA StackInvIntro ==
  ASSUME stack' \in Seq(Frame), Len(stack') <= 2,
         \A n \in DOMAIN stack' : FrameInv(stack'[n]),
         \A n \in DOMAIN stack' : stack'[n].allow_before <=> n = 1,
         \A n \in DOMAIN stack' : n < Len(stack') =>
           /\ AtRequire(stack'[n])
           /\ stack'[n].req <= Len(Policies[stack'[n].cap][stack'[n].next].requires)
  PROVE  StackInv'
  BY DEF StackInv, FrameInv, AtDeny, AtBefore, AtRequire, AtRefusal, AtTool, Cleared,
         Served, ServedBefore

LEMMA OneFrameInv ==
  ASSUME NEW f \in Frame, FrameInv(f), f.allow_before, stack' = <<f>>
  PROVE  StackInv'
<1>1. /\ stack' \in Seq(Frame) /\ Len(stack') = 1 /\ stack'[1] = f /\ DOMAIN stack' = {1}
  BY OneFrame
<1>2. \A n \in DOMAIN stack' : FrameInv(stack'[n])
  BY <1>1
<1>3. \A n \in DOMAIN stack' : stack'[n].allow_before <=> n = 1
  BY <1>1
<1>4. \A n \in DOMAIN stack' : ~(n < Len(stack'))
  BY <1>1
<1> QED
  BY <1>1, <1>2, <1>3, <1>4, StackInvIntro

(* Replacing the top activation.                                             *)
LEMMA GotoInv ==
  ASSUME StackInv, RestInv, Busy, NEW f \in Frame, FrameInv(f),
         f.allow_before = Top.allow_before, Goto(f)
  PROVE  StackInv' /\ result' \in Results
<1>1. Len(stack) \in {1, 2} /\ DOMAIN stack = 1 .. Len(stack)
  BY TopInv DEF StackInv
<1>2. stack' \in Seq(Frame) /\ Len(stack') = Len(stack) /\ DOMAIN stack' = DOMAIN stack
  BY <1>1 DEF StackInv, Goto
<1>3. /\ stack'[Len(stack)] = f
      /\ \A n \in DOMAIN stack : n # Len(stack) => stack'[n] = stack[n]
  BY <1>1 DEF StackInv, Goto
<1>4. \A n \in DOMAIN stack' : FrameInv(stack'[n])
  BY <1>1, <1>2, <1>3 DEF StackInv
<1>5. \A n \in DOMAIN stack' : stack'[n].allow_before <=> n = 1
  BY <1>1, <1>2, <1>3 DEF StackInv, Top
<1>6. \A n \in DOMAIN stack' : n < Len(stack') =>
        /\ AtRequire(stack'[n])
        /\ stack'[n].req <= Len(Policies[stack'[n].cap][stack'[n].next].requires)
  BY <1>1, <1>2, <1>3 DEF StackInv
<1> QED
  BY <1>1, <1>2, <1>4, <1>5, <1>6, StackInvIntro DEF StackInv, RestInv, Goto

(* The end of a call.                                                        *)
LEMMA LeaveInv ==
  ASSUME NEW r \in Results, Leave(r)
  PROVE  StackInv' /\ result' \in Results
<1>1. stack' = <<>> /\ <<>> \in Seq(Frame) /\ Len(<<>>) = 0 /\ DOMAIN <<>> = {}
  BY DEF Leave
<1> QED
  BY <1>1 DEF StackInv, Leave

(* An activation starts before the first of its policies.                    *)
LEMMA FreshInv ==
  ASSUME NEW cap \in Caps, NEW before \in BOOLEAN
  PROVE  /\ Activation(cap, before) \in Frame
         /\ FrameInv(Activation(cap, before))
         /\ Activation(cap, before).allow_before = before
<1>1. Activation(cap, before) \in Frame
  BY DEF Activation, Frame
<1>2. \A i \in DenyOf(cap) : i \in Nat /\ i >= 1
  BY GateAssumption DEF DenyOf, GateAssumption
<1>3. AtDeny(Activation(cap, before))
  BY <1>2 DEF Activation, AtDeny
<1> QED
  BY <1>1, <1>3 DEF FrameInv, Activation

(* Emitting a milestone.                                                     *)
LEMMA MilestoneType ==
  ASSUME StackInv, RestInv, Busy,
         NEW kind \in {"policy_checked", "policy_denied", "tool_call_started",
                       "tool_call_completed", "tool_call_failed"},
         Milestone(kind)
  PROVE  events' \in Seq({"policy_checked", "policy_denied", "tool_call_started",
                          "tool_call_completed", "tool_call_failed"} \X Caps \X Nat)
<1>1. Top.cap \in Caps /\ Len(stack) \in Nat
  BY TopInv DEF Frame
<1>2. <<kind, Top.cap, Len(stack)>> \in
        {"policy_checked", "policy_denied", "tool_call_started",
         "tool_call_completed", "tool_call_failed"} \X Caps \X Nat
  BY <1>1
<1> QED
  BY <1>2 DEF Milestone, RestInv

(* Recording a policy of the top activation.                                 *)
LEMMA RecordType ==
  ASSUME RestInv, NEW id \in PolicyIds, NEW outcome \in Outcomes, Record(id, outcome)
  PROVE  evidence' \in Seq(PolicyIds \X Outcomes)
<1>1. <<id, outcome>> \in PolicyIds \X Outcomes
  OBVIOUS
<1> QED
  BY <1>1 DEF Record, RestInv

-----------------------------------------------------------------------------
(* Every step preserves the invariant.                                       *)

LEMMA InitInv == GateInit => GateIInv
<1> SUFFICES ASSUME GateInit PROVE GateIInv
  OBVIOUS
<1>1. StackInv
  BY DEF GateInit, StackInv
<1>2. \A t \in UNION {[1 .. n -> Outcomes] : n \in 0 .. TapeLength} : t \in Seq(Outcomes)
  BY GateAssumption DEF GateAssumption
<1>3. tape \in [PolicyIds -> Seq(Outcomes)]
  BY <1>2 DEF GateInit
<1> QED
  BY <1>1, <1>3, GateAssumption DEF GateInit, GateIInv, RestInv, Results, GateAssumption

LEMMA LoopsInv == GateIInv /\ Loops => GateIInv'
<1> SUFFICES ASSUME GateIInv, Loops PROVE GateIInv'
  OBVIOUS
<1> USE DEF GateIInv
<1>1. Busy
  BY DEF Loops, PassOver, LoopEnds, BindFails, CheckDeny, Conclude, Refuse, AtPolicy, InLoop
<1>2. Top \in Frame /\ FrameInv(Top) /\ Policies[Top.cap] \in Seq(Policy) /\ Top.cap \in Caps
  BY <1>1, TopInv DEF Frame
<1>3. CASE PassOver
  <2> DEFINE f == [Top EXCEPT !.next = @ + 1]
  <2>1. f \in Frame /\ f.allow_before = Top.allow_before
    BY <1>2 DEF Frame
  <2>2. CASE Top.phase = "deny"
    <3>1. Top.next \notin DenyOf(Top.cap)
      BY <1>2, <1>3, <2>2 DEF PassOver, Applies, TopPolicy, DenyOf
    <3>2. AtDeny(f)
      BY <1>2, <1>3, <2>2, <3>1
         DEF PassOver, AtPolicy, InLoop, FrameInv, AtDeny, AtBefore, AtRequire, AtRefusal,
             AtTool, Frame, DenyOf
    <3> QED
      BY <1>1, <1>3, <2>1, <3>2, GotoInv DEF FrameInv, PassOver, RestInv
  <2>3. CASE Top.phase = "before"
    <3>1. Top.allow_before => Top.next \notin BeforeOf(Top.cap)
      BY <1>2, <1>3, <2>3 DEF PassOver, Applies, TopPolicy, BeforeOf
    <3>2. AtBefore(Top)
      BY <1>2, <2>3 DEF FrameInv, AtDeny, AtBefore, AtRequire, AtRefusal, AtTool
    <3>3. Cleared(f)
      BY <1>2, <3>2 DEF AtBefore, Cleared, Frame
    <3>4. f.allow_before => ServedBefore(f, f.next)
      BY <1>2, <3>1, <3>2 DEF AtBefore, ServedBefore, BeforeOf, Frame
    <3>5. AtBefore(f)
      BY <1>2, <3>2, <3>3, <3>4 DEF AtBefore, Frame
    <3> QED
      BY <1>1, <1>3, <2>1, <3>5, GotoInv DEF FrameInv, PassOver, RestInv
  <2> QED
    BY <1>3, <2>2, <2>3 DEF PassOver, AtPolicy, InLoop
<1>4. CASE LoopEnds
  <2>1. CASE Top.phase = "deny"
    <3> DEFINE f == [Top EXCEPT !.phase = "before", !.next = 1]
    <3>1. f \in Frame /\ f.allow_before = Top.allow_before
      <4>1. 1 \in Nat \ {0}
        OBVIOUS
      <4> QED
        BY <1>2, <4>1 DEF Frame
    <3>2. AtDeny(Top)
      BY <1>2, <2>1 DEF FrameInv, AtDeny, AtBefore, AtRequire, AtRefusal, AtTool
    <3>3. Cleared(f)
      BY <1>2, <1>4, <3>2 DEF LoopEnds, AtDeny, Cleared, DenyOf, Frame
    <3>4. AtBefore(f)
      BY <1>2, <1>4, <3>3 DEF LoopEnds, InLoop, AtBefore, ServedBefore, BeforeOf, Frame
    <3> QED
      BY <1>1, <1>4, <2>1, <3>1, <3>4, GotoInv DEF FrameInv, LoopEnds, RestInv
  <2>2. CASE Top.phase = "before"
    <3> DEFINE f == [Top EXCEPT !.phase = "ready"]
    <3>1. f \in Frame /\ f.allow_before = Top.allow_before
      BY <1>2 DEF Frame
    <3>2. AtBefore(Top)
      BY <1>2, <2>2 DEF FrameInv, AtDeny, AtBefore, AtRequire, AtRefusal, AtTool
    <3>3. Cleared(f)
      BY <1>2, <3>2 DEF AtBefore, Cleared, Frame
    <3>4. f.allow_before => Served(f)
      <4>1. \A i \in BeforeOf(Top.cap) : i < Top.next
        BY <1>2, <1>4 DEF LoopEnds, BeforeOf, Frame
      <4>2. f.cap = Top.cap /\ f.met = Top.met /\ f.allow_before = Top.allow_before
        BY <1>2 DEF Frame
      <4> QED
        BY <3>2, <4>1, <4>2 DEF AtBefore, ServedBefore, Served
    <3>5. AtTool(f)
      BY <1>2, <3>2, <3>3, <3>4 DEF AtTool, AtBefore, Frame
    <3> QED
      BY <1>1, <1>4, <2>2, <3>1, <3>5, GotoInv DEF FrameInv, LoopEnds, RestInv
  <2> QED
    BY <1>4, <2>1, <2>2 DEF LoopEnds
<1>5. CASE BindFails
  BY <1>5, LeaveInv DEF BindFails, RestInv, Results
<1>6. CASE CheckDeny
  <2>1. PICK verdict \in Outcomes \union {"unavailable"} :
          /\ Goto([Top EXCEPT !.verdict = verdict])
          /\ tape' \in [PolicyIds -> Seq(Outcomes)]
    <3>1. TopId \in PolicyIds
      BY <1>2, <1>6, PolicyType DEF CheckDeny, AtPolicy, TopId, Frame
    <3>2. CASE tape[TopId] = <<>>
      BY <1>6, <3>2 DEF CheckDeny, RestInv
    <3>3. CASE tape[TopId] # <<>>
      <4>1. Head(tape[TopId]) \in Outcomes /\ Tail(tape[TopId]) \in Seq(Outcomes)
        BY <3>1, <3>3 DEF RestInv
      <4> QED
        BY <1>6, <3>1, <3>3, <4>1 DEF CheckDeny, RestInv
    <3> QED
      BY <3>2, <3>3
  <2> DEFINE f == [Top EXCEPT !.verdict = verdict]
  <2>2. f \in Frame /\ f.allow_before = Top.allow_before
    BY <1>2 DEF Frame
  <2>3. Top.next \in DenyOf(Top.cap)
    BY <1>2, <1>6 DEF CheckDeny, AtPolicy, Applies, TopPolicy, DenyOf, Frame
  <2>4. AtDeny(f)
    BY <1>2, <1>6, <2>3
       DEF CheckDeny, FrameInv, AtDeny, AtBefore, AtRequire, AtRefusal, AtTool, Frame
  <2> QED
    BY <1>1, <1>6, <2>1, <2>2, <2>4, GotoInv, MilestoneType DEF CheckDeny, FrameInv, RestInv
<1>7. CASE Conclude
  <2>1. AtDeny(Top) /\ Top.next \in DenyOf(Top.cap)
    BY <1>2, <1>7 DEF Conclude, FrameInv, AtDeny, AtBefore, AtRequire, AtRefusal, AtTool
  <2>2. Top.next \in DOMAIN Policies[Top.cap] /\ Top.next \in Nat
    BY <1>2, <2>1 DEF DenyOf
  <2>3. evidence' \in Seq(PolicyIds \X Outcomes)
    BY <1>2, <1>7, <2>2, PolicyType, RecordType DEF Conclude, TopId, Outcomes
  <2>4. CASE Top.verdict = "allowed"
    <3> DEFINE f == [Top EXCEPT !.verdict = "none", !.next = @ + 1,
                                !.allowed = @ \union {Top.next}]
    <3>1. f \in Frame /\ f.allow_before = Top.allow_before
      <4>1. Top.next + 1 \in Nat \ {0} /\ Top.allowed \union {Top.next} \in SUBSET Nat
        BY <1>2, <2>2 DEF Frame
      <4> QED
        BY <1>2, <4>1 DEF Frame
    <3>2. AtDeny(f)
      BY <1>2, <2>1, <2>2 DEF AtDeny, DenyOf, Frame
    <3> QED
      BY <1>1, <1>7, <2>3, <2>4, <3>1, <3>2, GotoInv DEF Conclude, FrameInv, RestInv
  <2>5. CASE Top.verdict = "unavailable"
    BY <1>7, <2>3, <2>5, LeaveInv DEF Conclude, RestInv, Results
  <2>6. CASE Top.verdict = "denied"
    <3> DEFINE f == [Top EXCEPT !.phase = "refused", !.verdict = "none"]
    <3>1. f \in Frame /\ f.allow_before = Top.allow_before
      BY <1>2 DEF Frame
    <3>2. AtRefusal(f)
      BY <1>2, <2>2 DEF AtRefusal, Frame
    <3> QED
      BY <1>1, <1>7, <2>3, <2>6, <3>1, <3>2, GotoInv, MilestoneType
         DEF Conclude, FrameInv, RestInv
  <2> QED
    BY <1>7, <2>4, <2>5, <2>6 DEF Conclude
<1>8. CASE Refuse
  <2>1. Top.next \in DOMAIN Policies[Top.cap]
    BY <1>2, <1>8 DEF Refuse, FrameInv, AtDeny, AtBefore, AtRequire, AtRefusal, AtTool
  <2>2. evidence' \in Seq(PolicyIds \X Outcomes)
    BY <1>2, <1>8, <2>1, PolicyType, RecordType DEF Refuse, TopId, Outcomes, RestInv
  <2> QED
    BY <1>8, <2>2, LeaveInv DEF Refuse, RestInv, Results
<1> QED
  BY <1>3, <1>4, <1>5, <1>6, <1>7, <1>8 DEF Loops

LEMMA RequiredInv == GateIInv /\ Required => GateIInv'
<1> SUFFICES ASSUME GateIInv, Required PROVE GateIInv'
  OBVIOUS
<1> USE DEF GateIInv
<1>1. Busy
  BY DEF Required, EnterBefore, RequiredArgsFail, CallRequired, PassBefore, AtPolicy, InLoop
<1>2. Top \in Frame /\ FrameInv(Top) /\ Policies[Top.cap] \in Seq(Policy) /\ Top.cap \in Caps
  BY <1>1, TopInv DEF Frame
<1>3. Top.phase = "require" =>
        /\ AtRequire(Top)
        /\ Top.next \in DOMAIN Policies[Top.cap]
        /\ TopPolicy \in Policy
  BY <1>2, PolicyType
     DEF FrameInv, AtDeny, AtBefore, AtRequire, AtRefusal, AtTool, BeforeOf, TopPolicy
<1>4. CASE EnterBefore
  <2> DEFINE f == [Top EXCEPT !.phase = "require", !.req = 1]
  <2>1. f \in Frame /\ f.allow_before = Top.allow_before
    <3>1. 1 \in Nat \ {0}
      OBVIOUS
    <3> QED
      BY <1>2, <3>1 DEF Frame
  <2>2. Top.allow_before /\ Top.next \in BeforeOf(Top.cap) /\ AtBefore(Top)
    BY <1>2, <1>4
       DEF EnterBefore, AtPolicy, Applies, TopPolicy, BeforeOf, FrameInv, AtDeny, AtBefore,
           AtRequire, AtRefusal, AtTool, Frame
  <2>3. TopPolicy.requires \in Seq(Caps)
    BY <1>2, <2>2, PolicyType DEF TopPolicy, Policy, BeforeOf
  <2>4. /\ f.cap = Top.cap /\ f.met = Top.met /\ f.allowed = Top.allowed /\ f.req = 1
        /\ f.next = Top.next /\ f.verdict = Top.verdict /\ f.phase = "require"
    BY <1>2 DEF Frame
  <2>5. AtRequire(f)
    <3>1. \A j \in DOMAIN TopPolicy.requires : ~(j < 1)
      BY <2>3
    <3> QED
      BY <2>1, <2>2, <2>4, <3>1 DEF AtRequire, AtBefore, Cleared, ServedBefore, TopPolicy
  <2> QED
    BY <1>1, <1>4, <2>1, <2>5, GotoInv, MilestoneType DEF EnterBefore, FrameInv, RestInv
<1>5. CASE RequiredArgsFail
  BY <1>5, LeaveInv DEF RequiredArgsFail, RestInv, Results
<1>6. CASE CallRequired
  <2> DEFINE f == Activation(TopPolicy.requires[Top.req], FALSE)
  <2>1. AtRequire(Top) /\ Top.req <= Len(TopPolicy.requires)
    BY <1>3, <1>6 DEF CallRequired
  <2>2. TopPolicy.requires[Top.req] \in Caps
    BY <1>2, <1>3, <1>6 DEF CallRequired, Policy, Frame
  <2>3. f \in Frame /\ FrameInv(f) /\ f.allow_before = FALSE
    BY <2>2, FreshInv
  <2>4. Len(stack) = 1
    BY <1>1, <2>1, TopInv DEF AtRequire
  <2>5. /\ stack' = Append(stack, f) /\ stack' \in Seq(Frame) /\ Len(stack') = 2
        /\ stack'[1] = Top /\ stack'[2] = f /\ DOMAIN stack' = {1, 2}
    <3>1. stack \in Seq(Frame) /\ stack[1] = Top /\ stack' = Append(stack, f)
      BY <1>6, <2>4 DEF CallRequired, StackInv, Top
    <3> QED
      BY <2>3, <2>4, <3>1, TwoFrames
  <2>6. StackInv'
    <3>1. \A n \in DOMAIN stack' : FrameInv(stack'[n])
      BY <1>2, <2>3, <2>5
    <3>2. \A n \in DOMAIN stack' : stack'[n].allow_before <=> n = 1
      BY <2>1, <2>3, <2>5 DEF AtRequire
    <3>3. \A n \in DOMAIN stack' : n < Len(stack') =>
            /\ AtRequire(stack'[n])
            /\ stack'[n].req <= Len(Policies[stack'[n].cap][stack'[n].next].requires)
      <4>1. \A n \in DOMAIN stack' : n < Len(stack') => stack'[n] = Top
        <5>1. \A n \in {1, 2} : n < 2 => n = 1
          OBVIOUS
        <5> HIDE DEF f
        <5> QED
          BY <2>5, <5>1
      <4>2. TopPolicy = Policies[Top.cap][Top.next]
        BY DEF TopPolicy
      <4> QED
        BY <2>1, <4>1, <4>2
    <3> HIDE DEF f
    <3> QED
      BY <2>5, <3>1, <3>2, <3>3, StackInvIntro
  <2> QED
    BY <1>6, <2>6 DEF CallRequired, RestInv
<1>7. CASE PassBefore
  <2> DEFINE f == [Top EXCEPT !.phase = "before", !.next = @ + 1]
  <2>1. f \in Frame /\ f.allow_before = Top.allow_before
    <3>1. Top.next + 1 \in Nat \ {0}
      BY <1>2 DEF Frame
    <3> QED
      BY <1>2, <3>1 DEF Frame
  <2>2. AtRequire(Top) /\ Top.req > Len(TopPolicy.requires)
    BY <1>3, <1>7 DEF PassBefore
  <2>3. /\ f.cap = Top.cap /\ f.met = Top.met /\ f.allowed = Top.allowed
        /\ f.next = Top.next + 1 /\ f.verdict = Top.verdict /\ f.phase = "before"
    BY <1>2 DEF Frame
  <2>4. \A j \in DOMAIN TopPolicy.requires : j < Top.req
    <3>1. TopPolicy.requires \in Seq(Caps) /\ Top.req \in Nat
      BY <1>2, <1>3, <1>7 DEF PassBefore, Policy, Frame
    <3> QED
      BY <2>2, <3>1
  <2>5. \A j \in DOMAIN TopPolicy.requires : <<Top.next, j>> \in Top.met
    BY <2>2, <2>4 DEF AtRequire, TopPolicy
  <2>6. ServedBefore(f, f.next)
    <3>1. \A i \in BeforeOf(Top.cap) : i < Top.next + 1 => i < Top.next \/ i = Top.next
      BY <1>2 DEF BeforeOf, Frame
    <3> QED
      BY <2>2, <2>3, <2>5, <3>1 DEF AtRequire, ServedBefore, TopPolicy
  <2>7. AtBefore(f)
    BY <2>2, <2>3, <2>6 DEF AtBefore, AtRequire, Cleared
  <2>8. evidence' \in Seq(PolicyIds \X Outcomes)
    BY <1>2, <1>3, <1>7, PolicyType, RecordType DEF PassBefore, TopId, Outcomes
  <2> QED
    BY <1>1, <1>7, <2>1, <2>7, <2>8, GotoInv DEF PassBefore, FrameInv, RestInv
<1> QED
  BY <1>4, <1>5, <1>6, <1>7 DEF Required

LEMMA HandlerInv == GateIInv /\ Handler => GateIInv'
<1> SUFFICES ASSUME GateIInv, Handler PROVE GateIInv'
  OBVIOUS
<1> USE DEF GateIInv
<1>1. Busy
  <2>1. Len(<<>>) = 0
    OBVIOUS
  <2> QED
    BY <2>1 DEF Handler, StartTool, ToolReturns, RequiredReturns, Decline, ToolFails, Busy
<1>2. Top \in Frame /\ FrameInv(Top) /\ Policies[Top.cap] \in Seq(Policy) /\ Top.cap \in Caps
  BY <1>1, TopInv DEF Frame
<1>3. CASE StartTool
  <2> DEFINE f == [Top EXCEPT !.phase = "running"]
  <2>1. f \in Frame /\ f.allow_before = Top.allow_before
    BY <1>2 DEF Frame
  <2>2. AtTool(Top)
    BY <1>2, <1>3 DEF StartTool, FrameInv, AtDeny, AtBefore, AtRequire, AtRefusal, AtTool
  <2>3. /\ f.cap = Top.cap /\ f.met = Top.met /\ f.allowed = Top.allowed
        /\ f.verdict = Top.verdict /\ f.phase = "running"
    BY <1>2 DEF Frame
  <2>4. AtTool(f)
    BY <2>1, <2>2, <2>3 DEF AtTool, Cleared, Served
  <2> QED
    BY <1>1, <1>3, <2>1, <2>4, GotoInv, MilestoneType DEF StartTool, FrameInv, RestInv
<1>4. CASE ToolReturns
  BY <1>1, <1>4, LeaveInv, MilestoneType DEF ToolReturns, RestInv, Results
<1>5. ASSUME NEW no \in BOOLEAN, RequiredReturns(no) PROVE GateIInv'
  <2> DEFINE f == IF no THEN [Outer EXCEPT !.phase = "declined"] ELSE Met(Outer)
  <2>1. Len(stack) = 2
    <3>1. Len(stack) > 1
      BY <1>5 DEF RequiredReturns
    <3>2. Len(stack) \in Nat /\ (Len(stack) = 1 \/ Len(stack) = 2)
      BY <1>1, TopInv
    <3> QED
      BY <3>1, <3>2
  <2>2. Outer = stack[1] /\ Outer \in Frame /\ AtRequire(Outer)
    BY <2>1 DEF Outer, StackInv
  <2>3. Outer.next \in DOMAIN Policies[Outer.cap] /\ Outer.next \in Nat /\ Outer.req \in Nat
    BY <2>2, GateAssumption DEF AtRequire, BeforeOf, Frame, GateAssumption
  <2>4. f \in Frame /\ FrameInv(f) /\ f.allow_before
    <3>1. CASE no
      <4>1. [Outer EXCEPT !.phase = "declined"] \in Frame
        BY <2>2 DEF Frame
      <4>2. AtRefusal([Outer EXCEPT !.phase = "declined"])
        BY <2>2, <2>3 DEF AtRefusal, AtRequire, Frame
      <4> QED
        BY <2>2, <3>1, <4>1, <4>2 DEF FrameInv, AtRequire, Frame
    <3>2. CASE ~no
      <4> DEFINE g == Met(Outer)
      <4>1. g \in Frame
        <5>1. /\ Outer.req + 1 \in Nat \ {0}
              /\ Outer.met \union {<<Outer.next, Outer.req>>} \in SUBSET (Nat \X Nat)
          BY <2>2, <2>3 DEF Frame
        <5> QED
          BY <2>2, <5>1 DEF Met, Frame
      <4>2. /\ g.cap = Outer.cap /\ g.allowed = Outer.allowed /\ g.next = Outer.next
            /\ g.verdict = Outer.verdict /\ g.phase = Outer.phase /\ g.req = Outer.req + 1
            /\ g.met = Outer.met \union {<<Outer.next, Outer.req>>}
            /\ g.allow_before = Outer.allow_before
        BY <2>2 DEF Met, Frame
      <4>3. \A j \in DOMAIN Policies[Outer.cap][Outer.next].requires :
              j < Outer.req + 1 => j < Outer.req \/ j = Outer.req
        <5>1. Policies[Outer.cap][Outer.next].requires \in Seq(Caps)
          BY <2>2, <2>3, PolicyType DEF Policy
        <5>2. \A j \in DOMAIN Policies[Outer.cap][Outer.next].requires : j \in Nat
          BY <5>1, PlaceType, Zenon
        <5> QED
          BY <2>3, <5>2
      <4>4. g.phase = "require" /\ g.verdict = "none" /\ Cleared(g)
            /\ g.allow_before /\ g.next \in BeforeOf(g.cap)
        BY <2>2, <4>2 DEF AtRequire, Cleared
      <4>5. ServedBefore(g, g.next)
        BY <2>2, <4>2 DEF AtRequire, ServedBefore
      <4>6. \A j \in DOMAIN Policies[g.cap][g.next].requires :
              j < g.req => <<g.next, j>> \in g.met
        BY <2>2, <4>2, <4>3 DEF AtRequire
      <4>7. AtRequire(g)
        <5> HIDE DEF g
        <5> QED
          BY <4>4, <4>5, <4>6 DEF AtRequire
      <4> QED
        BY <2>2, <3>2, <4>1, <4>2, <4>7 DEF FrameInv, AtRequire
    <3> QED
      BY <3>1, <3>2
  <2>5. stack' = <<f>>
    <3>1. SubSeq(stack, 1, Len(stack) - 2) = <<>>
      BY <2>1 DEF StackInv
    <3>2. stack' = Append(<<>>, f)
      BY <1>5, <3>1 DEF RequiredReturns
    <3> HIDE DEF f
    <3> QED
      BY <3>2
  <2>6. StackInv'
    BY <2>4, <2>5, OneFrameInv
  <2>7. RestInv'
    BY <1>1, <1>5, MilestoneType DEF RequiredReturns, RestInv
  <2> QED
    BY <2>6, <2>7
<1>6. CASE Decline
  <2> DEFINE f == [Top EXCEPT !.phase = "refused"]
  <2>1. f \in Frame /\ f.allow_before = Top.allow_before
    BY <1>2 DEF Frame
  <2>2. AtRefusal(f)
    BY <1>2, <1>6 DEF Decline, FrameInv, AtDeny, AtBefore, AtRequire, AtRefusal, AtTool, Frame
  <2> QED
    BY <1>1, <1>6, <2>1, <2>2, GotoInv, MilestoneType DEF Decline, FrameInv, RestInv
<1>7. CASE ToolFails
  BY <1>1, <1>7, LeaveInv, MilestoneType DEF ToolFails, RestInv, Results
<1> QED
  BY <1>3, <1>4, <1>5, <1>6, <1>7 DEF Handler

LEMMA CallInv == ASSUME GateIInv, NEW cap \in Caps, Call(cap) PROVE GateIInv'
<1> USE DEF GateIInv
<1>1. calls' \in 0 .. MaxCalls /\ events' = <<>> /\ evidence' = <<>> /\ tape' = tape
  BY GateAssumption DEF Call, RestInv, GateAssumption
<1>2. CASE cap \in StageRequires
  <2> DEFINE f == Activation(cap, TRUE)
  <2>1. f \in Frame /\ FrameInv(f) /\ f.allow_before
    BY FreshInv
  <2>2. stack' = <<f>> /\ result' = "none"
    BY <1>2 DEF Call
  <2>3. StackInv'
    BY <2>1, <2>2, OneFrameInv
  <2> QED
    BY <1>1, <2>2, <2>3 DEF RestInv, Results
<1>3. CASE cap \notin StageRequires
  <2>1. stack' = stack /\ result' = "missing_capability"
    BY <1>3 DEF Call
  <2>2. StackInv'
    BY <2>1, StackInvIntro DEF StackInv
  <2> QED
    BY <1>1, <2>1, <2>2 DEF RestInv, Results
<1> QED
  BY <1>2, <1>3

(* The invariant holds in every reachable state.                             *)
THEOREM GateInvariant == GateSpec => []GateIInv
<1>1. GateIInv /\ [GateNext]_gateVars => GateIInv'
  <2> SUFFICES ASSUME GateIInv, [GateNext]_gateVars PROVE GateIInv'
    OBVIOUS
  <2>1. CASE Abort
    BY <2>1, LeaveInv DEF Abort, GateIInv, RestInv, Results
  <2>2. CASE GateDone \/ UNCHANGED gateVars
    BY <2>2, StackInvIntro DEF GateDone, gateVars, GateIInv, RestInv, StackInv
  <2> QED
    BY <2>1, <2>2, LoopsInv, RequiredInv, HandlerInv, CallInv DEF GateNext, GateStep
<1> QED
  BY InitInv, <1>1, PTL DEF GateSpec

(* The gate's variables keep their types, and the nesting never goes deeper  *)
(* than a required call of the executor's call, whatever the policies.       *)
THEOREM GateTypeCorrect == GateSpec => []GateTypeOK
<1>1. GateIInv => GateTypeOK
  BY DEF GateIInv, StackInv, RestInv, GateTypeOK
<1> QED
  BY GateInvariant, <1>1, PTL

(* No handler runs unguarded, whatever the policies, the tape, the answers   *)
(* and the failures on the way.                                              *)
THEOREM GuardTheorem == GateSpec => []GuardedCall
<1>1. GateIInv => GuardedCall
  <2> SUFFICES ASSUME GateIInv, NEW n \in DOMAIN stack, stack[n].phase = "running"
               PROVE  Cleared(stack[n]) /\ (n = 1 => Served(stack[n]))
    BY DEF GuardedCall
  <2>1. AtTool(stack[n]) /\ (stack[n].allow_before <=> n = 1)
    BY DEF GateIInv, StackInv, FrameInv, AtDeny, AtBefore, AtRequire, AtRefusal, AtTool
  <2> QED
    BY <2>1 DEF AtTool
<1> QED
  BY GateInvariant, <1>1, PTL

(* Consent is asked only for a call that every deny policy allows.           *)
THEOREM ConsentTheorem == GateSpec => []AskedOnlyIfAllowed
<1>1. GateIInv => AskedOnlyIfAllowed
  BY DEF GateIInv, StackInv, AskedOnlyIfAllowed, AtRequire
<1> QED
  BY GateInvariant, <1>1, PTL

-----------------------------------------------------------------------------
(* Refused calls never run: the ledger has the start of the executor's       *)
(* handler exactly while it runs and after it was left, one way or another.  *)

StartInv ==
  /\ Busy => result = "none" /\ (Started(1) <=> stack[1].phase = "running")
  /\ ~Busy => RefusedNeverRuns

(* A milestone is a start of depth d if it says so.                          *)
LEMMA StartedNext ==
  ASSUME GateIInv, Busy, NEW d \in {1, 2}, NEW kind, Milestone(kind)
  PROVE  Started(d)' <=> Started(d) \/ (kind = "tool_call_started" /\ Len(stack) = d)
<1>1. Len(events) \in Nat /\ DOMAIN events = 1 .. Len(events)
  BY DEF GateIInv, RestInv
<1>2. events' = Append(events, <<kind, Top.cap, Len(stack)>>)
  BY DEF Milestone
<1>3. /\ DOMAIN events' = 1 .. Len(events) + 1
      /\ events'[Len(events) + 1] = <<kind, Top.cap, Len(stack)>>
      /\ \A n \in 1 .. Len(events) : events'[n] = events[n]
  BY <1>1, <1>2 DEF GateIInv, RestInv
<1> QED
  BY <1>1, <1>3 DEF Started

(* While an activation that is not running is on top, nothing of depth one   *)
(* has started.                                                              *)
LEMMA NotStarted ==
  ASSUME GateIInv, StartInv, Busy, Top.phase # "running"
  PROVE  ~Started(1) /\ result = "none"
<1>1. Len(stack) \in {1, 2} /\ DOMAIN stack = 1 .. Len(stack)
  BY TopInv DEF GateIInv, StackInv
<1>2. CASE Len(stack) = 1
  BY <1>2 DEF StartInv, Top
<1>3. CASE Len(stack) = 2
  <2>1. AtRequire(stack[1])
    BY <1>1, <1>3 DEF GateIInv, StackInv
  <2> QED
    BY <2>1 DEF StartInv, AtRequire
<1> QED
  BY <1>1, <1>2, <1>3

(* Nothing of depth one starts when the top activation moves on, short of    *)
(* running.                                                                  *)
LEMMA QuietGoto ==
  ASSUME GateIInv, StartInv, Busy, Top.phase # "running",
         NEW f, f.phase # "running", Goto(f), Started(1)' => Started(1)
  PROVE  StartInv'
<1>1. Len(stack) \in {1, 2} /\ DOMAIN stack = 1 .. Len(stack)
  BY TopInv DEF GateIInv, StackInv
<1>2. ~Started(1)' /\ result' = "none"
  BY NotStarted DEF Goto
<1>3. Busy' /\ stack'[1].phase # "running"
  <2>1. DOMAIN stack' = DOMAIN stack
    BY DEF Goto
  <2>2. CASE Len(stack) = 1
    BY <1>1, <2>1, <2>2 DEF Goto, Busy
  <2>3. CASE Len(stack) = 2
    <3>1. AtRequire(stack[1])
      BY <1>1, <2>3 DEF GateIInv, StackInv
    <3> QED
      BY <1>1, <2>1, <2>3, <3>1 DEF Goto, Busy, AtRequire
  <2> QED
    BY <1>1, <2>2, <2>3
<1> QED
  BY <1>2, <1>3 DEF StartInv

(* An exception leaves a call that did not run.                              *)
LEMMA QuietLeave ==
  ASSUME GateIInv, StartInv, Busy, Top.phase # "running",
         NEW r, r # "returned", Leave(r), Started(1)' => Started(1)
  PROVE  StartInv'
<1>1. ~Started(1)'
  BY NotStarted
<1> QED
  BY <1>1 DEF StartInv, Leave, Busy, RefusedNeverRuns

LEMMA LoopsStart == GateIInv /\ StartInv /\ Loops => StartInv'
<1> SUFFICES ASSUME GateIInv, StartInv, Loops PROVE StartInv'
  OBVIOUS
<1>1. Busy /\ Top.phase # "running" /\ Top \in Frame
  <2>1. Busy
    BY DEF Loops, PassOver, LoopEnds, BindFails, CheckDeny, Conclude, Refuse, AtPolicy, InLoop
  <2> QED
    BY <2>1, TopInv DEF GateIInv, Loops, PassOver, LoopEnds, BindFails, CheckDeny, Conclude,
                        Refuse, AtPolicy, InLoop
<1>2. Started(1)' => Started(1)
  BY <1>1, StartedNext DEF Loops, PassOver, LoopEnds, BindFails, CheckDeny, Conclude, Refuse, Started
<1>3. CASE PassOver
  BY <1>1, <1>2, <1>3, QuietGoto DEF PassOver, Frame
<1>4. CASE LoopEnds
  BY <1>1, <1>2, <1>4, QuietGoto DEF LoopEnds, Frame
<1>5. CASE BindFails
  BY <1>1, <1>2, <1>5, QuietLeave DEF BindFails
<1>6. CASE CheckDeny
  BY <1>1, <1>2, <1>6, QuietGoto DEF CheckDeny, Frame
<1>7. CASE Conclude
  BY <1>1, <1>2, <1>7, QuietGoto, QuietLeave DEF Conclude, Frame
<1>8. CASE Refuse
  BY <1>1, <1>2, <1>8, QuietLeave DEF Refuse
<1> QED
  BY <1>3, <1>4, <1>5, <1>6, <1>7, <1>8 DEF Loops

LEMMA RequiredStart == GateIInv /\ StartInv /\ Required => StartInv'
<1> SUFFICES ASSUME GateIInv, StartInv, Required PROVE StartInv'
  OBVIOUS
<1>1. Busy /\ Top.phase \in {"before", "require"}
  BY DEF Required, EnterBefore, RequiredArgsFail, CallRequired, PassBefore, AtPolicy, InLoop
<1>2. Top \in Frame /\ Len(stack) \in {1, 2} /\ (Top.allow_before <=> Len(stack) = 1) /\ FrameInv(Top)
  BY <1>1, TopInv DEF GateIInv
<1>3. Started(1)' => Started(1)
  <2>1. CASE EnterBefore
    BY <1>1, <2>1, StartedNext DEF EnterBefore
  <2>2. CASE UNCHANGED events
    BY <2>2 DEF Started
  <2> QED
    BY <2>1, <2>2 DEF Required, RequiredArgsFail, CallRequired, PassBefore
<1>4. CASE EnterBefore
  BY <1>1, <1>2, <1>3, <1>4, QuietGoto DEF EnterBefore, Frame
<1>5. CASE RequiredArgsFail
  BY <1>1, <1>3, <1>5, QuietLeave DEF RequiredArgsFail
<1>6. CASE PassBefore
  BY <1>1, <1>2, <1>3, <1>6, QuietGoto DEF PassBefore, Frame
<1>7. CASE CallRequired
  <2>1. Len(stack) = 1 /\ stack \in Seq(Frame)
    BY <1>2, <1>7 DEF CallRequired, FrameInv, AtDeny, AtBefore, AtRequire, AtRefusal, AtTool,
                      GateIInv, StackInv
  <2> DEFINE f == Activation(TopPolicy.requires[Top.req], FALSE)
  <2>2. Busy' /\ stack'[1] = stack[1] /\ result' = result
    <3>1. stack' = Append(stack, f) /\ result' = result
      BY <1>7 DEF CallRequired
    <3>2. f \in Frame
      <4>1. AtRequire(Top) /\ Top.req <= Len(TopPolicy.requires)
        BY <1>2, <1>7 DEF CallRequired, FrameInv, AtDeny, AtBefore, AtRequire, AtRefusal, AtTool
      <4>2. TopPolicy \in Policy
        BY <1>2, <4>1, PolicyType DEF AtRequire, BeforeOf, TopPolicy
      <4>3. TopPolicy.requires[Top.req] \in Caps
        BY <1>2, <4>1, <4>2 DEF Policy, Frame
      <4> QED
        BY <4>3, FreshInv
    <3> HIDE DEF f
    <3>3. stack'[1] = stack[1] /\ Len(stack') = 2
      BY <2>1, <3>1, <3>2, TwoFrames
    <3>4. stack' # <<>>
      BY <3>3
    <3> QED
      BY <3>1, <3>3, <3>4 DEF Busy
  <2>3. stack[1].phase # "running"
    BY <2>1, <1>1 DEF Top
  <2> QED
    BY <1>1, <1>3, <2>2, <2>3, NotStarted DEF StartInv
<1> QED
  BY <1>4, <1>5, <1>6, <1>7 DEF Required

LEMMA HandlerStart == GateIInv /\ StartInv /\ (Handler \/ Abort) => StartInv'
<1> SUFFICES ASSUME GateIInv, StartInv, Handler \/ Abort PROVE StartInv'
  OBVIOUS
<1>1. Busy /\ Len(stack) \in {1, 2} /\ Top \in Frame /\ DOMAIN stack = 1 .. Len(stack)
  <2>1. Busy
    BY DEF Handler, StartTool, ToolReturns, RequiredReturns, Decline, ToolFails, Abort, Busy
  <2> QED
    BY <2>1, TopInv DEF GateIInv, StackInv
<1>2. CASE StartTool
  <2>1. Started(1)' <=> Started(1) \/ Len(stack) = 1
    BY <1>1, <1>2, StartedNext DEF StartTool
  <2>2. ~Started(1) /\ result = "none"
    BY <1>1, <1>2, NotStarted DEF StartTool
  <2>3. Goto([Top EXCEPT !.phase = "running"])
    BY <1>2 DEF StartTool
  <2>4. CASE Len(stack) = 1
    BY <1>1, <2>1, <2>2, <2>3, <2>4 DEF Goto, Busy, StartInv, Frame
  <2>5. CASE Len(stack) = 2
    <3>1. AtRequire(stack[1])
      BY <1>1, <2>5 DEF GateIInv, StackInv
    <3> QED
      BY <1>1, <2>1, <2>2, <2>3, <2>5, <3>1 DEF Goto, Busy, StartInv, AtRequire
  <2> QED
    BY <1>1, <2>4, <2>5
<1>3. CASE ToolReturns
  <2>1. Started(1)' <=> Started(1)
    BY <1>1, <1>3, StartedNext DEF ToolReturns
  <2>2. Started(1)
    BY <1>1, <1>3 DEF ToolReturns, StartInv, Top
  <2> QED
    BY <1>3, <2>1, <2>2 DEF ToolReturns, Leave, StartInv, Busy, RefusedNeverRuns
<1>4. ASSUME NEW no \in BOOLEAN, RequiredReturns(no) PROVE StartInv'
  <2>1. Len(stack) = 2
    BY <1>1, <1>4 DEF RequiredReturns
  <2>2. AtRequire(stack[1]) /\ stack[1] \in Frame /\ Outer = stack[1]
    <3>1. 2 - 1 = 1 /\ 1 \in DOMAIN stack /\ 1 < Len(stack)
      BY <1>1, <2>1
    <3>2. Outer = stack[1]
      BY <2>1, <3>1 DEF Outer
    <3> QED
      BY <3>1, <3>2, ElementOfSeq DEF GateIInv, StackInv
  <2>3. ~Started(1) /\ result = "none"
    BY <1>1, <2>2 DEF StartInv, AtRequire
  <2>4. ~Started(1)'
    BY <1>1, <1>4, <2>3, StartedNext DEF RequiredReturns
  <2> DEFINE f == IF no THEN [Outer EXCEPT !.phase = "declined"] ELSE Met(Outer)
  <2>5. f.phase # "running"
    BY <2>2 DEF AtRequire, Met, Frame
  <2>6. stack' = Append(SubSeq(stack, 1, Len(stack) - 2), f) /\ result' = result
    BY <1>4 DEF RequiredReturns
  <2>7. SubSeq(stack, 1, Len(stack) - 2) = <<>>
    BY <2>1 DEF GateIInv, StackInv
  <2> HIDE DEF f
  <2>8. stack' = <<f>>
    <3>1. stack' = Append(<<>>, f)
      BY <2>6, <2>7
    <3> QED
      BY <3>1
  <2>9. Busy' /\ stack'[1] = f
    BY <2>8 DEF Busy
  <2> QED
    BY <2>3, <2>4, <2>5, <2>6, <2>9 DEF StartInv
<1>5. CASE Decline
  <2>1. Started(1)' => Started(1)
    BY <1>1, <1>5, StartedNext DEF Decline
  <2> QED
    BY <1>1, <1>5, <2>1, QuietGoto DEF Decline, Frame
<1>6. CASE ToolFails \/ Abort
  BY <1>6 DEF ToolFails, Abort, Leave, StartInv, Busy, RefusedNeverRuns
<1> QED
  BY <1>2, <1>3, <1>4, <1>5, <1>6 DEF Handler

LEMMA CallStart == ASSUME GateIInv, StartInv, NEW cap \in Caps, Call(cap) PROVE StartInv'
<1>1. ~Started(1)'
  BY DEF Call, Started
<1>2. CASE cap \in StageRequires
  <2>1. stack' = <<Activation(cap, TRUE)>> /\ result' = "none"
    BY <1>2 DEF Call
  <2>2. Busy' /\ stack'[1].phase = "deny"
    BY <2>1 DEF Busy, Activation
  <2> QED
    BY <1>1, <2>1, <2>2 DEF StartInv
<1>3. CASE cap \notin StageRequires
  BY <1>1, <1>3 DEF Call, StartInv, Busy, RefusedNeverRuns
<1> QED
  BY <1>2, <1>3

(* A call that is refused, for whatever reason, never reached its handler,   *)
(* and one that returned did, whatever the policies and the answers.         *)
THEOREM RefusalTheorem == GateSpec => []RefusedNeverRuns
<1>1. GateInit => StartInv
  BY DEF GateInit, StartInv, Busy, RefusedNeverRuns
<1>2. GateIInv /\ StartInv /\ [GateNext]_gateVars => StartInv'
  <2> SUFFICES ASSUME GateIInv, StartInv, [GateNext]_gateVars PROVE StartInv'
    OBVIOUS
  <2>1. CASE GateDone \/ UNCHANGED gateVars
    BY <2>1 DEF GateDone, gateVars, StartInv, Busy, Started, RefusedNeverRuns
  <2> QED
    BY <2>1, LoopsStart, RequiredStart, HandlerStart, CallStart DEF GateNext, GateStep
<1>3. StartInv => RefusedNeverRuns
  BY DEF StartInv, RefusedNeverRuns
<1> QED
  BY GateInvariant, <1>1, <1>2, <1>3, PTL DEF GateSpec

-----------------------------------------------------------------------------
(* Starts have their ends: a start is the last event only while its own      *)
(* handler runs, so the next event is its end.                               *)

Start(n) == events[n][1] = "tool_call_started"

PairInv ==
  /\ EveryStartHasItsEnd
  /\ \A n \in DOMAIN events : Busy /\ n = Len(events) /\ Start(n) =>
       Top.phase = "running" /\ events[n] = <<"tool_call_started", Top.cap, Len(stack)>>

(* The events after a milestone.                                             *)
LEMMA NextEvents ==
  ASSUME GateIInv, NEW kind, Milestone(kind)
  PROVE  /\ Len(events) \in Nat /\ DOMAIN events = 1 .. Len(events)
         /\ Len(events') = Len(events) + 1 /\ DOMAIN events' = 1 .. Len(events) + 1
         /\ events'[Len(events) + 1] = <<kind, Top.cap, Len(stack)>>
         /\ \A n \in 1 .. Len(events) : events'[n] = events[n]
<1>1. events' = Append(events, <<kind, Top.cap, Len(stack)>>)
  BY DEF Milestone
<1> QED
  BY <1>1 DEF GateIInv, RestInv

(* While the activation on top is not running, every start has its end, and  *)
(* another event than a start changes nothing in that.                       *)
LEMMA QuietPair ==
  ASSUME GateIInv, PairInv, Busy, Top.phase # "running",
         events' = events \/ \E kind : kind # "tool_call_started" /\ Milestone(kind)
  PROVE  PairInv'
<1>1. \A n \in DOMAIN events : Start(n) =>
        /\ n < Len(events)
        /\ events[n + 1] \in {<<"tool_call_completed", events[n][2], events[n][3]>>,
                             <<"tool_call_failed", events[n][2], events[n][3]>>}
  BY DEF PairInv, EveryStartHasItsEnd, Start
<1>2. DOMAIN events = 1 .. Len(events) /\ Len(events) \in Nat
  BY DEF GateIInv, RestInv
<1>3. CASE events' = events
  BY <1>1, <1>2, <1>3 DEF PairInv, EveryStartHasItsEnd, Start
<1>4. ASSUME NEW kind, kind # "tool_call_started", Milestone(kind) PROVE PairInv'
  <2>1. \A n \in DOMAIN events' : Start(n)' => n \in DOMAIN events /\ Start(n)
    BY <1>4, NextEvents DEF Start
  <2>2. \A n \in DOMAIN events' : Start(n)' =>
          /\ n < Len(events')
          /\ events'[n + 1] \in {<<"tool_call_completed", events'[n][2], events'[n][3]>>,
                                <<"tool_call_failed", events'[n][2], events'[n][3]>>}
    <3> SUFFICES ASSUME NEW n \in DOMAIN events', Start(n)'
                 PROVE  /\ n < Len(events')
                        /\ events'[n + 1] \in {<<"tool_call_completed", events'[n][2], events'[n][3]>>,
                                              <<"tool_call_failed", events'[n][2], events'[n][3]>>}
      OBVIOUS
    <3>1. n \in 1 .. Len(events) /\ n < Len(events) /\ n + 1 \in 1 .. Len(events)
      BY <2>1, <1>1, <1>2
    <3>2. events'[n] = events[n] /\ events'[n + 1] = events[n + 1] /\ Len(events') = Len(events) + 1
      BY <1>4, <3>1, NextEvents
    <3> QED
      BY <1>1, <1>2, <2>1, <3>1, <3>2
  <2>3. \A n \in DOMAIN events' : n = Len(events') => ~Start(n)'
    BY <1>2, <2>1, <1>4, NextEvents
  <2> QED
    BY <2>2, <2>3 DEF PairInv, EveryStartHasItsEnd, Start
<1> QED
  BY <1>3, <1>4

(* The end of the handler that runs is the end of the last start.            *)
LEMMA EndPair ==
  ASSUME GateIInv, PairInv, Busy,
         NEW kind \in {"tool_call_completed", "tool_call_failed"}, Milestone(kind)
  PROVE  PairInv'
<1>1. /\ Len(events) \in Nat /\ DOMAIN events = 1 .. Len(events)
      /\ Len(events') = Len(events) + 1 /\ DOMAIN events' = 1 .. Len(events) + 1
      /\ events'[Len(events) + 1] = <<kind, Top.cap, Len(stack)>>
      /\ \A n \in 1 .. Len(events) : events'[n] = events[n]
  BY NextEvents
<1>2. ASSUME NEW n \in DOMAIN events', Start(n)'
      PROVE  /\ n < Len(events')
             /\ events'[n + 1] \in {<<"tool_call_completed", events'[n][2], events'[n][3]>>,
                                   <<"tool_call_failed", events'[n][2], events'[n][3]>>}
  <2>1. n \in 1 .. Len(events) /\ events'[n] = events[n] /\ Start(n)
    BY <1>1, <1>2 DEF Start
  <2>2. CASE n < Len(events)
    <3>1. events'[n + 1] = events[n + 1]
      BY <1>1, <2>1, <2>2
    <3> QED
      BY <1>1, <2>1, <2>2, <3>1 DEF PairInv, EveryStartHasItsEnd, Start
  <2>3. CASE n = Len(events)
    <3>1. events[n] = <<"tool_call_started", Top.cap, Len(stack)>>
      BY <1>1, <2>1, <2>3 DEF PairInv
    <3>2. events'[n][2] = Top.cap /\ events'[n][3] = Len(stack)
      BY <2>1, <3>1
    <3>3. events'[n + 1] = <<kind, Top.cap, Len(stack)>> /\ n < Len(events')
      BY <1>1, <2>3
    <3> QED
      BY <3>2, <3>3
  <2> QED
    BY <1>1, <2>1, <2>2, <2>3
<1>3. \A n \in DOMAIN events' : n = Len(events') => ~Start(n)'
  BY <1>1, <1>2
<1> QED
  BY <1>2, <1>3 DEF PairInv, EveryStartHasItsEnd, Start

LEMMA LoopsPair == GateIInv /\ PairInv /\ (Loops \/ Required) => PairInv'
<1> SUFFICES ASSUME GateIInv, PairInv, Loops \/ Required PROVE PairInv'
  OBVIOUS
<1>1. Busy /\ Top.phase # "running"
  BY DEF Loops, PassOver, LoopEnds, BindFails, CheckDeny, Conclude, Refuse, AtPolicy, InLoop,
         Required, EnterBefore, RequiredArgsFail, CallRequired, PassBefore
<1>2. events' = events \/ Milestone("policy_checked") \/ Milestone("policy_denied")
  BY DEF Loops, PassOver, LoopEnds, BindFails, CheckDeny, Conclude, Refuse,
         Required, EnterBefore, RequiredArgsFail, CallRequired, PassBefore
<1> QED
  BY <1>1, <1>2, QuietPair

LEMMA HandlerPair == GateIInv /\ PairInv /\ (Handler \/ Abort) => PairInv'
<1> SUFFICES ASSUME GateIInv, PairInv, Handler \/ Abort PROVE PairInv'
  OBVIOUS
<1>1. Busy /\ Len(stack) \in {1, 2} /\ Top \in Frame /\ DOMAIN stack = 1 .. Len(stack)
  <2>1. Busy
    BY DEF Handler, StartTool, ToolReturns, RequiredReturns, Decline, ToolFails, Abort, Busy
  <2> QED
    BY <2>1, TopInv DEF GateIInv, StackInv
<1>2. CASE StartTool
  <2>1. /\ Len(events) \in Nat /\ DOMAIN events = 1 .. Len(events)
        /\ Len(events') = Len(events) + 1 /\ DOMAIN events' = 1 .. Len(events) + 1
        /\ events'[Len(events) + 1] = <<"tool_call_started", Top.cap, Len(stack)>>
        /\ \A n \in 1 .. Len(events) : events'[n] = events[n]
    BY <1>2, NextEvents DEF StartTool
  <2>2. Busy' /\ Len(stack') = Len(stack) /\ Top' = [Top EXCEPT !.phase = "running"]
    BY <1>1, <1>2 DEF StartTool, Goto, Busy, Top
  <2>3. Top'.phase = "running" /\ Top'.cap = Top.cap
    BY <1>1, <2>2 DEF Frame
  <2>4. ASSUME NEW n \in DOMAIN events', Start(n)', n # Len(events')
        PROVE  /\ n < Len(events')
               /\ events'[n + 1] \in {<<"tool_call_completed", events'[n][2], events'[n][3]>>,
                                     <<"tool_call_failed", events'[n][2], events'[n][3]>>}
    <3>1. n \in 1 .. Len(events) /\ events'[n] = events[n] /\ Start(n)
      BY <2>1, <2>4 DEF Start
    <3>2. n < Len(events)
      BY <1>1, <1>2, <2>1, <3>1 DEF StartTool, PairInv
    <3>3. events'[n + 1] = events[n + 1]
      BY <2>1, <3>1, <3>2
    <3> QED
      BY <2>1, <3>1, <3>2, <3>3 DEF PairInv, EveryStartHasItsEnd, Start
  <2> QED
    BY <2>1, <2>2, <2>3, <2>4 DEF PairInv, EveryStartHasItsEnd, Start
<1>3. CASE ToolReturns \/ (\E no \in BOOLEAN : RequiredReturns(no)) \/ ToolFails
  BY <1>1, <1>3, EndPair DEF ToolReturns, RequiredReturns, ToolFails
<1>4. CASE Decline
  BY <1>1, <1>4, QuietPair DEF Decline
<1>5. CASE Abort
  BY <1>5 DEF Abort, Leave, PairInv, EveryStartHasItsEnd, Busy, Start
<1> QED
  BY <1>2, <1>3, <1>4, <1>5 DEF Handler

(* Every start of a handler in the ledger is followed by its own end, unless *)
(* the call was cut off, whatever the policies and however calls nest.       *)
THEOREM PairTheorem == GateSpec => []EveryStartHasItsEnd
<1>1. GateInit => PairInv
  BY DEF GateInit, PairInv, EveryStartHasItsEnd
<1>2. GateIInv /\ PairInv /\ [GateNext]_gateVars => PairInv'
  <2> SUFFICES ASSUME GateIInv, PairInv, [GateNext]_gateVars PROVE PairInv'
    OBVIOUS
  <2>1. CASE GateDone \/ UNCHANGED gateVars
    BY <2>1 DEF GateDone, gateVars, PairInv, EveryStartHasItsEnd, Busy, Top, Start
  <2>2. ASSUME NEW cap \in Caps, Call(cap) PROVE PairInv'
    BY <2>2 DEF Call, PairInv, EveryStartHasItsEnd
  <2> QED
    BY <2>1, <2>2, LoopsPair, HandlerPair DEF GateNext, GateStep
<1>3. PairInv => EveryStartHasItsEnd
  BY DEF PairInv
<1> QED
  BY GateInvariant, <1>1, <1>2, <1>3, PTL DEF GateSpec

-----------------------------------------------------------------------------
(* The evidence explains the result: each policy the executor's call has     *)
(* behind it is recorded as allowed, and a denial is recorded exactly from   *)
(* the moment it is decided.                                                 *)

Holds(ev, id, outcome) == \E n \in DOMAIN ev : ev[n] = <<id, outcome>>
Denial(ev) == \E id \in PolicyIds : Holds(ev, id, "denied")

BeforeHeld(f, ev, next) ==
  \A i \in BeforeOf(f.cap) : i < next => Holds(ev, <<f.cap, i>>, "allowed")

EvFrame(f, ev) ==
  /\ \A i \in f.allowed : Holds(ev, <<f.cap, i>>, "allowed")
  /\ f.phase \in {"before", "require"} => BeforeHeld(f, ev, f.next)
  /\ f.phase \in {"ready", "running"} =>
       \A i \in BeforeOf(f.cap) : Holds(ev, <<f.cap, i>>, "allowed")

\* A denied deny policy is recorded before its milestone, a refused consent after.
EvTop(f, ev) ==
  /\ Denial(ev) <=> f.phase = "refused" /\ Policies[f.cap][f.next].kind = "deny"
  /\ f.phase = "declined" => Policies[f.cap][f.next].kind = "before"

EvInv ==
  /\ Busy => result = "none" /\ EvFrame(stack[1], evidence) /\ EvTop(Top, evidence)
  /\ ~Busy /\ result = "policy_denied" => Denial(evidence)

(* The evidence after a record.                                              *)
LEMMA HoldsNext ==
  ASSUME GateIInv, NEW id, NEW outcome, Record(id, outcome), NEW x, NEW y
  PROVE  Holds(evidence', x, y) <=> Holds(evidence, x, y) \/ (x = id /\ y = outcome)
<1>1. evidence' = Append(evidence, <<id, outcome>>)
  BY DEF Record
<1>2. Len(evidence) \in Nat /\ DOMAIN evidence = 1 .. Len(evidence)
      /\ DOMAIN evidence' = 1 .. Len(evidence) + 1
      /\ evidence'[Len(evidence) + 1] = <<id, outcome>>
      /\ \A n \in 1 .. Len(evidence) : evidence'[n] = evidence[n]
  BY <1>1 DEF GateIInv, RestInv
<1> QED
  BY <1>2 DEF Holds

(* What is recorded stays recorded, whatever is recorded next.               *)
LEMMA FrameKept ==
  ASSUME NEW f, NEW ev, NEW ew, EvFrame(f, ev),
         \A x : Holds(ev, x, "allowed") => Holds(ew, x, "allowed")
  PROVE  EvFrame(f, ew)
BY DEF EvFrame, BeforeHeld

(* The top activation moves on to f.                                         *)
LEMMA GotoEv ==
  ASSUME GateIInv, EvInv, Busy, NEW f, Goto(f),
         \A x : Holds(evidence, x, "allowed") => Holds(evidence', x, "allowed"),
         Len(stack) = 1 => EvFrame(f, evidence'), EvTop(f, evidence')
  PROVE  EvInv'
<1>1. Len(stack) \in {1, 2} /\ DOMAIN stack = 1 .. Len(stack)
  BY TopInv DEF GateIInv, StackInv
<1>2. /\ stack'[Len(stack)] = f /\ Len(stack') = Len(stack) /\ DOMAIN stack' = DOMAIN stack
      /\ \A n \in DOMAIN stack : n # Len(stack) => stack'[n] = stack[n]
  BY <1>1 DEF Goto, GateIInv, StackInv
<1>3. Busy' /\ result' = result /\ Top' = f
  BY <1>1, <1>2 DEF Goto, Busy, Top
<1>4. EvFrame(stack'[1], evidence')
  <2>1. CASE Len(stack) = 1
    BY <1>2, <2>1
  <2>2. CASE Len(stack) = 2
    BY <1>1, <1>2, <2>2, FrameKept DEF EvInv
  <2> QED
    BY <1>1, <2>1, <2>2
<1> QED
  BY <1>3, <1>4 DEF EvInv

LEMMA LoopsEv == GateIInv /\ EvInv /\ Loops => EvInv'
<1> SUFFICES ASSUME GateIInv, EvInv, Loops PROVE EvInv'
  OBVIOUS
<1>1. Busy
  BY DEF Loops, PassOver, LoopEnds, BindFails, CheckDeny, Conclude, Refuse, AtPolicy, InLoop
<1>2. Len(stack) \in {1, 2} /\ Top \in Frame /\ (Top.allow_before <=> Len(stack) = 1) /\ FrameInv(Top)
      /\ Policies[Top.cap] \in Seq(Policy)
  BY <1>1, TopInv DEF GateIInv
<1>3. /\ Len(stack) = 1 => EvFrame(Top, evidence)
      /\ EvTop(Top, evidence)
  BY <1>1 DEF EvInv, Top
<1>4. CASE PassOver
  <2> DEFINE f == [Top EXCEPT !.next = @ + 1]
  <2>1. /\ f.cap = Top.cap /\ f.phase = Top.phase /\ f.allowed = Top.allowed /\ f.next = Top.next + 1
        /\ Top.phase \in {"deny", "before"} /\ Top.next \in Nat
    BY <1>2, <1>4 DEF Frame, PassOver, AtPolicy, InLoop
  <2>2. Goto(f) /\ evidence' = evidence
    BY <1>4 DEF PassOver
  <2>3. Len(stack) = 1 => EvFrame(f, evidence)
    <3> SUFFICES ASSUME Len(stack) = 1 PROVE EvFrame(f, evidence)
      OBVIOUS
    <3>1. Top.phase = "before" => Top.next \notin BeforeOf(Top.cap)
      BY <1>2, <1>4 DEF PassOver, Applies, TopPolicy, BeforeOf
    <3>2. Top.phase = "before" => BeforeHeld(f, evidence, f.next)
      <4>1. \A i \in BeforeOf(Top.cap) : i \in Nat
        BY <1>2 DEF BeforeOf
      <4> QED
        BY <1>3, <2>1, <3>1, <4>1 DEF EvFrame, BeforeHeld
    <3> HIDE DEF f
    <3> QED
      BY <1>3, <2>1, <3>2 DEF EvFrame
  <2>4. EvTop(f, evidence)
    BY <1>3, <2>1 DEF EvTop
  <2> HIDE DEF f
  <2> QED
    BY <1>1, <2>2, <2>3, <2>4, GotoEv
<1>5. CASE LoopEnds
  <2>1. CASE Top.phase = "deny"
    <3> DEFINE f == [Top EXCEPT !.phase = "before", !.next = 1]
    <3>1. /\ f.cap = Top.cap /\ f.phase = "before" /\ f.allowed = Top.allowed /\ f.next = 1
      BY <1>2 DEF Frame
    <3>2. Goto(f) /\ evidence' = evidence
      BY <1>5, <2>1 DEF LoopEnds
    <3> HIDE DEF f
    <3>3. \A i \in BeforeOf(Top.cap) : ~(i < 1)
      BY <1>2 DEF BeforeOf
    <3>4. Len(stack) = 1 => EvFrame(f, evidence)
      BY <1>3, <3>1, <3>3 DEF EvFrame, BeforeHeld
    <3>5. EvTop(f, evidence)
      BY <1>3, <2>1, <3>1 DEF EvTop
    <3> QED
      BY <1>1, <3>2, <3>4, <3>5, GotoEv
  <2>2. CASE Top.phase = "before"
    <3> DEFINE f == [Top EXCEPT !.phase = "ready"]
    <3>1. /\ f.cap = Top.cap /\ f.phase = "ready" /\ f.allowed = Top.allowed /\ f.next = Top.next
      BY <1>2 DEF Frame
    <3>2. Goto(f) /\ evidence' = evidence /\ Top.next > Len(Policies[Top.cap])
      BY <1>5, <2>2 DEF LoopEnds
    <3> HIDE DEF f
    <3>3. \A i \in BeforeOf(Top.cap) : i < Top.next
      BY <1>2, <3>2 DEF BeforeOf, Frame
    <3>4. Len(stack) = 1 => EvFrame(f, evidence)
      BY <1>3, <2>2, <3>1, <3>3 DEF EvFrame, BeforeHeld
    <3>5. EvTop(f, evidence)
      BY <1>3, <2>2, <3>1 DEF EvTop
    <3> QED
      BY <1>1, <3>2, <3>4, <3>5, GotoEv
  <2> QED
    BY <1>5, <2>1, <2>2 DEF LoopEnds
<1>6. CASE BindFails
  BY <1>6 DEF BindFails, Leave, EvInv, Busy
<1>7. CASE CheckDeny
  <2>1. PICK verdict : Goto([Top EXCEPT !.verdict = verdict])
    BY <1>7 DEF CheckDeny
  <2> DEFINE f == [Top EXCEPT !.verdict = verdict]
  <2>2. f.cap = Top.cap /\ f.phase = "deny" /\ f.allowed = Top.allowed /\ f.next = Top.next
        /\ Top.phase = "deny" /\ evidence' = evidence
    BY <1>2, <1>7 DEF Frame, CheckDeny
  <2>3. Goto(f)
    BY <2>1
  <2> HIDE DEF f
  <2>4. (Len(stack) = 1 => EvFrame(f, evidence)) /\ EvTop(f, evidence)
    BY <1>3, <2>2 DEF EvFrame, EvTop
  <2> QED
    BY <1>1, <2>2, <2>3, <2>4, GotoEv
<1>8. CASE Conclude
  <2>1. /\ Top.phase = "deny" /\ Top.verdict # "none" /\ Top.next \in DenyOf(Top.cap)
        /\ Top.next \in Nat /\ Top.cap \in Caps
    BY <1>2, <1>8 DEF Conclude, FrameInv, AtDeny, AtBefore, AtRequire, AtRefusal, AtTool, Frame
  <2>2. ~Denial(evidence) /\ TopId \in PolicyIds
    BY <1>3, <2>1 DEF EvTop, TopId, PolicyIds, DenyOf
  <2>3. CASE Top.verdict = "allowed"
    <3> DEFINE f == [Top EXCEPT !.verdict = "none", !.next = @ + 1, !.allowed = @ \union {Top.next}]
    <3>1. /\ f.cap = Top.cap /\ f.phase = "deny" /\ f.next = Top.next + 1
          /\ f.allowed = Top.allowed \union {Top.next}
      BY <1>2, <2>1 DEF Frame
    <3>2. Goto(f) /\ Record(TopId, "allowed")
      BY <1>8, <2>3 DEF Conclude
    <3> HIDE DEF f
    <3>3. \A x, y : Holds(evidence', x, y) <=> Holds(evidence, x, y) \/ (x = TopId /\ y = "allowed")
      BY <3>2, HoldsNext
    <3>4. ~Denial(evidence')
      BY <2>2, <3>3 DEF Denial
    <3>5. Len(stack) = 1 => EvFrame(f, evidence')
      BY <1>3, <3>1, <3>3 DEF EvFrame, TopId
    <3>6. EvTop(f, evidence')
      BY <3>1, <3>4 DEF EvTop
    <3> QED
      BY <1>1, <3>2, <3>3, <3>5, <3>6, GotoEv
  <2>4. CASE Top.verdict = "unavailable"
    BY <1>8, <2>4 DEF Conclude, Leave, EvInv, Busy
  <2>5. CASE Top.verdict = "denied"
    <3> DEFINE f == [Top EXCEPT !.phase = "refused", !.verdict = "none"]
    <3>1. /\ f.cap = Top.cap /\ f.phase = "refused" /\ f.next = Top.next /\ f.allowed = Top.allowed
      BY <1>2 DEF Frame
    <3>2. Goto(f) /\ Record(TopId, "denied")
      BY <1>8, <2>5 DEF Conclude
    <3> HIDE DEF f
    <3>3. \A x, y : Holds(evidence', x, y) <=> Holds(evidence, x, y) \/ (x = TopId /\ y = "denied")
      BY <3>2, HoldsNext
    <3>4. Denial(evidence')
      BY <2>2, <3>3 DEF Denial
    <3>5. Len(stack) = 1 => EvFrame(f, evidence')
      BY <1>3, <3>1, <3>3 DEF EvFrame
    <3>6. EvTop(f, evidence')
      BY <2>1, <3>1, <3>4 DEF EvTop, DenyOf
    <3> QED
      BY <1>1, <3>2, <3>3, <3>5, <3>6, GotoEv
  <2> QED
    BY <1>8, <2>3, <2>4, <2>5 DEF Conclude
<1>9. CASE Refuse
  <2>1. Top.phase = "refused" /\ Leave("policy_denied")
    BY <1>9 DEF Refuse
  <2>2. Denial(evidence')
    <3>1. CASE TopPolicy.kind = "before" /\ Record(TopId, "denied")
      <4>1. TopId \in PolicyIds
        BY <1>2, <2>1, PolicyType DEF FrameInv, AtDeny, AtBefore, AtRequire, AtRefusal, AtTool, TopId
      <4> QED
        BY <3>1, <4>1, HoldsNext DEF Denial
    <3>2. CASE TopPolicy.kind = "deny" /\ UNCHANGED evidence
      BY <1>3, <2>1, <3>2 DEF EvTop, TopPolicy
    <3> QED
      BY <1>9, <3>1, <3>2 DEF Refuse
  <2> QED
    BY <2>1, <2>2 DEF EvInv, Leave, Busy
<1> QED
  BY <1>4, <1>5, <1>6, <1>7, <1>8, <1>9 DEF Loops

LEMMA RequiredEv == GateIInv /\ EvInv /\ Required => EvInv'
<1> SUFFICES ASSUME GateIInv, EvInv, Required PROVE EvInv'
  OBVIOUS
<1>1. Busy /\ Top.phase \in {"before", "require"}
  BY DEF Required, EnterBefore, RequiredArgsFail, CallRequired, PassBefore, AtPolicy, InLoop
<1>2. Len(stack) \in {1, 2} /\ Top \in Frame /\ (Top.allow_before <=> Len(stack) = 1) /\ FrameInv(Top)
      /\ Policies[Top.cap] \in Seq(Policy)
  BY <1>1, TopInv DEF GateIInv
<1>3. /\ Len(stack) = 1 => EvFrame(Top, evidence)
      /\ ~Denial(evidence)
  BY <1>1 DEF EvInv, EvTop, Top
<1>4. CASE EnterBefore
  <2> DEFINE f == [Top EXCEPT !.phase = "require", !.req = 1]
  <2>1. /\ f.cap = Top.cap /\ f.phase = "require" /\ f.allowed = Top.allowed /\ f.next = Top.next
        /\ Top.phase = "before"
    BY <1>2, <1>4 DEF Frame, EnterBefore
  <2>2. Goto(f) /\ evidence' = evidence
    BY <1>4 DEF EnterBefore
  <2> HIDE DEF f
  <2>3. (Len(stack) = 1 => EvFrame(f, evidence)) /\ EvTop(f, evidence)
    BY <1>3, <2>1 DEF EvFrame, EvTop, BeforeHeld
  <2> QED
    BY <1>1, <2>2, <2>3, GotoEv
<1>5. CASE RequiredArgsFail
  BY <1>5 DEF RequiredArgsFail, Leave, EvInv, Busy
<1>6. CASE PassBefore
  <2> DEFINE f == [Top EXCEPT !.phase = "before", !.next = @ + 1]
  <2>1. /\ f.cap = Top.cap /\ f.phase = "before" /\ f.allowed = Top.allowed /\ f.next = Top.next + 1
        /\ Top.phase = "require" /\ Top.next \in Nat
    BY <1>2, <1>6 DEF Frame, PassBefore
  <2>2. Goto(f) /\ Record(TopId, "allowed")
    BY <1>6 DEF PassBefore
  <2> HIDE DEF f
  <2>3. \A x, y : Holds(evidence', x, y) <=> Holds(evidence, x, y) \/ (x = TopId /\ y = "allowed")
    BY <2>2, HoldsNext
  <2>4. ~Denial(evidence')
    BY <1>3, <2>3 DEF Denial
  <2>5. \A i \in BeforeOf(Top.cap) : i < Top.next + 1 => i < Top.next \/ i = Top.next
    BY <1>2, <2>1 DEF BeforeOf
  <2>6. Len(stack) = 1 => EvFrame(f, evidence')
    BY <1>3, <2>1, <2>3, <2>5 DEF EvFrame, BeforeHeld, TopId
  <2>7. EvTop(f, evidence')
    BY <2>1, <2>4 DEF EvTop
  <2> QED
    BY <1>1, <2>2, <2>3, <2>6, <2>7, GotoEv
<1>7. CASE CallRequired
  <2> DEFINE f == Activation(TopPolicy.requires[Top.req], FALSE)
  <2>1. AtRequire(Top) /\ Top.req <= Len(TopPolicy.requires)
    BY <1>2, <1>7 DEF CallRequired, FrameInv, AtDeny, AtBefore, AtRequire, AtRefusal, AtTool
  <2>2. TopPolicy \in Policy
    BY <1>2, <2>1, PolicyType DEF AtRequire, BeforeOf, TopPolicy
  <2>3. f \in Frame /\ f.phase = "deny"
    <3>1. TopPolicy.requires[Top.req] \in Caps
      BY <1>2, <2>1, <2>2 DEF Policy, Frame
    <3> QED
      BY <3>1, FreshInv DEF Activation
  <2>4. Len(stack) = 1 /\ stack \in Seq(Frame)
    BY <1>2, <2>1 DEF AtRequire, GateIInv, StackInv
  <2>5. stack' = Append(stack, f) /\ result' = result /\ evidence' = evidence
    BY <1>7 DEF CallRequired
  <2> HIDE DEF f
  <2>6. Len(stack') = 2 /\ stack'[1] = stack[1] /\ stack'[2] = f
    BY <2>3, <2>4, <2>5, TwoFrames
  <2>7. Busy' /\ Top' = f
    BY <2>6 DEF Busy, Top
  <2>8. EvTop(f, evidence)
    BY <1>3, <2>3 DEF EvTop
  <2> QED
    BY <1>1, <2>5, <2>6, <2>7, <2>8 DEF EvInv
<1> QED
  BY <1>4, <1>5, <1>6, <1>7 DEF Required

LEMMA HandlerEv == GateIInv /\ EvInv /\ (Handler \/ Abort) => EvInv'
<1> SUFFICES ASSUME GateIInv, EvInv, Handler \/ Abort PROVE EvInv'
  OBVIOUS
<1>1. Busy /\ Len(stack) \in {1, 2} /\ Top \in Frame /\ DOMAIN stack = 1 .. Len(stack)
      /\ evidence' = evidence
  <2>1. Busy /\ evidence' = evidence
    BY DEF Handler, StartTool, ToolReturns, RequiredReturns, Decline, ToolFails, Abort, Busy
  <2> QED
    BY <2>1, TopInv DEF GateIInv, StackInv
<1>2. /\ Len(stack) = 1 => EvFrame(Top, evidence)
      /\ EvTop(Top, evidence)
  BY <1>1 DEF EvInv, Top
<1>3. CASE StartTool
  <2> DEFINE f == [Top EXCEPT !.phase = "running"]
  <2>1. /\ f.cap = Top.cap /\ f.phase = "running" /\ f.allowed = Top.allowed /\ f.next = Top.next
        /\ Top.phase = "ready" /\ Goto(f)
    BY <1>1, <1>3 DEF Frame, StartTool
  <2> HIDE DEF f
  <2>2. (Len(stack) = 1 => EvFrame(f, evidence)) /\ EvTop(f, evidence)
    BY <1>2, <2>1 DEF EvFrame, EvTop
  <2> QED
    BY <1>1, <2>1, <2>2, GotoEv
<1>4. CASE ToolReturns \/ ToolFails \/ Abort
  BY <1>4 DEF ToolReturns, ToolFails, Abort, Leave, EvInv, Busy
<1>5. ASSUME NEW no \in BOOLEAN, RequiredReturns(no) PROVE EvInv'
  <2> DEFINE f == IF no THEN [Outer EXCEPT !.phase = "declined"] ELSE Met(Outer)
  <2>1. Len(stack) = 2 /\ Top.phase = "running"
    BY <1>1, <1>5 DEF RequiredReturns
  <2>2. AtRequire(stack[1]) /\ stack[1] \in Frame /\ Outer = stack[1]
    <3>1. 2 - 1 = 1 /\ 1 \in DOMAIN stack /\ 1 < Len(stack)
      BY <1>1, <2>1
    <3>2. Outer = stack[1]
      BY <2>1, <3>1 DEF Outer
    <3> QED
      BY <3>1, <3>2, ElementOfSeq DEF GateIInv, StackInv
  <2>3. /\ f.cap = Outer.cap /\ f.next = Outer.next /\ f.allowed = Outer.allowed
        /\ f.phase = IF no THEN "declined" ELSE "require"
    BY <2>2 DEF AtRequire, Met, Frame
  <2>4. EvFrame(Outer, evidence) /\ Outer.phase = "require" /\ Outer.next \in BeforeOf(Outer.cap)
    BY <1>1, <2>2 DEF EvInv, AtRequire
  <2>5. stack' = Append(SubSeq(stack, 1, Len(stack) - 2), f) /\ result' = result
    BY <1>5 DEF RequiredReturns
  <2>6. SubSeq(stack, 1, Len(stack) - 2) = <<>>
    BY <2>1 DEF GateIInv, StackInv
  <2> HIDE DEF f
  <2>7. stack' = Append(<<>>, f)
    BY <2>5, <2>6
  <2>8. Busy' /\ stack'[1] = f /\ Top' = f
    BY <2>7 DEF Busy, Top
  <2>9. EvFrame(f, evidence)
    BY <2>3, <2>4 DEF EvFrame, BeforeHeld
  <2>10. EvTop(f, evidence)
    BY <1>2, <2>1, <2>3, <2>4 DEF EvTop, BeforeOf
  <2> QED
    BY <1>1, <2>5, <2>8, <2>9, <2>10 DEF EvInv
<1>6. CASE Decline
  <2> DEFINE f == [Top EXCEPT !.phase = "refused"]
  <2>1. /\ f.cap = Top.cap /\ f.phase = "refused" /\ f.allowed = Top.allowed /\ f.next = Top.next
        /\ Top.phase = "declined" /\ Goto(f)
    BY <1>1, <1>6 DEF Frame, Decline
  <2> HIDE DEF f
  <2>2. (Len(stack) = 1 => EvFrame(f, evidence)) /\ EvTop(f, evidence)
    BY <1>2, <2>1 DEF EvFrame, EvTop
  <2> QED
    BY <1>1, <2>1, <2>2, GotoEv
<1> QED
  BY <1>3, <1>4, <1>5, <1>6 DEF Handler

LEMMA CallEv == ASSUME GateIInv, EvInv, NEW cap \in Caps, Call(cap) PROVE EvInv'
<1>1. evidence' = <<>> /\ ~Denial(<<>>)
  BY DEF Call, Denial, Holds
<1>2. CASE cap \in StageRequires
  <2> DEFINE f == Activation(cap, TRUE)
  <2>1. stack' = <<f>> /\ result' = "none"
    BY <1>2 DEF Call
  <2>2. f.phase = "deny" /\ f.allowed = {}
    BY DEF Activation
  <2> HIDE DEF f
  <2>3. Busy' /\ stack'[1] = f /\ Top' = f
    BY <2>1 DEF Busy, Top
  <2>4. EvFrame(f, <<>>) /\ EvTop(f, <<>>)
    BY <1>1, <2>2 DEF EvFrame, EvTop
  <2> QED
    BY <1>1, <2>1, <2>3, <2>4 DEF EvInv
<1>3. CASE cap \notin StageRequires
  BY <1>3 DEF Call, EvInv, Busy
<1> QED
  BY <1>2, <1>3

(* The recorded evidence explains the result, whatever the policies: a       *)
(* handler of the executor runs with an "allowed" for each of its policies   *)
(* and no "denied", and a refusal leaves a "denied".                         *)
THEOREM EvidenceAgreement == GateSpec => []EvidenceAgrees
<1>1. GateInit => EvInv
  BY DEF GateInit, EvInv, Busy
<1>2. GateIInv /\ EvInv /\ [GateNext]_gateVars => EvInv'
  <2> SUFFICES ASSUME GateIInv, EvInv, [GateNext]_gateVars PROVE EvInv'
    OBVIOUS
  <2>1. CASE GateDone \/ UNCHANGED gateVars
    BY <2>1 DEF GateDone, gateVars, EvInv, Busy, Top
  <2> QED
    BY <2>1, LoopsEv, RequiredEv, HandlerEv, CallEv DEF GateNext, GateStep
<1>3. GateIInv /\ EvInv => EvidenceAgrees
  <2> SUFFICES ASSUME GateIInv, EvInv PROVE EvidenceAgrees
    OBVIOUS
  <2>1. ASSUME Busy, stack[1].phase = "running"
        PROVE  /\ \A i \in DenyOf(stack[1].cap) \union BeforeOf(stack[1].cap) :
                     Recorded(<<stack[1].cap, i>>, "allowed")
               /\ \A id \in PolicyIds : ~Recorded(id, "denied")
    <3>1. Len(stack) \in {1, 2} /\ DOMAIN stack = 1 .. Len(stack)
      BY <2>1, TopInv DEF GateIInv, StackInv
    <3>2. FrameInv(stack[1])
      BY <3>1 DEF GateIInv, StackInv
    <3>3. AtTool(stack[1])
      BY <2>1, <3>2 DEF FrameInv, AtDeny, AtBefore, AtRequire, AtRefusal, AtTool
    <3>4. Len(stack) = 1
      <4>1. Len(stack) = 2 => AtRequire(stack[1])
        BY <3>1 DEF GateIInv, StackInv
      <4> QED
        BY <2>1, <3>1, <4>1 DEF AtRequire
    <3>5. EvFrame(stack[1], evidence) /\ EvTop(stack[1], evidence)
      BY <2>1, <3>4 DEF EvInv, Top
    <3>6. \A id, outcome : Recorded(id, outcome) <=> Holds(evidence, id, outcome)
      BY DEF Recorded, Holds
    <3> QED
      BY <2>1, <3>3, <3>5, <3>6 DEF AtTool, Cleared, EvFrame, EvTop, Denial
  <2>2. result = "policy_denied" => \E id \in PolicyIds : Recorded(id, "denied")
    BY DEF EvInv, Denial, Holds, Recorded
  <2> QED
    BY <2>1, <2>2 DEF EvidenceAgrees
<1> QED
  BY GateInvariant, <1>1, <1>2, <1>3, PTL DEF GateSpec

(* What runs was let through, and what was refused did not run.              *)
THEOREM HoldsTheorem == GateSpec => []GateHolds
  BY GateTypeCorrect, GuardTheorem, RefusalTheorem, PTL DEF GateHolds
=============================================================================
