---------------------------- MODULE Tools_proofs ----------------------------
(* Theorems about a tool call on its way: the tool that is bound to a stage  *)
(* (ToolBinding), the handlers that run at once (OfficialTools), the calls   *)
(* and answers between model and executor (Adapters), and the conditions a   *)
(* guard or a policy evaluates (Guards), however deep.                       *)
EXTENDS ToolBinding, OfficialTools, Adapters, Guards, FiniteSetTheorems, FunctionTheorems,
        WellFoundedInduction, TLAPS

-----------------------------------------------------------------------------
(* ToolBinding, for every set of tools, every manifest and every catalog:    *)
(* what is left to fail in a deterministic stage once the runtime was built  *)
(* is neither a missing argument nor a required output.                      *)
(* The inductive invariant: the tools keep their type, the tool bound is one *)
(* that fits, and each failure of the call says why.                         *)

Running == {"built", "completed", "ToolInvocationError", "StageOutputValidationError"}

ListInv == tools \in Seq(Tools) /\ Len(tools) <= MaxTools

BoundInv ==
  /\ stage \in Stages /\ outcome \in Outcomes
  /\ bound \subseteq Candidates(Registered(stage.capability), stage)
  /\ outcome \in {"listing", "registered"} => bound = {}
  /\ outcome \in {"built", "WorkflowValidationError"} => bound = Select(tools, stage)
  /\ Cardinality(bound) = IF outcome \in Running THEN 1 ELSE 0

FailureInv ==
  /\ outcome = "ToolInvocationError" => \A t \in bound : ~Accepts(t, stage.args)
  /\ outcome = "StageOutputValidationError" => \A t \in bound : ~t.mapping \/ Misfits(t, stage) # {}

BindingInv == ListInv /\ BoundInv /\ FailureInv

-----------------------------------------------------------------------------
(* Selection binds candidates among the registered tools, one or none.       *)
LEMMA SelectFits ==
  ASSUME NEW s
  PROVE  /\ Select(tools, s) \subseteq Candidates(Registered(s.capability), s)
         /\ Select(tools, s) # {} => Cardinality(Select(tools, s)) = 1
BY DEF Select, Registered

(* What is bound is finite, as the list it is taken from.                    *)
LEMMA BoundFinite == ListInv /\ BoundInv => IsFiniteSet(bound)
<1> SUFFICES ASSUME ListInv, BoundInv PROVE IsFiniteSet(bound)
  OBVIOUS
<1>1. Len(tools) \in Nat /\ DOMAIN tools = 1 .. Len(tools)
  BY DEF ListInv
<1>2. IsFiniteSet(1 .. Len(tools))
  BY <1>1, FS_Interval
<1>3. IsFiniteSet(Range(tools))
  <2>1. tools \in Surjection(1 .. Len(tools), Range(tools))
    <3>1. tools \in [1 .. Len(tools) -> Tools]
      BY <1>1 DEF ListInv
    <3> QED
      BY <3>1, Fun_RangeProperties
  <2> QED
    BY <1>2, <2>1, FS_Surjection
<1>4. bound \subseteq Range(tools)
  BY DEF BoundInv, Candidates, Registered
<1> QED
  BY <1>3, <1>4, FS_Subset

LEMMA InitBindingInv == BindingInit => BindingInv
BY FS_EmptySet, BindingAssumption
   DEF BindingInit, BindingInv, ListInv, BoundInv, FailureInv, Running, Outcomes, BindingAssumption

LEMMA NextBindingInv == BindingInv /\ [BindingNext]_bindingVars => BindingInv'
<1> SUFFICES ASSUME BindingInv, [BindingNext]_bindingVars PROVE BindingInv'
  OBVIOUS
<1> USE DEF BindingInv, ListInv, BoundInv, FailureInv, Running, Outcomes
<1>1. ASSUME NEW t \in Tools, Add(t) PROVE BindingInv'
  BY <1>1, BindingAssumption DEF Add, BindingAssumption
<1>2. CASE Register
  BY <1>2 DEF Register, Registered
<1>3. CASE Build
  <2>1. CASE Registered(stage.capability) = {}
    BY <1>3, <2>1 DEF Build, Registered
  <2>2. CASE Registered(stage.capability) # {}
    <3>1. bound' = Select(tools, stage) /\ UNCHANGED <<tools, stage>>
          /\ outcome' = IF bound' = {} THEN "WorkflowValidationError" ELSE "built"
      BY <1>3, <2>2 DEF Build
    <3>2. bound' \subseteq Candidates(Registered(stage.capability), stage)
          /\ (bound' # {} => Cardinality(bound') = 1)
      BY <3>1, SelectFits
    <3> QED
      BY <3>1, <3>2, FS_EmptySet DEF Registered
  <2> QED
    BY <2>1, <2>2
<1>4. CASE Execute
  <2>1. UNCHANGED <<tools, stage, bound>> /\ outcome \in {"built", "completed"}
    BY <1>4 DEF Execute
  <2>2. PICK t \in bound :
          outcome' = IF ~Accepts(t, stage.args) THEN "ToolInvocationError"
                     ELSE IF stage.writes # {} /\ (~t.mapping \/ Misfits(t, stage) # {})
                     THEN "StageOutputValidationError" ELSE "completed"
    BY <1>4 DEF Execute
  <2>3. bound = {t}
    BY <2>1, <2>2, BoundFinite, FS_Singleton
  <2>4. BindingInv'
    <3>1. ListInv' /\ BoundInv'
      BY <2>1, <2>2 DEF Registered
    <3>2. FailureInv'
      BY <2>1, <2>2, <2>3
    <3> QED
      BY <3>1, <3>2
  <2> QED
    BY <2>4
<1>5. CASE UNCHANGED bindingVars
  BY <1>5 DEF bindingVars, Registered
<1> QED
  BY <1>1, <1>2, <1>3, <1>4, <1>5 DEF BindingNext

LEMMA BindingInvariance == BindingSpec => []BindingInv
  BY InitBindingInv, NextBindingInv, PTL DEF BindingSpec

-----------------------------------------------------------------------------
(* Types are kept, and a built runtime has exactly one tool for the stage,   *)
(* registered for its capability.                                            *)
THEOREM BindingTypeCorrect == BindingSpec => []BindingTypeOK
<1>1. BindingInv => BindingTypeOK
  <2> SUFFICES ASSUME BindingInv PROVE BindingTypeOK
    OBVIOUS
  <2>1. Range(tools) \subseteq Tools
    BY DEF BindingInv, ListInv, Range
  <2>2. bound \subseteq Registered(stage.capability)
    BY DEF BindingInv, BoundInv, Candidates
  <2> QED
    BY <2>1, <2>2 DEF BindingInv, ListInv, BoundInv, BindingTypeOK, Running
<1> QED BY <1>1, BindingInvariance, PTL

(* A list in another order has the same elements: an injection of a finite   *)
(* set into itself is onto.                                                  *)
LEMMA ReorderedRange ==
  ASSUME tools \in Seq(Tools), NEW p \in [DOMAIN tools -> DOMAIN tools], IsInjective(p)
  PROVE  Range([i \in DOMAIN tools |-> tools[p[i]]]) = Range(tools)
<1>1. IsFiniteSet(DOMAIN tools)
  <2>1. DOMAIN tools = 1 .. Len(tools) /\ Len(tools) \in Int /\ 1 \in Int
    OBVIOUS
  <2> QED
    BY ONLY <2>1, FS_Interval
<1>2. p \in Injection(DOMAIN tools, DOMAIN tools)
  BY DEF Injection
<1>3. p \in Surjection(DOMAIN tools, DOMAIN tools)
  BY <1>1, <1>2, FS_Injection
<1>4. \A j \in DOMAIN tools : \E i \in DOMAIN tools : p[i] = j
  BY <1>3, Fun_SurjectionProperties
<1> QED
  BY <1>4 DEF Range

(* The tool a stage gets depends on the tools listed, not on their order.    *)
THEOREM OrderTheorem == BindingSpec => []OrderFree
<1>1. BindingInv => OrderFree
  <2> SUFFICES ASSUME BindingInv, outcome \in {"built", "WorkflowValidationError"},
                      NEW p \in [DOMAIN tools -> DOMAIN tools], IsInjective(p)
               PROVE  Select([i \in DOMAIN tools |-> tools[p[i]]], stage) = bound
    BY DEF OrderFree
  <2> DEFINE list == [i \in DOMAIN tools |-> tools[p[i]]]
  <2>1. Range(list) = Range(tools)
    BY ReorderedRange DEF BindingInv, ListInv
  <2>2. Select(list, stage) = Select(tools, stage)
    BY <2>1 DEF Select
  <2> QED
    BY <2>2 DEF BindingInv, BoundInv
<1> QED BY <1>1, BindingInvariance, PTL

(* A call that fails on its arguments was given one the tool does not take:  *)
(* selection leaves no argument to be missing.                               *)
THEOREM ArgumentTheorem == BindingSpec => []NothingMissing
<1>1. BindingInv => NothingMissing
  BY DEF BindingInv, BoundInv, FailureInv, NothingMissing, Accepts, Candidates
<1> QED BY <1>1, BindingInvariance, PTL

(* A required output that selection found in a tool's schema is one that     *)
(* validation accepts in its result, if the schema is true of the result.    *)
LEMMA RequiredFits ==
  ASSUME NEW s \in Stages, NEW t, SatisfiesOutputs(t, s.writes), Honest(t),
         NEW w \in s.writes, ~w.optional
  PROVE  w \notin Misfits(t, s)
<1>1. w.name \in DOMAIN OutputSchema(t) /\ TypeSatisfies(OutputSchema(t)[w.name], w.type)
  BY DEF SatisfiesOutputs
<1>2. w.name \in DOMAIN t.fields /\ t.fields[w.name] = OutputSchema(t)[w.name]
  BY <1>1 DEF OutputSchema, Honest
<1>3. (CHOOSE v \in s.writes : v.name = w.name) = w
  BY BindingAssumption DEF BindingAssumption
<1> DEFINE value == IF w.type = "path" /\ t.fields[w.name] = "str" THEN "Path" ELSE t.fields[w.name]
<1>4. w.name \in DOMAIN Projected(t, s) /\ Projected(t, s)[w.name] = value
  BY <1>2, <1>3 DEF Projected
<1>5. w.type \in WriteTypes
  BY BindingAssumption DEF BindingAssumption
<1>6. ValueFits(value, w.type)
  BY <1>1, <1>2, <1>5 DEF TypeSatisfies, ValueFits, WriteTypes
<1> QED
  BY <1>4, <1>6 DEF Misfits

(* When the outputs of an honest tool are refused, an optional one is the    *)
(* reason.                                                                   *)
THEOREM OutputTheorem == BindingSpec => []RequiredOutputsFit
<1>1. BindingInv => RequiredOutputsFit
  BY RequiredFits DEF BindingInv, BoundInv, RequiredOutputsFit, Candidates, Misfits
<1> QED BY <1>1, BindingInvariance, PTL

(* What the runtime settles when it is built still holds when the stage runs: *)
(* one tool in any order, no argument missing, and the required outputs of a  *)
(* tool that keeps to its schema.                                             *)
THEOREM BindingTheorem == BindingSpec => []BindingIsSound
<1>1. BindingTypeOK /\ OrderFree /\ NothingMissing /\ RequiredOutputsFit => BindingIsSound
  BY DEF BindingIsSound
<1> QED BY <1>1, BindingTypeCorrect, OrderTheorem, ArgumentTheorem, OutputTheorem, PTL

-----------------------------------------------------------------------------
(* OfficialTools. The inductive invariant: a call is of one run and has no   *)
(* result before it returns, a command that returned left nobody at its      *)
(* pipe, and a run that edits has the loop and read every edit made.         *)

Edited(r) == pc[r] = "idle" /\ cur[r] # 0 /\ result[cur[r]] = "edited"

FileTexts == {"old", "new", "child"}

PlacesInv ==
  /\ loop \subseteq Runs /\ pc \in [Runs -> Places]
  /\ calls \in 0 .. MaxCalls /\ cur \in [Runs -> 0 .. calls]
  /\ result \in [Calls -> Results]
  /\ file \in [Runs -> FileTexts] /\ draft \in [Runs -> [Runs -> FileTexts]]
  /\ procs \subseteq Process /\ threads \subseteq Thread
  /\ printed \subseteq 1 .. calls /\ lost \subseteq printed
  /\ lines \in 0 .. MaxLines /\ yeses \in 0 .. lines

CallsInv ==
  /\ \A r, s \in Runs : r # s /\ cur[r] # 0 => cur[r] # cur[s]
  /\ \A c \in Calls : c > calls => result[c] = "none"
  /\ \A r \in Runs : pc[r] # "idle" => cur[r] # 0 /\ result[cur[r]] = "none"
  /\ \A r \in Runs : pc[r] = "idle" /\ cur[r] # 0 => result[cur[r]] # "none"

OwnersInv ==
  /\ \A p \in procs : p.call <= calls
  /\ \A t \in threads : t.call <= calls

QuietInv ==
  \A p \in procs : result[p.call] \in {"completed", "timed_out"} => p.kind = "kid" /\ ~p.pipe

EditInv ==
  /\ \A r \in Runs : pc[r] = "editing" => loop = {r} /\ \A x \in Runs : Edited(x) => draft[r][x] # "old"
  /\ \A r \in Runs : Edited(r) => file[r] # "old"

HandlersInv == PlacesInv /\ CallsInv /\ OwnersInv /\ QuietInv /\ EditInv /\ ConsentNeedsYes

LEMMA InitHandlersInv == ToolsInit => HandlersInv
<1> SUFFICES ASSUME ToolsInit PROVE HandlersInv
  OBVIOUS
<1> USE ToolsAssumption DEF ToolsInit, ToolsAssumption
<1>1. PlacesInv
  BY DEF PlacesInv, Places, Results, FileTexts, Calls
<1>2. CallsInv /\ OwnersInv /\ QuietInv /\ EditInv
  BY DEF CallsInv, OwnersInv, QuietInv, EditInv, Edited, Calls
<1>3. ConsentNeedsYes
  <2>1. {c \in Calls : result[c] = "consent"} = {}
    OBVIOUS
  <2> QED
    BY <2>1, FS_EmptySet DEF ConsentNeedsYes
<1> QED
  BY <1>1, <1>2, <1>3 DEF HandlersInv

-----------------------------------------------------------------------------
(* What a call that begins and one that returns do to the bookkeeping, from  *)
(* which the steps of most handlers follow.                                  *)
LEMMA CallBegins ==
  ASSUME PlacesInv, CallsInv, NEW r \in Runs, NEW where \in Places \ {"idle"}, Call(r, where)
  PROVE  /\ calls' = calls + 1 /\ calls' \in Calls /\ calls' \in 0 .. MaxCalls
         /\ pc' \in [Runs -> Places] /\ cur' \in [Runs -> 0 .. calls'] /\ result' = result
         /\ pc'[r] = where /\ cur'[r] = calls' /\ result[calls'] = "none"
         /\ \A x \in Runs : x # r => pc'[x] = pc[x] /\ cur'[x] = cur[x]
         /\ \A x \in Runs : Edited(x)' => x # r /\ Edited(x)
         /\ CallsInv'
<1>1. calls' = calls + 1 /\ calls' \in Calls /\ calls' \in 0 .. MaxCalls /\ result' = result
  BY ToolsAssumption DEF ToolsAssumption, Call, PlacesInv, Calls
<1>2. cur' \in [Runs -> 0 .. calls'] /\ cur'[r] = calls' /\ \A x \in Runs : x # r => cur'[x] = cur[x]
  BY <1>1 DEF Call, PlacesInv
<1>3. pc' \in [Runs -> Places] /\ pc'[r] = where /\ \A x \in Runs : x # r => pc'[x] = pc[x]
  BY DEF Call, PlacesInv
<1>4. result[calls'] = "none"
  BY <1>1 DEF CallsInv, PlacesInv
<1>5. \A x \in Runs : x # r => cur[x] # calls'
  BY <1>1, ToolsAssumption DEF ToolsAssumption, PlacesInv, Calls
<1>6. \A x \in Runs : Edited(x)' => x # r /\ Edited(x)
  BY <1>1, <1>2, <1>3 DEF Edited
<1>7. CallsInv'
  <2>1. \A x, y \in Runs : x # y /\ cur'[x] # 0 => cur'[x] # cur'[y]
    BY <1>1, <1>2, <1>5 DEF CallsInv
  <2>2. \A c \in Calls : c > calls' => result'[c] = "none"
    BY <1>1 DEF CallsInv, Calls, PlacesInv
  <2>3. \A x \in Runs : pc'[x] # "idle" => cur'[x] # 0 /\ result'[cur'[x]] = "none"
    BY <1>1, <1>2, <1>3, <1>4 DEF CallsInv, PlacesInv
  <2>4. \A x \in Runs : pc'[x] = "idle" /\ cur'[x] # 0 => result'[cur'[x]] # "none"
    BY <1>1, <1>2, <1>3 DEF CallsInv
  <2> QED
    BY <2>1, <2>2, <2>3, <2>4 DEF CallsInv
<1> QED
  BY <1>1, <1>2, <1>3, <1>4, <1>6, <1>7

LEMMA CallReturns ==
  ASSUME PlacesInv, CallsInv, NEW r \in Runs, pc[r] # "idle", NEW how \in Results \ {"none"},
         Returns(r, how), UNCHANGED <<cur, calls>>
  PROVE  /\ cur[r] \in Calls /\ result[cur[r]] = "none"
         /\ pc' \in [Runs -> Places] /\ result' \in [Calls -> Results]
         /\ pc'[r] = "idle" /\ result'[cur[r]] = how
         /\ \A x \in Runs : x # r => pc'[x] = pc[x]
         /\ \A c \in Calls : c # cur[r] => result'[c] = result[c]
         /\ \A x \in Runs : x # r /\ cur[x] # 0 => cur[x] # cur[r]
         /\ \A x \in Runs : x # r => (Edited(x)' <=> Edited(x))
         /\ CallsInv'
<1>1. cur[r] \in Calls /\ result[cur[r]] = "none"
  BY ToolsAssumption DEF ToolsAssumption, PlacesInv, CallsInv, Calls
<1>2. pc' \in [Runs -> Places] /\ result' \in [Calls -> Results]
  BY <1>1 DEF PlacesInv, Returns, Places
<1>3. pc'[r] = "idle" /\ \A x \in Runs : x # r => pc'[x] = pc[x]
  BY DEF PlacesInv, Returns
<1>4. result'[cur[r]] = how /\ \A c \in Calls : c # cur[r] => result'[c] = result[c]
  BY <1>1 DEF PlacesInv, Returns
<1>5. \A x \in Runs : x # r /\ cur[x] # 0 => cur[x] \in Calls /\ cur[x] # cur[r]
  BY ToolsAssumption DEF ToolsAssumption, PlacesInv, CallsInv, Calls
<1>6. \A x \in Runs : x # r => (Edited(x)' <=> Edited(x))
  BY <1>3, <1>4, <1>5 DEF Edited
<1>7. CallsInv'
  <2>1. \A c \in Calls : c > calls => c # cur[r]
    BY <1>1 DEF PlacesInv, Calls
  <2>2. \A c \in Calls : c > calls' => result'[c] = "none"
    BY <1>4, <2>1 DEF CallsInv
  <2>3. \A x \in Runs : pc'[x] # "idle" => cur'[x] # 0 /\ result'[cur'[x]] = "none"
    BY <1>3, <1>4, <1>5 DEF CallsInv
  <2>4. \A x \in Runs : pc'[x] = "idle" /\ cur'[x] # 0 => result'[cur'[x]] # "none"
    BY <1>3, <1>4, <1>5 DEF CallsInv
  <2> QED
    BY <2>2, <2>3, <2>4 DEF CallsInv
<1> QED
  BY <1>1, <1>2, <1>3, <1>4, <1>5, <1>6, <1>7

(* A write of the whole file is a call that begins and ends in one step.     *)
LEMMA WriteIsCall ==
  ASSUME PlacesInv, CallsInv, NEW r \in Runs, WriteFile(r)
  PROVE  /\ calls' = calls + 1 /\ calls' \in Calls /\ calls' \in 0 .. MaxCalls
         /\ cur' \in [Runs -> 0 .. calls'] /\ result' \in [Calls -> Results]
         /\ result[calls'] = "none" /\ result'[calls'] = "edited"
         /\ \A c \in Calls : c # calls' => result'[c] = result[c]
         /\ CallsInv'
<1>1. calls' = calls + 1 /\ calls' \in Calls /\ calls' \in 0 .. MaxCalls
  BY ToolsAssumption DEF ToolsAssumption, WriteFile, PlacesInv, Calls
<1>2. cur' \in [Runs -> 0 .. calls'] /\ cur'[r] = calls' /\ \A x \in Runs : x # r => cur'[x] = cur[x]
  BY <1>1 DEF WriteFile, PlacesInv
<1>3. result' \in [Calls -> Results] /\ result'[calls'] = "edited"
      /\ \A c \in Calls : c # calls' => result'[c] = result[c]
  BY <1>1 DEF WriteFile, PlacesInv, Results
<1>4. result[calls'] = "none"
  BY <1>1 DEF CallsInv, PlacesInv
<1>5. \A x \in Runs : x # r => cur[x] # calls' /\ (cur[x] # 0 => cur[x] \in Calls)
  BY <1>1, ToolsAssumption DEF ToolsAssumption, PlacesInv, Calls
<1>6. pc' = pc /\ pc[r] = "idle"
  BY DEF WriteFile
<1>7. CallsInv'
  <2>1. \A x, y \in Runs : x # y /\ cur'[x] # 0 => cur'[x] # cur'[y]
    BY <1>1, <1>2, <1>5 DEF CallsInv
  <2>2. \A c \in Calls : c > calls' => result'[c] = "none"
    BY <1>1, <1>3 DEF CallsInv, Calls, PlacesInv
  <2>3. \A x \in Runs : pc'[x] # "idle" => cur'[x] # 0 /\ result'[cur'[x]] = "none"
    BY <1>2, <1>3, <1>5, <1>6 DEF CallsInv
  <2>4. \A x \in Runs : pc'[x] = "idle" /\ cur'[x] # 0 => result'[cur'[x]] # "none"
    BY <1>2, <1>3, <1>5, <1>6 DEF CallsInv
  <2> QED
    BY <2>1, <2>2, <2>3, <2>4 DEF CallsInv
<1> QED
  BY <1>1, <1>2, <1>3, <1>4, <1>7

(* A step that gives one call a result gives at most one consent more, and   *)
(* that needs a yes more.                                                    *)
LEMMA ConsentsGrow ==
  ASSUME PlacesInv, ConsentNeedsYes, NEW c \in Calls, result[c] = "none",
         \A d \in Calls : d # c => result'[d] = result[d],
         yeses' \in Nat, yeses' >= yeses, result'[c] = "consent" => yeses' >= yeses + 1
  PROVE  ConsentNeedsYes'
<1> DEFINE S == {d \in Calls : result[d] = "consent"}
           T == {d \in Calls : result'[d] = "consent"}
<1>1. IsFiniteSet(S) /\ Cardinality(S) \in Nat
  <2>1. IsFiniteSet(Calls)
    BY ToolsAssumption, FS_Interval DEF ToolsAssumption, Calls
  <2> QED
    BY <2>1, FS_Subset, FS_CardinalityType
<1>2. Cardinality(S) <= yeses /\ yeses \in Nat
  BY ToolsAssumption DEF ToolsAssumption, ConsentNeedsYes, PlacesInv
<1>3. CASE result'[c] = "consent"
  <2>1. T = S \union {c} /\ c \notin S
    BY <1>3
  <2>2. Cardinality(T) = Cardinality(S) + 1
    BY <1>1, <2>1, FS_AddElement
  <2> QED
    BY <1>1, <1>2, <1>3, <2>2 DEF ConsentNeedsYes
<1>4. CASE result'[c] # "consent"
  <2>1. T = S
    BY <1>4
  <2> QED
    BY <1>1, <1>2, <2>1 DEF ConsentNeedsYes
<1> QED
  BY <1>3, <1>4

(* A new call owns nothing of what there is.                                 *)
LEMMA OwnersStay ==
  ASSUME PlacesInv, OwnersInv, calls' \in 0 .. MaxCalls, calls' = calls + 1,
         NEW S, S \subseteq procs, NEW T, T \subseteq threads
  PROVE  /\ \A q \in S : q.call \in Calls /\ q.call <= calls' /\ q.call # calls'
         /\ \A t \in T : t.call \in Calls /\ t.call <= calls' /\ t.call # calls'
         /\ printed \subseteq 1 .. calls'
<1>1. \A q \in procs : q.call \in Calls
  BY DEF PlacesInv, Process
<1>2. \A t \in threads : t.call \in Calls
  BY DEF PlacesInv, Thread
<1>3. MaxCalls \in Nat /\ calls \in Nat
  BY ToolsAssumption DEF ToolsAssumption, PlacesInv
<1>4. printed \subseteq 1 .. calls'
  BY <1>3 DEF PlacesInv
<1> QED
  BY <1>1, <1>2, <1>3, <1>4 DEF OwnersInv, Calls

-----------------------------------------------------------------------------
(* One step per handler.                                                     *)
LEMMA EditKeeps ==
  ASSUME HandlersInv, NEW r \in Runs, EditRead(r) \/ EditWrite(r) \/ WriteFile(r)
  PROVE  HandlersInv'
<1> USE DEF HandlersInv
<1>1. CASE EditRead(r)
  <2>1. Call(r, "editing") /\ "editing" \in Places \ {"idle"}
    BY <1>1 DEF EditRead, Places
  <2>2. UNCHANGED <<file, shellVars, consoleVars>> /\ loop = {} /\ loop' = {r}
        /\ draft' \in [Runs -> [Runs -> FileTexts]] /\ draft'[r] = file
        /\ \A x \in Runs : x # r => draft'[x] = draft[x]
    BY <1>1 DEF EditRead, Call, PlacesInv
  <2>3. calls' = calls + 1 /\ calls' \in 0 .. MaxCalls /\ result' = result
        /\ pc' \in [Runs -> Places] /\ cur' \in [Runs -> 0 .. calls'] /\ CallsInv'
    BY <2>1, CallBegins
  <2>4. PlacesInv' /\ OwnersInv' /\ QuietInv'
    BY <2>2, <2>3, OwnersStay DEF PlacesInv, OwnersInv, QuietInv, shellVars, consoleVars
  <2>5. EditInv'
    BY <2>1, <2>2, CallBegins DEF EditInv
  <2>6. ConsentNeedsYes'
    BY <2>2, <2>3 DEF ConsentNeedsYes, consoleVars
  <2> QED
    BY <2>3, <2>4, <2>5, <2>6
<1>2. CASE EditWrite(r)
  <2>1. PICK how \in {"edited", "error"} :
          /\ Returns(r, how)
          /\ how = "edited" => draft[r][r] = "old" /\ file' = [draft[r] EXCEPT ![r] = "new"]
          /\ how = "error" => UNCHANGED file
    BY <1>2 DEF EditWrite
  <2>2. how \in Results \ {"none"} /\ pc[r] # "idle" /\ loop = {r} /\ loop' = {}
        /\ UNCHANGED <<cur, calls, draft, shellVars, consoleVars>>
    BY <1>2 DEF EditWrite, Results, EditInv
  <2>3. file' \in [Runs -> FileTexts]
    BY <2>1 DEF PlacesInv, FileTexts
  <2>4. PlacesInv' /\ CallsInv' /\ OwnersInv'
    BY <2>1, <2>2, <2>3, CallReturns DEF PlacesInv, OwnersInv, shellVars, consoleVars
  <2>5. QuietInv'
    <3>1. \A c \in Calls : result'[c] \in {"completed", "timed_out"} => result[c] = result'[c]
      BY <2>1, <2>2, CallReturns
    <3> QED
      BY <2>2, <3>1 DEF QuietInv, shellVars, PlacesInv, Process
  <2>6. EditInv'
    <3>1. \A x \in Runs : pc'[x] # "editing"
      <4>1. \A x \in Runs : pc[x] = "editing" => x = r
        BY <2>2 DEF EditInv
      <4> QED
        BY <2>1, <2>2, <4>1, CallReturns
    <3>2. ASSUME NEW x \in Runs, Edited(x)' PROVE file'[x] # "old"
      <4>1. CASE x = r
        <5>1. how = "edited"
          BY <2>1, <2>2, <3>2, <4>1, CallReturns DEF Edited
        <5> QED
          BY <2>1, <4>1, <5>1 DEF PlacesInv
      <4>2. CASE x # r
        <5>1. Edited(x) /\ file[x] # "old" /\ draft[r][x] # "old"
          BY <1>2, <2>1, <2>2, <3>2, <4>2, CallReturns DEF EditInv, EditWrite
        <5> QED
          BY <2>1, <4>2, <5>1 DEF PlacesInv
      <4> QED
        BY <4>1, <4>2
    <3> QED
      BY <3>1, <3>2 DEF EditInv
  <2>7. ConsentNeedsYes'
    <3>1. yeses' = yeses /\ yeses \in Nat
      BY <2>2, ToolsAssumption DEF ToolsAssumption, PlacesInv, consoleVars
    <3> QED
      BY <2>1, <2>2, <3>1, CallReturns, ConsentsGrow
  <2> QED
    BY <2>4, <2>5, <2>6, <2>7
<1>3. CASE WriteFile(r)
  <2>1. UNCHANGED <<loop, pc, draft, shellVars, consoleVars>> /\ loop = {} /\ file' = [x \in Runs |-> "new"]
    BY <1>3 DEF WriteFile
  <2>2. PlacesInv' /\ CallsInv' /\ OwnersInv'
    <3>1. calls' = calls + 1 /\ calls' \in 0 .. MaxCalls /\ cur' \in [Runs -> 0 .. calls']
          /\ result' \in [Calls -> Results] /\ CallsInv'
      BY <1>3, WriteIsCall
    <3>2. file' \in [Runs -> FileTexts]
      BY <2>1 DEF FileTexts
    <3> QED
      BY <2>1, <3>1, <3>2, OwnersStay DEF PlacesInv, OwnersInv, shellVars, consoleVars
  <2>3. QuietInv'
    <3>1. \A c \in Calls : result'[c] \in {"completed", "timed_out"} => result[c] = result'[c]
      BY <1>3, WriteIsCall
    <3> QED
      BY <2>1, <3>1 DEF QuietInv, shellVars, PlacesInv, Process
  <2>4. EditInv'
    BY <2>1 DEF EditInv
  <2>5. ConsentNeedsYes'
    <3>1. yeses' = yeses /\ yeses \in Nat
      BY <2>1, ToolsAssumption DEF ToolsAssumption, PlacesInv, consoleVars
    <3> QED
      BY <1>3, <3>1, WriteIsCall, ConsentsGrow
  <2> QED
    BY <2>2, <2>3, <2>4, <2>5
<1> QED
  BY <1>1, <1>2, <1>3

LEMMA BeginKeeps ==
  ASSUME HandlersInv, NEW r \in Runs, Spawn(r) \/ \E asks \in {"confirm", "elicit"} : Prompt(r, asks)
  PROVE  HandlersInv'
<1> USE DEF HandlersInv
<1>1. PICK where \in {"shell", "confirm", "elicit"} : Call(r, where) /\ UNCHANGED <<loop, fileVars, printed, lost, lines, yeses>>
        /\ procs' \subseteq procs \union {[call |-> calls', kind |-> "sh", pipe |-> TRUE, killed |-> FALSE]}
        /\ threads' \subseteq threads \union {[call |-> calls', asks |-> a, tries |-> 2] : a \in {"confirm", "elicit"}}
  <2>1. CASE Spawn(r)
    BY <2>1 DEF Spawn, consoleVars
  <2>2. ASSUME NEW asks \in {"confirm", "elicit"}, Prompt(r, asks)
        PROVE  /\ Call(r, asks) /\ UNCHANGED <<loop, fileVars, printed, lost, lines, yeses, procs>>
               /\ threads' = threads \union {[call |-> calls', asks |-> asks, tries |-> 2]}
    BY <2>2 DEF Prompt, shellVars
  <2> QED
    BY <2>1, <2>2
<1>2. where \in Places \ {"idle"} /\ where # "editing"
  BY DEF Places
<1>3. calls' = calls + 1 /\ calls' \in 0 .. MaxCalls /\ calls' \in Calls /\ result' = result
      /\ result[calls'] = "none" /\ pc' \in [Runs -> Places] /\ cur' \in [Runs -> 0 .. calls'] /\ CallsInv'
  BY <1>1, <1>2, CallBegins
<1>4. \A p \in procs' : p \in Process /\ (p \in procs \/ p.call = calls')
  <2> DEFINE shell == [call |-> calls', kind |-> "sh", pipe |-> TRUE, killed |-> FALSE]
  <2>1. shell \in Process /\ shell.call = calls'
    BY <1>3 DEF Process
  <2>2. \A p \in procs' : p \in procs \/ p = shell
    BY <1>1
  <2> HIDE DEF shell
  <2> QED
    BY <2>1, <2>2 DEF PlacesInv
<1>5. \A t \in threads' : t \in Thread /\ (t \in threads \/ t.call = calls')
  BY <1>1, <1>3 DEF Thread, PlacesInv
<1>6. PlacesInv' /\ OwnersInv'
  <2>1. printed \subseteq 1 .. calls' /\ (\A p \in procs : p.call <= calls') /\ (\A t \in threads : t.call <= calls')
    BY <1>3, OwnersStay
  <2>2. OwnersInv'
    BY <1>3, <1>4, <1>5, <2>1 DEF OwnersInv
  <2> QED
    BY <1>1, <1>3, <1>4, <1>5, <2>1, <2>2 DEF PlacesInv, fileVars
<1>7. QuietInv'
  BY <1>3, <1>4 DEF QuietInv
<1>8. EditInv'
  <2>1. \A x \in Runs : pc'[x] = "editing" => pc[x] = "editing"
    BY <1>1, <1>2, CallBegins
  <2>2. \A x \in Runs : Edited(x)' => Edited(x)
    BY <1>1, <1>2, CallBegins
  <2> QED
    BY <1>1, <2>1, <2>2 DEF EditInv, fileVars
<1>9. ConsentNeedsYes'
  BY <1>1, <1>3 DEF ConsentNeedsYes
<1> QED
  BY <1>3, <1>6, <1>7, <1>8, <1>9

(* A call that returns, or is cancelled, where its handler awaits.           *)
LEMMA ReturnKeeps ==
  ASSUME HandlersInv, NEW r \in Runs, NEW how \in Results \ {"none", "edited", "consent"},
         pc[r] \in Places \ {"idle", "editing"}, Returns(r, how),
         UNCHANGED <<loop, cur, calls, fileVars, shellVars, consoleVars>>,
         how \in {"completed", "timed_out"} => Over(cur[r])
  PROVE  HandlersInv'
<1> USE DEF HandlersInv
<1>1. /\ pc' \in [Runs -> Places] /\ result' \in [Calls -> Results] /\ pc'[r] = "idle"
      /\ cur[r] \in Calls /\ result[cur[r]] = "none" /\ result'[cur[r]] = how
      /\ \A x \in Runs : x # r => pc'[x] = pc[x]
      /\ \A c \in Calls : c # cur[r] => result'[c] = result[c]
      /\ \A x \in Runs : x # r => (Edited(x)' <=> Edited(x))
      /\ CallsInv'
  BY CallReturns
<1>2. PlacesInv' /\ OwnersInv'
  BY <1>1 DEF PlacesInv, OwnersInv, fileVars, shellVars, consoleVars
<1>3. QuietInv'
  <2> SUFFICES ASSUME NEW p \in procs, result'[p.call] \in {"completed", "timed_out"}
               PROVE  p.kind = "kid" /\ ~p.pipe
    BY DEF QuietInv, shellVars
  <2>1. p.call \in Calls
    BY DEF PlacesInv, Process
  <2>2. CASE p.call = cur[r]
    BY <1>1, <2>2 DEF Over, ProcessesOf
  <2>3. CASE p.call # cur[r]
    BY <1>1, <2>1, <2>3 DEF QuietInv
  <2> QED
    BY <2>2, <2>3
<1>4. EditInv'
  <2>1. ~Edited(r)'
    BY <1>1 DEF Edited
  <2> QED
    BY <1>1, <2>1 DEF EditInv, fileVars
<1>5. ConsentNeedsYes'
  <2>1. yeses' = yeses /\ yeses \in Nat
    BY ToolsAssumption DEF ToolsAssumption, PlacesInv, consoleVars
  <2> QED
    BY <1>1, <2>1, ConsentsGrow
<1> QED
  BY <1>1, <1>2, <1>3, <1>4, <1>5

LEMMA TimeoutKeeps ==
  ASSUME HandlersInv, NEW r \in Runs, TimedOut(r)
  PROVE  HandlersInv'
<1> USE DEF HandlersInv
<1>1. /\ pc[r] = "shell" /\ pc' = [pc EXCEPT ![r] = "draining"]
      /\ lost' = lost \union (printed \intersect {cur[r]})
      /\ UNCHANGED <<loop, cur, calls, result, fileVars, printed, consoleVars>>
  BY DEF TimedOut
<1>2. \A q \in procs' : q \in Process /\ \E p \in procs : q.call = p.call /\ q.kind = p.kind /\ q.pipe = p.pipe
  <2> DEFINE killed(p) == p.killed \/ (p.call = cur[r] /\ p.kind = "sh")
  <2> SUFFICES ASSUME NEW q \in procs'
               PROVE  q \in Process /\ \E p \in procs : q.call = p.call /\ q.kind = p.kind /\ q.pipe = p.pipe
    OBVIOUS
  <2>1. PICK p \in procs : q = [p EXCEPT !.killed = killed(p)]
    BY DEF TimedOut
  <2>2. p \in Process /\ killed(p) \in BOOLEAN
    BY DEF PlacesInv, Process
  <2>3. q \in Process /\ q.call = p.call /\ q.kind = p.kind /\ q.pipe = p.pipe
    <3> HIDE DEF killed
    <3> QED
      BY <2>1, <2>2 DEF Process
  <2> QED
    BY <2>3
<1>3. pc' \in [Runs -> Places] /\ pc'[r] = "draining" /\ \A x \in Runs : x # r => pc'[x] = pc[x]
  BY <1>1 DEF PlacesInv, Places
<1>4. PlacesInv'
  BY <1>1, <1>2, <1>3 DEF PlacesInv, fileVars, consoleVars
<1>5. CallsInv'
  BY <1>1, <1>3 DEF CallsInv
<1>6. OwnersInv' /\ QuietInv'
  BY <1>1, <1>2 DEF OwnersInv, QuietInv, consoleVars
<1>7. EditInv'
  BY <1>1, <1>3 DEF EditInv, Edited, fileVars
<1>8. ConsentNeedsYes'
  BY <1>1 DEF ConsentNeedsYes, consoleVars
<1> QED
  BY <1>4, <1>5, <1>6, <1>7, <1>8

LEMMA CommandKeeps ==
  ASSUME HandlersInv, NEW p \in procs, Command(p)
  PROVE  HandlersInv'
<1> USE DEF HandlersInv
<1>1. p \in Process /\ p.call <= calls /\ calls \in Nat
  BY ToolsAssumption DEF ToolsAssumption, PlacesInv, OwnersInv
<1>2. UNCHANGED <<loopVars, draft, lost, consoleVars>>
  BY DEF Command, Fork, PrintOut, Overwrite, Exit, fileVars, shellVars
<1>3. /\ printed' \subseteq 1 .. calls /\ printed \subseteq printed' /\ file' \in [Runs -> FileTexts]
      /\ \A r \in Runs : file'[r] = "old" => file[r] = "old"
      /\ procs' \subseteq Process
      /\ \A q \in procs' : q \in procs \/ (p.kind = "sh" /\ q.call = p.call)
  <2>1. CASE Fork(p)
    <3>1. PICK held \in BOOLEAN :
            procs' = procs \union {[call |-> p.call, kind |-> "kid", pipe |-> held, killed |-> FALSE]}
      BY <2>1 DEF Fork
    <3> DEFINE kid == [call |-> p.call, kind |-> "kid", pipe |-> held, killed |-> FALSE]
    <3>2. kid \in Process /\ kid.call = p.call
      BY <1>1 DEF Process
    <3>3. p.kind = "sh" /\ UNCHANGED <<file, printed>>
      BY <2>1 DEF Fork, fileVars
    <3>4. procs' = procs \union {kid}
      BY <3>1
    <3> HIDE DEF kid
    <3> QED
      BY <3>2, <3>3, <3>4 DEF PlacesInv
  <2>2. CASE PrintOut(p)
    <3>1. p.call \in 1 .. calls
      BY <1>1 DEF Process, Calls
    <3> QED
      BY <2>2, <3>1 DEF PrintOut, fileVars, PlacesInv
  <2>3. CASE Overwrite(p)
    BY <1>1, <2>3 DEF Overwrite, shellVars, PlacesInv, FileTexts
  <2>4. CASE Exit(p)
    BY <1>1, <2>4 DEF Exit, fileVars, PlacesInv
  <2> QED
    BY <2>1, <2>2, <2>3, <2>4 DEF Command
<1>4. PlacesInv' /\ OwnersInv'
  BY <1>1, <1>2, <1>3 DEF PlacesInv, OwnersInv, loopVars, consoleVars
<1>5. CallsInv' /\ QuietInv'
  BY <1>2, <1>3 DEF CallsInv, QuietInv, loopVars
<1>6. EditInv'
  BY <1>2, <1>3 DEF EditInv, Edited, loopVars
<1>7. ConsentNeedsYes'
  BY <1>2 DEF ConsentNeedsYes, loopVars, consoleVars
<1> QED
  BY <1>4, <1>5, <1>6, <1>7

LEMMA TypeKeeps ==
  ASSUME HandlersInv, NEW t \in threads, NEW line \in {"yes", "no", "other", "eof"}, Type(t, line)
  PROVE  HandlersInv'
<1> USE DEF HandlersInv
<1>1. t \in Thread /\ t.call <= calls /\ UNCHANGED <<loop, cur, calls, fileVars, shellVars>>
  BY DEF Type, PlacesInv, OwnersInv
<1>2. /\ lines' \in 0 .. MaxLines /\ yeses' \in 0 .. lines' /\ yeses' \in Nat /\ yeses' >= yeses
      /\ line = "yes" => yeses' = yeses + 1
  BY ToolsAssumption DEF ToolsAssumption, Type, PlacesInv
<1>3. threads' \subseteq Thread /\ \A u \in threads' : u.call <= calls
  BY <1>1 DEF Type, PlacesInv, OwnersInv, Thread
<1>4. PlacesInv /\ pc' \in [Runs -> Places] /\ result' \in [Calls -> Results] => PlacesInv' /\ OwnersInv'
  BY <1>1, <1>2, <1>3 DEF PlacesInv, OwnersInv, fileVars, shellVars
<1>5. CASE UNCHANGED <<pc, result>>
  <2>1. PlacesInv' /\ OwnersInv'
    BY <1>4, <1>5 DEF PlacesInv
  <2>2. CallsInv' /\ QuietInv' /\ EditInv'
    BY <1>1, <1>5 DEF CallsInv, QuietInv, EditInv, Edited, fileVars, shellVars
  <2>3. ConsentNeedsYes'
    <3>1. IsFiniteSet({c \in Calls : result[c] = "consent"})
      <4>1. IsFiniteSet(Calls)
        BY ToolsAssumption, FS_Interval DEF ToolsAssumption, Calls
      <4> QED
        BY <4>1, FS_Subset
    <3>2. Cardinality({c \in Calls : result[c] = "consent"}) \in Nat /\ yeses \in Nat
      BY <3>1, FS_CardinalityType, ToolsAssumption DEF ToolsAssumption, PlacesInv
    <3> QED
      BY <1>2, <1>5, <3>2 DEF ConsentNeedsYes
  <2> QED
    BY <2>1, <2>2, <2>3
<1>6. CASE ~UNCHANGED <<pc, result>>
  <2>1. PICK r \in Runs : cur[r] = t.call /\ pc[r] = t.asks
    BY <1>6 DEF Type
  <2>2. t.call \in Calls /\ t.asks \in {"confirm", "elicit"}
    BY <1>1 DEF Thread
  <2>3. (CHOOSE x \in Runs : cur[x] = t.call) = r
    <3>1. t.call # 0
      BY <2>2, ToolsAssumption DEF ToolsAssumption, Calls
    <3>2. \A x \in Runs : cur[x] = t.call => x = r
      BY <2>1, <3>1 DEF CallsInv
    <3> QED
      BY <2>1, <3>2
  <2>4. Returns(r, Answer(t, line)) /\ Answer(t, line) # "again"
    BY <1>6, <2>3 DEF Type
  <2>5. Answer(t, line) \in {"consent", "refusal", "answer", "error"} /\ (Answer(t, line) = "consent" => line = "yes")
    BY <2>4 DEF Answer
  <2>6. /\ pc' \in [Runs -> Places] /\ result' \in [Calls -> Results] /\ pc'[r] = "idle"
        /\ result[cur[r]] = "none" /\ result'[cur[r]] = Answer(t, line)
        /\ \A x \in Runs : x # r => pc'[x] = pc[x]
        /\ \A c \in Calls : c # cur[r] => result'[c] = result[c]
        /\ \A x \in Runs : x # r => (Edited(x)' <=> Edited(x))
        /\ CallsInv'
    <3>1. pc[r] # "idle" /\ Answer(t, line) \in Results \ {"none"} /\ UNCHANGED <<cur, calls>>
      BY <1>1, <2>1, <2>2, <2>5 DEF Results
    <3> HIDE DEF HandlersInv
    <3> QED
      BY <2>4, <3>1, CallReturns DEF HandlersInv
  <2>7. PlacesInv' /\ OwnersInv'
    BY <1>4, <2>6
  <2>8. QuietInv'
    <3>1. \A c \in Calls : result'[c] \in {"completed", "timed_out"} => result[c] = result'[c]
      BY <2>5, <2>6
    <3> QED
      BY <1>1, <3>1 DEF QuietInv, shellVars, PlacesInv, Process
  <2>9. EditInv'
    <3>1. ~Edited(r)'
      BY <1>1, <2>5, <2>6 DEF Edited
    <3> QED
      BY <1>1, <2>6, <3>1 DEF EditInv, fileVars
  <2>10. ConsentNeedsYes'
    <3>1. result'[cur[r]] = "consent" => yeses' >= yeses + 1
      BY <1>2, <2>5, <2>6
    <3> QED
      BY <1>2, <2>1, <2>2, <2>6, <3>1, ConsentsGrow
  <2> QED
    BY <2>6, <2>7, <2>8, <2>9, <2>10
<1> QED
  BY <1>5, <1>6

LEMMA NextHandlersInv == HandlersInv /\ [ToolsNext]_toolVars => HandlersInv'
<1> SUFFICES ASSUME HandlersInv, [ToolsNext]_toolVars PROVE HandlersInv'
  OBVIOUS
<1>1. ASSUME NEW r \in Runs, Begin(r) PROVE HandlersInv'
  BY <1>1, EditKeeps, BeginKeeps DEF Begin
<1>2. ASSUME NEW r \in Runs, EditWrite(r) PROVE HandlersInv'
  BY <1>2, EditKeeps
<1>3. ASSUME NEW r \in Runs, ShellStep(r) PROVE HandlersInv'
  <2>1. CASE Completed(r)
    <3>1. "completed" \in Results \ {"none", "edited", "consent"} /\ pc[r] \in Places \ {"idle", "editing"}
      BY <2>1 DEF Completed, Results, Places
    <3> QED
      BY <2>1, <3>1, ReturnKeeps DEF Completed
  <2>2. CASE Drained(r)
    <3>1. "timed_out" \in Results \ {"none", "edited", "consent"} /\ pc[r] \in Places \ {"idle", "editing"}
      BY <2>2 DEF Drained, Results, Places
    <3> QED
      BY <2>2, <3>1, ReturnKeeps DEF Drained
  <2> QED
    BY <1>3, <2>1, <2>2, TimeoutKeeps DEF ShellStep
<1>4. ASSUME NEW r \in Runs, Cancel(r) PROVE HandlersInv'
  <2>1. "cancelled" \in Results \ {"none", "edited", "consent"} /\ pc[r] \in Places \ {"idle", "editing"}
    BY <1>4 DEF Cancel, Results, Places
  <2> QED
    BY <1>4, <2>1, ReturnKeeps DEF Cancel
<1>5. ASSUME NEW p \in procs, Command(p) PROVE HandlersInv'
  BY <1>5, CommandKeeps
<1>6. CASE User
  BY <1>6, TypeKeeps DEF User
<1>7. CASE UNCHANGED toolVars
  BY <1>7 DEF toolVars, HandlersInv, PlacesInv, CallsInv, OwnersInv, QuietInv, EditInv, Edited, ConsentNeedsYes
<1> QED
  BY <1>1, <1>2, <1>3, <1>4, <1>5, <1>6, <1>7 DEF ToolsNext

LEMMA HandlersInvariance == ToolsSpec => []HandlersInv
  BY InitHandlersInv, NextHandlersInv, PTL DEF ToolsSpec

-----------------------------------------------------------------------------
(* Consents never outnumber the agreements typed, for any number of runs     *)
(* that wait on one console.                                                 *)
THEOREM ConsentTheorem == ToolsSpec => []ConsentNeedsYes
<1>1. HandlersInv => ConsentNeedsYes
  BY DEF HandlersInv
<1> QED BY <1>1, HandlersInvariance, PTL

(* What a shell call returned is all there will be of its output.            *)
THEOREM QuietTheorem == ToolsSpec => []ReturnedMeansQuiet
<1>1. HandlersInv => ReturnedMeansQuiet
  BY DEF HandlersInv, QuietInv, ReturnedMeansQuiet
<1> QED BY <1>1, HandlersInvariance, PTL

(* Whatever the calls of any number of runs do, no output comes after its    *)
(* result, consents do not outnumber agreements and no edit undoes an edit.  *)
THEOREM HandlersTheorem == ToolsSpec => []ResultsStand
<1>1. HandlersInv => ResultsStand
  BY DEF HandlersInv, PlacesInv, CallsInv, QuietInv, EditInv, Edited, FileTexts, ResultsStand,
         ToolsTypeOK, ReturnedMeansQuiet, EditsLast
<1> QED BY <1>1, HandlersInvariance, PTL

-----------------------------------------------------------------------------
(* About Adapters, for all answers a provider may give and all ways to ask.  *)

(* The least of some numbers.                                                *)
LEMMA LeastNumber ==
  ASSUME NEW T \in SUBSET Nat, T # {}
  PROVE  \E x \in T : \A y \in T : x <= y
<1>1. PICK x \in T : \A y \in T : <<y, x>> \notin OpToRel(<, Nat)
  <2> DEFINE R == OpToRel(<, Nat)
  <2>1. IsWellFoundedOn(R, Nat)
    BY NatLessThanWellFounded
  <2> HIDE DEF R
  <2>2. \E x \in T : \A y \in T : ~(<<y, x>> \in R)
    BY <2>1, WFMin
  <2> QED
    BY <2>2 DEF R
<1>2. \A y \in T : ~(y < x)
  BY <1>1 DEF OpToRel
<1> QED
  BY <1>2

(* Among bounded numbers there is a k-th, and Nth finds it.                  *)
LEMMA NthFacts ==
  ASSUME NEW m \in Nat, NEW S \in SUBSET (0 .. m), NEW k \in 1 .. Cardinality(S)
  PROVE  Nth(S, k) \in S /\ Cardinality({y \in S : y <= Nth(S, k)}) = k
<1> DEFINE Below(n) == {y \in S : y < n}
           T == {n \in Nat : Cardinality(Below(n)) >= k}
<1>0. \A y \in S : y \in Nat /\ y <= m
  OBVIOUS
<1>1. IsFiniteSet(S) /\ Cardinality(S) \in Nat /\ k \in Nat /\ k > 0 /\ k <= Cardinality(S)
  <2>1. IsFiniteSet(S)
    BY <1>0, FS_BoundedSetOfNaturals
  <2> QED
    BY <2>1, FS_CardinalityType
<1>2. \A n \in Nat : IsFiniteSet(Below(n)) /\ Cardinality(Below(n)) \in Nat
  BY <1>1, FS_Subset, FS_CardinalityType
<1>3. m + 1 \in T
  <2>1. \A y \in S : y < m + 1
    BY <1>0
  <2>2. Below(m + 1) = S
    BY <2>1
  <2> QED
    BY <1>1, <2>2
<1>4. PICK n \in T : \A y \in T : n <= y
  <2>1. T \in SUBSET Nat /\ T # {}
    BY <1>3
  <2> QED
    BY <2>1, LeastNumber
<1>5. n # 0
  <2>1. \A y \in S : ~(y < 0)
    BY <1>0
  <2>2. Cardinality(Below(0)) = 0
    <3>1. Below(0) = {}
      BY <2>1
    <3> QED
      BY <3>1, FS_EmptySet
  <2> QED
    BY <1>1, <2>2
<1>6. n - 1 \in Nat /\ n \in Nat
  BY <1>5
<1>7. Cardinality(Below(n - 1)) < k
  BY <1>2, <1>4, <1>6, <1>1
<1>8. Below(n) = IF n - 1 \in S THEN Below(n - 1) \cup {n - 1} ELSE Below(n - 1)
  <2>1. \A y \in S : y < n <=> y < n - 1 \/ y = n - 1
    BY <1>0, <1>6
  <2> QED
    BY <2>1
<1>9. n - 1 \in S /\ Cardinality(Below(n)) = k
  <2>1. n - 1 \notin Below(n - 1)
    BY <1>6
  <2>2. IsFiniteSet(Below(n - 1)) /\ Cardinality(Below(n - 1)) \in Nat
    BY <1>2, <1>6
  <2>3. Cardinality(Below(n)) >= k
    BY <1>4
  <2> HIDE DEF Below
  <2>4. Cardinality(Below(n - 1) \cup {n - 1}) = Cardinality(Below(n - 1)) + 1
    BY <2>1, <2>2, FS_AddElement
  <2> QED
    BY <1>1, <1>7, <1>8, <2>2, <2>3, <2>4
<1>10. {y \in S : y <= n - 1} = Below(n)
  <2>1. \A y \in S : y < n <=> y <= n - 1
    BY <1>0, <1>6
  <2> QED
    BY <2>1
<1> HIDE DEF Below, T
<1>11. \E x \in S : Cardinality({y \in S : y <= x}) = k
  BY <1>9, <1>10
<1> QED
  BY <1>11 DEF Nth

(* The k-th of the first numbers is k - 1.                                   *)
LEMMA NthFirst ==
  ASSUME NEW n \in Nat, NEW k \in 1 .. n
  PROVE  Cardinality(0 .. (n - 1)) = n /\ Nth(0 .. (n - 1), k) = k - 1
<1> DEFINE S == 0 .. (n - 1)
<1>1. Cardinality(S) = n
  BY FS_Interval
<1>2. \A x \in S : {y \in S : y <= x} = 0 .. x
  OBVIOUS
<1>3. \A x \in S : Cardinality(0 .. x) = x + 1
  BY FS_Interval
<1>4. Nth(S, k) \in S /\ Cardinality({y \in S : y <= Nth(S, k)}) = k
  <2>1. n \in Nat /\ S \in SUBSET (0 .. n) /\ k \in 1 .. Cardinality(S)
    BY <1>1
  <2> HIDE DEF S
  <2> QED
    BY <2>1, NthFacts
<1>5. Nth(S, k) + 1 = k
  BY <1>2, <1>3, <1>4
<1>6. Nth(S, k) \in Nat
  BY <1>4
<1> HIDE DEF S
<1>7. Nth(S, k) = k - 1
  BY <1>5, <1>6
<1> QED
  BY <1>1, <1>7 DEF S

(* The first pieces of the arguments of a call.                              *)
First(i, n) == [k \in 1 .. n |-> <<i, k>>]

(* What an answer consists of.                                               *)
LEMMA MeantFacts ==
  ASSUME meant \in Answers
  PROVE  /\ meant.text \in Nat /\ meant.think \in Nat /\ Len(meant.calls) \in Nat
         /\ DOMAIN meant.calls = 1 .. Len(meant.calls)
         /\ \A i \in DOMAIN meant.calls :
              /\ meant.calls[i].pieces \in Nat
              /\ meant.calls[i].kind \in Kinds
<1>1. {meant.text, meant.think} \subseteq Nat
  BY AdaptersAssumption DEF AdaptersAssumption
<1>2. meant.calls \in Seq([given : BOOLEAN, named : BOOLEAN, pieces : Nat, kind : Kinds])
  BY AdaptersAssumption DEF AdaptersAssumption
<1>3. Len(meant.calls) \in Nat /\ DOMAIN meant.calls = 1 .. Len(meant.calls)
  BY <1>2
<1>4. ASSUME NEW i \in DOMAIN meant.calls
      PROVE  meant.calls[i].pieces \in Nat /\ meant.calls[i].kind \in Kinds
  <2> DEFINE list == meant.calls
             R == [given : BOOLEAN, named : BOOLEAN, pieces : Nat, kind : Kinds]
  <2>1. list[i] \in R
    <3>1. list \in Seq(R) /\ i \in 1 .. Len(list)
      BY <1>2, <1>3
    <3> HIDE DEF list, R
    <3> QED
      BY <3>1
  <2> QED
    BY <2>1
<1> QED
  BY <1>1, <1>3, <1>4

(* Pieces arrive one after the other, and some are a prefix of more.         *)
LEMMA PiecesFacts ==
  ASSUME NEW n \in Nat
  PROVE  /\ Append(Pieces(n), n + 1) = Pieces(n + 1)
         /\ Pieces(n) \in Seq(Nat) /\ Len(Pieces(n)) = n
         /\ \A m \in Nat : n <= m => IsPrefix(Pieces(n), Pieces(m))
         /\ Pieces(n) = <<>> <=> n = 0
<1>1. Pieces(n) \in Seq(Nat) /\ Len(Pieces(n)) = n
  BY DEF Pieces
<1>2. Append(Pieces(n), n + 1) = Pieces(n + 1)
  BY DEF Pieces
<1>3. ASSUME NEW m \in Nat, n <= m
      PROVE  IsPrefix(Pieces(n), Pieces(m))
  <2>1. Pieces(m) \in Seq(Nat) /\ Len(Pieces(m)) = m
    BY DEF Pieces
  <2>2. SubSeq(Pieces(n), 1, n) = SubSeq(Pieces(m), 1, n)
    BY <1>3 DEF Pieces
  <2> QED
    BY <1>1, <1>3, <2>1, <2>2 DEF IsPrefix
<1>4. Pieces(n) = <<>> <=> n = 0
  BY <1>1 DEF Pieces
<1> QED
  BY <1>1, <1>2, <1>3, <1>4

(* So do the arguments of a call, and no piece of them is of another call.   *)
LEMMA FirstFacts ==
  ASSUME NEW i, NEW n \in Nat
  PROVE  /\ Append(First(i, n), <<i, n + 1>>) = First(i, n + 1)
         /\ First(i, n) = <<>> <=> n = 0
<1>1. First(i, n) \in Seq({i} \X Nat) /\ Len(First(i, n)) = n
  BY DEF First
<1>2. Append(First(i, n), <<i, n + 1>>) = First(i, n + 1)
  BY DEF First
<1>3. First(i, n) = <<>> <=> n = 0
  BY <1>1 DEF First
<1> QED
  BY <1>2, <1>3

LEMMA FirstTells ==
  ASSUME NEW i, NEW n \in Nat, NEW j, NEW m \in Nat, First(i, n) = First(j, m)
  PROVE  n = m /\ (n # 0 => i = j)
<1>1. Len(First(i, n)) = n /\ Len(First(j, m)) = m
  BY DEF First
<1>2. n = m
  BY <1>1
<1>3. ASSUME n # 0 PROVE i = j
  <2>1. First(i, n)[1] = <<i, 1>> /\ First(j, m)[1] = <<j, 1>>
    BY <1>2, <1>3 DEF First
  <2> QED
    BY <2>1
<1> QED
  BY <1>2, <1>3

(* The arguments of a call tell which call they are of.                      *)
LEMMA WholeFacts ==
  ASSUME meant \in Answers, NEW i \in DOMAIN meant.calls
  PROVE  /\ Whole(i) = First(i, meant.calls[i].pieces)
         /\ Whole(i) = <<>> <=> meant.calls[i].pieces = 0
         /\ Whole(i) # <<>> => Parsed(Whole(i)) = meant.calls[i].kind
<1>1. \A j : Whole(j) = First(j, meant.calls[j].pieces)
  BY DEF Whole, First
<1>2. \A j \in DOMAIN meant.calls : meant.calls[j].pieces \in Nat
  BY MeantFacts
<1>3. Whole(i) = <<>> <=> meant.calls[i].pieces = 0
  BY <1>1, <1>2, FirstFacts
<1>4. ASSUME Whole(i) # <<>> PROVE Parsed(Whole(i)) = meant.calls[i].kind
  <2>1. ASSUME NEW j \in DOMAIN meant.calls, Whole(i) = Whole(j) PROVE j = i
    <3>1. meant.calls[i].pieces \in Nat /\ meant.calls[j].pieces \in Nat /\ meant.calls[i].pieces # 0
      BY <1>2, <1>3, <1>4
    <3>2. First(i, meant.calls[i].pieces) = First(j, meant.calls[j].pieces)
      BY <1>1, <2>1
    <3> QED
      BY <3>1, <3>2, FirstTells
  <2>2. (CHOOSE j \in DOMAIN meant.calls : Whole(i) = Whole(j)) = i
    BY <2>1
  <2> QED
    BY <2>2 DEF Parsed
<1> QED
  BY <1>1, <1>3, <1>4

(* Arguments that parse as an object are none, or all of those of a call.    *)
LEMMA ObjectFacts ==
  ASSUME NEW args, ParsedOrEmpty(args) = "object"
  PROVE  args = <<>> \/ \E i \in DOMAIN meant.calls : args = Whole(i)
BY DEF ParsedOrEmpty, Parsed

-----------------------------------------------------------------------------
(* The inductive invariant: what arrived are the first pieces of the answer, *)
(* each builder holds those of its call, and the response is made of them.   *)

ArrivedInv ==
  /\ setup \in Setups /\ meant \in Answers
  /\ sent \in [text : Nat, think : Nat, calls : [DOMAIN meant.calls -> Nat]]
  /\ sent.text <= meant.text /\ sent.think <= meant.think
  /\ \A i \in DOMAIN meant.calls : sent.calls[i] <= meant.calls[i].pieces + 1
  /\ setup.api # "stream" => sent.think = 0
  /\ parts = Pieces(sent.text)
  /\ thoughts = IF Raw THEN Pieces(sent.think) ELSE <<>>
  /\ deltas = [assistant |-> parts, reasoning |-> thoughts]

\* The calls of which something arrived.
Begun == {i \in DOMAIN meant.calls : sent.calls[i] > 0}

BuildersInv ==
  /\ DOMAIN builders = {Index(i) : i \in Begun}
  /\ \A i \in Begun : setup.indexed =>
       builders[Index(i)] = [id |-> MeantCall(i).id, name |-> MeantCall(i).name,
                             args |-> First(i, sent.calls[i] - 1)]
  /\ \A idx \in DOMAIN builders :
       /\ builders[idx] = [id |-> builders[idx].id, name |-> builders[idx].name,
                            args |-> builders[idx].args]
       /\ builders[idx].name \in {NoName} \cup DOMAIN meant.calls
       /\ builders[idx].args = <<>> \/ \E i \in Begun : sent.calls[i] > 1

Came ==
  IF setup.api = "complete" THEN NormalizeLitellmResponse
  ELSE IF setup.api = "responses" THEN NormalizeResponsesResponse ELSE Assembled

ReceivedInv == received \in {Open, ProviderError, Came}

WireInv == wire # <<>> => Answered /\ wire = BuildInput(received)

\* The first request may be repeated, and only without the effort; what is
\* received is that of the last.
RequestsInv ==
  /\ requests \in Seq([effort : BOOLEAN, reply : {"answered", "refused", "failed"}])
  /\ Len(requests) <= 2
  /\ requests = <<>> => received = Open
  /\ requests # <<>> /\ requests[1].effort => setup.api = "responses"
  /\ Len(requests) = 2 => Again(requests[1]) /\ ~requests[2].effort
  /\ requests # <<>> =>
       IF received = Open THEN Again(Last(requests)) \/ Last(requests).reply = "answered"
       ELSE IF received = ProviderError THEN ~Again(Last(requests))
       ELSE Last(requests).reply = "answered"

AdaptersInv == ArrivedInv /\ BuildersInv /\ ReceivedInv /\ WireInv /\ RequestsInv

(* What a step leaves of the answer: it changes no more than what arrives.   *)
LEMMA ArrivedStep ==
  ASSUME ArrivedInv, [AdaptersNext]_adaptersVars
  PROVE  ArrivedInv'
<1>1. /\ meant.text \in Nat /\ meant.think \in Nat
      /\ \A i \in DOMAIN meant.calls : meant.calls[i].pieces \in Nat
  BY MeantFacts DEF ArrivedInv
<1>2. setup' = setup => Raw' = Raw
  BY DEF Raw, ResolveReasoningMode
<1>3. CASE ThinkArrives
  <2>1. sent' = [text |-> sent.text, think |-> sent.think + 1, calls |-> sent.calls]
    BY <1>3 DEF ThinkArrives, ArrivedInv
  <2>2. Append(Pieces(sent.think), sent.think + 1) = Pieces(sent.think + 1)
    BY PiecesFacts DEF ArrivedInv
  <2>3. /\ setup' = setup /\ meant' = meant /\ parts' = parts /\ setup.api = "stream"
        /\ sent.think < meant.think
    BY <1>3 DEF ThinkArrives, Streaming
  <2>4. /\ thoughts' = IF Raw THEN Pieces(sent.think + 1) ELSE <<>>
        /\ deltas' = [assistant |-> parts, reasoning |-> thoughts']
    <3>1. CASE Raw
      BY <1>3, <2>1, <2>2, <3>1 DEF ThinkArrives, ArrivedInv, Emit
    <3>2. CASE ~Raw
      BY <1>3, <3>2 DEF ThinkArrives, ArrivedInv
    <3> QED
      BY <3>1, <3>2
  <2> QED
    BY <1>1, <1>2, <2>1, <2>3, <2>4 DEF ArrivedInv
<1>4. CASE TextArrives
  <2>1. sent' = [text |-> sent.text + 1, think |-> sent.think, calls |-> sent.calls]
    BY <1>4 DEF TextArrives, ArrivedInv
  <2>2. Append(Pieces(sent.text), sent.text + 1) = Pieces(sent.text + 1)
    BY PiecesFacts DEF ArrivedInv
  <2>3. /\ setup' = setup /\ meant' = meant /\ thoughts' = thoughts /\ setup.api = "stream"
        /\ sent.text < meant.text
    BY <1>4 DEF TextArrives, Streaming
  <2>4. /\ parts' = Pieces(sent.text + 1)
        /\ deltas' = [assistant |-> parts', reasoning |-> thoughts]
    BY <1>4, <2>1, <2>2 DEF TextArrives, ArrivedInv, Emit
  <2> QED
    BY <1>1, <1>2, <2>1, <2>3, <2>4 DEF ArrivedInv
<1>5. ASSUME NEW i \in DOMAIN meant.calls, CallArrives(i)
      PROVE  ArrivedInv'
  <2>1. sent' = [text |-> sent.text, think |-> sent.think,
                 calls |-> [sent.calls EXCEPT ![i] = @ + 1]]
    BY <1>5 DEF CallArrives, ArrivedInv
  <2>2. /\ setup' = setup /\ meant' = meant /\ thoughts' = thoughts /\ parts' = parts
        /\ deltas' = deltas /\ sent.calls[i] <= meant.calls[i].pieces
    BY <1>5 DEF CallArrives
  <2> QED
    BY <1>1, <1>2, <2>1, <2>2 DEF ArrivedInv
<1>6. CASE UNCHANGED <<setup, meant, sent, deltas, parts, thoughts>>
  BY <1>2, <1>6 DEF ArrivedInv
<1>7. (\E reply \in {"answered", "refused", "failed"} : Ask(reply)) \/ StreamEnds \/ StreamFails
        \/ Converse \/ UNCHANGED adaptersVars
      => UNCHANGED <<setup, meant, sent, deltas, parts, thoughts>>
  BY DEF Ask, StreamEnds, StreamFails, Converse, adaptersVars, buffers
<1> QED
  BY <1>3, <1>4, <1>5, <1>6, <1>7 DEF AdaptersNext

(* A piece of a call reaches the builder of that call, at its end.           *)
LEMMA BuildersStep ==
  ASSUME ArrivedInv, BuildersInv, [AdaptersNext]_adaptersVars
  PROVE  BuildersInv'
<1>1. ASSUME NEW i \in DOMAIN meant.calls, CallArrives(i)
      PROVE  BuildersInv'
  <2> DEFINE came == sent.calls[i]
             b == Builder(Index(i))
             new == builders'[Index(i)]
  <2>1. came \in Nat /\ DOMAIN sent.calls = DOMAIN meant.calls
        /\ \A j \in DOMAIN meant.calls : sent.calls[j] \in Nat
    BY DEF ArrivedInv
  <2>2. /\ setup' = setup /\ meant' = meant
        /\ sent'.calls = [sent.calls EXCEPT ![i] = came + 1]
    BY <1>1 DEF CallArrives, ArrivedInv
  <2>3. /\ DOMAIN builders' = DOMAIN builders \cup {Index(i)}
        /\ \A idx \in DOMAIN builders : idx # Index(i) => builders'[idx] = builders[idx]
    BY <1>1 DEF CallArrives
  <2>4. Begun' = Begun \cup {i} /\ \A j : Index(j)' = Index(j)
    BY <2>1, <2>2 DEF Begun, Index
  <2>5. b = [id |-> b.id, name |-> b.name, args |-> b.args]
        /\ b.name \in {NoName} \cup DOMAIN meant.calls
        /\ (b.args = <<>> \/ \E j \in Begun : sent.calls[j] > 1)
    BY DEF Builder, BuildersInv
  <2>6. new = IF came = 0
              THEN [id |-> IF MeantCall(i).id # NoId THEN MeantCall(i).id ELSE b.id,
                    name |-> IF MeantCall(i).name # NoName THEN i ELSE b.name,
                    args |-> b.args]
              ELSE [id |-> b.id, name |-> b.name, args |-> Append(b.args, <<i, came>>)]
    <3> HIDE DEF b
    <3>1. [b EXCEPT !.args = Append(@, <<i, came>>)]
            = [id |-> b.id, name |-> b.name, args |-> Append(b.args, <<i, came>>)]
      <4>1. \A x, y, z, w : [[id |-> x, name |-> y, args |-> z] EXCEPT !.args = w]
                              = [id |-> x, name |-> y, args |-> w]
        OBVIOUS
      <4>2. [[id |-> b.id, name |-> b.name, args |-> b.args] EXCEPT !.args = Append(b.args, <<i, came>>)]
              = [id |-> b.id, name |-> b.name, args |-> Append(b.args, <<i, came>>)]
        BY <4>1
      <4> QED
        BY <2>5, <4>2
    <3> QED
      BY <1>1, <3>1 DEF CallArrives, b
  <2>7. \A j \in Begun : j # i => sent'.calls[j] = sent.calls[j]
    BY <2>1, <2>2 DEF Begun
  <2>8. sent'.calls[i] = came + 1
    BY <2>1, <2>2
  <2>9. DOMAIN builders' = {Index(j) : j \in Begun'}
    BY <2>3, <2>4 DEF BuildersInv
  <2>10. \A j : MeantCall(j)' = MeantCall(j)
    BY <2>2 DEF MeantCall, Whole
  <2>11. ASSUME setup.indexed, NEW j \in Begun'
         PROVE  builders'[Index(j)] = [id |-> MeantCall(j).id, name |-> MeantCall(j).name,
                                       args |-> First(j, sent'.calls[j] - 1)]
    <3>1. \A k \in Begun' : k \in Int /\ Index(k) = k - 1
      BY <1>1, <2>4, <2>11, MeantFacts DEF Index, ArrivedInv, Begun
    <3>2. i \in Begun'
      BY <2>4
    <3>3. CASE j # i
      <4>1. j \in Begun /\ Index(j) \in DOMAIN builders /\ Index(j) # Index(i)
        BY <2>4, <3>1, <3>2, <3>3 DEF BuildersInv
      <4> QED
        BY <2>3, <2>7, <2>11, <4>1 DEF BuildersInv
    <3>4. CASE j = i /\ came = 0
      <4>1. Index(i) \notin DOMAIN builders
        BY <2>1, <2>4, <3>1, <3>2, <3>4 DEF BuildersInv, Begun
      <4>2. b = [id |-> NoId, name |-> NoName, args |-> <<>>]
        BY <4>1 DEF Builder
      <4>3. First(i, 0) = <<>>
        BY FirstFacts
      <4>4. MeantCall(i).name # NoName => MeantCall(i).name = i
        BY DEF MeantCall
      <4> HIDE DEF b, new
      <4>5. new = [id |-> MeantCall(i).id, name |-> MeantCall(i).name, args |-> <<>>]
        BY <2>6, <3>4, <4>2, <4>4
      <4> QED
        BY <2>8, <3>4, <4>3, <4>5 DEF new
    <3>5. CASE j = i /\ came # 0
      <4>1. i \in Begun
        BY <1>1, <2>1, <3>5 DEF Begun
      <4>2. Index(i) \in DOMAIN builders
        BY <4>1 DEF BuildersInv
      <4>3. b = [id |-> MeantCall(i).id, name |-> MeantCall(i).name, args |-> First(i, came - 1)]
        BY <2>11, <4>1, <4>2 DEF BuildersInv, Builder
      <4>4. Append(First(i, came - 1), <<i, came>>) = First(i, came)
        <5>1. came - 1 \in Nat /\ came - 1 + 1 = came
          BY <2>1, <3>5
        <5> HIDE DEF came
        <5>2. Append(First(i, came - 1), <<i, came - 1 + 1>>) = First(i, came - 1 + 1)
          BY <5>1, FirstFacts
        <5> QED
          BY <5>1, <5>2
      <4>5. sent'.calls[i] - 1 = came
        BY <2>1, <2>8
      <4> HIDE DEF b, new
      <4> QED
        BY <2>6, <3>5, <4>3, <4>4, <4>5 DEF new
    <3> QED
      BY <3>3, <3>4, <3>5
  <2>12. ASSUME NEW idx \in DOMAIN builders'
         PROVE  /\ builders'[idx] = [id |-> builders'[idx].id, name |-> builders'[idx].name,
                                     args |-> builders'[idx].args]
                /\ builders'[idx].name \in {NoName} \cup DOMAIN meant.calls
                /\ builders'[idx].args = <<>> \/ \E j \in Begun' : sent'.calls[j] > 1
    <3>1. (\E j \in Begun : sent.calls[j] > 1) => \E j \in Begun' : sent'.calls[j] > 1
      BY <2>1, <2>4, <2>7, <2>8
    <3>2. CASE idx # Index(i)
      BY <2>3, <3>1, <3>2 DEF BuildersInv
    <3>3. CASE idx = Index(i)
      <4> HIDE DEF b, new
      <4>1. new = [id |-> new.id, name |-> new.name, args |-> new.args]
        BY <2>6
      <4>2. new.name \in {NoName} \cup DOMAIN meant.calls
        BY <1>1, <2>5, <2>6
      <4>3. new.args = <<>> \/ \E j \in Begun' : sent'.calls[j] > 1
        <5>1. came # 0 => sent'.calls[i] > 1
          BY <2>1, <2>8
        <5>2. i \in Begun'
          BY <2>4
        <5> QED
          BY <2>5, <2>6, <3>1, <5>1, <5>2
      <4> QED
        BY <3>3, <4>1, <4>2, <4>3 DEF new
    <3> QED
      BY <3>2, <3>3
  <2> HIDE DEF b, new, came
  <2> QED
    BY <2>2, <2>4, <2>9, <2>10, <2>11, <2>12 DEF BuildersInv
<1>2. CASE UNCHANGED <<setup, meant, builders>> /\ sent'.calls = sent.calls
  BY <1>2 DEF BuildersInv, Begun, Index, MeantCall, Whole
<1>3. ThinkArrives \/ TextArrives => UNCHANGED <<setup, meant, builders>> /\ sent'.calls = sent.calls
  BY DEF ThinkArrives, TextArrives, ArrivedInv
<1>4. (\E reply \in {"answered", "refused", "failed"} : Ask(reply)) \/ StreamEnds \/ StreamFails
        \/ Converse \/ UNCHANGED adaptersVars
      => UNCHANGED <<setup, meant, builders>> /\ sent'.calls = sent.calls
  BY DEF Ask, StreamEnds, StreamFails, Converse, adaptersVars, buffers
<1> QED
  BY <1>1, <1>2, <1>3, <1>4 DEF AdaptersNext

(* What a request comes to in the end is neither open nor a failure.         *)
LEMMA CameFacts ==
  /\ NormalizeLitellmResponse.kind \in {"response", "ModelOutputValidationError"}
  /\ NormalizeResponsesResponse.kind \in {"response", "ModelOutputValidationError"}
  /\ Assembled.kind \in {"response", "ModelOutputValidationError"}
BY DEF NormalizeLitellmResponse, NormalizeResponsesResponse, Assembled, Invalid, Response

(* A second request follows a refused first one, and there is no third.      *)
LEMMA RequestsStep ==
  ASSUME ArrivedInv, RequestsInv, [AdaptersNext]_adaptersVars
  PROVE  RequestsInv'
<1>1. ASSUME NEW reply \in {"answered", "refused", "failed"}, Ask(reply)
      PROVE  RequestsInv'
  <2> DEFINE e == setup.api = "responses" /\ setup.effort /\ requests = <<>>
             request == [effort |-> e, reply |-> reply]
             Requests == [effort : BOOLEAN, reply : {"answered", "refused", "failed"}]
  <2>1. request \in Requests
    <3>1. e \in BOOLEAN
      OBVIOUS
    <3> HIDE DEF e
    <3> QED
      BY <3>1
  <2>2. request.effort = e /\ request.reply = reply
    OBVIOUS
  <2>3. /\ received = Open /\ requests' = Append(requests, request) /\ setup' = setup
        /\ requests # <<>> => Again(Last(requests))
    BY <1>1 DEF Ask
  <2>4. received' = IF reply # "answered" THEN IF Again(request) THEN Open ELSE ProviderError
                    ELSE IF setup.api = "complete" THEN NormalizeLitellmResponse
                    ELSE IF setup.api = "responses" THEN NormalizeResponsesResponse
                    ELSE Open
    BY <1>1 DEF Ask
  <2> HIDE DEF request
  <2>5. received' # Open /\ received' # ProviderError => request.reply = "answered"
    BY <2>2, <2>4
  <2>6. received' = Open => Again(request) \/ request.reply = "answered"
    <3>1. CASE reply = "answered"
      BY <2>2, <3>1
    <3>2. CASE reply # "answered"
      BY <2>2, <2>4, <3>2 DEF Open, ProviderError
    <3> QED
      BY <3>1, <3>2
  <2>7. received' = ProviderError => ~Again(request)
    BY <2>2, <2>4, CameFacts DEF Open, ProviderError, Again
  <2>8. requests = <<>> \/ Len(requests) = 1
    <3>1. Len(requests) \in Nat /\ (Len(requests) = 0 => requests = <<>>) /\ Len(requests) <= 2
      <4> HIDE DEF Requests
      <4>1. requests \in Seq(Requests) /\ Len(requests) <= 2
        BY DEF RequestsInv, Requests
      <4> QED
        BY <4>1
    <3>2. Len(requests) # 2
      <4> SUFFICES ASSUME Len(requests) = 2 PROVE FALSE
        OBVIOUS
      <4>1. ~requests[2].effort /\ requests # <<>> /\ Last(requests) = requests[2]
        BY DEF RequestsInv, Last
      <4> QED
        BY <2>3, <4>1 DEF Again
    <3>3. \A n \in Nat : n <= 2 /\ n # 2 => n = 0 \/ n = 1
      OBVIOUS
    <3> QED
      BY <3>1, <3>2, <3>3
  <2>9. requests \in Seq(Requests)
    BY DEF RequestsInv
  <2>10. requests' \in Seq(Requests) /\ requests' # <<>> /\ Len(requests') = Len(requests) + 1
         /\ Last(requests') = request /\ requests'[Len(requests')] = request
    <3> HIDE DEF request, Requests
    <3> QED
      BY <2>1, <2>3, <2>9 DEF Last
  <2>11. CASE requests = <<>>
    <3>1. Len(requests') = 1 /\ requests'[1] = request
      BY <2>10, <2>11
    <3>2. request.effort => setup.api = "responses"
      BY <2>2
    <3> HIDE DEF request
    <3> QED
      BY <2>3, <2>5, <2>6, <2>7, <2>10, <3>1, <3>2 DEF RequestsInv
  <2>12. CASE Len(requests) = 1
    <3>1. requests # <<>> /\ Last(requests) = requests[1] /\ Again(requests[1])
      BY <2>3, <2>9, <2>12 DEF Last
    <3>2. Len(requests') = 2 /\ requests'[2] = request /\ requests'[1] = requests[1]
      <4> HIDE DEF request, Requests
      <4> QED
        BY <2>1, <2>3, <2>9, <2>10, <2>12
    <3>3. ~request.effort
      BY <2>2, <3>1
    <3> HIDE DEF request
    <3> QED
      BY <2>3, <2>5, <2>6, <2>7, <2>10, <3>1, <3>2, <3>3 DEF RequestsInv
  <2> QED
    BY <2>8, <2>11, <2>12
<1>2. CASE StreamEnds \/ StreamFails
  <2>1. /\ setup' = setup /\ requests' = requests /\ requests # <<>> /\ setup.api = "stream"
        /\ received = Open
    BY <1>2 DEF StreamEnds, StreamFails, Streaming
  <2>2. ~Again(Last(requests)) /\ Last(requests).reply = "answered"
    <3>1. ~requests[1].effort
      BY <2>1 DEF RequestsInv
    <3>2. Len(requests) = 1
      <4>1. Len(requests) # 2
        BY <3>1 DEF RequestsInv, Again
      <4>2. Len(requests) # 0 /\ Len(requests) \in Nat
        BY <2>1 DEF RequestsInv
      <4>3. Len(requests) <= 2
        BY DEF RequestsInv
      <4>4. \A n \in Nat : n <= 2 /\ n # 2 => n = 0 \/ n = 1
        OBVIOUS
      <4> QED
        BY <4>1, <4>2, <4>3, <4>4
    <3>3. ~Again(Last(requests))
      BY <3>1, <3>2 DEF Again, Last
    <3> QED
      BY <2>1, <3>3 DEF RequestsInv
  <2>3. received' # Open
    BY <1>2, CameFacts DEF StreamEnds, StreamFails, Open, ProviderError
  <2> QED
    BY <2>1, <2>2, <2>3 DEF RequestsInv
<1>3. CASE UNCHANGED <<setup, requests, received>>
  BY <1>3 DEF RequestsInv
<1>4. ThinkArrives \/ TextArrives \/ (\E i \in DOMAIN meant.calls : CallArrives(i)) \/ Converse
        \/ UNCHANGED adaptersVars => UNCHANGED <<setup, requests, received>>
  BY DEF ThinkArrives, TextArrives, CallArrives, Converse, adaptersVars
<1> QED
  BY <1>1, <1>2, <1>3, <1>4 DEF AdaptersNext

(* A response is made of what arrived, and the conversation of the response. *)
LEMMA ReceivedStep ==
  ASSUME ArrivedInv, RequestsInv, ReceivedInv, WireInv, [AdaptersNext]_adaptersVars
  PROVE  ReceivedInv' /\ WireInv'
<1>1. UNCHANGED <<setup, meant, parts, thoughts, builders>> => Came' = Came
  BY DEF Came, NormalizeLitellmResponse, NormalizeResponsesResponse, MeantCalls, MeantCall, Whole,
         Raw, ResolveReasoningMode, Assembled, Named, AssembledCall, ParsedOrEmpty, Parsed
<1>2. received = Open => wire = <<>>
  BY DEF WireInv, Answered, Open
<1>3. received' = received /\ wire' = wire => WireInv'
  BY DEF WireInv, Answered
<1>4. ASSUME NEW reply \in {"answered", "refused", "failed"}, Ask(reply)
      PROVE  received = Open /\ wire' = wire /\ received' \in {Open, ProviderError, Came}
             /\ UNCHANGED <<setup, meant, parts, thoughts, builders>>
  BY <1>4 DEF Ask, Came, buffers
<1>5. StreamEnds \/ StreamFails =>
        /\ received = Open /\ wire' = wire /\ received' \in {Open, ProviderError, Came}
        /\ UNCHANGED <<setup, meant, parts, thoughts, builders>>
  BY AdaptersAssumption DEF StreamEnds, StreamFails, Streaming, Came, buffers
<1>6. CASE /\ received = Open /\ wire' = wire /\ received' \in {Open, ProviderError, Came}
           /\ UNCHANGED <<setup, meant, parts, thoughts, builders>>
  <2>1. wire' = <<>>
    BY <1>2, <1>6
  <2> QED
    BY <1>1, <1>6, <2>1 DEF ReceivedInv, WireInv
<1>7. ThinkArrives \/ TextArrives \/ (\E i \in DOMAIN meant.calls : CallArrives(i))
      => received = Open /\ received' = received /\ wire' = wire
  BY DEF ThinkArrives, TextArrives, CallArrives, Streaming
<1>8. CASE received = Open /\ received' = received /\ wire' = wire
  BY <1>3, <1>8 DEF ReceivedInv
<1>9. CASE Converse
  <2>1. UNCHANGED <<setup, meant, parts, thoughts, builders>> /\ received' = received
    BY <1>9 DEF Converse, buffers
  <2>2. wire' = BuildInput(received') /\ Answered'
    BY <1>9, <2>1 DEF Converse, Answered
  <2> QED
    BY <1>1, <2>1, <2>2 DEF ReceivedInv, WireInv
<1>10. CASE UNCHANGED adaptersVars
  BY <1>1, <1>3, <1>10 DEF adaptersVars, buffers, ReceivedInv
<1> QED
  BY <1>4, <1>5, <1>6, <1>7, <1>8, <1>9, <1>10 DEF AdaptersNext

(* At first nothing has arrived, and nothing was asked.                      *)
LEMMA AdaptersStart ==
  ASSUME AdaptersInit
  PROVE  AdaptersInv
<1>1. /\ meant.text \in Nat /\ meant.think \in Nat
      /\ \A i \in DOMAIN meant.calls : meant.calls[i].pieces \in Nat
  BY MeantFacts DEF AdaptersInit
<1>2. Pieces(0) = <<>>
  BY PiecesFacts
<1>3. ArrivedInv
  BY <1>1, <1>2 DEF AdaptersInit, ArrivedInv
<1>4. Begun = {} /\ DOMAIN builders = {}
  BY DEF AdaptersInit, Begun
<1>5. BuildersInv
  BY <1>4 DEF BuildersInv
<1>6. RequestsInv
  BY DEF AdaptersInit, RequestsInv
<1>7. ReceivedInv /\ WireInv
  BY DEF AdaptersInit, ReceivedInv, WireInv
<1> QED
  BY <1>3, <1>5, <1>6, <1>7 DEF AdaptersInv

(* What the adapters have built of an answer at every point of its arrival,   *)
(* asked once or again, streamed or not: the invariant the three theorems on  *)
(* responses rest on.                                                         *)
THEOREM AdaptersInvariant == AdaptersSpec => []AdaptersInv
<1>1. AdaptersInit => AdaptersInv
  BY AdaptersStart
<1>2. AdaptersInv /\ [AdaptersNext]_adaptersVars => AdaptersInv'
  BY ArrivedStep, BuildersStep, RequestsStep, ReceivedStep DEF AdaptersInv
<1> QED
  BY <1>1, <1>2, PTL DEF AdaptersSpec

(* Without an index there is but one builder, for a call that exists.        *)
LEMMA IndexFacts ==
  ASSUME ArrivedInv, BuildersInv, NEW idx \in DOMAIN builders
  PROVE  idx \in Nat /\ idx + 1 \in DOMAIN meant.calls
         /\ (setup.indexed => idx + 1 \in Begun /\ idx = Index(idx + 1))
<1>1. PICK i \in Begun : idx = Index(i)
  BY DEF BuildersInv
<1>2. i \in DOMAIN meant.calls /\ DOMAIN meant.calls = 1 .. Len(meant.calls) /\ Len(meant.calls) \in Nat
  BY MeantFacts DEF ArrivedInv, Begun
<1>3. CASE setup.indexed
  <2>1. idx = i - 1
    BY <1>1, <1>3 DEF Index
  <2>2. idx + 1 = i /\ idx \in Nat
    BY <1>2, <2>1
  <2> QED
    BY <1>1, <1>2, <2>2
<1>4. CASE ~setup.indexed
  <2>1. idx = 0
    BY <1>1, <1>4 DEF Index
  <2> QED
    BY <1>2, <1>4, <2>1
<1> QED
  BY <1>3, <1>4

(* The builders that end up as calls are numbers, so that each has its turn. *)
LEMMA NamedFacts ==
  ASSUME ArrivedInv, BuildersInv
  PROVE  /\ Cardinality(Named) \in Nat
         /\ \A k \in 1 .. Cardinality(Named) : Nth(Named, k) \in Named
<1>1. Len(meant.calls) \in Nat /\ DOMAIN meant.calls = 1 .. Len(meant.calls)
  BY MeantFacts DEF ArrivedInv
<1>2. Named \in SUBSET (0 .. Len(meant.calls))
  <2>1. ASSUME NEW idx \in DOMAIN builders PROVE idx \in 0 .. Len(meant.calls)
    BY <1>1, IndexFacts
  <2> QED
    BY <2>1 DEF Named
<1> HIDE DEF Named
<1>3. Cardinality(Named) \in Nat
  <2>1. IsFiniteSet(0 .. Len(meant.calls))
    BY <1>1, FS_Interval
  <2> QED
    BY <1>2, <2>1, FS_Subset, FS_CardinalityType
<1> QED
  BY <1>1, <1>2, <1>3, NthFacts

(* Retries have a cause: those of the executor and those of the adapter.     *)
LEMMA RetriesFacts ==
  ASSUME AdaptersInv
  PROVE  RetriesHaveCause
<1> USE DEF AdaptersInv
<1>1. /\ meant.text \in Nat /\ meant.think \in Nat /\ Len(meant.calls) \in Nat
      /\ DOMAIN meant.calls = 1 .. Len(meant.calls)
      /\ \A i \in DOMAIN meant.calls : meant.calls[i].pieces \in Nat
  BY MeantFacts DEF ArrivedInv
<1>2. received # Open => requests # <<>>
  BY DEF RequestsInv
<1>3. AdaptersTypeOK
  <2>1. \A n \in Nat : Range(Pieces(n)) = 1 .. n
    BY DEF Range, Pieces
  <2>2. Range(parts) \subseteq 1 .. meant.text
    BY <1>1, <2>1 DEF ArrivedInv
  <2>3. Range(thoughts) \subseteq 1 .. meant.think
    <3>1. Range(<<>>) = {}
      BY DEF Range
    <3> QED
      BY <1>1, <2>1, <3>1 DEF ArrivedInv
  <2>4. Answered => Last(requests).reply = "answered"
    <3>1. Answered => received # Open /\ received # ProviderError
      BY DEF Answered, Open, ProviderError
    <3> QED
      BY <1>2, <3>1 DEF RequestsInv
  <2>5. \A idx \in DOMAIN builders : idx + 1 \in DOMAIN meant.calls
    BY IndexFacts
  <2> QED
    BY <2>2, <2>3, <2>4, <2>5 DEF AdaptersTypeOK, ArrivedInv, BuildersInv, RequestsInv
<1>4. InvalidHasCause
  <2> SUFFICES ASSUME received = Invalid PROVE InvalidHasCause
    BY DEF InvalidHasCause
  <2>1. received = Came
    BY DEF ReceivedInv, Invalid, Open, ProviderError
  <2>2. CASE setup.api = "complete"
    <3>1. \E i \in DOMAIN MeantCalls : meant.calls[i].kind # "object"
      BY <2>1, <2>2 DEF Came, NormalizeLitellmResponse, Invalid, Response
    <3> QED
      BY <2>2, <3>1 DEF InvalidHasCause, MeantCalls
  <2>3. CASE setup.api = "responses"
    <3>1. PICK i \in DOMAIN meant.calls : ParsedOrEmpty(MeantCalls[i].args) # "object"
      BY <2>1, <2>3 DEF Came, NormalizeResponsesResponse, Invalid, Response, MeantCalls
    <3>2. MeantCalls[i].args = Whole(i)
      BY DEF MeantCalls, MeantCall
    <3>3. meant.calls[i].kind # "object"
      BY <3>1, <3>2, WholeFacts DEF ParsedOrEmpty, ArrivedInv
    <3> QED
      BY <2>3, <3>3 DEF InvalidHasCause
  <2>4. CASE setup.api = "stream"
    <3>1. PICK idx \in Named : ParsedOrEmpty(builders[idx].args) # "object"
      BY <2>1, <2>4 DEF Came, Assembled, Invalid, Response
    <3>2. idx \in DOMAIN builders /\ builders[idx].args # <<>>
      BY <3>1 DEF Named, ParsedOrEmpty
    <3>3. CASE ~setup.indexed
      <4>1. \E i \in Begun : sent.calls[i] > 1
        BY <3>2 DEF BuildersInv
      <4> QED
        BY <2>4, <3>3, <4>1 DEF InvalidHasCause, Begun
    <3>4. CASE setup.indexed
      <4>1. PICK i \in Begun : idx = Index(i)
        BY <3>2, <3>4, IndexFacts
      <4>2. i \in DOMAIN meant.calls /\ sent.calls[i] \in Nat /\ sent.calls[i] > 0
            /\ sent.calls[i] <= meant.calls[i].pieces + 1
        BY <4>1 DEF Begun, ArrivedInv
      <4>3. builders[idx].args = First(i, sent.calls[i] - 1)
        <5>1. builders[Index(i)] = [id |-> MeantCall(i).id, name |-> MeantCall(i).name,
                                    args |-> First(i, sent.calls[i] - 1)]
          BY <3>4, <4>1 DEF BuildersInv
        <5>2. builders[Index(i)].args = First(i, sent.calls[i] - 1)
          BY <5>1
        <5> QED
          BY <4>1, <5>2
      <4>4. sent.calls[i] > 1
        <5>1. sent.calls[i] - 1 \in Nat
          BY <4>2
        <5>2. sent.calls[i] - 1 # 0
          BY <3>2, <4>3, <5>1, FirstFacts
        <5> QED
          BY <4>2, <5>2
      <4>5. sent.calls[i] <= meant.calls[i].pieces \/ meant.calls[i].kind # "object"
        <5>1. CASE sent.calls[i] = meant.calls[i].pieces + 1
          <6>1. sent.calls[i] - 1 = meant.calls[i].pieces
            BY <1>1, <4>2, <5>1
          <6>2. builders[idx].args = Whole(i)
            BY <4>2, <4>3, <6>1, WholeFacts DEF ArrivedInv
          <6> QED
            BY <3>1, <3>2, <4>2, <6>2, WholeFacts DEF ParsedOrEmpty, ArrivedInv
        <5>2. CASE sent.calls[i] # meant.calls[i].pieces + 1
          BY <1>1, <4>2, <5>2
        <5> QED
          BY <5>1, <5>2
      <4> QED
        BY <2>4, <4>2, <4>4, <4>5 DEF InvalidHasCause
    <3> QED
      BY <3>3, <3>4
  <2>5. setup.api \in Apis
    BY AdaptersAssumption DEF AdaptersAssumption, ArrivedInv
  <2> QED
    BY <2>2, <2>3, <2>4, <2>5 DEF Apis
<1>5. RepeatedWithoutEffort
  <2>1. ASSUME Len(requests) > 1
        PROVE  requests[1] = [effort |-> TRUE, reply |-> "refused"] /\ ~requests[2].effort
    <3>1. Len(requests) = 2
      <4>1. Len(requests) \in Nat /\ Len(requests) <= 2
        BY DEF RequestsInv
      <4>2. \A n \in Nat : n <= 2 /\ n > 1 => n = 2
        OBVIOUS
      <4> QED
        BY <2>1, <4>1, <4>2
    <3>2. Again(requests[1]) /\ ~requests[2].effort
      BY <3>1 DEF RequestsInv
    <3>3. requests[1] \in [effort : BOOLEAN, reply : {"answered", "refused", "failed"}]
      <4> DEFINE Requests == [effort : BOOLEAN, reply : {"answered", "refused", "failed"}]
      <4>1. requests \in Seq(Requests)
        BY DEF RequestsInv
      <4> HIDE DEF Requests
      <4>2. requests[1] \in Requests
        BY <3>1, <4>1
      <4> QED
        BY <4>2 DEF Requests
    <3>4. requests[1].effort = TRUE /\ requests[1].reply = "refused"
      BY <3>2, <3>3 DEF Again
    <3> QED
      BY <3>2, <3>3, <3>4
  <2>2. ASSUME received = ProviderError, requests[1].effort, requests[1].reply = "refused"
        PROVE  Len(requests) = 2
    <3>1. requests # <<>>
      BY <1>2, <2>2 DEF Open, ProviderError
    <3>2. ~Again(Last(requests))
      BY <2>2, <3>1 DEF RequestsInv, Open, ProviderError
    <3>3. Len(requests) # 1
      BY <2>2, <3>2 DEF Again, Last
    <3>4. Len(requests) \in Nat /\ Len(requests) # 0
      BY <3>1 DEF RequestsInv
    <3>5. Len(requests) <= 2
      BY DEF RequestsInv
    <3>6. \A n \in Nat : n <= 2 /\ n # 1 /\ n # 0 => n = 2
      OBVIOUS
    <3> QED
      BY <3>3, <3>4, <3>5, <3>6
  <2> QED
    BY <2>1, <2>2 DEF RepeatedWithoutEffort
<1> QED
  BY <1>3, <1>4, <1>5 DEF RetriesHaveCause

(* Retries have their cause: the executor's, after arguments that are no      *)
(* object (ModelOutputValidationError), and the adapter's, after a refusal of *)
(* the reasoning effort.                                                      *)
THEOREM RetriesTheorem == AdaptersSpec => []RetriesHaveCause
BY AdaptersInvariant, RetriesFacts, PTL

(* A streamed call has its id or one made up, and what else its builder has. *)
LEMMA AssembledFacts ==
  ASSUME BuildersInv, NEW idx \in DOMAIN builders
  PROVE  AssembledCall(idx)
           = [id |-> IF builders[idx].id # NoId THEN builders[idx].id ELSE MadeUp(idx),
              name |-> builders[idx].name, args |-> builders[idx].args]
<1>1. \A x, y, z, w : [[id |-> x, name |-> y, args |-> z] EXCEPT !.id = w]
                       = [id |-> w, name |-> y, args |-> z]
  OBVIOUS
<1> DEFINE b == builders[idx]
           id == IF b.id # NoId THEN b.id ELSE MadeUp(idx)
<1>2. b = [id |-> b.id, name |-> b.name, args |-> b.args]
  BY DEF BuildersInv
<1>3. AssembledCall(idx) = [b EXCEPT !.id = id]
  BY DEF AssembledCall
<1> HIDE DEF b, id
<1>4. [b EXCEPT !.id = id] = [[id |-> b.id, name |-> b.name, args |-> b.args] EXCEPT !.id = id]
  BY <1>2
<1>5. [b EXCEPT !.id = id] = [id |-> id, name |-> b.name, args |-> b.args]
  BY <1>1, <1>4
<1> QED
  BY <1>3, <1>5 DEF b, id

(* What a response consists of, streamed or not.                             *)
LEMMA ResponseFacts ==
  ASSUME AdaptersInv, Answered
  PROVE  /\ Len(received.calls) \in Nat /\ DOMAIN received.calls = 1 .. Len(received.calls)
         /\ setup.api = "stream" =>
              /\ received.content = parts /\ received.reasoning = thoughts
              /\ \A k \in DOMAIN received.calls : \E idx \in Named :
                   /\ received.calls[k] = AssembledCall(idx)
                   /\ ParsedOrEmpty(builders[idx].args) = "object"
         /\ setup.api # "stream" =>
              /\ received.content = Pieces(meant.text)
              /\ received.reasoning # <<>> => Raw /\ setup.api # "responses"
              /\ \A k \in DOMAIN received.calls :
                   k \in DOMAIN meant.calls /\ received.calls[k] = MeantCall(k)
<1> USE DEF AdaptersInv
<1>1. received = Came
  BY DEF ReceivedInv, Answered, Open, ProviderError
<1>2. setup.api \in Apis
  BY AdaptersAssumption DEF AdaptersAssumption, ArrivedInv
<1>3. CASE setup.api = "stream"
  <2>1. received = Assembled
    BY <1>1, <1>3 DEF Came
  <2> DEFINE list == [k \in 1 .. Cardinality(Named) |-> AssembledCall(Nth(Named, k))]
  <2>2. /\ received = Response(parts, thoughts, list)
        /\ \A idx \in Named : ParsedOrEmpty(builders[idx].args) = "object"
    BY <2>1 DEF Assembled, Answered, Invalid
  <2>3. received.content = parts /\ received.reasoning = thoughts /\ received.calls = list
    BY <2>2 DEF Response
  <2>4. Cardinality(Named) \in Nat /\ \A k \in 1 .. Cardinality(Named) : Nth(Named, k) \in Named
    BY NamedFacts
  <2>5. Len(list) = Cardinality(Named) /\ DOMAIN list = 1 .. Cardinality(Named)
    BY <2>4
  <2>6. \A k \in DOMAIN list : list[k] = AssembledCall(Nth(Named, k))
    BY <2>4
  <2> HIDE DEF list
  <2>7. \A k \in DOMAIN received.calls : \E idx \in Named :
          /\ received.calls[k] = AssembledCall(idx)
          /\ ParsedOrEmpty(builders[idx].args) = "object"
    BY <2>2, <2>3, <2>4, <2>5, <2>6
  <2> QED
    BY <1>3, <2>3, <2>4, <2>5, <2>7
<1>4. CASE setup.api # "stream"
  <2>1. /\ received.content = Pieces(meant.text) /\ received.calls = MeantCalls
        /\ received.reasoning # <<>> => Raw /\ setup.api # "responses"
    <3>1. CASE setup.api = "complete"
      BY <1>1, <3>1 DEF Came, NormalizeLitellmResponse, Answered, Invalid, Response
    <3>2. CASE setup.api = "responses"
      BY <1>1, <3>2 DEF Came, NormalizeResponsesResponse, Answered, Invalid, Response
    <3> QED
      BY <1>2, <1>4, <3>1, <3>2 DEF Apis
  <2>2. Len(meant.calls) \in Nat /\ DOMAIN meant.calls = 1 .. Len(meant.calls)
    BY MeantFacts DEF ArrivedInv
  <2>3. Len(MeantCalls) = Len(meant.calls) /\ DOMAIN MeantCalls = 1 .. Len(meant.calls)
        /\ \A k \in DOMAIN MeantCalls : MeantCalls[k] = MeantCall(k)
    BY <2>2 DEF MeantCalls
  <2> QED
    BY <1>4, <2>1, <2>2, <2>3
<1> QED
  BY <1>3, <1>4

(* A call has all of the arguments of some call or none, and its own where   *)
(* deltas carry an index.                                                    *)
LEMMA HalfFacts ==
  ASSUME AdaptersInv
  PROVE  NoHalfArguments
<1> USE DEF AdaptersInv
<1> SUFFICES ASSUME Answered, NEW k \in DOMAIN received.calls
             PROVE  LET call == received.calls[k]
                    IN  /\ call.args = <<>> \/ \E i \in DOMAIN meant.calls : call.args = Whole(i)
                        /\ setup.indexed /\ call.args # <<>> /\ call.name # NoName
                             => call.args = Whole(call.name)
  BY DEF NoHalfArguments
<1> DEFINE call == received.calls[k]
<1>1. CASE setup.api # "stream"
  <2>1. k \in DOMAIN meant.calls /\ call = MeantCall(k)
    BY <1>1, ResponseFacts
  <2>2. call.args = Whole(k) /\ (call.name # NoName => call.name = k)
    BY <2>1 DEF MeantCall
  <2> QED
    BY <2>1, <2>2
<1>2. CASE setup.api = "stream"
  <2>1. PICK idx \in Named : call = AssembledCall(idx) /\ ParsedOrEmpty(builders[idx].args) = "object"
    BY <1>2, ResponseFacts
  <2>2. idx \in DOMAIN builders
    BY DEF Named
  <2>3. call.args = builders[idx].args /\ call.name = builders[idx].name
    BY <2>1, <2>2, AssembledFacts
  <2>4. call.args = <<>> \/ \E i \in DOMAIN meant.calls : call.args = Whole(i)
    BY <2>1, <2>3, ObjectFacts
  <2>5. ASSUME setup.indexed, call.args # <<>>, call.name # NoName
        PROVE  call.args = Whole(call.name)
    <3>1. PICK i \in Begun : idx = Index(i)
      BY <2>2, <2>5, IndexFacts
    <3>2. i \in DOMAIN meant.calls /\ sent.calls[i] - 1 \in Nat
      BY DEF Begun, ArrivedInv
    <3>3. call.args = First(i, sent.calls[i] - 1) /\ call.name = MeantCall(i).name
      <4>1. builders[idx] = [id |-> MeantCall(i).id, name |-> MeantCall(i).name,
                             args |-> First(i, sent.calls[i] - 1)]
        BY <2>5, <3>1 DEF BuildersInv
      <4>2. builders[idx].args = First(i, sent.calls[i] - 1) /\ builders[idx].name = MeantCall(i).name
        BY <4>1
      <4> QED
        BY <2>3, <4>2
    <3>4. PICK j \in DOMAIN meant.calls : call.args = Whole(j)
      BY <2>4, <2>5
    <3>5. i = j
      <4>1. Whole(j) = First(j, meant.calls[j].pieces) /\ meant.calls[j].pieces \in Nat
        BY WholeFacts, MeantFacts DEF ArrivedInv
      <4>2. sent.calls[i] - 1 # 0
        BY <2>5, <3>2, <3>3, FirstFacts
      <4>3. First(i, sent.calls[i] - 1) = First(j, meant.calls[j].pieces)
        BY <3>3, <3>4, <4>1
      <4> DEFINE n == sent.calls[i] - 1
                 m == meant.calls[j].pieces
      <4>4. n \in Nat /\ m \in Nat /\ n # 0 /\ First(i, n) = First(j, m)
        BY <3>2, <4>1, <4>2, <4>3
      <4> HIDE DEF n, m
      <4> QED
        BY <4>4, FirstTells
    <3>6. call.name = i
      BY <2>5, <3>3 DEF MeantCall
    <3> QED
      BY <3>4, <3>5, <3>6
  <2> QED
    BY <2>4, <2>5
<1> QED
  BY <1>1, <1>2

(* Reasoning leaves the adapter only where it was asked for, and consumers   *)
(* have seen what the response says.                                         *)
LEMMA PrivateFacts ==
  ASSUME AdaptersInv
  PROVE  ReasoningIsPrivate /\ SeenIsAnswered
<1> USE DEF AdaptersInv
<1>1. deltas.assistant = parts /\ deltas.reasoning = thoughts
  BY DEF ArrivedInv
<1>2. Raw => setup.reasoning = "raw" \/ setup.override = "raw"
  BY DEF Raw, ResolveReasoningMode
<1>3. thoughts # <<>> => Raw /\ setup.api = "stream"
  <2>1. Pieces(0) = <<>>
    BY PiecesFacts
  <2> QED
    BY <2>1 DEF ArrivedInv
<1>4. SeenIsAnswered
  BY <1>1, ResponseFacts DEF SeenIsAnswered
<1>5. deltas.reasoning # <<>> \/ (Answered /\ received.reasoning # <<>>) => Raw /\ setup.api # "responses"
  BY <1>1, <1>3, ResponseFacts
<1>6. IsPrefix(parts, Pieces(meant.text)) /\ IsPrefix(Pieces(meant.text), Pieces(meant.text))
  <2>1. meant.text \in Nat /\ sent.text \in Nat /\ sent.text <= meant.text /\ parts = Pieces(sent.text)
    BY MeantFacts DEF ArrivedInv
  <2>2. \A n, m \in Nat : n <= m => IsPrefix(Pieces(n), Pieces(m))
    BY PiecesFacts
  <2> QED
    BY <2>1, <2>2
<1>7. Answered => IsPrefix(received.content, Pieces(meant.text))
  BY <1>6, ResponseFacts
<1> QED
  BY <1>1, <1>2, <1>4, <1>5, <1>6, <1>7 DEF ReasoningIsPrivate

(* A regular answer that arrived comes to the same as one given at once.     *)
LEMMA AlikeFacts ==
  ASSUME AdaptersInv
  PROVE  RegularStreamedAlike
<1> USE DEF AdaptersInv
<1> SUFFICES ASSUME Regular, received \notin {Open, ProviderError}, AllArrived, setup.indexed,
                    setup.api = "stream"
             PROVE  WithIds(received) = WithIds(NormalizeLitellmResponse)
  BY DEF RegularStreamedAlike, StreamedAlike
<1> DEFINE n == Len(meant.calls)
<1>1. n \in Nat /\ DOMAIN meant.calls = 1 .. n
      /\ \A i \in DOMAIN meant.calls : meant.calls[i].pieces \in Nat
  BY MeantFacts DEF ArrivedInv
<1>2. received = Assembled
  BY DEF ReceivedInv, Came
<1>3. Begun = 1 .. n
  BY <1>1 DEF Begun, AllArrived
<1>4. \A i : Index(i) = i - 1
  BY DEF Index
<1>5. \A i \in 1 .. n : builders[i - 1] = [id |-> MeantCall(i).id, name |-> i, args |-> Whole(i)]
  <2> SUFFICES ASSUME NEW i \in 1 .. n
               PROVE  builders[i - 1] = [id |-> MeantCall(i).id, name |-> i, args |-> Whole(i)]
    OBVIOUS
  <2>1. builders[i - 1] = [id |-> MeantCall(i).id, name |-> MeantCall(i).name,
                           args |-> First(i, sent.calls[i] - 1)]
    BY <1>3, <1>4 DEF BuildersInv
  <2>2. MeantCall(i).name = i
    BY <1>1 DEF Regular, MeantCall
  <2>3. sent.calls[i] - 1 = meant.calls[i].pieces
    BY <1>1 DEF AllArrived
  <2>4. Whole(i) = First(i, meant.calls[i].pieces)
    BY <1>1, WholeFacts DEF ArrivedInv
  <2> QED
    BY <2>1, <2>2, <2>3, <2>4
<1>6. DOMAIN builders = 0 .. (n - 1)
  <2>1. DOMAIN builders = {i - 1 : i \in 1 .. n}
    BY <1>3, <1>4 DEF BuildersInv
  <2> HIDE DEF n
  <2>2. \A i \in 1 .. n : i - 1 \in 0 .. (n - 1)
    BY <1>1
  <2>3. \A idx \in 0 .. (n - 1) : idx + 1 \in 1 .. n /\ idx = idx + 1 - 1
    BY <1>1
  <2> QED
    BY <2>1, <2>2, <2>3
<1>7. \A idx \in 0 .. (n - 1) : idx + 1 \in 1 .. n /\ idx + 1 - 1 = idx
  BY <1>1
<1>8. Named = 0 .. (n - 1)
  <2>1. ASSUME NEW idx \in 0 .. (n - 1) PROVE builders[idx].name = idx + 1
    <3> DEFINE i == idx + 1
    <3>1. i \in 1 .. n /\ i - 1 = idx
      BY <1>7
    <3> HIDE DEF i
    <3>2. builders[idx] = [id |-> MeantCall(i).id, name |-> i, args |-> Whole(i)]
      BY <1>5, <3>1
    <3>3. builders[idx].name = i
      BY <3>2
    <3> QED
      BY <3>3 DEF i
  <2>2. \A idx \in 0 .. (n - 1) : builders[idx].name # NoName
    BY <1>1, <2>1 DEF NoName
  <2> QED
    BY <1>6, <2>2 DEF Named
<1>9. Cardinality(Named) = n /\ \A k \in 1 .. n : Nth(Named, k) = k - 1
  <2> HIDE DEF n
  <2>1. \A k \in 1 .. n : Cardinality(0 .. (n - 1)) = n /\ Nth(0 .. (n - 1), k) = k - 1
    BY <1>1, NthFirst
  <2>2. Cardinality(0 .. (n - 1)) = n
    <3>1. 0 \in Int /\ n - 1 \in Int
      BY <1>1
    <3>2. Cardinality(0 .. (n - 1)) = IF 0 > n - 1 THEN 0 ELSE n - 1 - 0 + 1
      BY <3>1, FS_Interval
    <3> QED
      BY <1>1, <3>2
  <2> QED
    BY <1>8, <2>1, <2>2
<1>10. \A i \in 1 .. n : ParsedOrEmpty(Whole(i)) = "object" <=> meant.calls[i].kind = "object"
  <2> SUFFICES ASSUME NEW i \in 1 .. n
               PROVE  ParsedOrEmpty(Whole(i)) = "object" <=> meant.calls[i].kind = "object"
    OBVIOUS
  <2>1. CASE Whole(i) = <<>>
    BY <1>1, <2>1, WholeFacts DEF ArrivedInv, Regular, ParsedOrEmpty
  <2>2. CASE Whole(i) # <<>>
    BY <1>1, <2>2, WholeFacts DEF ArrivedInv, ParsedOrEmpty
  <2> QED
    BY <2>1, <2>2
<1>11. (\E idx \in Named : ParsedOrEmpty(builders[idx].args) # "object")
       <=> \E i \in DOMAIN MeantCalls : meant.calls[i].kind # "object"
  <2>1. ASSUME NEW i \in 1 .. n PROVE builders[i - 1].args = Whole(i)
    <3>1. builders[i - 1] = [id |-> MeantCall(i).id, name |-> i, args |-> Whole(i)]
      BY <1>5
    <3> QED
      BY <3>1
  <2>2. \A i \in 1 .. n : i - 1 \in 0 .. (n - 1)
    BY <1>1
  <2>3. DOMAIN MeantCalls = 1 .. n
    BY <1>1 DEF MeantCalls
  <2> HIDE DEF n
  <2>4. ASSUME NEW idx \in Named, ParsedOrEmpty(builders[idx].args) # "object"
        PROVE  \E i \in DOMAIN MeantCalls : meant.calls[i].kind # "object"
    <3>1. idx + 1 \in 1 .. n /\ builders[idx].args = Whole(idx + 1)
      BY <1>7, <1>8, <2>1
    <3> QED
      BY <1>10, <2>3, <2>4, <3>1
  <2>5. ASSUME NEW i \in DOMAIN MeantCalls, meant.calls[i].kind # "object"
        PROVE  \E idx \in Named : ParsedOrEmpty(builders[idx].args) # "object"
    BY <1>8, <1>10, <2>1, <2>2, <2>3, <2>5
  <2> QED
    BY <2>4, <2>5
<1>12. parts = Pieces(meant.text) /\ thoughts = IF Raw THEN Pieces(meant.think) ELSE <<>>
  BY DEF ArrivedInv, AllArrived
<1> DEFINE list == [k \in 1 .. Cardinality(Named) |-> AssembledCall(Nth(Named, k))]
           ids(cs) == [i \in DOMAIN cs |-> [cs[i] EXCEPT !.id = CanonicalToolCallId(cs[i], i)]]
<1>13. CASE \E i \in DOMAIN MeantCalls : meant.calls[i].kind # "object"
  BY <1>2, <1>11, <1>13 DEF Assembled, NormalizeLitellmResponse
<1>14. CASE ~\E i \in DOMAIN MeantCalls : meant.calls[i].kind # "object"
  <2>1. received = Response(Pieces(meant.text), thoughts, list)
    BY <1>2, <1>11, <1>12, <1>14 DEF Assembled
  <2>2. NormalizeLitellmResponse = Response(Pieces(meant.text), thoughts, MeantCalls)
    BY <1>12, <1>14 DEF NormalizeLitellmResponse
  <2>3. DOMAIN list = 1 .. n /\ DOMAIN MeantCalls = 1 .. n
        /\ \A i \in 1 .. n : list[i] = AssembledCall(i - 1) /\ MeantCalls[i] = MeantCall(i)
    BY <1>1, <1>9 DEF MeantCalls
  <2>4. ASSUME NEW i \in 1 .. n
        PROVE  [list[i] EXCEPT !.id = CanonicalToolCallId(list[i], i)]
               = [MeantCalls[i] EXCEPT !.id = CanonicalToolCallId(MeantCalls[i], i)]
    <3>1. i - 1 \in DOMAIN builders
      BY <1>1, <1>6
    <3>2. builders[i - 1] = [id |-> MeantCall(i).id, name |-> i, args |-> Whole(i)]
      BY <1>5
    <3>3. AssembledCall(i - 1)
            = [id |-> IF MeantCall(i).id # NoId THEN MeantCall(i).id ELSE MadeUp(i - 1),
               name |-> i, args |-> Whole(i)]
      BY <3>1, <3>2, AssembledFacts
    <3>4. MeantCall(i) = [id |-> MeantCall(i).id, name |-> i, args |-> Whole(i)]
      BY <1>1 DEF MeantCall, Regular
    <3>5. MadeUp(i - 1) # NoId
      BY DEF MadeUp, NoId
    <3>7. \A x, y, z, w : [[id |-> x, name |-> y, args |-> z] EXCEPT !.id = w]
                           = [id |-> w, name |-> y, args |-> z]
      OBVIOUS
    <3> DEFINE id == CanonicalToolCallId(MeantCalls[i], i)
               other == IF MeantCall(i).id # NoId THEN MeantCall(i).id ELSE MadeUp(i - 1)
    <3>8. list[i] = [id |-> other, name |-> i, args |-> Whole(i)]
      BY <2>3, <3>3
    <3>6. CanonicalToolCallId(list[i], i) = id
      <4>1. list[i].id = other
        <5> HIDE DEF other, list
        <5> QED
          BY <3>8
      <4>2. other # NoId
        BY <3>5
      <4>3. MeantCalls[i].id = MeantCall(i).id
        BY <2>3
      <4> HIDE DEF list
      <4> QED
        BY <4>1, <4>2, <4>3 DEF CanonicalToolCallId
    <3> HIDE DEF id, other, list
    <3>9. [list[i] EXCEPT !.id = id] = [id |-> id, name |-> i, args |-> Whole(i)]
      BY <3>7, <3>8
    <3>10. [MeantCalls[i] EXCEPT !.id = id] = [id |-> id, name |-> i, args |-> Whole(i)]
      <4>1. MeantCalls[i] = [id |-> MeantCall(i).id, name |-> i, args |-> Whole(i)]
        BY <2>3, <3>4
      <4> QED
        BY <3>7, <4>1
    <3> QED
      BY <3>6, <3>9, <3>10 DEF id
  <2> HIDE DEF list
  <2>5. ids(list) = ids(MeantCalls)
    BY <2>3, <2>4
  <2>6. ASSUME NEW cs
        PROVE  WithIds(Response(Pieces(meant.text), thoughts, cs))
               = Response(Pieces(meant.text), thoughts, ids(cs))
    BY DEF WithIds, Response
  <2> HIDE DEF ids
  <2> QED
    BY <2>1, <2>2, <2>5, <2>6
<1> QED
  BY <1>13, <1>14

(* What reaches the executor is what consumers of events saw, with no call   *)
(* of half its arguments, and for a regular answer whose deltas are indexed  *)
(* the same as at once (_normalize_stream).                                  *)
THEOREM AnswerTheorem == AdaptersSpec => []AnswerArrivesWhole
<1>1. AdaptersInv => AnswerArrivesWhole
  BY HalfFacts, PrivateFacts, AlikeFacts DEF AnswerArrivesWhole
<1> QED
  BY <1>1, AdaptersInvariant, PTL

(* Of two sequences of a length, one after the other.                        *)
LEMMA SideBySide ==
  ASSUME NEW S, NEW a \in Seq(S), NEW b \in Seq(S), Len(a) = Len(b), NEW k \in 1 .. Len(a)
  PROVE  (a \o b)[k] = a[k] /\ (a \o b)[k + Len(a)] = b[k]
OBVIOUS

(* Each call of a response is answered under the id it was made with, where  *)
(* a stream delivered it or the provider gave it an id.                      *)
LEMMA AnswersFacts ==
  ASSUME AdaptersInv
  PROVE  CallsAnsweredById
<1> USE DEF AdaptersInv
<1> SUFFICES ASSUME setup.api = "stream" \/ (\A i \in DOMAIN meant.calls : meant.calls[i].given),
                    wire # <<>>, NEW k \in 1 .. Len(received.calls)
             PROVE  /\ wire[k].type = "function_call"
                    /\ wire[k + Len(received.calls)] = Item("function_call_output", wire[k].id)
  BY DEF CallsAnsweredById, AnswersNameTheirCalls
<1> DEFINE n == Len(received.calls)
           A == AssistantToolCallMessage(received)
           T == ToolMessages(received)
           call == received.calls[k]
<1>1. Answered /\ wire = A \o T
  BY DEF WireInv, BuildInput
<1>2. n \in Nat /\ DOMAIN received.calls = 1 .. n /\ k \in 1 .. n
  BY <1>1, ResponseFacts
<1>3. call.id # NoId
  <2>1. CASE setup.api = "stream"
    <3>1. PICK idx \in Named : call = AssembledCall(idx)
      BY <1>1, <1>2, <2>1, ResponseFacts
    <3>2. idx \in DOMAIN builders
      BY DEF Named
    <3>3. MadeUp(idx) # NoId
      BY DEF MadeUp, NoId
    <3> QED
      BY <3>1, <3>2, <3>3, AssembledFacts
  <2>2. CASE setup.api # "stream"
    <3>1. k \in DOMAIN meant.calls /\ call = MeantCall(k)
      BY <1>1, <1>2, <2>2, ResponseFacts
    <3>2. call.id = Given(k)
      BY <2>2, <3>1 DEF MeantCall
    <3> QED
      BY <3>2 DEF Given, NoId
  <2> QED
    BY <2>1, <2>2
<1>4. CanonicalToolCallId(call, k) = call.id
  BY <1>3 DEF CanonicalToolCallId
<1>5. Len(A) = n /\ DOMAIN A = 1 .. n /\ Len(T) = n /\ DOMAIN T = 1 .. n
  BY <1>2 DEF AssistantToolCallMessage, ToolMessages
<1>6. A[k] = Item("function_call", call.id) /\ T[k] = Item("function_call_output", call.id)
  BY <1>2, <1>4 DEF AssistantToolCallMessage, ToolMessages
<1> DEFINE S == {A[i] : i \in 1 .. n} \cup {T[i] : i \in 1 .. n}
<1>7. A \in Seq(S) /\ T \in Seq(S)
  BY <1>2 DEF AssistantToolCallMessage, ToolMessages
<1> HIDE DEF A, T, call, n, S
<1>8. (A \o T)[k] = A[k] /\ (A \o T)[k + n] = T[k]
  BY <1>2, <1>5, <1>7, SideBySide
<1>9. wire[k] = Item("function_call", call.id) /\ wire[k + n] = Item("function_call_output", call.id)
  BY <1>1, <1>6, <1>8
<1> QED
  BY <1>9 DEF Item, n

(* Every call of a response goes back to the provider with its own result,    *)
(* under one id, however many calls there are (_canonical_tool_call_id).      *)
THEOREM AnsweredTheorem == AdaptersSpec => []CallsAnsweredById
BY AdaptersInvariant, AnswersFacts, PTL

-----------------------------------------------------------------------------
(* About Guards, for all conditions a manifest may hold and all values.      *)

(* Counting up from nothing reaches every number.                            *)
LEMMA CountUp ==
  ASSUME NEW S \in SUBSET Nat, 0 \in S, \A n \in S : n + 1 \in S
  PROVE  S = Nat
<1> SUFFICES ASSUME S # Nat PROVE FALSE
  OBVIOUS
<1> DEFINE T == Nat \ S
<1>1. T \in SUBSET Nat /\ T # {}
  OBVIOUS
<1>2. PICK n \in T : \A m \in T : n <= m
  <2> HIDE DEF T
  <2> QED
    BY <1>1, LeastNumber
<1>3. n \in Nat /\ n # 0
  OBVIOUS
<1>4. n - 1 \in Nat /\ ~(n <= n - 1) /\ n - 1 + 1 = n
  BY <1>3
<1>5. n - 1 \in S
  BY <1>2, <1>4
<1>6. n - 1 + 1 \in S
  BY <1>5
<1> QED
  BY <1>4, <1>6

(* What holds of an expression where it holds of its parts holds of all.     *)
LEMMA ExprInduction ==
  ASSUME NEW S, \A x \in Exprs : (\A y \in Parts(x) : y \in S) => x \in S
  PROVE  Exprs \subseteq S
<1> DEFINE T == {Depth[x] : x \in Exprs \ S}
<1>1. \A x \in Exprs : Depth[x] \in Nat /\ \A y \in Parts(x) : y \in Exprs /\ Depth[y] < Depth[x]
  BY ExpressionAssumption, FS_CardinalityType DEF ExpressionAssumption
<1> SUFFICES ASSUME T # {} PROVE FALSE
  OBVIOUS
<1>2. T \in SUBSET Nat
  BY <1>1
<1>3. PICK n \in T : \A m \in T : n <= m
  <2> HIDE DEF T
  <2> QED
    BY <1>2, LeastNumber
<1>4. PICK x \in Exprs \ S : Depth[x] = n
  OBVIOUS
<1>5. ASSUME NEW y \in Parts(x) PROVE y \in S
  <2>1. y \in Exprs /\ Depth[y] < Depth[x] /\ Depth[y] \in Nat /\ Depth[x] \in Nat
    BY <1>1
  <2>2. y \notin S => Depth[y] \in T
    BY <2>1
  <2> HIDE DEF T
  <2> QED
    BY <1>3, <1>4, <2>1, <2>2
<1> QED
  BY <1>5

(* Evaluation looks at the parts of an expression only.                      *)
LEMMA ImplLocal ==
  ASSUME NEW resolve, NEW x, NEW f, NEW g, \A y \in Parts(x) : f[y] = g[y]
  PROVE  EvalExprImpl(x, resolve, f) = EvalExprImpl(x, resolve, g)
<1>1. CASE x.kind \in Leaves
  BY <1>1 DEF EvalExprImpl, Leaves
<1>2. CASE x.kind \notin Leaves /\ x.kind = "not"
  <2>1. f[x.expr] = g[x.expr]
    BY <1>2 DEF Parts
  <2> QED
    BY <1>2, <2>1 DEF EvalExprImpl, Leaves
<1>3. CASE x.kind \notin Leaves /\ x.kind # "not"
  <2>1. f[x.left] = g[x.left] /\ f[x.right] = g[x.right]
    BY <1>3 DEF Parts
  <2> QED
    BY <1>3, <2>1 DEF EvalExprImpl, Leaves
<1> QED
  BY <1>1, <1>2, <1>3

(* Evaluation is defined on every expression, and unfolds one at a time.     *)
LEMMA EvalUnfolds ==
  ASSUME NEW resolve
  PROVE  \A x \in Exprs : Eval(resolve)[x] = EvalExprImpl(x, resolve, Eval(resolve))
<1> DEFINE Upto(n) == \E f : /\ f = [x \in Exprs |-> f[x]]
                             /\ \A x \in Exprs : Depth[x] < n => f[x] = EvalExprImpl(x, resolve, f)
           S == {n \in Nat : Upto(n)}
<1>1. \A x \in Exprs :
        /\ Depth[x] \in Nat
        /\ \A y \in Parts(x) : y \in Exprs /\ Depth[y] \in Nat /\ Depth[y] < Depth[x]
  BY ExpressionAssumption, FS_CardinalityType DEF ExpressionAssumption
<1>2. Upto(0)
  <2> DEFINE f == [x \in Exprs |-> 0]
  <2>1. f = [x \in Exprs |-> f[x]] /\ \A x \in Exprs : ~(Depth[x] < 0)
    BY <1>1
  <2> HIDE DEF f
  <2> QED
    BY <2>1
<1>3. ASSUME NEW n \in Nat, Upto(n)
      PROVE  Upto(n + 1)
  <2>1. PICK f : /\ f = [x \in Exprs |-> f[x]]
                 /\ \A x \in Exprs : Depth[x] < n => f[x] = EvalExprImpl(x, resolve, f)
    BY <1>3
  <2> DEFINE g == [x \in Exprs |-> EvalExprImpl(x, resolve, f)]
  <2>2. g = [x \in Exprs |-> g[x]] /\ \A x \in Exprs : g[x] = EvalExprImpl(x, resolve, f)
    OBVIOUS
  <2> HIDE DEF g
  <2>3. ASSUME NEW x \in Exprs, Depth[x] < n + 1
        PROVE  g[x] = EvalExprImpl(x, resolve, g)
    <3>1. ASSUME NEW y \in Parts(x) PROVE f[y] = g[y]
      <4>1. y \in Exprs /\ Depth[y] < n
        BY <1>1, <2>3
      <4> QED
        BY <2>1, <2>2, <4>1
    <3> QED
      BY <2>2, <3>1, ImplLocal
  <2> QED
    BY <2>2, <2>3
<1>4. \A n \in Nat : Upto(n)
  <2>1. 0 \in S /\ \A n \in S : n + 1 \in S
    <3> HIDE DEF Upto
    <3> QED
      BY <1>2, <1>3
  <2> HIDE DEF Upto
  <2>2. S \in SUBSET Nat
    OBVIOUS
  <2>3. S = Nat
    <3> HIDE DEF S
    <3> QED
      BY <2>1, <2>2, CountUp
  <2> QED
    BY <2>3
<1>5. PICK N \in Nat : \A x \in Exprs : Depth[x] < N
  <2>1. Cardinality(Exprs) \in Nat
    BY ExpressionAssumption, FS_CardinalityType DEF ExpressionAssumption
  <2>2. \A x \in Exprs : Depth[x] \in 0 .. Cardinality(Exprs)
    BY ExpressionAssumption DEF ExpressionAssumption
  <2>3. \A x \in Exprs : Depth[x] < Cardinality(Exprs) + 1
    BY <2>1, <2>2
  <2> QED
    BY <2>1, <2>3
<1>6. \E f : f = [x \in Exprs |-> EvalExprImpl(x, resolve, f)]
  <2>1. Upto(N)
    BY <1>4
  <2>2. PICK f : /\ f = [x \in Exprs |-> f[x]]
                 /\ \A x \in Exprs : Depth[x] < N => f[x] = EvalExprImpl(x, resolve, f)
    BY <2>1
  <2>3. \A x \in Exprs : f[x] = EvalExprImpl(x, resolve, f)
    BY <1>5, <2>2
  <2>4. f = [x \in Exprs |-> EvalExprImpl(x, resolve, f)]
    BY <2>2, <2>3
  <2> QED
    BY <2>4
<1>7. Eval(resolve) = CHOOSE f : f = [x \in Exprs |-> EvalExprImpl(x, resolve, f)]
  BY DEF Eval
<1>8. Eval(resolve) = [x \in Exprs |-> EvalExprImpl(x, resolve, Eval(resolve))]
  BY <1>6, <1>7
<1> QED
  BY <1>8

Errors == {"DataUnavailableError", "PolicyEvaluationError", "TypeError"}
EvalResults == Values \cup {Raise(error) : error \in Errors}

(* Values say what they are, and raise nothing.                              *)
LEMMA ValueFacts ==
  ASSUME NEW v \in Values
  PROVE  /\ v[1] \in {"none", "bool", "str", "path", "num"} /\ ~Raises(v)
         /\ v[1] = "none" <=> v = None
         /\ v[1] \in {"bool", "str", "path"} => v[2] \in Nat
         /\ v[1] = "num" => v[2] \in Int /\ v[3] \in Int
<1>1. CASE v = None
  BY <1>1 DEF None, Raises
<1>2. CASE v \in {"bool", "str", "path"} \X Nat
  BY <1>2 DEF None, Raises
<1>3. CASE v \in {"num"} \X Int \X Int
  BY <1>3 DEF None, Raises
<1> QED
  BY <1>1, <1>2, <1>3 DEF Values

LEMMA MadeFacts ==
  /\ None \in Values /\ None \in EvalResults
  /\ \A b : Bool(b) \in Values /\ Bool(b) \in EvalResults /\ Bool(b) # None
  /\ \A n \in Nat : Str(n) \in Values /\ PathOf(n) \in Values
  /\ \A p, q \in Int : Num(p, q) \in Values /\ Num(p, q) \in EvalResults
  /\ \A error \in Errors : Raise(error) \in EvalResults /\ Raises(Raise(error)) /\ Raise(error)[2] = error
BY DEF None, Bool, Str, PathOf, Num, Raise, Raises, Values, EvalResults

LEMMA TruthFacts ==
  ASSUME NEW b \in BOOLEAN
  PROVE  Truthy(Bool(b)) <=> b
BY DEF Truthy, Bool

LEMMA ResultFacts ==
  ASSUME NEW v \in EvalResults
  PROVE  /\ Raises(v) => v[2] \in Errors /\ v = Raise(v[2])
         /\ ~Raises(v) => v \in Values
<1>1. CASE v \in Values
  BY <1>1, ValueFacts
<1>2. CASE \E error \in Errors : v = Raise(error)
  BY <1>2 DEF Raise, Raises
<1> QED
  BY <1>1, <1>2 DEF EvalResults

(* What a number is read as where it is computed with.                       *)
LEMMA NumberFacts ==
  ASSUME NEW v \in Values
  PROVE  /\ IsNumber(AsNumber(v)) => AsNumber(v)[2] \in Int /\ AsNumber(v)[3] \in Int
         /\ AsNumber(v) \in Values
<1>1. CASE v[1] = "bool"
  <2>1. v[2] \in Nat
    BY <1>1, ValueFacts
  <2>2. AsNumber(v) = <<"num", v[2], 1>>
    BY <1>1 DEF AsNumber, Num
  <2> QED
    BY <2>1, <2>2 DEF Values
<1>2. CASE v[1] # "bool"
  BY <1>2, ValueFacts DEF AsNumber, IsNumber
<1> QED
  BY <1>1, <1>2

(* Operations on values give values or raise.                                *)
LEMMA OperationTypes ==
  ASSUME NEW l \in Values, NEW r \in Values
  PROVE  \A op : Compare(op, l, r) \in EvalResults /\ Arithmetic(op, l, r) \in EvalResults
                 /\ Method(op, l, r) \in EvalResults
<1> SUFFICES ASSUME NEW op
             PROVE  Compare(op, l, r) \in EvalResults /\ Arithmetic(op, l, r) \in EvalResults
                    /\ Method(op, l, r) \in EvalResults
  OBVIOUS
<1>1. Compare(op, l, r) \in EvalResults
  BY MadeFacts DEF Compare, Errors
<1>2. Arithmetic(op, l, r) \in EvalResults
  <2> DEFINE a == AsNumber(l)
             b == AsNumber(r)
  <2>1. CASE None \in {l, r} \/ ~(IsNumber(a) /\ IsNumber(b))
    BY <2>1, MadeFacts DEF Arithmetic, Errors
  <2>2. CASE None \notin {l, r} /\ IsNumber(a) /\ IsNumber(b)
    <3>1. {a[2], a[3], b[2], b[3]} \subseteq Int
      BY <2>2, NumberFacts
    <3> DEFINE products == {a[2] * b[3] + b[2] * a[3], a[2] * b[3] - b[2] * a[3], a[2] * b[2],
                            a[3] * b[3], a[2] * b[3], a[3] * b[2], -(a[2] * b[3]), -(a[3] * b[2])}
    <3>2. \A p, q \in Int : p * q \in Int /\ p + q \in Int /\ p - q \in Int /\ -p \in Int
      OBVIOUS
    <3> HIDE DEF a, b
    <3>3. products \subseteq Int
      <4>1. a[2] \in Int /\ a[3] \in Int /\ b[2] \in Int /\ b[3] \in Int
        BY <3>1
      <4>2. a[2] * b[3] \in Int /\ b[2] * a[3] \in Int /\ a[2] * b[2] \in Int /\ a[3] * b[3] \in Int
            /\ a[3] * b[2] \in Int
        BY <3>2, <4>1
      <4>3. a[2] * b[3] + b[2] * a[3] \in Int /\ a[2] * b[3] - b[2] * a[3] \in Int
        BY <3>2, <4>2
      <4>4. -(a[2] * b[3]) \in Int /\ -(a[3] * b[2]) \in Int
        BY <3>2, <4>2
      <4> QED
        BY <4>2, <4>3, <4>4
    <3>4. \A p, q \in products : Num(p, q) \in EvalResults
      BY <3>3, MadeFacts
    <3>5. Quotient(a, b) \in EvalResults
      BY <3>4, MadeFacts DEF Quotient, Errors
    <3>6. Num(a[2] * b[3] + b[2] * a[3], a[3] * b[3]) \in EvalResults
      BY <3>4
    <3>7. Num(a[2] * b[3] - b[2] * a[3], a[3] * b[3]) \in EvalResults
      BY <3>4
    <3>8. Num(a[2] * b[2], a[3] * b[3]) \in EvalResults
      BY <3>4
    <3>9. Arithmetic(op, l, r) =
            IF op = "add" THEN Num(a[2] * b[3] + b[2] * a[3], a[3] * b[3])
            ELSE IF op = "sub" THEN Num(a[2] * b[3] - b[2] * a[3], a[3] * b[3])
            ELSE IF op = "mul" THEN Num(a[2] * b[2], a[3] * b[3])
            ELSE Quotient(a, b)
      BY <2>2 DEF Arithmetic, a, b
    <3> QED
      BY <3>5, <3>6, <3>7, <3>8, <3>9
  <2> QED
    BY <2>1, <2>2
<1>3. Method(op, l, r) \in EvalResults
  <2>1. PathOrStringContains(l, r) \in EvalResults
    BY MadeFacts DEF PathOrStringContains, Errors
  <2>2. StartsWith(l, r) \in EvalResults
    BY MadeFacts DEF StartsWith, Errors
  <2>3. Equal(l, r) \in EvalResults
    BY MadeFacts DEF Equal, Errors
  <2> QED
    BY <2>1, <2>2, <2>3 DEF Method
<1> QED
  BY <1>1, <1>2, <1>3

LEMMA TruthyFacts ==
  /\ \A v : Truthy(v) \in BOOLEAN /\ ~Raises(Bool(Truthy(v))) /\ (Truthy(Bool(Truthy(v))) <=> Truthy(v))
  /\ ~Truthy(None)
<1>1. ASSUME NEW v
      PROVE  Truthy(v) \in BOOLEAN /\ ~Raises(Bool(Truthy(v))) /\ (Truthy(Bool(Truthy(v))) <=> Truthy(v))
  <2>1. Truthy(v) \in BOOLEAN
    BY DEF Truthy
  <2>2. CASE Truthy(v)
    <3>1. Bool(Truthy(v)) = <<"bool", 1>>
      BY <2>2 DEF Bool
    <3>2. Truthy(<<"bool", 1>>) /\ ~Raises(<<"bool", 1>>)
      BY DEF Truthy, Raises
    <3> QED
      BY <2>1, <2>2, <3>1, <3>2
  <2>3. CASE ~Truthy(v)
    <3>1. Bool(Truthy(v)) = <<"bool", 0>>
      BY <2>3 DEF Bool
    <3>2. ~Truthy(<<"bool", 0>>) /\ ~Raises(<<"bool", 0>>)
      BY DEF Truthy, Raises
    <3> QED
      BY <2>1, <2>3, <3>1, <3>2
  <2> QED
    BY <2>2, <2>3
<1>2. ~Truthy(None)
  BY DEF Truthy, None
<1> QED
  BY <1>1, <1>2

(* What an expression consists of.                                           *)
LEMMA ExprFacts ==
  ASSUME NEW x \in Exprs
  PROVE  /\ x.kind \in {"ref", "literal", "not", "and", "or", "compare", "binop", "method_call"}
         /\ \A y \in Parts(x) : y \in Exprs
         /\ x.kind = "ref" => x.name \in Names
         /\ x.kind = "literal" => x.value \in Values
         /\ x.kind = "not" => x.expr \in Parts(x)
         /\ x.kind \in {"and", "or", "compare", "binop", "method_call"} =>
              x.left \in Parts(x) /\ x.right \in Parts(x)
         /\ x.kind = "method_call" => x.op \in {"contains", "starts_with", "eq"}
<1>1. x.kind \in {"ref", "literal", "not", "and", "or", "compare", "binop", "method_call"}
  BY ExpressionAssumption DEF ExpressionAssumption, Leaves, OpsOf
<1>2. \A y \in Parts(x) : y \in Exprs
  BY ExpressionAssumption DEF ExpressionAssumption
<1>3. (x.kind = "ref" => x.name \in Names) /\ (x.kind = "literal" => x.value \in Values)
  BY ExpressionAssumption DEF ExpressionAssumption
<1>4. x.kind = "method_call" => x.op \in {"contains", "starts_with", "eq"}
  BY ExpressionAssumption DEF ExpressionAssumption, OpsOf
<1> QED
  BY <1>1, <1>2, <1>3, <1>4 DEF Parts, Leaves

(* Where names hold values or raise, so do expressions.                      *)
LEMMA EvalTypes ==
  ASSUME NEW resolve, \A name \in Names : resolve[name] \in EvalResults
  PROVE  \A x \in Exprs : Eval(resolve)[x] \in EvalResults
<1> DEFINE S == {x \in Exprs : Eval(resolve)[x] \in EvalResults}
<1>1. ASSUME NEW x \in Exprs, \A y \in Parts(x) : Eval(resolve)[y] \in EvalResults
      PROVE  EvalExprImpl(x, resolve, Eval(resolve)) \in EvalResults
  <2> DEFINE ev == Eval(resolve)
  <2> HIDE DEF ev
  <2>1. CASE x.kind = "ref"
    BY <2>1, ExprFacts DEF EvalExprImpl
  <2>2. CASE x.kind = "literal"
    BY <2>2, ExprFacts DEF EvalExprImpl, EvalResults
  <2>3. CASE x.kind = "not"
    <3>1. ev[x.expr] \in EvalResults
      BY <1>1, <2>3, ExprFacts DEF ev
    <3>2. Bool(~Truthy(ev[x.expr])) \in EvalResults
      BY DEF Bool, EvalResults, Values
    <3> QED
      BY <2>3, <3>1, <3>2 DEF EvalExprImpl, ev
  <2>4. CASE x.kind \in {"and", "or"}
    <3>1. ev[x.left] \in EvalResults /\ ev[x.right] \in EvalResults
      BY <1>1, <2>4, ExprFacts DEF ev
    <3>2. EvalExprImpl(x, resolve, ev) = Settled(x.kind, ev[x.left], ev[x.right])
      BY <2>4 DEF EvalExprImpl
    <3> QED
      BY <3>1, <3>2, MadeFacts DEF Settled, ev
  <2>5. CASE x.kind \in {"compare", "binop", "method_call"}
    <3> DEFINE l == ev[x.left]
               r == ev[x.right]
    <3>1. l \in EvalResults /\ r \in EvalResults
      BY <1>1, <2>5, ExprFacts DEF ev
    <3> HIDE DEF l, r
    <3>2. \E v \in {Compare(x.op, l, r), Arithmetic(x.op, l, r), Method(x.op, l, r)} :
            EvalExprImpl(x, resolve, ev) = Strict(l, r, v)
      BY <2>5 DEF EvalExprImpl, l, r
    <3>3. CASE Raises(l) \/ Raises(r)
      BY <3>1, <3>2, <3>3 DEF Strict, ev
    <3>4. CASE ~Raises(l) /\ ~Raises(r)
      <4>1. l \in Values /\ r \in Values
        BY <3>1, <3>4, ResultFacts
      <4> QED
        BY <3>2, <3>4, <4>1, OperationTypes DEF Strict, ev
    <3> QED
      BY <3>3, <3>4
  <2> QED
    BY <2>1, <2>2, <2>3, <2>4, <2>5, ExprFacts DEF ev
<1>2. \A x \in Exprs : (\A y \in Parts(x) : y \in S) => x \in S
  BY <1>1, EvalUnfolds
<1>3. Exprs \subseteq S
  <2> HIDE DEF S
  <2> QED
    BY <1>2, ExprInduction
<1> QED
  BY <1>3

(* What is evaluated without raising is the same where more can be resolved. *)
LEMMA EvalSame ==
  ASSUME NEW resolve, NEW other,
         \A name \in Names : ~Raises(resolve[name]) => other[name] = resolve[name]
  PROVE  \A x \in Exprs : ~Raises(Eval(resolve)[x]) => Eval(other)[x] = Eval(resolve)[x]
<1> DEFINE S == {x \in Exprs : ~Raises(Eval(resolve)[x]) => Eval(other)[x] = Eval(resolve)[x]}
           f == Eval(resolve)
           g == Eval(other)
<1>1. ASSUME NEW x \in Exprs, \A y \in Parts(x) : ~Raises(f[y]) => g[y] = f[y],
             ~Raises(EvalExprImpl(x, resolve, f))
      PROVE  EvalExprImpl(x, other, g) = EvalExprImpl(x, resolve, f)
  <2> HIDE DEF f, g
  <2>1. CASE x.kind = "ref"
    BY <1>1, <2>1, ExprFacts DEF EvalExprImpl
  <2>2. CASE x.kind = "literal"
    BY <2>2 DEF EvalExprImpl
  <2>3. CASE x.kind = "not"
    <3>1. ~Raises(f[x.expr])
      BY <1>1, <2>3 DEF EvalExprImpl
    <3>2. g[x.expr] = f[x.expr]
      BY <1>1, <2>3, <3>1, ExprFacts
    <3> QED
      BY <2>3, <3>2 DEF EvalExprImpl
  <2>4. CASE x.kind \in {"and", "or"}
    <3> DEFINE l == f[x.left]
               r == f[x.right]
    <3>1. /\ EvalExprImpl(x, resolve, f) = Settled(x.kind, l, r)
          /\ EvalExprImpl(x, other, g) = Settled(x.kind, g[x.left], g[x.right])
      BY <2>4 DEF EvalExprImpl
    <3>2. (~Raises(l) => g[x.left] = l) /\ (~Raises(r) => g[x.right] = r)
      BY <1>1, <2>4, ExprFacts
    <3> HIDE DEF l, r
    <3>3. ~Raises(l) /\ (Settles(x.kind, l) \/ ~Raises(r))
      BY <1>1, <3>1 DEF Settled, Settles
    <3> QED
      BY <3>1, <3>2, <3>3 DEF Settled
  <2>5. CASE x.kind \in {"compare", "binop", "method_call"}
    <3>1. ~Raises(f[x.left]) /\ ~Raises(f[x.right])
      BY <1>1, <2>5 DEF EvalExprImpl, Strict
    <3>2. g[x.left] = f[x.left] /\ g[x.right] = f[x.right]
      BY <1>1, <2>5, <3>1, ExprFacts
    <3> QED
      BY <2>5, <3>2 DEF EvalExprImpl
  <2> QED
    BY <2>1, <2>2, <2>3, <2>4, <2>5, ExprFacts
<1>2. \A x \in Exprs : (\A y \in Parts(x) : y \in S) => x \in S
  BY <1>1, EvalUnfolds
<1>3. Exprs \subseteq S
  <2> HIDE DEF S
  <2> QED
    BY <1>2, ExprInduction
<1> QED
  BY <1>3

(* Sorting looks at the parts of an expression only, as evaluation does.     *)
LEMMA SortLocal ==
  ASSUME NEW x, NEW f, NEW g, \A y \in Parts(x) : f[y] = g[y]
  PROVE  SortImpl(x, f) = SortImpl(x, g)
<1>1. CASE x.kind \in Leaves \/ x.kind = "not"
  BY <1>1 DEF SortImpl, Leaves
<1>2. CASE x.kind \notin Leaves /\ x.kind # "not"
  <2>1. f[x.left] = g[x.left] /\ f[x.right] = g[x.right]
    BY <1>2 DEF Parts
  <2> QED
    BY <1>2, <2>1 DEF SortImpl, Leaves
<1> QED
  BY <1>1, <1>2

LEMMA SortUnfolds == \A x \in Exprs : Sort[x] = SortImpl(x, Sort)
<1> DEFINE Upto(n) == \E f : /\ f = [x \in Exprs |-> f[x]]
                             /\ \A x \in Exprs : Depth[x] < n => f[x] = SortImpl(x, f)
           S == {n \in Nat : Upto(n)}
<1>1. \A x \in Exprs :
        /\ Depth[x] \in Nat
        /\ \A y \in Parts(x) : y \in Exprs /\ Depth[y] \in Nat /\ Depth[y] < Depth[x]
  BY ExpressionAssumption, FS_CardinalityType DEF ExpressionAssumption
<1>2. Upto(0)
  <2> DEFINE f == [x \in Exprs |-> 0]
  <2>1. f = [x \in Exprs |-> f[x]] /\ \A x \in Exprs : ~(Depth[x] < 0)
    BY <1>1
  <2> HIDE DEF f
  <2> QED
    BY <2>1
<1>3. ASSUME NEW n \in Nat, Upto(n)
      PROVE  Upto(n + 1)
  <2>1. PICK f : /\ f = [x \in Exprs |-> f[x]]
                 /\ \A x \in Exprs : Depth[x] < n => f[x] = SortImpl(x, f)
    BY <1>3
  <2> DEFINE g == [x \in Exprs |-> SortImpl(x, f)]
  <2>2. g = [x \in Exprs |-> g[x]] /\ \A x \in Exprs : g[x] = SortImpl(x, f)
    OBVIOUS
  <2> HIDE DEF g
  <2>3. ASSUME NEW x \in Exprs, Depth[x] < n + 1
        PROVE  g[x] = SortImpl(x, g)
    <3>1. ASSUME NEW y \in Parts(x) PROVE f[y] = g[y]
      <4>1. y \in Exprs /\ Depth[y] < n
        BY <1>1, <2>3
      <4> QED
        BY <2>1, <2>2, <4>1
    <3> QED
      BY <2>2, <3>1, SortLocal
  <2> QED
    BY <2>2, <2>3
<1>4. \A n \in Nat : Upto(n)
  <2>1. 0 \in S /\ \A n \in S : n + 1 \in S
    <3> HIDE DEF Upto
    <3> QED
      BY <1>2, <1>3
  <2> HIDE DEF Upto
  <2>2. S \in SUBSET Nat
    OBVIOUS
  <2>3. S = Nat
    <3> HIDE DEF S
    <3> QED
      BY <2>1, <2>2, CountUp
  <2> QED
    BY <2>3
<1>5. PICK N \in Nat : \A x \in Exprs : Depth[x] < N
  <2>1. Cardinality(Exprs) \in Nat
    BY ExpressionAssumption, FS_CardinalityType DEF ExpressionAssumption
  <2>2. \A x \in Exprs : Depth[x] \in 0 .. Cardinality(Exprs)
    BY ExpressionAssumption DEF ExpressionAssumption
  <2>3. \A x \in Exprs : Depth[x] < Cardinality(Exprs) + 1
    BY <2>1, <2>2
  <2> QED
    BY <2>1, <2>3
<1>6. \E f : f = [x \in Exprs |-> SortImpl(x, f)]
  <2>1. Upto(N)
    BY <1>4
  <2>2. PICK f : /\ f = [x \in Exprs |-> f[x]]
                 /\ \A x \in Exprs : Depth[x] < N => f[x] = SortImpl(x, f)
    BY <2>1
  <2>3. \A x \in Exprs : f[x] = SortImpl(x, f)
    BY <1>5, <2>2
  <2>4. f = [x \in Exprs |-> SortImpl(x, f)]
    BY <2>2, <2>3
  <2> QED
    BY <2>4
<1>7. Sort = CHOOSE f : f = [x \in Exprs |-> SortImpl(x, f)]
  BY DEF Sort
<1>8. Sort = [x \in Exprs |-> SortImpl(x, Sort)]
  BY <1>6, <1>7
<1> QED
  BY <1>8

(* What a term comes to, without raising and other than to None, does not    *)
(* change where None is replaced.                                            *)
LEMMA TermSame ==
  ASSUME NEW resolve, NEW other, \A name \in Names : resolve[name] \in EvalResults,
         \A name \in Names : ~Raises(resolve[name]) /\ resolve[name] # None
                               => other[name] = resolve[name]
  PROVE  \A x \in Exprs : Sort[x] = "term" /\ ~Raises(Eval(resolve)[x]) /\ Eval(resolve)[x] # None
           => Eval(other)[x] = Eval(resolve)[x]
<1> DEFINE f == Eval(resolve)
           g == Eval(other)
           S == {x \in Exprs : Sort[x] = "term" /\ ~Raises(f[x]) /\ f[x] # None => g[x] = f[x]}
<1>1. ASSUME NEW x \in Exprs, SortImpl(x, Sort) = "term",
             \A y \in Parts(x) : Sort[y] = "term" /\ ~Raises(f[y]) /\ f[y] # None => g[y] = f[y],
             ~Raises(EvalExprImpl(x, resolve, f)), EvalExprImpl(x, resolve, f) # None
      PROVE  EvalExprImpl(x, other, g) = EvalExprImpl(x, resolve, f)
  <2> HIDE DEF f, g
  <2>1. CASE x.kind = "ref"
    BY <1>1, <2>1, ExprFacts DEF EvalExprImpl
  <2>2. CASE x.kind = "literal"
    BY <2>2 DEF EvalExprImpl
  <2>3. CASE x.kind = "binop"
    <3> DEFINE l == f[x.left]
               r == f[x.right]
    <3>1. Sort[x.left] = "term" /\ Sort[x.right] = "term"
      BY <1>1, <2>3 DEF SortImpl, Leaves
    <3>2. EvalExprImpl(x, resolve, f) = Strict(l, r, Arithmetic(x.op, l, r))
          /\ EvalExprImpl(x, other, g) = Strict(g[x.left], g[x.right], Arithmetic(x.op, g[x.left], g[x.right]))
      BY <2>3 DEF EvalExprImpl
    <3>3. /\ ~Raises(l) /\ l # None => g[x.left] = l
          /\ ~Raises(r) /\ r # None => g[x.right] = r
      BY <1>1, <2>3, <3>1, ExprFacts
    <3> HIDE DEF l, r
    <3>4. ~Raises(l) /\ ~Raises(r) /\ l # None /\ r # None
      BY <1>1, <3>2 DEF Strict, Arithmetic
    <3> QED
      BY <3>2, <3>3, <3>4
  <2>4. x.kind \in {"ref", "literal", "binop"}
    BY <1>1, ExprFacts DEF SortImpl, Leaves
  <2> QED
    BY <2>1, <2>2, <2>3, <2>4
<1>2. \A x \in Exprs : (\A y \in Parts(x) : y \in S) => x \in S
  BY <1>1, EvalUnfolds, SortUnfolds
<1>3. Exprs \subseteq S
  <2> HIDE DEF S
  <2> QED
    BY <1>2, ExprInduction
<1> QED
  BY <1>3

(* A comparison or call that holds compares values that are there.           *)
LEMMA HoldsOfValues ==
  ASSUME NEW l \in Values, NEW r \in Values, NEW op
  PROVE  /\ Truthy(Compare(op, l, r)) /\ ~Raises(Compare(op, l, r)) => l # None /\ r # None
         /\ op \in {"contains", "starts_with"} /\ Truthy(Method(op, l, r))
              /\ ~Raises(Method(op, l, r)) => l # None /\ r # None
<1>1. ASSUME Truthy(Compare(op, l, r)) PROVE l # None /\ r # None
  <2>1. ~Truthy(Bool(FALSE))
    BY DEF Truthy, Bool
  <2> QED
    BY <1>1, <2>1 DEF Compare
<1>2. ASSUME op \in {"contains", "starts_with"}, Truthy(Method(op, l, r)), ~Raises(Method(op, l, r))
      PROVE  l # None /\ r # None
  <2>1. \A b : Truthy(Bool(b)) => b
    BY DEF Truthy, Bool
  <2>2. Raises(Raise("DataUnavailableError"))
    BY DEF Raises, Raise
  <2>3. None[1] = "none"
    BY DEF None
  <2>4. ASSUME Truthy(PathOrStringContains(l, r)), ~Raises(PathOrStringContains(l, r))
        PROVE  l # None /\ r # None
    <3>1. l[1] \in {"str", "path"}
      BY <2>2, <2>4 DEF PathOrStringContains
    <3>2. r[1] \in {"str", "path"}
      <4>1. CASE l[1] = "str"
        BY <2>2, <2>4, <4>1 DEF PathOrStringContains
      <4>2. CASE l[1] = "path"
        <5>1. PathOrStringContains(l, r) = Bool(r[1] \in {"str", "path"} /\ l[2] <= r[2])
          BY <4>2 DEF PathOrStringContains
        <5>2. CASE r[1] \notin {"str", "path"}
          <6>1. PathOrStringContains(l, r) = <<"bool", 0>>
            BY <5>1, <5>2 DEF Bool
          <6>2. ~Truthy(<<"bool", 0>>)
            BY DEF Truthy
          <6> QED
            BY <2>4, <6>1, <6>2
        <5> QED
          BY <5>2
      <4> QED
        BY <3>1, <4>1, <4>2
    <3> QED
      BY <2>3, <3>1, <3>2
  <2>5. ASSUME Truthy(StartsWith(l, r)), ~Raises(StartsWith(l, r))
        PROVE  l # None /\ r # None
    BY <2>2, <2>3, <2>5 DEF StartsWith
  <2> QED
    BY <1>2, <2>4, <2>5 DEF Method
<1> QED
  BY <1>1, <1>2

(* What is positive and holds, holds or raises where None is replaced.       *)
LEMMA PositiveKept ==
  ASSUME NEW resolve, NEW other, \A name \in Names : resolve[name] \in EvalResults,
         \A name \in Names : ~Raises(resolve[name]) /\ resolve[name] # None
                               => other[name] = resolve[name]
  PROVE  \A x \in Exprs : Sort[x] # "other" /\ ~Raises(Eval(resolve)[x]) /\ Truthy(Eval(resolve)[x])
           => Raises(Eval(other)[x]) \/ Truthy(Eval(other)[x])
<1> DEFINE f == Eval(resolve)
           g == Eval(other)
           S == {x \in Exprs : Sort[x] # "other" /\ ~Raises(f[x]) /\ Truthy(f[x])
                                 => Raises(g[x]) \/ Truthy(g[x])}
<1>1. \A x \in Exprs : Sort[x] = "term" /\ ~Raises(f[x]) /\ f[x] # None => g[x] = f[x]
  BY TermSame
<1>2. \A x \in Exprs : f[x] \in EvalResults
  BY EvalTypes
<1>3. ASSUME NEW x \in Exprs, Sort[x] # "other",
             \A y \in Parts(x) : Sort[y] # "other" /\ ~Raises(f[y]) /\ Truthy(f[y])
                                   => Raises(g[y]) \/ Truthy(g[y]),
             ~Raises(f[x]), Truthy(f[x])
      PROVE  Raises(g[x]) \/ Truthy(g[x])
  <2>1. CASE Sort[x] = "term"
    BY <1>1, <1>3, <2>1, TruthyFacts
  <2> DEFINE l == f[x.left]
             r == f[x.right]
  <2>2. f[x] = EvalExprImpl(x, resolve, f) /\ g[x] = EvalExprImpl(x, other, g)
        /\ Sort[x] = SortImpl(x, Sort)
    BY EvalUnfolds, SortUnfolds
  <2> HIDE DEF f, g
  <2>3. CASE Sort[x] # "term" /\ x.kind \in {"compare", "method_call"}
    <3>1. Sort[x.left] = "term" /\ Sort[x.right] = "term"
          /\ (x.kind = "method_call" => x.op \in {"contains", "starts_with"})
      BY <1>3, <2>2, <2>3, ExprFacts DEF SortImpl, Leaves
    <3> DEFINE v == IF x.kind = "compare" THEN Compare(x.op, l, r) ELSE Method(x.op, l, r)
    <3>2. f[x] = Strict(l, r, v)
      BY <2>2, <2>3 DEF EvalExprImpl
    <3>3. ~Raises(l) /\ ~Raises(r) /\ Truthy(v) /\ ~Raises(v)
      BY <1>3, <3>2 DEF Strict
    <3>4. x.left \in Exprs /\ x.right \in Exprs
      BY <2>3, ExprFacts
    <3>5. l \in Values /\ r \in Values
      BY <1>2, <3>3, <3>4, ResultFacts
    <3>6. l # None /\ r # None
      <4> HIDE DEF l, r
      <4> QED
        BY <2>3, <3>1, <3>3, <3>5, HoldsOfValues
    <3>7. g[x.left] = l /\ g[x.right] = r
      BY <1>1, <3>1, <3>3, <3>4, <3>6
    <3>8. g[x] = f[x]
      BY <2>2, <2>3, <3>7 DEF EvalExprImpl
    <3> QED
      BY <1>3, <3>8
  <2>4. CASE Sort[x] # "term" /\ x.kind \in {"and", "or"}
    <3> DEFINE m == g[x.left]
               n == g[x.right]
    <3>1. Sort[x.left] # "other" /\ Sort[x.right] # "other"
      BY <1>3, <2>2, <2>4 DEF SortImpl, Leaves
    <3>2. f[x] = Settled(x.kind, l, r) /\ g[x] = Settled(x.kind, m, n)
      BY <2>2, <2>4 DEF EvalExprImpl
    <3>3. /\ ~Raises(l) /\ Truthy(l) => Raises(m) \/ Truthy(m)
          /\ ~Raises(r) /\ Truthy(r) => Raises(n) \/ Truthy(n)
      BY <1>3, <2>4, <3>1, ExprFacts
    <3> HIDE DEF l, r, m, n
    <3>4. CASE x.kind = "or"
      <4>1. (~Raises(l) /\ Truthy(l)) \/ (~Raises(r) /\ Truthy(r))
        BY <1>3, <3>2, <3>4, TruthyFacts DEF Settled, Settles
      <4> QED
        BY <3>2, <3>3, <3>4, <4>1, TruthyFacts DEF Settled, Settles
    <3>5. CASE x.kind = "and"
      <4>1. ~Raises(l) /\ Truthy(l) /\ ~Raises(r) /\ Truthy(r)
        BY <1>3, <3>2, <3>5, TruthyFacts DEF Settled, Settles
      <4> QED
        BY <3>2, <3>3, <3>5, <4>1, TruthyFacts DEF Settled, Settles
    <3> QED
      BY <2>4, <3>4, <3>5
  <2>5. Sort[x] = "term" \/ x.kind \in {"compare", "method_call", "and", "or"}
    BY <1>3, <2>2, ExprFacts DEF SortImpl, Leaves
  <2> QED
    BY <2>1, <2>3, <2>4, <2>5
<1>4. \A x \in Exprs : (\A y \in Parts(x) : y \in S) => x \in S
  BY <1>3
<1>5. Exprs \subseteq S
  <2> HIDE DEF S
  <2> QED
    BY <1>4, ExprInduction
<1> QED
  BY <1>5

-----------------------------------------------------------------------------
(* The inductive invariant: names hold what they may, and the answer is what *)
(* evaluation comes to now.                                                  *)

Questions == Guard \cup {<<"policy", x>> : x \in Conditions}

GuardsInv ==
  /\ env = [name \in Names |-> env[name]] /\ \A name \in Names : env[name] \in Holding(name)
  /\ \/ question = Unasked /\ answer = "none"
     \/ question \in Questions /\ answer = AnswerIn(env)

LEMMA QuestionFacts ==
  ASSUME NEW q \in Questions
  PROVE  /\ q # Unasked
         /\ q[1] = "policy" => q[2] \in Conditions
         /\ q[1] # "policy" => q \in Guard
         /\ q \in Guard => /\ q[1] \in {"has_value", "missing", "if", "eq"}
                           /\ q[1] \in {"has_value", "missing"} => q[2] \in Names
                           /\ q[1] = "if" => q[2] \in Conditions
                           /\ q[1] = "eq" => q[2] \in Sides
<1>1. ASSUME q \in Guard
      PROVE  /\ q[1] \in {"has_value", "missing", "if", "eq"} /\ q # Unasked
             /\ q[1] \in {"has_value", "missing"} => q[2] \in Names
             /\ q[1] = "if" => q[2] \in Conditions
             /\ q[1] = "eq" => q[2] \in Sides
  BY <1>1 DEF Guard, Unasked
<1>2. CASE q \notin Guard
  <2>1. PICK x \in Conditions : q = <<"policy", x>>
    BY <1>2 DEF Questions
  <2>2. q[1] = "policy" /\ q[2] = x /\ q # Unasked
    BY <2>1 DEF Unasked
  <2> QED
    BY <1>2, <2>2
<1> QED
  BY <1>1, <1>2

(* Every name holds a value of its domain, None or nothing, and the verdict   *)
(* given is the one the evaluators compute of what the names hold now.        *)
THEOREM GuardsInvariant == GuardsSpec => []GuardsInv
<1>1. GuardsInit => GuardsInv
  BY DEF GuardsInit, GuardsInv, Holding
<1>2. GuardsInv /\ [GuardsNext]_guardVars => GuardsInv'
  <2> SUFFICES ASSUME GuardsInv, [GuardsNext]_guardVars PROVE GuardsInv'
    OBVIOUS
  <2>1. ASSUME NEW name \in Names, Supply(name) PROVE GuardsInv'
    BY <2>1 DEF Supply, GuardsInv
  <2>2. ASSUME NEW q \in Questions, question' = q, env' = env, answer' = AnswerIn(env)'
        PROVE  GuardsInv'
    BY <2>2 DEF GuardsInv
  <2>3. CASE AskGuard
    <3>1. PICK q \in Guard : question' = q /\ answer' = EvaluateGuard(q, env)
      BY <2>3 DEF AskGuard
    <3>2. q \in Questions /\ q[1] # "policy"
      <4>1. q \in Questions
        BY DEF Questions
      <4> QED
        BY <4>1, QuestionFacts
    <3>3. env' = env
      BY <2>3 DEF AskGuard
    <3>4. answer' = AnswerIn(env)'
      BY <3>1, <3>2, <3>3 DEF AnswerIn
    <3> QED
      BY <2>2, <3>1, <3>2, <3>3, <3>4
  <2>4. CASE AskPolicy
    <3>1. PICK x \in Conditions : question' = <<"policy", x>> /\ answer' = EvaluateCondition(x, env)
      BY <2>4 DEF AskPolicy
    <3>2. <<"policy", x>> \in Questions
      BY DEF Questions
    <3>3. env' = env
      BY <2>4 DEF AskPolicy
    <3>4. answer' = AnswerIn(env)'
      BY <3>1, <3>3 DEF AnswerIn
    <3> QED
      BY <2>2, <3>1, <3>2, <3>3, <3>4
  <2>5. CASE UNCHANGED guardVars
    BY <2>5 DEF guardVars, GuardsInv, AnswerIn
  <2> QED
    BY <2>1, <2>3, <2>4, <2>5 DEF GuardsNext
<1> QED
  BY <1>1, <1>2, PTL DEF GuardsSpec

-----------------------------------------------------------------------------
(* What the evaluators see, and what they answer.                            *)

LEMMA HoldingFacts ==
  ASSUME NEW e, \A name \in Names : e[name] \in Holding(name)
  PROVE  /\ \A name \in Names : e[name] = Absent \/ e[name] \in Values
         /\ \A name \in Names : Resolve("guard", e)[name] \in EvalResults
         /\ \A name \in Names : Resolve("policy", e)[name] \in EvalResults
<1>1. \A name \in Names : e[name] = Absent \/ e[name] \in Values
  BY ConditionAssumption, MadeFacts DEF ConditionAssumption, Holding
<1>2. ASSUME NEW name \in Names PROVE GuardRef(name, e) \in EvalResults
  BY <1>1, MadeFacts DEF GuardRef, Errors, EvalResults
<1>3. ASSUME NEW name \in Names PROVE PolicyRef(name, e) \in EvalResults
  <2>1. e[name] \in Values /\ e[name][1] = "str" => PathOf(e[name][2]) \in Values
    BY ValueFacts, MadeFacts
  <2> QED
    BY <1>1, <2>1, MadeFacts DEF PolicyRef, Errors, EvalResults
<1>4. \A name \in Names : Resolve("guard", e)[name] = GuardRef(name, e)
                          /\ Resolve("policy", e)[name] = PolicyRef(name, e)
  BY DEF Resolve
<1> QED
  BY <1>1, <1>2, <1>3, <1>4

(* Each evaluator answers in its own terms.                                  *)
LEMMA AnswerTypes ==
  ASSUME GuardsInv
  PROVE  GuardsTypeOK
<1> DEFINE ev == Eval(Resolve("guard", env))
           pv == Eval(Resolve("policy", env))
<1>1. \A x \in Exprs : ev[x] \in EvalResults /\ pv[x] \in EvalResults
  BY HoldingFacts, EvalTypes DEF GuardsInv
<1>2. \A v \in EvalResults : Verdict(v) \in GuardAnswers
  BY ResultFacts DEF Verdict, GuardAnswers, Errors
<1>3. \A name \in Names : IsThere(name, env) \in EvalResults
  <2>1. \A name \in Names : GuardRef(name, env) \in EvalResults
    <3>1. \A name \in Names : Resolve("guard", env)[name] = GuardRef(name, env)
      BY DEF Resolve
    <3> QED
      BY <3>1, HoldingFacts DEF GuardsInv
  <2>2. \A name : Bool(GuardRef(name, env) # None) \in EvalResults
    BY DEF Bool, EvalResults, Values
  <2> QED
    BY <2>1, <2>2 DEF IsThere
<1>4. \A v \in EvalResults : Opposite(v) \in EvalResults
  <2>1. \A v : Bool(~Truthy(v)) \in EvalResults
    BY DEF Bool, EvalResults, Values
  <2> QED
    BY <2>1 DEF Opposite
<1>5. ASSUME NEW q \in Guard
      PROVE  EvaluateGuard(q, env) \in GuardAnswers
  <2> HIDE DEF ev
  <2>1. q \in Questions
    BY DEF Questions
  <2>2. CASE q[1] \in {"has_value", "missing"}
    <3>1. q[2] \in Names
      BY <2>1, <2>2, QuestionFacts
    <3> QED
      BY <1>2, <1>3, <1>4, <2>2, <3>1 DEF EvaluateGuard
  <2>3. CASE q[1] = "if"
    <3>1. q[2] \in Exprs
      BY <2>1, <2>3, QuestionFacts, ConditionAssumption DEF ConditionAssumption
    <3> QED
      BY <1>1, <1>2, <2>3, <3>1 DEF EvaluateGuard, ev
  <2>4. CASE q[1] = "eq"
    <3> DEFINE l == ev[q[2][1]]
               r == ev[q[2][2]]
               v == IF IsNumber(l) \/ IsNumber(r) THEN Raise("PolicyEvaluationError") ELSE Bool(l = r)
    <3>1. q[2] \in Exprs \X Exprs
      BY <2>1, <2>4, QuestionFacts, ConditionAssumption DEF ConditionAssumption
    <3>2. l \in EvalResults /\ r \in EvalResults
      BY <1>1, <3>1
    <3>3. v \in EvalResults
      <4>1. Bool(l = r) \in EvalResults
        BY DEF Bool, EvalResults, Values
      <4> HIDE DEF l, r
      <4> QED
        BY <4>1, MadeFacts DEF Errors
    <3>4. EvaluateGuard(q, env) = Verdict(Strict(l, r, v))
      BY <2>4 DEF EvaluateGuard, ev
    <3> HIDE DEF l, r, v
    <3> QED
      BY <1>2, <3>2, <3>3, <3>4 DEF Strict
  <2> QED
    BY <2>1, <2>2, <2>3, <2>4, QuestionFacts
<1>6. ASSUME NEW x \in Conditions
      PROVE  EvaluateCondition(x, env) \in PolicyAnswers
  <2>1. pv[x] \in EvalResults
    BY <1>1, ConditionAssumption DEF ConditionAssumption
  <2> HIDE DEF pv
  <2>2. Raises(pv[x]) /\ pv[x] # Raise("DataUnavailableError")
          => pv[x][2] \in {"PolicyEvaluationError", "TypeError"}
    BY <2>1, ResultFacts DEF Errors
  <2> QED
    BY <2>2 DEF EvaluateCondition, PolicyAnswers, pv
<1>7. CASE question = Unasked /\ answer = "none"
  BY <1>7 DEF GuardsTypeOK, GuardsInv
<1>8. CASE question \in Questions /\ answer = AnswerIn(env)
  <2>1. CASE question[1] = "policy"
    <3>1. answer \in PolicyAnswers
      BY <1>6, <1>8, <2>1, QuestionFacts DEF AnswerIn
    <3> QED
      BY <1>8, <2>1, <3>1, QuestionFacts DEF GuardsTypeOK, GuardsInv
  <2>2. CASE question[1] # "policy"
    <3>1. question \in Guard /\ answer \in GuardAnswers
      BY <1>5, <1>8, <2>2, QuestionFacts DEF AnswerIn
    <3> QED
      BY <1>8, <2>2, <3>1, QuestionFacts DEF GuardsTypeOK, GuardsInv
  <2> QED
    BY <2>1, <2>2
<1> QED
  BY <1>7, <1>8 DEF GuardsInv

(* A completion gives a value to each name that lacks one, and changes none. *)
LEMMA CompletionFacts ==
  ASSUME NEW lacking \in SUBSET Names, NEW e \in Completions(lacking)
  PROVE  /\ \A name \in Names : name \notin lacking => e[name] = env[name]
         /\ \A name \in lacking : e[name] \in Domain[name]
BY DEF Completions

(* What is allowed is allowed also where more inputs are provided.           *)
LEMMA AllowedFacts ==
  ASSUME GuardsInv
  PROVE  AllowedIsCertain
<1> SUFFICES ASSUME question[1] = "policy", answer = "allowed",
                    NEW e \in Completions(Lacking({Absent}))
             PROVE  AnswerIn(e) = "allowed"
  BY DEF AllowedIsCertain
<1> DEFINE x == question[2]
           seen == Resolve("policy", env)
           more == Resolve("policy", e)
<1>1. question \in Questions /\ answer = EvaluateCondition(x, env)
  <2>1. question # Unasked
    BY DEF Unasked
  <2> QED
    BY <2>1 DEF GuardsInv, AnswerIn
<1>2. x \in Exprs
  BY <1>1, QuestionFacts, ConditionAssumption DEF ConditionAssumption
<1>3. Lacking({Absent}) \in SUBSET Names
  BY DEF Lacking, Names
<1>4. ~(\E name \in Bound : env[name] = Absent) /\ ~Raises(Eval(seen)[x]) /\ ~Truthy(Eval(seen)[x])
  <2> DEFINE v == Eval(seen)[x]
  <2>1. v \in EvalResults
    BY <1>2, HoldingFacts, EvalTypes DEF GuardsInv
  <2> HIDE DEF v
  <2>2. Raises(v) => v[2] # "allowed"
    BY <2>1, ResultFacts DEF Errors
  <2> QED
    BY <1>1, <2>2 DEF EvaluateCondition, v
<1>5. \A name \in Names : ~Raises(seen[name]) => more[name] = seen[name]
  <2> SUFFICES ASSUME NEW name \in Names, ~Raises(seen[name]) PROVE more[name] = seen[name]
    OBVIOUS
  <2>1. seen[name] = PolicyRef(name, env) /\ more[name] = PolicyRef(name, e)
    BY DEF Resolve
  <2>2. name \notin Fields /\ env[name] # Absent
    BY <2>1 DEF PolicyRef, Raises, Raise
  <2>3. e[name] = env[name]
    BY <1>3, <2>2, CompletionFacts DEF Lacking
  <2> QED
    BY <2>1, <2>3 DEF PolicyRef
<1>6. Eval(more)[x] = Eval(seen)[x]
  <2> HIDE DEF x, seen, more
  <2> QED
    BY <1>2, <1>4, <1>5, EvalSame
<1>7. \A name \in Bound : e[name] = env[name]
  <2>1. \A name \in Bound : name \in Names /\ name \notin Lacking({Absent})
    BY ConditionAssumption DEF ConditionAssumption, Lacking, Names
  <2> QED
    BY <1>3, <2>1, CompletionFacts
<1>8. EvaluateCondition(x, e) = "allowed"
  <2>1. ~(\E name \in Bound : e[name] = Absent)
    BY <1>4, <1>7
  <2>2. Eval(more)[x] # Raise("DataUnavailableError")
    BY <1>4, <1>6, MadeFacts DEF Errors
  <2> QED
    BY <1>4, <1>6, <2>1, <2>2 DEF EvaluateCondition
<1> QED
  BY <1>8 DEF AnswerIn

(* What matches without a value is not passed over with one.                 *)
LEMMA MatchFacts ==
  ASSUME GuardsInv
  PROVE  PositiveMatchIsCertain
<1> SUFFICES ASSUME question[1] = "if", question[2] \in Positive, answer = "match",
                    NEW e \in Completions(Lacking({Absent, None}))
             PROVE  AnswerIn(e) # "no_match"
  BY DEF PositiveMatchIsCertain
<1> DEFINE x == question[2]
           seen == Resolve("guard", env)
           more == Resolve("guard", e)
           lacking == Lacking({Absent, None})
<1>1. answer = Verdict(Eval(seen)[x])
  <2>1. question # Unasked
    BY DEF Unasked
  <2> QED
    BY <2>1 DEF GuardsInv, AnswerIn, EvaluateGuard
<1>2. x \in Exprs /\ Sort[x] # "other"
  BY ConditionAssumption DEF ConditionAssumption, Positive
<1>3. lacking \in SUBSET Names
  BY DEF Lacking, Names
<1>4. \A name \in Names : seen[name] \in EvalResults
  BY HoldingFacts DEF GuardsInv
<1>5. \A name \in Names : more[name] \in EvalResults
  <2>1. \A name \in Names : e[name] \in Holding(name)
    BY <1>3, CompletionFacts DEF Holding, GuardsInv
  <2> QED
    BY <2>1, HoldingFacts
<1>6. \A name \in Names : ~Raises(seen[name]) /\ seen[name] # None => more[name] = seen[name]
  <2> SUFFICES ASSUME NEW name \in Names, ~Raises(seen[name]), seen[name] # None
               PROVE  more[name] = seen[name]
    OBVIOUS
  <2>1. seen[name] = GuardRef(name, env) /\ more[name] = GuardRef(name, e)
    BY DEF Resolve
  <2>2. name \notin Bound /\ env[name] \notin {Absent, None}
    BY <2>1 DEF GuardRef, Raises, Raise
  <2>3. e[name] = env[name]
    BY <1>3, <2>2, CompletionFacts DEF Lacking
  <2> QED
    BY <2>1, <2>3 DEF GuardRef
<1>7. ~Raises(Eval(seen)[x]) /\ Truthy(Eval(seen)[x])
  <2> DEFINE v == Eval(seen)[x]
  <2>1. v \in EvalResults
    BY <1>2, <1>4, EvalTypes
  <2> HIDE DEF v
  <2>2. Raises(v) => v[2] # "match"
    BY <2>1, ResultFacts DEF Errors
  <2> QED
    BY <1>1, <2>2 DEF Verdict, v
<1>8. Raises(Eval(more)[x]) \/ Truthy(Eval(more)[x])
  <2> HIDE DEF x, seen, more
  <2> QED
    BY <1>2, <1>4, <1>6, <1>7, PositiveKept
<1>9. Verdict(Eval(more)[x]) # "no_match"
  <2> DEFINE v == Eval(more)[x]
  <2>1. v \in EvalResults
    BY <1>2, <1>5, EvalTypes
  <2> HIDE DEF v
  <2>2. Raises(v) => v[2] # "no_match"
    BY <2>1, ResultFacts DEF Errors
  <2>3. Raises(v) \/ Truthy(v)
    BY <1>8 DEF v
  <2> QED
    BY <2>2, <2>3 DEF Verdict, v
<1> QED
  BY <1>9 DEF AnswerIn, EvaluateGuard

(* A path is judged alike whether given as a path or as a string.            *)
LEMMA SpellingFacts ==
  ASSUME GuardsInv
  PROVE  SpellingIrrelevant
<1> DEFINE e == [name \in Names |-> IF name \in PathBound /\ env[name][1] = "str"
                                    THEN PathOf(env[name][2]) ELSE env[name]]
<1> SUFFICES ASSUME question[1] = "policy" PROVE answer = AnswerIn(e)
  BY DEF SpellingIrrelevant
<1>1. answer = AnswerIn(env)
  <2>1. question # Unasked
    BY DEF Unasked
  <2> QED
    BY <2>1 DEF GuardsInv
<1>2. \A name \in Names : (e[name] = Absent <=> env[name] = Absent)
  BY DEF Absent, PathOf
<1>3. ASSUME NEW name \in Names PROVE PolicyRef(name, e) = PolicyRef(name, env)
  <2>1. CASE name \in PathBound /\ env[name][1] = "str"
    <3>1. e[name] = PathOf(env[name][2]) /\ e[name][1] = "path"
      BY <2>1 DEF PathOf
    <3>2. env[name] # Absent
      BY <2>1 DEF Absent
    <3> HIDE DEF e
    <3> QED
      BY <1>2, <2>1, <3>1, <3>2 DEF PolicyRef
  <2>2. CASE ~(name \in PathBound /\ env[name][1] = "str")
    <3>1. e[name] = env[name]
      BY <2>2
    <3> HIDE DEF e
    <3> QED
      BY <3>1 DEF PolicyRef
  <2> QED
    BY <2>1, <2>2
<1>4. Resolve("policy", e) = Resolve("policy", env)
  <2> HIDE DEF e
  <2> QED
    BY <1>3 DEF Resolve
<1>5. \A x : EvaluateCondition(x, e) = EvaluateCondition(x, env)
  <2>1. (\E name \in Bound : e[name] = Absent) <=> \E name \in Bound : env[name] = Absent
    <3>1. \A name \in Bound : name \in Names
      BY DEF Names
    <3> HIDE DEF e
    <3> QED
      BY <1>2, <3>1
  <2> HIDE DEF e
  <2> QED
    BY <1>4, <2>1 DEF EvaluateCondition
<1> HIDE DEF e
<1> QED
  BY <1>1, <1>5 DEF AnswerIn

(* A call allowed without an input is allowed with it, a positive guard that *)
(* matches without a field is not passed over with it, how a path is spelt   *)
(* changes nothing, and evaluation that fails is a refusal                   *)
(* (_eval_expr_impl).                                                        *)
THEOREM VerdictTheorem == GuardsSpec => []VerdictsAreSound
<1>1. GuardsInv => VerdictsAreSound
  BY AnswerTypes, AllowedFacts, MatchFacts, SpellingFacts DEF VerdictsAreSound
<1> QED
  BY <1>1, GuardsInvariant, PTL
=============================================================================
