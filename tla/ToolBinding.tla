---------------------------- MODULE ToolBinding ----------------------------
(***************************************************************************)
(* From a list of tools to the outputs of a deterministic stage: the       *)
(* registry checks the tools against the catalog, the runtime picks the    *)
(* one tool that fits the stage when it is built, and the stage calls it   *)
(* with the arguments of the manifest and keeps what it declares to write. *)
(*                                                                         *)
(* A tool is the record of what reflection tells of its handler, with the  *)
(* fields its result has. Types are names: "other" is a type the manifest  *)
(* language has no word for, "listed" is list[str] and "list" a bare list. *)
(***************************************************************************)
EXTENDS Naturals, Sequences, FiniteSetsExt, SequencesExt

CONSTANTS
  Tools,    \* the tools a program may register
  Stages,   \* the deterministic stages a manifest may hold
  Catalog,  \* per capability, the parameters its tools must take
  MaxTools  \* bound on the tools registered

PyTypes == {"str", "bool", "Path", "int", "listed", "list", "dict", "other"}
WriteTypes == {"string", "bool", "path", "number", "string[]", "json"}
\* A mapping of no fields stands for a schema that is not known.
Unknown == <<>>

ASSUME BindingAssumption ==
  /\ MaxTools \in Nat
  /\ \A t \in Tools : /\ t.defaulted \subseteq t.params
                      /\ \A f \in DOMAIN t.fields : t.fields[f] \in PyTypes
  /\ \A s \in Stages : s.capability \in DOMAIN Catalog
  /\ \A s \in Stages : \A w \in s.writes : w.type \in WriteTypes
  /\ \A s \in Stages : \A v, w \in s.writes : v.name = w.name => v = w

VARIABLES
  tools,   \* the list the registry is built from
  stage,   \* the stage of the manifest
  bound,   \* _tool_for_stage: the tool of the stage, if any
  outcome  \* how far it came

bindingVars == <<tools, stage, bound, outcome>>

Outcomes == {"listing", "registered", "ToolValidationError", "MissingCapabilityError",
             "WorkflowValidationError", "built", "ToolInvocationError",
             "StageOutputValidationError", "completed"}

-----------------------------------------------------------------------------
(* Tool *)

\* @tool: an explicit schema, or what _derive_output_schema makes of the fields.
Representable == {"str", "bool", "Path", "listed"}
OutputSchema(t) ==
  IF t.returns # Unknown THEN t.returns
  ELSE LET kept == {f \in DOMAIN t.fields : t.fields[f] \in Representable}
       IN  [f \in kept |-> t.fields[f]]

NonDefaulted(t) == t.params \ t.defaulted

(* ToolRegistry *)
Duplicate(list) == \E i, j \in DOMAIN list : i # j /\ list[i].name = list[j].name
Validated(t) == t.capability \in DOMAIN Catalog /\ Catalog[t.capability] \subseteq t.params
Registered(capability) == {t \in Range(tools) : t.capability = capability}

(* WorkflowRuntime *)

\* Faulty variant of TypeSatisfies: a bool, an int in Python, is a number.
TypeSatisfies_BoolIsInt(py, write) ==
  CASE write = "string" -> py = "str"
    [] write = "bool" -> py = "bool"
    [] write = "path" -> py \in {"str", "Path"}
    [] write = "number" -> py \in {"int", "bool"}
    [] write = "string[]" -> py \in {"listed", "list"}
    [] write = "json" -> py \in {"dict", "list", "str", "int", "bool"}
TypeSatisfies(py, write) ==
  CASE write = "string" -> py = "str"
    [] write = "bool" -> py = "bool"
    [] write = "path" -> py \in {"str", "Path"}
    [] write = "number" -> py = "int"
    [] write = "string[]" -> py \in {"listed", "list"}
    [] write = "json" -> py \in {"dict", "list", "str", "int", "bool"}

SatisfiesOutputs(t, writes) ==
  \A w \in writes : ~w.optional =>
    /\ w.name \in DOMAIN OutputSchema(t)
    /\ TypeSatisfies(OutputSchema(t)[w.name], w.type)

Candidates(registered, s) ==
  {t \in registered : NonDefaulted(t) \subseteq s.args /\ SatisfiesOutputs(t, s.writes)}

\* The one candidate, or nothing: none and several are errors.
Select(list, s) ==
  LET fits == Candidates({t \in Range(list) : t.capability = s.capability}, s)
  IN  IF Cardinality(fits) = 1 THEN fits ELSE {}

-----------------------------------------------------------------------------
(* The call and its result *)

Accepts(t, args) == NonDefaulted(t) \subseteq args /\ args \subseteq t.params

\* What _normalize_deterministic_output keeps of the result: the fields the
\* stage declares, with strings made paths where it declares a path.
Projected(t, s) ==
  LET declared(f) == CHOOSE w \in s.writes : w.name = f
      kept == DOMAIN t.fields \intersect {w.name : w \in s.writes}
  IN  [f \in kept |-> IF declared(f).type = "path" /\ t.fields[f] = "str"
                      THEN "Path" ELSE t.fields[f]]

\* _validate_write_type. Of a bare list nothing is known of the elements.
ValueFits(py, write) ==
  CASE write = "string" -> py = "str"
    [] write = "bool" -> py = "bool"
    [] write = "path" -> py = "Path"
    [] write = "number" -> py = "int"
    [] write = "string[]" -> py \in {"listed", "list"}
    [] write = "json" -> py \in {"dict", "list", "listed", "str", "int", "bool"}

Misfits(t, s) ==
  LET output == Projected(t, s)
  IN  {w \in s.writes : IF w.name \in DOMAIN output
                        THEN ~ValueFits(output[w.name], w.type) ELSE ~w.optional}

-----------------------------------------------------------------------------
BindingInit ==
  /\ tools = <<>>
  /\ stage \in Stages
  /\ bound = {}
  /\ outcome = "listing"

Add(t) ==
  /\ outcome = "listing" /\ Len(tools) < MaxTools
  /\ tools' = Append(tools, t)
  /\ UNCHANGED <<stage, bound, outcome>>

\* ToolRegistry(tools)
Register ==
  /\ outcome = "listing"
  /\ outcome' = IF Duplicate(tools) \/ \E i \in DOMAIN tools : ~Validated(tools[i])
                THEN "ToolValidationError" ELSE "registered"
  /\ UNCHANGED <<tools, stage, bound>>

\* WorkflowRuntime(manifest, tools, ...)
Build ==
  /\ outcome = "registered"
  /\ IF Registered(stage.capability) = {}
     THEN outcome' = "MissingCapabilityError" /\ UNCHANGED bound
     ELSE /\ bound' = Select(tools, stage)
          /\ outcome' = IF bound' = {} THEN "WorkflowValidationError" ELSE "built"
  /\ UNCHANGED <<tools, stage>>

\* A stage of the built runtime is executed, any number of times.
Execute ==
  /\ outcome \in {"built", "completed"}
  /\ \E t \in bound :
       outcome' = IF ~Accepts(t, stage.args) THEN "ToolInvocationError"
                  ELSE IF stage.writes # {} /\ (~t.mapping \/ Misfits(t, stage) # {})
                  THEN "StageOutputValidationError" ELSE "completed"
  /\ UNCHANGED <<tools, stage, bound>>

BindingNext == (\E t \in Tools : Add(t)) \/ Register \/ Build \/ Execute

BindingSpec == BindingInit /\ [][BindingNext]_bindingVars

-----------------------------------------------------------------------------
(* Correctness *)

\* A tool whose explicit schema, if it has one, is true of its result.
Honest(t) == \A f \in DOMAIN t.returns : f \in DOMAIN t.fields /\ t.fields[f] = t.returns[f]

(* A runtime that was built has exactly one tool for the stage, registered   *)
(* for its capability; before, and when building fails, it has none.         *)
BindingTypeOK ==
  /\ Len(tools) <= MaxTools /\ Range(tools) \subseteq Tools
  /\ stage \in Stages /\ outcome \in Outcomes
  /\ bound \subseteq Registered(stage.capability)
  /\ Cardinality(bound) = IF outcome \in {"built", "completed", "ToolInvocationError",
                                           "StageOutputValidationError"} THEN 1 ELSE 0

(* The choice does not depend on the order in which the tools are listed:    *)
(* the same list in any other order binds the same tool.                     *)
OrderFree ==
  outcome \in {"built", "WorkflowValidationError"} =>
    \A list \in {[i \in DOMAIN tools |-> tools[p[i]]] :
                   p \in {q \in [DOMAIN tools -> DOMAIN tools] : IsInjective(q)}} :
      Select(list, stage) = bound

(* The stage's call never lacks an argument: a tool whose call fails on its  *)
(* arguments was given one it does not take.                                 *)
NothingMissing ==
  outcome = "ToolInvocationError" => \A t \in bound : ~(stage.args \subseteq t.params)

(* What selection checks of an honest tool's schema is what validation       *)
(* checks of its result: if the stage's outputs are refused, a required      *)
(* output is not the reason.                                                 *)
RequiredOutputsFit ==
  outcome = "StageOutputValidationError" =>
    \A t \in bound : Honest(t) /\ t.mapping => \A w \in Misfits(t, stage) : w.optional

(* What the runtime settles when it is built still holds when the stage runs: *)
(* the tool depends on no order, its call lacks no argument, and the result   *)
(* of a tool that keeps to its schema and returns a mapping has the required  *)
(* outputs. An optional output may still be refused                           *)
(* (_select_deterministic_tool).                                              *)
BindingIsSound == BindingTypeOK /\ OrderFree /\ NothingMissing /\ RequiredOutputsFit

(* "all exec args must be present in the tool's non-defaulted params"        *)
(* (_select_deterministic_tool) and "fail-fast on no-match" (README): a tool *)
(* that was bound takes the arguments of the stage.                          *)
ArgsAccepted == outcome # "ToolInvocationError"
=============================================================================
