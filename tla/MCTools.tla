------------------------------ MODULE MCTools ------------------------------
(***************************************************************************)
(* What surrounds a tool call, one component at a time: the answer of the  *)
(* model that asks for it, the condition of the policy that judges it, the *)
(* tool that the registry binds to it, and the handlers that carry it out. *)
(* They share no state, so a behaviour is one of a single component, the   *)
(* part, and the others stay in one of their initial states.               *)
(***************************************************************************)
EXTENDS MCAdapters, MCGuards, MCToolBinding, MCOfficialTools

VARIABLE part

ToolsParts == {"adapters", "guards", "binding", "tools"}
partVars == <<part, adaptersVars, guardVars, bindingVars, toolVars>>

SumInit ==
  /\ part \in ToolsParts
  /\ part # "adapters" => setup = CHOOSE s \in Setups : TRUE
  /\ part # "adapters" => meant = CHOOSE a \in Answers : TRUE
  /\ part # "binding" => stage = CHOOSE s \in Stages : TRUE
  /\ AdaptersInit /\ GuardsInit /\ BindingInit /\ ToolsInit

AdaptersStep ==
  part = "adapters" /\ AdaptersNext /\ UNCHANGED <<part, guardVars, bindingVars, toolVars>>
GuardsStep ==
  part = "guards" /\ GuardsNext /\ UNCHANGED <<part, adaptersVars, bindingVars, toolVars>>
BindingStep ==
  part = "binding" /\ BindingNext /\ UNCHANGED <<part, adaptersVars, guardVars, toolVars>>
ToolsStep ==
  part = "tools" /\ ToolsNext /\ UNCHANGED <<part, adaptersVars, guardVars, bindingVars>>

SumNext == AdaptersStep \/ GuardsStep \/ BindingStep \/ ToolsStep

\* The fairness is that of the handlers (ToolsFairSpec).
SumSpec ==
  /\ SumInit /\ [][SumNext]_partVars
  /\ \A r \in Runs : WF_toolVars(EditWrite(r)) /\ WF_toolVars(ShellStep(r))
  /\ \A c \in Calls : WF_toolVars(\E p \in ProcessesOf(c) : p.killed /\ Exit(p))
=============================================================================
