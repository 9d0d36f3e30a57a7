--------------------------- MODULE MCWorkflowRun ----------------------------
(* A three-stage workflow with a cycle, an exit stage whose required read    *)
(* may be missing, and transitions of every guard kind and of equal          *)
(* priority, small enough for TLC.                                           *)
EXTENDS WorkflowRun

MCStages == {"Draft", "Review", "Publish"}
MCExits == {"Publish"}
MCTransitions ==
  [Draft   |-> << [to |-> "Review",  priority |-> 1, guard |-> "if",        node |-> "Draft"],
                  [to |-> "Publish", priority |-> 0, guard |-> "has_value", node |-> "Review"],
                  [to |-> "Draft",   priority |-> 1, guard |-> "missing",   node |-> "Draft"] >>,
   Review  |-> << [to |-> "Draft",   priority |-> 1, guard |-> "always",    node |-> "Review"],
                  [to |-> "Publish", priority |-> 0, guard |-> "has_value", node |-> "Draft"] >>,
   Publish |-> <<>>]
MCRequires == [Draft |-> {}, Review |-> {}, Publish |-> {"Draft"}]
MCWrites == [Draft |-> "optional_array", Review |-> "required", Publish |-> "nothing"]
=============================================================================
