---------------------------- MODULE MCRunStream -----------------------------
(* A two-stage cycle with an exit, streamed.                                 *)
EXTENDS RunStream

MCStages == {"Work", "Exit"}
MCExits == {"Exit"}
MCTransitions ==
  [Work |-> << [to |-> "Work", priority |-> 1, guard |-> "if",        node |-> "Work"],
               [to |-> "Exit", priority |-> 2, guard |-> "has_value", node |-> "Work"] >>,
   Exit |-> <<>>]
MCRequires == [Work |-> {}, Exit |-> {"Work"}]
MCWrites == [Work |-> "optional_array", Exit |-> "nothing"]
=============================================================================
