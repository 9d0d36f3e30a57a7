------------------------------ MODULE MCReplay ------------------------------
(* A model stage that may be visited again before a tool stage ends the run, *)
(* a guarded tool for each, small enough for TLC.                            *)
EXTENDS Replay

MCStages == {"Think", "Save"}
MCExits == {"Save"}
MCExecutes == [Think |-> "model", Save |-> "write"]
MCAllows == [Think |-> {"lookup"}, Save |-> {}]
MCGoto ==
  [Think |-> [x |-> "Save", y |-> "Think", hidden |-> "none"],
   Save  |-> [x |-> "none", y |-> "none", hidden |-> "none"]]
MCTools == {"lookup", "write"}
MCGuarded == {"lookup", "write"}
MCOmissible == {"stage_completed"}
=============================================================================
