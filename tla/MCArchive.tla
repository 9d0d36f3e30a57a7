------------------------------ MODULE MCArchive ------------------------------
(* Two runs: one whose model answered, after a retry, and one whose model    *)
(* never did but whose tool did. Tool results are not captured: the vault of  *)
(* the first is complete, that of the second is not.                         *)
EXTENDS Archive

MCLedgers == {{"model_completed", "model_retry", "transition"}, {"model_retry", "tool"}}
MCCaptures == {Options \ {"results"}}
=============================================================================
