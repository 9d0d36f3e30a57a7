---------------------------- MODULE MCModelStage ----------------------------
(* Two retries and two rounds of up to two tool calls: both budgets run out, *)
(* in either order.                                                          *)
EXTENDS ModelStage
=============================================================================
