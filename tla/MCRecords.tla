----------------------------- MODULE MCRecords -----------------------------
(***************************************************************************)
(* What a recorder writes, one component at a time: the records it admits  *)
(* and masks, and the references it puts where paths were. Of each the     *)
(* other has an abstraction, so a behaviour is one of a single component,  *)
(* the part, and the other stays in one of its initial states.             *)
(***************************************************************************)
EXTENDS MCLedger, MCPathRefs

VARIABLE part

partVars == <<part, ledgerVars, pathVars>>

SumInit ==
  /\ part \in {"ledger", "paths"}
  /\ part # "ledger" => setup = [replay |-> TRUE, ir |-> "plain", label |-> "plain", fits |-> TRUE]
  /\ part # "paths" => keep = FALSE
  /\ LedgerInit /\ PathInit

LedgerStep == part = "ledger" /\ LedgerNext /\ UNCHANGED <<part, pathVars>>
PathStep == part = "paths" /\ PathNext /\ UNCHANGED <<part, ledgerVars>>

SumNext == LedgerStep \/ PathStep

SumSpec == SumInit /\ [][SumNext]_partVars
=============================================================================
