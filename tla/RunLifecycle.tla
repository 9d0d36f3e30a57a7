---------------------------- MODULE RunLifecycle ----------------------------
(***************************************************************************)
(* What one call of WorkflowRuntime.run promises its caller about the      *)
(* trace archive, with everything the run does in between left out: the    *)
(* archive is sealed at most once, a result is returned only over a sealed *)
(* "complete" archive, and an exception never leaves a "complete" one.     *)
(* WorkflowRun implements this specification.                              *)
(***************************************************************************)
CONSTANT Statuses        \* the terminal statuses an archive can be sealed with

VARIABLES
  outcome,               \* "running", "returned", "raised" or "crashed"
  tracing,               \* is the caller's recorder one that writes an archive?
  sealed                 \* "none", or the status of the archive on disk

lifecycleVars == <<outcome, tracing, sealed>>

Init ==
  /\ outcome = "running"
  /\ tracing \in BOOLEAN
  /\ sealed = "none"

\* The archive appears under its final name, once, with a terminal status.
Seal(status) ==
  /\ outcome = "running" /\ tracing /\ sealed = "none"
  /\ sealed' = status
  /\ UNCHANGED <<outcome, tracing>>

\* The caller gets its WorkflowResult.
Return ==
  /\ outcome = "running" /\ (tracing => sealed = "complete")
  /\ outcome' = "returned"
  /\ UNCHANGED <<tracing, sealed>>

\* The caller gets an exception.
Raise ==
  /\ outcome = "running" /\ sealed # "complete"
  /\ outcome' = "raised"
  /\ UNCHANGED <<tracing, sealed>>

\* The process is killed.
Crash ==
  /\ outcome = "running"
  /\ outcome' = "crashed"
  /\ UNCHANGED <<tracing, sealed>>

Next ==
  \/ \E status \in Statuses : Seal(status)
  \/ Return
  \/ Raise
  \/ Crash

Spec == Init /\ [][Next]_lifecycleVars
=============================================================================
