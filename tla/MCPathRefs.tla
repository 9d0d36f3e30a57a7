----------------------------- MODULE MCPathRefs -----------------------------
(* Two files under the workspace, one under a private root, two elsewhere.   *)
EXTENDS PathRefs

MCWhere == [a |-> "safe", b |-> "safe", c |-> "unsafe", d |-> "outside", e |-> "outside"]
MCFiles == DOMAIN MCWhere
=============================================================================
