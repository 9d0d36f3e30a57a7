---------------------------- MODULE MCPublication ----------------------------
(* Two archives with the same ledger and different manifests, one of an      *)
(* interrupted run, one whose manifest the scanner matches, one that does    *)
(* not verify.                                                               *)
EXTENDS Publication

Clean ==
  [verifies |-> TRUE, known |-> TRUE, profile |-> "audit", vault |-> FALSE,
   status |-> "complete", complete |-> TRUE, trace |-> "t", events |-> "e",
   graph |-> "g", manifest |-> "m", summary |-> "s",
   tools |-> {"fetch"}, paths |-> {"$root/key"}]

MCContents ==
  {Clean, [Clean EXCEPT !.manifest = "n"], [Clean EXCEPT !.status = "interrupted"],
   [Clean EXCEPT !.manifest = "secret"],
   [Clean EXCEPT !.verifies = FALSE, !.events = "f"]}
MCOptions ==
  {[tools |-> {}, keep |-> FALSE], [tools |-> {"fetch"}, keep |-> TRUE]}
MCFlagged == {"secret", "$root/key"}
=============================================================================
