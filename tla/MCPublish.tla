------------------------------ MODULE MCPublish ------------------------------
(* Two publications, one of them over the budget, an audit archive, and two  *)
(* archives whose index states what they do not hold: the identity of the    *)
(* first publication, and one of nothing.                                    *)
EXTENDS Publish

Small == [holds |-> 1, states |-> 1, public |-> TRUE, small |-> TRUE]
MCArchives ==
  {Small, [Small EXCEPT !.holds = 2, !.states = 2, !.small = FALSE],
   [Small EXCEPT !.holds = 3, !.states = 3, !.public = FALSE],
   [Small EXCEPT !.holds = 2], [Small EXCEPT !.states = 4]}
=============================================================================
