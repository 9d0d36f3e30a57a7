-------------------------- MODULE MCOfficialTools --------------------------
(* Two runs that make calls to all the tools.                                *)
EXTENDS OfficialTools

CONSTANTS r1, r2

MCRuns == {r1, r2}
=============================================================================
