---------------------------- MODULE MCButtonCycle ----------------------------
(***************************************************************************)
(* ButtonCycle with two cycles: none, and one of an action and a profile.  *)
(***************************************************************************)
EXTENDS ButtonCycle

CONSTANTS p1, act

MCCycles == {<<>>, <<act, p1>>}
=============================================================================
