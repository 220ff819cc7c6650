------------------------------- MODULE MCJobTrace -------------------------------
(***************************************************************************)
(* Instances of JobTrace for TLC.                                          *)
(***************************************************************************)
EXTENDS JobTrace

CONSTANTS script, system, none

MCReasons == {script, system}
=============================================================================
