------------------------------ MODULE MCScore ------------------------------
(***************************************************************************)
(* Small instances of Score.                                               *)
(***************************************************************************)
EXTENDS Score

CONSTANTS s1, s2
=============================================================================
