--------------------------- MODULE MCResultStore ---------------------------
(***************************************************************************)
(* Small instances of ResultStore and StoreVerifier.  The models are       *)
(* interchangeable, and every property checked with this symmetry is a     *)
(* safety property.                                                        *)
(***************************************************************************)
EXTENDS StoreVerifier, TLC

CONSTANTS d1, c1, g1, a, b

Alike == Permutations(Models)
============================================================================
