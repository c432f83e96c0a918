------------------------- MODULE MCChallengerQueue -------------------------
(***************************************************************************)
(* Small instances of ChallengerQueue.  The keys and the handlers are      *)
(* interchangeable; the runs with a liveness property use no symmetry.     *)
(***************************************************************************)
EXTENDS ChallengerQueue, TLC

CONSTANTS v1, h1, h2, q1, k1, k2

Alike == Permutations(Keys) \cup Permutations(Handlers)
============================================================================
