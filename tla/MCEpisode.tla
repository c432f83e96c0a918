------------------------------ MODULE MCEpisode ------------------------------
(***************************************************************************)
(* Small instances of Episode.                                             *)
(***************************************************************************)
EXTENDS Episode

CONSTANTS u1, u2, u3, libero, draw

OrderIn == <<u1, u2, u3>>
SkillOfIn == [u \in {u1, u2, u3} |-> IF u = u3 THEN draw ELSE libero]
ChunkSizeIn == [s \in {libero, draw} |-> IF s = draw THEN 2 ELSE 3]
PadEndIn == [s \in {libero, draw} |-> IF s = draw THEN "no" ELSE "zeros"]
=============================================================================
