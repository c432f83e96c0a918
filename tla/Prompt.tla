------------------------------- MODULE Prompt -------------------------------
(***************************************************************************)
(* One demonstration as the prompt of a policy (model/prompt.py): its      *)
(* actions in chunks of n, and the frame that goes with each chunk.  An    *)
(* action or a frame is its number in the demonstration, counted from 0.   *)
(***************************************************************************)
EXTENDS Integers, Sequences

PadModes == {"no", "zeros", "repeat"}
ZeroAction == -1

(* Mutant: a demonstration that is shorter than a chunk gets one more. *)
ChunkCountPartialTwice(steps, n, pad) ==
    LET whole == IF steps < n THEN 1 ELSE steps \div n
    IN  IF steps % n # 0 /\ pad # "no" THEN whole + 1 ELSE whole

(* chunk_layout(): a trailing part of a chunk is padded or dropped, but a  *)
(* demonstration shorter than one chunk is always padded.                  *)
ChunkCount(steps, n, pad) ==
    LET whole == steps \div n
    IN  IF whole = 0 THEN 1
        ELSE IF steps % n # 0 /\ pad # "no" THEN whole + 1 ELSE whole

Filler(steps, n, pad) ==
    IF pad = "repeat" /\ steps >= n THEN steps - 1 ELSE ZeroAction

(* chunk_actions(): the cut or padded actions, reshaped.                   *)
Chunks(steps, n, pad) ==
    [c \in 1..ChunkCount(steps, n, pad) |-> [i \in 1..n |->
        LET k == (c - 1) * n + i - 1
        IN  IF k < steps THEN k ELSE Filler(steps, n, pad)]]

(* The observation at the beginning of each chunk.                         *)
Frames(steps, n, pad) ==
    [c \in 1..ChunkCount(steps, n, pad) |->
        IF (c - 1) * n < steps THEN (c - 1) * n ELSE steps - 1]
=============================================================================
