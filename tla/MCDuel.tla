------------------------------- MODULE MCDuel -------------------------------
(***************************************************************************)
(* A small instance of Duel with three deployments: containers whose       *)
(* orchestrator dies and that live on, the containers and the sides of one *)
(* process with all that can happen to their lines and their clips.  What  *)
(* matters of a result is whether it is void, and which ones differ.       *)
(***************************************************************************)
EXTENDS Duel

CONSTANTS u1, u2

Containers ==
    [docker |-> TRUE, pipe |-> 9, mirrored |-> FALSE, crashes |-> TRUE,
     detached |-> TRUE, hangs |-> FALSE, tears |-> FALSE,
     results |-> {"success", "void"}, encodes |-> {FALSE}]

AnyMode(docker) ==
    [docker |-> docker, pipe |-> 2, mirrored |-> ~docker, crashes |-> docker,
     detached |-> FALSE, hangs |-> docker, tears |-> TRUE,
     results |-> {IF docker THEN "fail" ELSE "success", "void"},
     encodes |-> BOOLEAN]

MCSites == {Containers, AnyMode(TRUE), AnyMode(FALSE)}
=============================================================================
