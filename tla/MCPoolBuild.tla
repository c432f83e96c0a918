----------------------------- MODULE MCPoolBuild -----------------------------
(***************************************************************************)
(* A small instance of PoolBuild: all stages at once, or one at a time, an *)
(* upgrade, and what the organizer generates.                              *)
(***************************************************************************)
EXTENDS PoolBuild

CONSTANTS b1, b2, g1, g2, d1, d2, d3

OrderIn == <<b1, b2, d2, d3, d1, g2, g1>>
InvocationsIn ==
    {Stages} \cup {<<Stages[i]>> : i \in DOMAIN Stages}
    \cup {<<"upgrade", "draw", "finalize">>, <<"upgrade">>,
          <<"generate", "finalize">>, <<"generate-draw", "finalize">>}

NoFlaw == [absent |-> {}, broken |-> {}, barren |-> {}]
WorldsIn ==
    {NoFlaw,
     [NoFlaw EXCEPT !.absent = {b2, <<b1, "pro_pose">>}],
     [NoFlaw EXCEPT !.broken = {g1, <<b1, "pro_swap">>, <<b2, "table">>}],
     [NoFlaw EXCEPT !.barren = {d1, <<b1, "table">>, <<b2, "level">>}],
     [NoFlaw EXCEPT !.broken = {b1, g2, <<b1, "pro_swap">>},
                    !.barren = {<<b1, "level">>, <<b2, "lighting">>}]}
=============================================================================
