---------------------------- MODULE MCValidator ----------------------------
(***************************************************************************)
(* Small instances of Validator: a sound model whose repository also holds *)
(* a pickle, a local directory that lacks the configurations and holds a   *)
(* pickle, and a repository that is too large.                             *)
(***************************************************************************)
EXTENDS Validator

CONSTANTS sound, bare, huge

MCModels == {sound, bare, huge}
Plain == [files |-> {<<s, k>> : s \in Skills, k \in Required}
                    \cup {<<"root", "hidden">>, <<"root", "pickle">>},
          config |-> [s \in Skills |-> "template"],
          tensors |-> [s \in Skills |-> "template"]]
MCRepo == [m \in MCModels |->
    CASE m = sound -> Plain
      [] m = bare -> [Plain EXCEPT !.files = @ \ (Skills \X {"config.yaml"})]
      [] m = huge -> [Plain EXCEPT !.files = @ \cup (Skills \X {"readme"})]]
MCLocal == {bare}
MCOffers == {<<sound, FALSE>>, <<bare, FALSE>>, <<bare, TRUE>>}
MCAll == MCOffers \cup {<<huge, FALSE>>}
MCOutages ==
    {[faults |-> {"hub", "clips", "publish"}, offers |-> MCAll, maxBlock |-> 3],
     [faults |-> {"disk"}, offers |-> MCOffers, maxBlock |-> 3],
     [faults |-> {"death"}, offers |-> MCOffers, maxBlock |-> 3],
     [faults |-> {"disk", "death"}, offers |-> MCOffers, maxBlock |-> 2],
     [faults |-> {"disk", "publish"}, offers |-> MCOffers, maxBlock |-> 2]}
=============================================================================
