----------------------------- MODULE CrownChain -----------------------------
(***************************************************************************)
(* What the published store promises to a reader, with no disk, no lock   *)
(* and no crash: an append-only chain of records, each one fought against  *)
(* the model that reigned when it was published, and the model that        *)
(* reigns now.  ResultStore implements it.                                 *)
(***************************************************************************)
EXTENDS Naturals, Sequences

CONSTANTS Models,   \* submissions, a model being repo@revision
          NoModel   \* the empty throne

VARIABLES chain,    \* the published records, the oldest first
          crown     \* the reigning model

vars == <<chain, crown>>

Link == [kind : {"genesis", "duel"}, king : Models \cup {NoModel},
         challenger : Models \cup {NoModel}, dethroned : BOOLEAN]

Init == chain = <<>> /\ crown = NoModel

(* The opening entrant takes an empty throne. *)
Enthrone(m) ==
    /\ crown = NoModel
    /\ chain' = Append(chain, [kind |-> "genesis", king |-> m,
                               challenger |-> NoModel, dethroned |-> FALSE])
    /\ crown' = m

(* A challenger meets the reigning model; the crown moves or it stays. *)
Fight(m, wins) ==
    /\ crown # NoModel
    /\ m # crown
    /\ chain' = Append(chain, [kind |-> "duel", king |-> crown,
                               challenger |-> m, dethroned |-> wins])
    /\ crown' = IF wins THEN m ELSE crown

Next == \E m \in Models : Enthrone(m) \/ \E wins \in BOOLEAN : Fight(m, wins)

Spec == Init /\ [][Next]_vars
=============================================================================
