----------------------------- MODULE MCUnitLists -----------------------------
(***************************************************************************)
(* Small instances of UnitLists.                                           *)
(***************************************************************************)
EXTENDS UnitLists

CONSTANTS m1, m2

GroupsIn == <<"spatial", "object">>
=============================================================================
