---------------------------- MODULE MCIndexFile ----------------------------
(***************************************************************************)
(* A small instance of IndexFile: every way to tear five lines in parts of *)
(* two, and to die between any line and its head.                          *)
(***************************************************************************)
EXTENDS IndexFile
=============================================================================
