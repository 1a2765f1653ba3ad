---------------------------- MODULE MCToolCalls ----------------------------
(***************************************************************************)
(* ToolCalls on small instances; the bounds are given in the .cfg files.   *)
(***************************************************************************)
EXTENDS ToolCalls
=============================================================================
