--------------------------- MODULE MCCommandBridge ---------------------------
(***************************************************************************)
(* Two commands at a time and two in all, two projects, one slot more than *)
(* one command needs and a diagnosis that may keep it.  The clock is that  *)
(* of MCMachineClient.                                                     *)
(***************************************************************************)
EXTENDS CommandBridge
=============================================================================
