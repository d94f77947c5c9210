--------------------------- MODULE MCMachineClient ---------------------------
(***************************************************************************)
(* Two callers.  The clock counts in steps of five seconds, so that the    *)
(* timeout of a login is longer than the pause after one that failed.  A   *)
(* token lives three steps, or so long that eight times its life does not  *)
(* fit the width of a duration.                                            *)
(***************************************************************************)
EXTENDS MachineClient
=============================================================================
