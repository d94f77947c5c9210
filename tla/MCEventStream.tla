---------------------------- MODULE MCEventStream ----------------------------
(***************************************************************************)
(* The event stream with one client, a history of two events and a channel *)
(* of one: clients share nothing but what the agent publishes, so a second *)
(* one would only repeat the first.                                        *)
(***************************************************************************)
EXTENDS EventStream
=============================================================================
