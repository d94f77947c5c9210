------------------------ MODULE MCClusterManagement -------------------------
(***************************************************************************)
(* Two requests on one object of any kind, one slot of each kind of        *)
(* session, and one edit by others besides a deletion.                     *)
(***************************************************************************)
EXTENDS ClusterManagement
=============================================================================
