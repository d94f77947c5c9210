----------------------- MODULE MCEnrollmentController -----------------------
(* The enrollment controller on small instances. *)
EXTENDS EnrollmentController

\* The policy files that the administrator of a run switches between.
On       == [valid |-> TRUE, apply |-> TRUE, repair |-> FALSE, create |-> TRUE,
             allows |-> Project]
DryRun   == [On EXCEPT !.apply = FALSE]
Repair   == [On EXCEPT !.repair = TRUE]
Excluded == [On EXCEPT !.allows = {}, !.create = FALSE]
Invalid  == [Excluded EXCEPT !.valid = FALSE, !.apply = FALSE]

AllPolicies == {On, DryRun, Repair, Excluded, Invalid}
=============================================================================
