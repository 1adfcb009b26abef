----------------------- MODULE MCEnrollmentRefinement -----------------------
(* The instances of MCEnrollment with a bound on every capacity. *)
EXTENDS MCEnrollment, EnrollmentRefinement
=============================================================================
