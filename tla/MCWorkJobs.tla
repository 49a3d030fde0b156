---------------------------- MODULE MCWorkJobs ----------------------------
(* Instances of WorkJobs: two requests for work and one cancellation.      *)
EXTENDS WorkJobs
=============================================================================
