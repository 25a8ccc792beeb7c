-------------------------- MODULE MCReplayAgreement --------------------------
(* Values of the constants for the run of ReplayAgreement.                 *)
EXTENDS ReplayAgreement, MCOperations
=============================================================================
