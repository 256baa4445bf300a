---------------------------- MODULE MCMlacpSync ----------------------------
(* Instances of MlacpSync for TLC. *)
EXTENDS MlacpSync

=============================================================================
