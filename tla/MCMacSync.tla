----------------------------- MODULE MCMacSync -----------------------------
(* Instances of MacSync for TLC. *)
EXTENDS MacSync

=============================================================================
