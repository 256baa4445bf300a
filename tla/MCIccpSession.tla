--------------------------- MODULE MCIccpSession ---------------------------
(* Instances of IccpSession for TLC. *)
EXTENDS IccpSession, TLC

SameRg == [p \in Peer |-> 1]
OtherRg == [p \in Peer |-> IF p = Low THEN 1 ELSE 2]

ConnSymmetry == Permutations(Conn)
=============================================================================
