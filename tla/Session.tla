------------------------------ MODULE Session ------------------------------
(***************************************************************************)
(* What an ICCP session promises the protocols above it, as MlacpSync and  *)
(* MacSync use it: a session has two ends; it begins only when neither     *)
(* switch is in one, and an end that has left never comes back to a peer   *)
(* that has not.  What a switch knows from its peer is therefore what the  *)
(* peer said in this session.  IccpSession is shown to implement it.       *)
(***************************************************************************)
CONSTANT Peer

VARIABLE joined  \* the ends that are in the session

Init == joined = [p \in Peer |-> FALSE]

(* A session begins; an end that has gone again at once counts as left. *)
Join(S) ==
    /\ \A p \in Peer : ~joined[p]
    /\ joined' = [p \in Peer |-> p \in S]

(* Some ends leave it. *)
Leave(S) ==
    /\ \E p \in S : joined[p]
    /\ joined' = [p \in Peer |-> joined[p] /\ p \notin S]

Next == \E S \in SUBSET Peer : Join(S) \/ Leave(S)

Spec == Init /\ [][Next]_joined
=============================================================================
