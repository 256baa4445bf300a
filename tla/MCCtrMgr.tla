------------------------------ MODULE MCCtrMgr ------------------------------
(* Instances of CtrMgr for TLC: the versions of the local image and of the  *)
(* containers that Kubernetes may deploy.                                   *)
EXTENDS CtrMgr

OnePod == <<1, 2>>
TwoPods == <<1, 2, 3>>
=============================================================================
