------------------------- MODULE MCClientIdentity -------------------------
(* Instances of ClientIdentity for TLC.                                      *)
EXTENDS ClientIdentity, TLC

CONSTANTS p1, p2, t1, t2

OneProcess == (t1 :> p1 @@ t2 :> p1)
TwoProcesses == (t1 :> p1 @@ t2 :> p2)
=============================================================================
