----------------------------- MODULE MCAftercare -----------------------------
(* A native finding on line 20.  The first unit's defect comes before it,  *)
(* the second one's joins its cluster, the third one's follows.            *)
EXTENDS Aftercare

MCLine == [u \in Units |-> CASE u = 1 -> 10 [] u = 2 -> 22 [] OTHER -> 40]
=============================================================================
