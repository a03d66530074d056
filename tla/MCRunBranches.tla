---------------------------- MODULE MCRunBranches ----------------------------
(* TLC instance of RunBranches: seven peers, the first one runs the code.  *)
EXTENDS RunBranches

CONSTANTS p1, p2, p3, p4, p5, p6, p7

MCServer == {p1, p2, p3, p4, p5, p6, p7}
=============================================================================
