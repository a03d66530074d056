----------------------------- MODULE MCRaftPeer -----------------------------
(* Model-checking instance of RaftPeer: three peers; each cfg sets the   *)
(* bounds on RPC calls and tester restarts.                                *)
EXTENDS RaftPeer, TLC

CONSTANTS s1, s2, s3

MCServer == {s1, s2, s3}

\* Peers are interchangeable for the safety properties.
MCSymmetry == Permutations(MCServer)

=============================================================================
