---------------------------- MODULE PeerLifecycle ----------------------------
(***************************************************************************)
(* What a peer of raft.go does over its life, with the goroutines, the     *)
(* RPC counters and the tester's replies abstracted away.                  *)
(*                                                                         *)
(* A fresh peer is a follower whose lock is free.  Its run goroutine       *)
(* wedges the lock (takes rf.mu for good), the timer then makes it a       *)
(* candidate, and nothing happens to it after that.  While its lock is    *)
(* free a vote request may kill the whole process.  The tester may replace *)
(* a peer by a fresh one at any time.  RaftPeer refines this module.       *)
(***************************************************************************)
CONSTANT Server

\* The roles, as in RaftPeer (FOLLOWER int = iota; CANDIDATE; LEADER).
Role == {0, 1, 2}

VARIABLES
    role,     \* rf.state of each peer
    wedged,   \* whether the peer's rf.mu is held for good
    dead      \* whether the process hosting the peers has panicked

lvars == <<role, wedged, dead>>

\* Make: every peer a follower with a free lock.
Init ==
    /\ role = [s \in Server |-> 0]
    /\ wedged = [s \in Server |-> FALSE]
    /\ dead = FALSE

\* run() takes rf.mu (line 310) in the FOLLOWER branch and keeps it.
Wedge(s) ==
    /\ ~wedged[s]
    /\ role[s] = 0
    /\ wedged' = [wedged EXCEPT ![s] = TRUE]
    /\ UNCHANGED <<role, dead>>

\* The timer fires in run() (line 340): the follower becomes a candidate.
Timeout(s) ==
    /\ wedged[s]
    /\ role[s] = 0
    /\ role' = [role EXCEPT ![s] = 1]
    /\ UNCHANGED <<wedged, dead>>

\* A RequestVote that gets rf.mu panics (line 156) and ends the process.
Panic(s) ==
    /\ ~wedged[s]
    /\ dead' = TRUE
    /\ UNCHANGED <<role, wedged>>

\* The tester replaces peer s by a fresh Make (lines 297-307).
Restart(s) ==
    /\ role' = [role EXCEPT ![s] = 0]
    /\ wedged' = [wedged EXCEPT ![s] = FALSE]
    /\ UNCHANGED dead

Next ==
    /\ ~dead
    /\ \E s \in Server : Wedge(s) \/ Timeout(s) \/ Panic(s) \/ Restart(s)

\* The run goroutine and the timer are fair; the network and tester not.
Spec ==
    /\ Init /\ [][Next]_lvars
    /\ \A s \in Server : /\ WF_lvars(~dead /\ Wedge(s))
                         /\ WF_lvars(~dead /\ Timeout(s))

-----------------------------------------------------------------------------
\* Type invariant.
LifecycleTypeOK ==
    /\ role \in [Server -> Role]
    /\ wedged \in [Server -> BOOLEAN]
    /\ dead \in BOOLEAN


\* A candidate's lock is wedged: a peer becomes a candidate only after its
\* run goroutine has taken rf.mu for good, and only a restart frees it.
CandidatesWedged == \A s \in Server : role[s] = 1 => wedged[s]

=============================================================================
