----------------------------- MODULE RunBranches -----------------------------
(***************************************************************************)
(* run() (lines 309-343) of one peer at unit level, entered in each role   *)
(* it can read at line 311, and broadcastAppendEntries (240-252), both     *)
(* as spawned by the LEADER branch and as entered with rf.mu free.         *)
(*                                                                         *)
(* From Make, run() only ever reads FOLLOWER (RaftPeer).  The other two    *)
(* branches are what the code would do for a peer found in CANDIDATE or   *)
(* LEADER; broadcastAppendEntries with rf.mu free is what it would do if   *)
(* any caller released the lock.  The peers it calls run AppendEntries,    *)
(* which parks on the nil heartBeatCh (line 171) and never returns, so a   *)
(* delivered Call never returns either (labrpc, lines 184-186).            *)
(***************************************************************************)
EXTENDS Naturals, FiniteSets

CONSTANTS
    Server,   \* the peers in rf.peers (model values)
    Me        \* rf.me

ASSUME BranchesAssumption == Me \in Server

\* The role constants (FOLLOWER int = iota; CANDIDATE; LEADER).
FOLLOWER == 0
CANDIDATE == 1
LEADER == 2

VARIABLES
    state,        \* rf.state
    currentTerm,  \* rf.currentTerm
    mu,           \* rf.mu: "free", or held by "run" or by "bae"
    runPc,        \* where run() is ("absent" when it was not started)
    baePc,        \* where broadcastAppendEntries is
    todo,         \* the peers its loop has still to call
    aeParked      \* peers whose AppendEntries handler is parked for good

vars == <<state, currentTerm, mu, runPc, baePc, todo, aeParked>>

\* The two entries: run() started on a peer in any role, or
\* broadcastAppendEntries called on a leader with rf.mu free.
Init ==
    /\ currentTerm = 0
    /\ mu = "free"
    /\ todo = {}
    /\ aeParked = {}
    /\ \/ /\ state \in {FOLLOWER, CANDIDATE, LEADER}
          /\ runPc = "lock"
          /\ baePc = "idle"
       \/ /\ state = LEADER
          /\ runPc = "absent"
          /\ baePc = "lock"

\* Lines 310-312: lock rf.mu and read rf.state.
RunLock ==
    /\ runPc = "lock"
    /\ mu = "free"
    /\ mu' = "run"
    /\ runPc' = "branch"
    /\ UNCHANGED <<state, currentTerm, baePc, todo, aeParked>>

\* Mutant of RunLeader: run() releasing rf.mu as it returns.
RunLeaderUnlocks ==
    /\ runPc = "branch"
    /\ state = LEADER
    /\ runPc' = "done"
    /\ baePc' = "lock"
    /\ mu' = "free"
    /\ UNCHANGED <<state, currentTerm, todo, aeParked>>

\* Lines 313-314: the LEADER branch spawns broadcastAppendEntries and
\* run() returns, still holding rf.mu.
RunLeader ==
    /\ runPc = "branch"
    /\ state = LEADER
    /\ runPc' = "done"
    /\ baePc' = "lock"
    /\ UNCHANGED <<state, currentTerm, mu, todo, aeParked>>

\* Mutant of RunCandidate: reentrant, and `-=` for `+=` at line 318.
RunCandidateDecrements ==
    /\ runPc = "branch"
    /\ state = CANDIDATE
    /\ currentTerm' = currentTerm - 1
    /\ runPc' = "done"
    /\ UNCHANGED <<state, mu, baePc, todo, aeParked>>

\* Lines 316-317: the CANDIDATE branch calls rf.mu.Lock() again.
\* sync.Mutex is not reentrant and run() holds rf.mu since line 310, so
\* this Lock never returns: run() parks at "relock" for good and lines
\* 318-336 (term increment, broadcastRequestVote, select) never run.
RunCandidate ==
    /\ runPc = "branch"
    /\ state = CANDIDATE
    /\ runPc' = "relock"
    /\ UNCHANGED <<state, currentTerm, mu, baePc, todo, aeParked>>

\* Lines 337-342: the FOLLOWER branch; the timer fires and sets CANDIDATE.
RunFollower ==
    /\ runPc = "branch"
    /\ state = FOLLOWER
    /\ state' = CANDIDATE
    /\ runPc' = "done"
    /\ UNCHANGED <<currentTerm, mu, baePc, todo, aeParked>>

\* Lines 241-244: lock rf.mu and start the loop over every peer but me.
BaeLock ==
    /\ baePc = "lock"
    /\ mu = "free"
    /\ mu' = "bae"
    /\ baePc' = "loop"
    /\ todo' = Server \ {Me}
    /\ UNCHANGED <<state, currentTerm, runPc, aeParked>>

\* Line 249 with sendAppendEntries (211-214): the request reaches peer i,
\* whose handler parks on the nil heartBeatCh; Call never returns, and
\* the loop stays in it with rf.mu held.
BaeCall(i) ==
    /\ baePc = "loop"
    /\ i \in todo
    /\ aeParked' = aeParked \cup {i}
    /\ baePc' = "call"
    /\ UNCHANGED <<state, currentTerm, mu, runPc, todo>>

\* Line 249: labrpc loses the request and Call returns false; the loop
\* goes on to the next peer (the result is ignored).
BaeCallLost(i) ==
    /\ baePc = "loop"
    /\ i \in todo
    /\ todo' = todo \ {i}
    /\ UNCHANGED <<state, currentTerm, mu, runPc, baePc, aeParked>>

\* Line 251: the loop is done; the deferred Unlock frees rf.mu.
BaeReturn ==
    /\ baePc = "loop"
    /\ todo = {}
    /\ mu' = "free"
    /\ baePc' = "done"
    /\ UNCHANGED <<state, currentTerm, runPc, todo, aeParked>>

Next ==
    \/ RunLock \/ RunLeader \/ RunCandidate \/ RunFollower
    \/ BaeLock \/ BaeReturn
    \/ \E i \in Server : BaeCall(i) \/ BaeCallLost(i)

\* Both goroutines run whenever they can; Go timers fire.  Losing a
\* request is the network's choice and is not fair.
Fairness ==
    /\ WF_vars(RunLock) /\ WF_vars(RunLeader) /\ WF_vars(RunCandidate)
    /\ WF_vars(RunFollower) /\ WF_vars(BaeLock) /\ WF_vars(BaeReturn)
    /\ WF_vars(\E i \in Server : BaeCall(i))

Spec == Init /\ [][Next]_vars /\ Fairness

-----------------------------------------------------------------------------
(* Properties.                                                             *)

\* Type invariant.
TypeOK ==
    /\ state \in {FOLLOWER, CANDIDATE, LEADER}
    /\ currentTerm \in Nat
    /\ mu \in {"free", "run", "bae"}
    /\ runPc \in {"absent", "lock", "branch", "relock", "done"}
    /\ baePc \in {"idle", "lock", "loop", "call", "done"}
    /\ todo \subseteq Server
    /\ aeParked \subseteq Server

\* A leader's run() never gets a heartbeat out: the broadcastAppendEntries
\* it spawns waits on the rf.mu that run() kept (line 241), so no peer
\* ever receives an AppendEntries from it.
LeaderSendsNothing == runPc # "absent" => aeParked = {}

\* The lock leak of line 310 in every branch: no step ever releases the
\* rf.mu that run() took, whether run() returns (LEADER, FOLLOWER) or
\* waits on itself (CANDIDATE, line 317).
RunLockNeverReleased == [][mu = "run" => mu' = "run"]_vars

\* Spec section 5: no activity holds the lock across a network call.
\* broadcastAppendEntries calls sendAppendEntries with rf.mu held.
NoLockAcrossCall == ~(baePc = "call" /\ mu = "bae")

\* Spec section 4 (on election timeout a peer increments currentTerm and
\* solicits votes): a run() whose switch at line 311 reads CANDIDATE
\* eventually starts a new term (line 318).  The Lock at line 317, taken
\* while run() holds rf.mu since line 310, never returns.
CandidateCampaigns ==
    (runPc = "branch" /\ state = CANDIDATE) ~> currentTerm > 0

=============================================================================
