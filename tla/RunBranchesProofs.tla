-------------------------- MODULE RunBranchesProofs --------------------------
(***************************************************************************)
(* Proofs about RunBranches, for every set of peers.                       *)
(*                                                                         *)
(* LeaderSendsNothing is not inductive: it says nothing of the lock or of  *)
(* broadcastAppendEntries.  RunKeepsLock says that once run() has started *)
(* it holds rf.mu for good, and its broadcastAppendEntries never gets past *)
(* the Lock at line 241.                                                   *)
(***************************************************************************)
EXTENDS RunBranches, TLAPS

\* Once run() has locked rf.mu it keeps it, and the broadcastAppendEntries
\* it spawned has not got it.
RunKeepsLock ==
    runPc # "absent" =>
        /\ aeParked = {}
        /\ baePc \in {"idle", "lock"}
        /\ runPc = "lock" => mu = "free" /\ baePc = "idle"
        /\ runPc \in {"branch", "relock", "done"} => mu = "run"

\* Only run() past line 310 ever holds rf.mu as "run".
RunHolder == mu = "run" => runPc \in {"branch", "relock", "done"}

\* The inductive invariant.
IInv == TypeOK /\ RunKeepsLock /\ RunHolder

LEMMA InitIInv == Init => IInv
BY DEF Init, IInv, TypeOK, RunKeepsLock, RunHolder, FOLLOWER, CANDIDATE, LEADER

LEMMA NextIInv == IInv /\ [Next]_vars => IInv'
<1> SUFFICES ASSUME IInv, [Next]_vars PROVE IInv'
  OBVIOUS
<1> USE DEF IInv
<1>1. CASE RunLock
  BY <1>1 DEF RunLock, TypeOK, RunKeepsLock, RunHolder
<1>2. CASE RunLeader
  BY <1>2 DEF RunLeader, TypeOK, RunKeepsLock, RunHolder
<1>3. CASE RunCandidate
  BY <1>3 DEF RunCandidate, TypeOK, RunKeepsLock, RunHolder
<1>4. CASE RunFollower
  BY <1>4 DEF RunFollower, TypeOK, RunKeepsLock, RunHolder, FOLLOWER, CANDIDATE, LEADER
<1>5. CASE BaeLock
  <2>1. TypeOK'
    BY <1>5 DEF BaeLock, TypeOK
  <2>2. RunKeepsLock'
    BY <1>5 DEF BaeLock, TypeOK, RunKeepsLock
  <2>3. RunHolder'
    BY <1>5 DEF BaeLock, RunHolder
  <2>4. QED
    BY <2>1, <2>2, <2>3
<1>6. CASE BaeReturn
  BY <1>6 DEF BaeReturn, TypeOK, RunKeepsLock, RunHolder
<1>7. ASSUME NEW i \in Server, BaeCall(i) PROVE IInv'
  BY <1>7 DEF BaeCall, TypeOK, RunKeepsLock, RunHolder
<1>8. ASSUME NEW i \in Server, BaeCallLost(i) PROVE IInv'
  BY <1>8 DEF BaeCallLost, TypeOK, RunKeepsLock, RunHolder
<1>9. CASE UNCHANGED vars
  BY <1>9 DEF vars, TypeOK, RunKeepsLock, RunHolder
<1>10. QED
  BY <1>1, <1>2, <1>3, <1>4, <1>5, <1>6, <1>7, <1>8, <1>9 DEF Next

\* The inductive invariant holds in every reachable state.
LEMMA Invariance == Spec => []IInv
BY InitIInv, NextIInv, PTL DEF Spec

\* Every step keeps every variable of run() and broadcastAppendEntries in
\* its type, for any set of peers.
THEOREM BranchesTypeCorrect == Spec => []TypeOK
BY Invariance, PTL DEF IInv

\* For any number of peers, a broadcastAppendEntries spawned by run()
\* never reaches a peer: run() holds rf.mu from line 310 for good.
THEOREM LeaderSilent == Spec => []LeaderSendsNothing
<1>1. IInv => LeaderSendsNothing
  BY DEF IInv, RunKeepsLock, LeaderSendsNothing
<1>2. QED
  BY <1>1, Invariance, PTL

\* For any number of peers, no step releases the rf.mu that run() took at
\* line 310: no branch of run() unlocks, and the only Unlock, that of
\* broadcastAppendEntries, needs that goroutine's own Lock first.
THEOREM LockNeverReleased == Spec => RunLockNeverReleased
<1>1. IInv /\ [Next]_vars => [mu = "run" => mu' = "run"]_vars
  <2> SUFFICES ASSUME IInv, [Next]_vars, mu = "run" PROVE mu' = "run"
    OBVIOUS
  <2>1. baePc \in {"idle", "lock"}
    BY DEF IInv, RunKeepsLock, RunHolder
  <2>2. QED
    BY <2>1 DEF Next, vars, RunLock, RunLeader, RunCandidate, RunFollower,
               BaeLock, BaeReturn, BaeCall, BaeCallLost
<1>2. QED
  BY <1>1, Invariance, PTL DEF RunLockNeverReleased, Spec

=============================================================================
