--------------------------- MODULE RaftPeerProofs ---------------------------
(***************************************************************************)
(* Proofs about RaftPeer, for every set of peers and every bound.          *)
(*                                                                         *)
(* TypeOK is inductive once the parked-handler counts are tied to the     *)
(* calls delivered (CallsAccounted).  RunOwnsLock is inductive given TypeOK:  *)
(* the only step that frees rf.mu is Restart, which also puts the run      *)
(* goroutine back before its Lock().  NoLeader records that no step of    *)
(* the code assigns LEADER.                                                *)
(***************************************************************************)
EXTENDS RaftPeer, TLAPS

\* No peer is ever a leader: no path from Make assigns LEADER.
NoLeader == \A s \in Server : state[s] # LEADER

\* Every parked handler goroutine is one of the calls delivered to the
\* peer; this bounds the parked counts by MaxCalls.
CallsAccounted == \A s \in Server : rvBlocked[s] + aeBlocked[s] <= calls[s]

\* The inductive invariant.
IInv == TypeOK /\ CallsAccounted /\ RunOwnsLock /\ NoLeader

-----------------------------------------------------------------------------
LEMMA InitIInv == Init => IInv
<1> SUFFICES ASSUME Init PROVE IInv
  OBVIOUS
<1>1. TypeOK
  <2>1. logs \in [Server -> Seq(LogEntry)]
    BY DEF Init
  <2>2. startReply \in [Server -> {NoReply} \cup
                           [index : Int, term : Int, isLeader : BOOLEAN]]
    BY DEF Init
  <2>3. stateReply \in [Server -> {NoReply} \cup
                           [term : Nat, isLeader : BOOLEAN]]
    BY DEF Init
  <2>4. /\ rvBlocked \in [Server -> 0..MaxCalls]
        /\ aeBlocked \in [Server -> 0..MaxCalls]
        /\ calls \in [Server -> 0..MaxCalls]
        /\ restarts \in 0..MaxRestarts
    BY ConstantsAssumption DEF Init
  <2>5. /\ state \in [Server -> {FOLLOWER, CANDIDATE, LEADER}]
        /\ currentTerm \in [Server -> Nat]
        /\ mu \in [Server -> {"free", "run"}]
        /\ runPc \in [Server -> {"lock", "select", "done"}]
        /\ panicked \in BOOLEAN
    BY DEF Init
  <2>6. QED
    BY <2>1, <2>2, <2>3, <2>4, <2>5 DEF TypeOK
<1>2. QED
  BY <1>1 DEF Init, IInv, CallsAccounted, RunOwnsLock, NoLeader,
              FOLLOWER, LEADER

LEMMA NextIInv == IInv /\ [Next]_vars => IInv'
<1> SUFFICES ASSUME IInv, [Next]_vars PROVE IInv'
  OBVIOUS
<1> USE ConstantsAssumption DEF IInv
<1>1. ASSUME NEW s \in Server, RunLock(s) PROVE IInv'
  <2>1. TypeOK'
    <3>1. mu' \in [Server -> {"free", "run"}]
      BY <1>1 DEF RunLock, TypeOK
    <3>2. runPc' \in [Server -> {"lock", "select", "done"}]
      BY <1>1 DEF RunLock, TypeOK
    <3>3. QED
      BY <1>1, <3>1, <3>2 DEF RunLock, TypeOK
  <2>2. RunOwnsLock'
    BY <1>1 DEF RunLock, TypeOK, RunOwnsLock
  <2>3. CallsAccounted' /\ NoLeader'
    BY <1>1 DEF RunLock, CallsAccounted, NoLeader
  <2>4. QED
    BY <2>1, <2>2, <2>3
<1>2. ASSUME NEW s \in Server, RunTimeout(s) PROVE IInv'
  <2>1. TypeOK'
    BY <1>2 DEF RunTimeout, TypeOK, CANDIDATE, FOLLOWER, LEADER
  <2>2. RunOwnsLock'
    BY <1>2 DEF RunTimeout, TypeOK, RunOwnsLock
  <2>3. NoLeader'
    BY <1>2 DEF RunTimeout, TypeOK, NoLeader, CANDIDATE, LEADER
  <2>4. QED
    BY <1>2, <2>1, <2>2, <2>3 DEF RunTimeout, CallsAccounted
<1>3. ASSUME NEW s \in Server, RequestVoteRun(s) PROVE IInv'
  <2>1. calls' \in [Server -> 0..MaxCalls]
    BY <1>3 DEF RequestVoteRun, RequestVoteArgs, TypeOK
  <2>2. panicked' \in BOOLEAN
    BY <1>3 DEF RequestVoteRun
  <2>3. TypeOK'
    BY <1>3, <2>1, <2>2 DEF RequestVoteRun, RequestVoteArgs, TypeOK, peerVars
  <2>4. CallsAccounted'
    <3>1. /\ calls' = [calls EXCEPT ![s] = @ + 1]
          /\ rvBlocked' = rvBlocked /\ aeBlocked' = aeBlocked
      BY <1>3 DEF RequestVoteRun
    <3>2. \A t \in Server : calls'[t] \in Nat /\ calls'[t] >= calls[t]
      BY <3>1 DEF TypeOK
    <3>3. ASSUME NEW t \in Server
          PROVE rvBlocked'[t] + aeBlocked'[t] <= calls'[t]
      <4>1. rvBlocked[t] + aeBlocked[t] <= calls[t]
        BY DEF CallsAccounted
      <4>2. rvBlocked[t] \in Nat /\ aeBlocked[t] \in Nat /\ calls[t] \in Nat
        BY DEF TypeOK
      <4>3. QED
        BY <3>1, <3>2, <4>1, <4>2
    <3>4. QED
      BY <3>3 DEF CallsAccounted
  <2>5. QED
    BY <1>3, <2>3, <2>4 DEF RequestVoteRun, RequestVoteArgs, RunOwnsLock, NoLeader, peerVars
<1>4. ASSUME NEW s \in Server, RequestVoteBlock(s) PROVE IInv'
  <2>1. calls' \in [Server -> 0..MaxCalls]
    BY <1>4 DEF RequestVoteBlock, TypeOK
  <2>2. rvBlocked' \in [Server -> 0..MaxCalls]
    BY <1>4 DEF RequestVoteBlock, TypeOK, CallsAccounted
  <2>3. TypeOK'
    BY <1>4, <2>1, <2>2 DEF RequestVoteBlock, TypeOK, peerVars
  <2>4. CallsAccounted'
    BY <1>4 DEF RequestVoteBlock, TypeOK, CallsAccounted
  <2>5. QED
    BY <1>4, <2>3, <2>4 DEF RequestVoteBlock, RunOwnsLock, NoLeader, peerVars
<1>5. ASSUME NEW s \in Server, AppendEntries(s) PROVE IInv'
  <2>1. calls' \in [Server -> 0..MaxCalls]
    BY <1>5 DEF AppendEntries, TypeOK
  <2>2. aeBlocked' \in [Server -> 0..MaxCalls]
    BY <1>5 DEF AppendEntries, TypeOK, CallsAccounted
  <2>3. TypeOK'
    BY <1>5, <2>1, <2>2 DEF AppendEntries, TypeOK, peerVars
  <2>4. CallsAccounted'
    BY <1>5 DEF AppendEntries, TypeOK, CallsAccounted
  <2>5. QED
    BY <1>5, <2>3, <2>4 DEF AppendEntries, RunOwnsLock, NoLeader, peerVars
<1>6. ASSUME NEW s \in Server, GetState(s) PROVE IInv'
  BY <1>6 DEF GetState, TypeOK, CallsAccounted, RunOwnsLock, NoLeader,
              peerVars
<1>7. ASSUME NEW s \in Server, Start(s) PROVE IInv'
  <2>1. startReply' \in [Server -> {NoReply} \cup
                           [index : Int, term : Int, isLeader : BOOLEAN]]
    <3>1. [index |-> -1, term |-> -1, isLeader |-> TRUE]
            \in [index : Int, term : Int, isLeader : BOOLEAN]
      OBVIOUS
    <3>2. QED
      BY <1>7, <3>1 DEF Start, TypeOK
  <2>2. QED
    BY <1>7, <2>1 DEF Start, TypeOK, CallsAccounted, RunOwnsLock, NoLeader,
                      peerVars
<1>8. ASSUME NEW s \in Server, Restart(s) PROVE IInv'
  <2>1. TypeOK'
    BY <1>8 DEF Restart, TypeOK, FOLLOWER, CANDIDATE, LEADER
  <2>2. CallsAccounted'
    BY <1>8 DEF Restart, CallsAccounted
  <2>3. RunOwnsLock'
    BY <1>8 DEF Restart, TypeOK, RunOwnsLock
  <2>4. NoLeader'
    BY <1>8 DEF Restart, TypeOK, NoLeader, FOLLOWER, LEADER
  <2>5. QED
    BY <2>1, <2>2, <2>3, <2>4
<1>9. CASE UNCHANGED vars
  BY <1>9 DEF vars, TypeOK, CallsAccounted, RunOwnsLock, NoLeader
<1>10. QED
  BY <1>1, <1>2, <1>3, <1>4, <1>5, <1>6, <1>7, <1>8, <1>9 DEF Next

\* The inductive invariant holds in every reachable state.
LEMMA Invariance == Spec => []IInv
BY InitIInv, NextIInv, PTL DEF Spec

\* Every step of the code keeps every variable in its type.
THEOREM TypeCorrect == Spec => []TypeOK
BY Invariance, PTL DEF IInv

\* run() holds rf.mu from line 310 for the rest of the instance's life,
\* for any number of peers, calls and restarts.
THEOREM LockLeak == Spec => []RunOwnsLock
BY Invariance, PTL DEF IInv

-----------------------------------------------------------------------------
(* Refinement of PeerLifecycle, safety part.  The step of run() that times *)
(* out maps to Timeout only if the run goroutine in its select is still a  *)
(* follower: PcState ties the run goroutine's place to the peer's role.    *)

\* A run goroutine before or in its select belongs to a follower, one that
\* has returned to a candidate.
PcState ==
    \A s \in Server :
        /\ runPc[s] \in {"lock", "select"} => state[s] = FOLLOWER
        /\ runPc[s] = "done" => state[s] = CANDIDATE

LEMMA PcStateStep == IInv /\ PcState /\ [Next]_vars => PcState'
<1> SUFFICES ASSUME IInv, PcState, [Next]_vars PROVE PcState'
  OBVIOUS
<1> USE DEF IInv, TypeOK
<1>1. ASSUME NEW s \in Server, RunLock(s) PROVE PcState'
  BY <1>1 DEF RunLock, PcState
<1>2. ASSUME NEW s \in Server, RunTimeout(s) PROVE PcState'
  BY <1>2 DEF RunTimeout, PcState
<1>3. ASSUME NEW s \in Server, Restart(s) PROVE PcState'
  BY <1>3 DEF Restart, PcState
<1>4. ASSUME NEW s \in Server,
             \/ RequestVoteRun(s) \/ RequestVoteBlock(s) \/ AppendEntries(s)
             \/ GetState(s) \/ Start(s)
      PROVE PcState'
  BY <1>4 DEF RequestVoteRun, RequestVoteBlock, AppendEntries, GetState,
              Start, peerVars, PcState
<1>5. CASE UNCHANGED vars
  BY <1>5 DEF vars, PcState
<1>6. QED
  BY <1>1, <1>2, <1>3, <1>4, <1>5 DEF Next

\* IInv and PcState hold together in every reachable state.
LEMMA PcInvariance == Spec => [](IInv /\ PcState)
<1>1. Init => PcState
  BY DEF Init, PcState, FOLLOWER
<1>2. QED
  BY <1>1, InitIInv, NextIInv, PcStateStep, PTL DEF Spec

\* For any peers and bounds, rf.state changes only when the run goroutine,
\* holding rf.mu, turns a follower into a candidate, or on a restart.
THEOREM RoleChangeLocked == Spec => RoleChangesUnderLock
<1>1. IInv /\ PcState /\ [Next]_vars =>
        [\A s \in Server :
            state'[s] # state[s] =>
                \/ /\ state[s] = FOLLOWER
                   /\ state'[s] = CANDIDATE
                   /\ mu[s] = "run"
                \/ restarts' = restarts + 1]_vars
  <2> SUFFICES ASSUME IInv, PcState, [Next]_vars,
                      NEW s \in Server, state'[s] # state[s]
               PROVE \/ /\ state[s] = FOLLOWER
                        /\ state'[s] = CANDIDATE
                        /\ mu[s] = "run"
                     \/ restarts' = restarts + 1
    OBVIOUS
  <2> USE DEF IInv, TypeOK
  <2>1. ASSUME NEW t \in Server, RunTimeout(t) PROVE FALSE \/ t = s
    BY <2>1 DEF RunTimeout
  <2>2. ASSUME RunTimeout(s)
        PROVE /\ state[s] = FOLLOWER
              /\ state'[s] = CANDIDATE
              /\ mu[s] = "run"
    <3>1. runPc[s] = "select"
      BY <2>2 DEF RunTimeout
    <3>2. state[s] = FOLLOWER
      BY <3>1 DEF PcState
    <3>3. mu[s] = "run"
      BY <3>1 DEF RunOwnsLock
    <3>4. QED
      BY <2>2, <3>2, <3>3 DEF RunTimeout
  <2>3. ASSUME NEW t \in Server, Restart(t) PROVE restarts' = restarts + 1
    BY <2>3 DEF Restart
  <2>4. ASSUME NEW t \in Server,
               \/ RunLock(t) \/ RequestVoteRun(t) \/ RequestVoteBlock(t)
               \/ AppendEntries(t) \/ GetState(t) \/ Start(t)
        PROVE FALSE
    BY <2>4 DEF RunLock, RequestVoteRun, RequestVoteBlock, AppendEntries,
                GetState, Start, peerVars
  <2>5. ~UNCHANGED vars
    BY DEF vars
  <2>6. QED
    BY <2>1, <2>2, <2>3, <2>4, <2>5 DEF Next
<1>2. QED
  BY <1>1, PcInvariance, PTL DEF Spec, RoleChangesUnderLock

\* The safety part of RefinesLifecycle: Make maps to the abstract initial
\* state and every step of the code to an abstract step or a stutter.
LifecycleSafety == Lifecycle!Init /\ [][Lifecycle!Next]_(Lifecycle!lvars)

LEMMA LifecycleStep ==
    IInv /\ PcState /\ [Next]_vars => [Lifecycle!Next]_(Lifecycle!lvars)
<1> SUFFICES ASSUME IInv, PcState, [Next]_vars
             PROVE [Lifecycle!Next]_(Lifecycle!lvars)
  OBVIOUS
<1> USE DEF IInv, TypeOK
<1>1. ASSUME NEW s \in Server, ~panicked, RunLock(s)
      PROVE Lifecycle!Wedge(s) /\ ~panicked
  BY <1>1 DEF RunLock, Lifecycle!Wedge, FOLLOWER
<1>2. ASSUME NEW s \in Server, ~panicked, RunTimeout(s)
      PROVE Lifecycle!Timeout(s) /\ ~panicked
  <2>1. runPc[s] = "select"
    BY <1>2 DEF RunTimeout
  <2>2. mu[s] = "run"
    BY <2>1 DEF RunOwnsLock
  <2>3. state[s] = FOLLOWER
    <3>1. runPc[s] \in {"lock", "select"}
      BY <2>1
    <3>2. QED
      BY <3>1 DEF PcState
  <2>4. QED
    BY <1>2, <2>2, <2>3 DEF RunTimeout, Lifecycle!Timeout, FOLLOWER, CANDIDATE
<1>3. ASSUME NEW s \in Server, ~panicked, Restart(s)
      PROVE Lifecycle!Restart(s) /\ ~panicked
  BY <1>3 DEF Restart, Lifecycle!Restart, FOLLOWER
<1>4. ASSUME NEW s \in Server, ~panicked, RequestVoteRun(s)
      PROVE [Lifecycle!Next]_(Lifecycle!lvars)
  <2>1. CASE panicked'
    <3>1. Lifecycle!Panic(s)
      BY <1>4, <2>1 DEF RequestVoteRun, peerVars, Lifecycle!Panic
    <3>2. QED
      BY <1>4, <3>1 DEF Lifecycle!Next
  <2>2. CASE ~panicked'
    BY <1>4, <2>2 DEF RequestVoteRun, peerVars, Lifecycle!lvars
  <2>3. QED
    BY <2>1, <2>2
<1>5. ASSUME NEW s \in Server,
             \/ RequestVoteBlock(s) \/ AppendEntries(s)
             \/ GetState(s) \/ Start(s)
      PROVE UNCHANGED Lifecycle!lvars
  BY <1>5 DEF RequestVoteBlock, AppendEntries, GetState, Start, peerVars,
              Lifecycle!lvars
<1>6. CASE UNCHANGED vars
  BY <1>6 DEF vars, Lifecycle!lvars
<1>7. QED
  BY <1>1, <1>2, <1>3, <1>4, <1>5, <1>6 DEF Next, Lifecycle!Next, Lifecycle!lvars

\* RaftPeer implements the safety part of PeerLifecycle for every set of
\* peers and every bound: the code's peers only ever wedge, time out,
\* panic or restart, in the abstract order.
THEOREM ImplementsLifecycle == Spec => LifecycleSafety
<1>1. Init => Lifecycle!Init
  BY DEF Init, Lifecycle!Init, FOLLOWER
<1>2. QED
  BY <1>1, PcInvariance, LifecycleStep, PTL DEF Spec, LifecycleSafety

-----------------------------------------------------------------------------
(* An invariant proved of the abstract lifecycle and carried down to the  *)
(* code by the refinement: a candidate's lock is wedged.                   *)

\* The inductive invariant of PeerLifecycle's safety part.
AbsInv == Lifecycle!LifecycleTypeOK /\ Lifecycle!CandidatesWedged

LEMMA AbsInvStep ==
    AbsInv /\ [Lifecycle!Next]_(Lifecycle!lvars) => AbsInv'
<1> SUFFICES ASSUME AbsInv, [Lifecycle!Next]_(Lifecycle!lvars) PROVE AbsInv'
  OBVIOUS
<1> USE DEF AbsInv, Lifecycle!LifecycleTypeOK, Lifecycle!CandidatesWedged,
            Lifecycle!Role
<1>1. ASSUME NEW s \in Server, Lifecycle!Wedge(s) PROVE AbsInv'
  BY <1>1 DEF Lifecycle!Wedge
<1>2. ASSUME NEW s \in Server, Lifecycle!Timeout(s) PROVE AbsInv'
  BY <1>2 DEF Lifecycle!Timeout
<1>3. ASSUME NEW s \in Server, Lifecycle!Panic(s) PROVE AbsInv'
  BY <1>3 DEF Lifecycle!Panic
<1>4. ASSUME NEW s \in Server, Lifecycle!Restart(s) PROVE AbsInv'
  <2>1. \A u \in Server : (mu'[u] = "run") = (u # s /\ mu[u] = "run")
    <3>1. [u \in Server |-> mu'[u] = "run"]
            = [[u \in Server |-> mu[u] = "run"] EXCEPT ![s] = FALSE]
      BY <1>4 DEF Lifecycle!Restart
    <3>2. QED
      BY <3>1, Zenon
  <2>2. state' = [state EXCEPT ![s] = 0] /\ UNCHANGED panicked
    BY <1>4 DEF Lifecycle!Restart
  <2>3. QED
    BY <2>1, <2>2
<1>5. CASE UNCHANGED Lifecycle!lvars
  BY <1>5 DEF Lifecycle!lvars
<1>6. QED
  BY <1>1, <1>2, <1>3, <1>4, <1>5 DEF Lifecycle!Next

\* In every behaviour of PeerLifecycle's safety part, candidates are wedged.
LEMMA LifecycleWedged == LifecycleSafety => []Lifecycle!CandidatesWedged
<1>1. Lifecycle!Init => AbsInv
  <2> SUFFICES ASSUME Lifecycle!Init PROVE AbsInv
    OBVIOUS
  <2>1. state = [u \in Server |-> 0] /\ panicked = FALSE
    BY DEF Lifecycle!Init
  <2>2. state \in [Server -> Lifecycle!Role]
    BY <2>1 DEF Lifecycle!Role
  <2>3. [u \in Server |-> mu[u] = "run"] \in [Server -> BOOLEAN]
    OBVIOUS
  <2>4. Lifecycle!CandidatesWedged
    BY <2>1 DEF Lifecycle!CandidatesWedged
  <2>5. QED
    BY <2>1, <2>2, <2>3, <2>4 DEF AbsInv, Lifecycle!LifecycleTypeOK
<1>2. QED
  BY <1>1, AbsInvStep, PTL DEF LifecycleSafety, AbsInv

\* For any peers and bounds, every candidate's rf.mu is held by its run
\* goroutine, so no vote request is ever answered by a candidate.  The
\* argument is the abstract one: a peer times out only once wedged, and
\* only a restart, which makes it a follower again, unwedges it.
THEOREM CandidateLocked == Spec => []CandidateHoldsLock
<1>1. Lifecycle!CandidatesWedged => CandidateHoldsLock
  BY DEF Lifecycle!CandidatesWedged, CandidateHoldsLock, CANDIDATE
<1>2. QED
  BY <1>1, ImplementsLifecycle, LifecycleWedged, PTL

=============================================================================
