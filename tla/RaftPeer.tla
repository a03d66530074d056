------------------------------ MODULE RaftPeer ------------------------------
(***************************************************************************)
(* The Raft peers of src/P3/src/github.com/cmu440/raft/raft.go as the code *)
(* is written, at the level of its goroutines and its mutex.               *)
(*                                                                         *)
(* Each peer is created by Make, which starts one goroutine running run(). *)
(* run() takes rf.mu, switches on rf.state (always FOLLOWER at that        *)
(* point), waits for the election timer, sets CANDIDATE and returns        *)
(* without releasing rf.mu.  The CANDIDATE and LEADER branches of run()    *)
(* and everything they call are never reached from Make.                   *)
(*                                                                         *)
(* The RPC handlers RequestVote and AppendEntries are the peer's external  *)
(* surface: the network may deliver a call to them at any time.  The       *)
(* tester calls Start and GetState, and may crash a peer and Make a fresh  *)
(* one in its place.  A Go panic in any goroutine ends the process that    *)
(* hosts all the peers (labrpc runs them in one process).                  *)
(***************************************************************************)
EXTENDS Naturals, Integers, Sequences, FiniteSets

CONSTANTS
    Server,       \* the peers (model values)
    MaxCalls,     \* bound on the RPC calls delivered to each peer
    MaxRestarts   \* bound on tester crash/restart steps

ASSUME ConstantsAssumption ==
    /\ Server # {}
    /\ MaxCalls \in Nat
    /\ MaxRestarts \in Nat

\* The role constants (FOLLOWER int = iota; CANDIDATE; LEADER).
FOLLOWER == 0
CANDIDATE == 1
LEADER == 2

\* A log entry, with the opaque value abstracted away.
LogEntry == [index : Nat, term : Nat]

\* The tester's record of a peer it has not yet called.
NoReply == [none |-> TRUE]

VARIABLES
    state,        \* rf.state
    currentTerm,  \* rf.currentTerm
    logs,         \* rf.logs
    mu,           \* rf.mu: "free", or held by the run goroutine ("run")
    runPc,        \* where the run goroutine of the current instance is
    rvBlocked,    \* RequestVote handler goroutines parked on rf.mu.Lock()
    aeBlocked,    \* AppendEntries handler goroutines parked on heartBeatCh
    calls,        \* RPC calls delivered to the peer so far (bounded)
    restarts,     \* tester restarts so far (bounded)
    panicked,     \* a goroutine has panicked: the process is gone
    startReply,   \* last value returned to the tester by Start
    stateReply    \* last value returned to the tester by GetState

peerVars == <<state, currentTerm, logs, mu, runPc>>
vars == <<state, currentTerm, logs, mu, runPc, rvBlocked, aeBlocked,
          calls, restarts, panicked, startReply, stateReply>>

-----------------------------------------------------------------------------
\* Make(peers, me, applyCh): a fresh Raft object with Go zero values,
\* state FOLLOWER, and the goroutine `go rf.run()` about to take rf.mu.
\* rf.logs is never initialised, so it is the empty (nil) slice.
Init ==
    /\ state = [s \in Server |-> FOLLOWER]
    /\ currentTerm = [s \in Server |-> 0]
    /\ logs = [s \in Server |-> <<>>]
    /\ mu = [s \in Server |-> "free"]
    /\ runPc = [s \in Server |-> "lock"]
    /\ rvBlocked = [s \in Server |-> 0]
    /\ aeBlocked = [s \in Server |-> 0]
    /\ calls = [s \in Server |-> 0]
    /\ restarts = 0
    /\ panicked = FALSE
    /\ startReply = [s \in Server |-> NoReply]
    /\ stateReply = [s \in Server |-> NoReply]

\* Mutant of RunLock: run() that never calls rf.mu.Lock().
RunLockNoAcquire(s) ==
    /\ runPc[s] = "lock"
    /\ state[s] = FOLLOWER
    /\ runPc' = [runPc EXCEPT ![s] = "select"]
    /\ UNCHANGED <<state, currentTerm, logs, mu, rvBlocked, aeBlocked, calls,
                   restarts, panicked, startReply, stateReply>>

\* run(), lines 310-312 and 337-338: take rf.mu, read rf.state and, in the
\* FOLLOWER branch, block in the select on the election timer.
RunLock(s) ==
    /\ runPc[s] = "lock"
    /\ mu[s] = "free"
    /\ state[s] = FOLLOWER
    /\ mu' = [mu EXCEPT ![s] = "run"]
    /\ runPc' = [runPc EXCEPT ![s] = "select"]
    /\ UNCHANGED <<state, currentTerm, logs, rvBlocked, aeBlocked, calls,
                   restarts, panicked, startReply, stateReply>>

\* Mutants of RunTimeout used to test the properties: run() releasing
\* rf.mu on return, and dropping the state assignment.
RunTimeoutUnlocks(s) ==
    /\ runPc[s] = "select"
    /\ state' = [state EXCEPT ![s] = CANDIDATE]
    /\ runPc' = [runPc EXCEPT ![s] = "done"]
    /\ mu' = [mu EXCEPT ![s] = "free"]
    /\ UNCHANGED <<currentTerm, logs, rvBlocked, aeBlocked, calls,
                   restarts, panicked, startReply, stateReply>>
RunTimeoutNoAssign(s) ==
    /\ runPc[s] = "select"
    /\ runPc' = [runPc EXCEPT ![s] = "done"]
    /\ UNCHANGED <<state, currentTerm, logs, mu, rvBlocked, aeBlocked, calls,
                   restarts, panicked, startReply, stateReply>>

\* run(), lines 339-343: the timer fires, rf.state = CANDIDATE, and run()
\* returns.  No statement of run() releases rf.mu.
RunTimeout(s) ==
    /\ runPc[s] = "select"
    /\ state' = [state EXCEPT ![s] = CANDIDATE]
    /\ runPc' = [runPc EXCEPT ![s] = "done"]
    /\ UNCHANGED <<currentTerm, logs, mu, rvBlocked, aeBlocked, calls,
                   restarts, panicked, startReply, stateReply>>

\* The vote request a peer c sends carries c's current term.
RequestVoteArgs(c) == [term |-> currentTerm[c], candidateId |-> c]

\* RequestVote, lines 150-158 with rf.mu free: the handler takes the lock;
\* unless its own term is larger it evaluates rf.logs[len(rf.logs)-1],
\* which on an empty log is an index-out-of-range panic.  Otherwise it
\* replies and the deferred Unlock frees rf.mu again.
RequestVoteRun(s) ==
    /\ calls[s] < MaxCalls
    /\ mu[s] = "free"
    /\ \E c \in Server \ {s} :
          LET args == RequestVoteArgs(c) IN
          panicked' = (~(currentTerm[s] > args.term) /\ logs[s] = <<>>)
    /\ calls' = [calls EXCEPT ![s] = @ + 1]
    /\ UNCHANGED <<peerVars, rvBlocked, aeBlocked, restarts, startReply,
                   stateReply>>

\* RequestVote, line 150 with rf.mu held: the handler goroutine blocks.
RequestVoteBlock(s) ==
    /\ calls[s] < MaxCalls
    /\ mu[s] # "free"
    /\ rvBlocked' = [rvBlocked EXCEPT ![s] = @ + 1]
    /\ calls' = [calls EXCEPT ![s] = @ + 1]
    /\ UNCHANGED <<peerVars, aeBlocked, restarts, panicked, startReply,
                   stateReply>>

\* AppendEntries, line 171: rf.heartBeatCh is never made, so the send
\* blocks the handler goroutine forever (it holds no lock).
AppendEntries(s) ==
    /\ calls[s] < MaxCalls
    /\ aeBlocked' = [aeBlocked EXCEPT ![s] = @ + 1]
    /\ calls' = [calls EXCEPT ![s] = @ + 1]
    /\ UNCHANGED <<peerVars, rvBlocked, restarts, panicked, startReply,
                   stateReply>>

\* Mutant of GetState: an off-by-one in the reported term.
GetStateOffByOne(s) ==
    /\ stateReply' = [stateReply EXCEPT ![s] =
                        [term |-> currentTerm[s] - 1, isLeader |-> state[s] = LEADER]]
    /\ UNCHANGED <<peerVars, rvBlocked, aeBlocked, calls, restarts, panicked,
                   startReply>>

\* GetState, lines 92-101: reads rf.currentTerm and rf.state without rf.mu.
GetState(s) ==
    /\ stateReply' = [stateReply EXCEPT ![s] =
                        [term |-> currentTerm[s], isLeader |-> state[s] = LEADER]]
    /\ UNCHANGED <<peerVars, rvBlocked, aeBlocked, calls, restarts, panicked,
                   startReply>>

\* Start, lines 267-276: returns (-1, -1, true) on every peer.
Start(s) ==
    /\ startReply' = [startReply EXCEPT ![s] =
                        [index |-> -1, term |-> -1, isLeader |-> TRUE]]
    /\ UNCHANGED <<peerVars, rvBlocked, aeBlocked, calls, restarts, panicked,
                   stateReply>>

\* Mutant of Restart: the fresh object keeps the old role.
RestartKeepsRole(s) ==
    /\ restarts < MaxRestarts
    /\ restarts' = restarts + 1
    /\ currentTerm' = [currentTerm EXCEPT ![s] = 0]
    /\ logs' = [logs EXCEPT ![s] = <<>>]
    /\ mu' = [mu EXCEPT ![s] = "free"]
    /\ runPc' = [runPc EXCEPT ![s] = "lock"]
    /\ UNCHANGED <<state, rvBlocked, aeBlocked, calls, panicked, startReply,
                   stateReply>>

\* The tester crashes peer s and calls Make again (lines 297-307): a fresh
\* object in FOLLOWER with term 0, an empty log and a free lock (there is
\* no persister to reload anything from).  The goroutines of the old
\* object stay parked where they were.
Restart(s) ==
    /\ restarts < MaxRestarts
    /\ restarts' = restarts + 1
    /\ state' = [state EXCEPT ![s] = FOLLOWER]
    /\ currentTerm' = [currentTerm EXCEPT ![s] = 0]
    /\ logs' = [logs EXCEPT ![s] = <<>>]
    /\ mu' = [mu EXCEPT ![s] = "free"]
    /\ runPc' = [runPc EXCEPT ![s] = "lock"]
    /\ UNCHANGED <<rvBlocked, aeBlocked, calls, panicked, startReply,
                   stateReply>>

Next ==
    /\ ~panicked
    /\ \E s \in Server :
          \/ RunLock(s)
          \/ RunTimeout(s)
          \/ RequestVoteRun(s)
          \/ RequestVoteBlock(s)
          \/ AppendEntries(s)
          \/ GetState(s)
          \/ Start(s)
          \/ Restart(s)

\* The run goroutine is runnable whenever it can take the lock, and the Go
\* timer fires: both are weakly fair.  The network and the tester are not.
Fairness ==
    \A s \in Server : /\ WF_vars(~panicked /\ RunLock(s))
                      /\ WF_vars(~panicked /\ RunTimeout(s))

Spec == Init /\ [][Next]_vars /\ Fairness

-----------------------------------------------------------------------------
(* Properties.                                                             *)

\* Type invariant.
TypeOK ==
    /\ state \in [Server -> {FOLLOWER, CANDIDATE, LEADER}]
    /\ currentTerm \in [Server -> Nat]
    /\ logs \in [Server -> Seq(LogEntry)]
    /\ mu \in [Server -> {"free", "run"}]
    /\ runPc \in [Server -> {"lock", "select", "done"}]
    /\ rvBlocked \in [Server -> 0..MaxCalls]
    /\ aeBlocked \in [Server -> 0..MaxCalls]
    /\ calls \in [Server -> 0..MaxCalls]
    /\ restarts \in 0..MaxRestarts
    /\ panicked \in BOOLEAN
    /\ startReply \in [Server -> {NoReply} \cup
                          [index : Int, term : Int, isLeader : BOOLEAN]]
    /\ stateReply \in [Server -> {NoReply} \cup
                          [term : Nat, isLeader : BOOLEAN]]

\* Lock leak in run(): from the moment run() has taken rf.mu (line 310)
\* the lock stays with it, through the timer wait and after run() has
\* returned, for the whole life of the instance.  Every later Lock() on
\* that peer (a RequestVote handler) can never succeed.
RunOwnsLock ==
    \A s \in Server : runPc[s] \in {"select", "done"} => mu[s] = "run"

\* A peer's role changes only in two ways: the run goroutine, holding
\* rf.mu, turns a follower into a candidate when its timer fires (line
\* 340), or the tester replaces the peer by a fresh follower.  No handler,
\* tester call or goroutine without the lock ever writes rf.state.
RoleChangesUnderLock ==
    [][\A s \in Server :
          state'[s] # state[s] =>
              \/ /\ state[s] = FOLLOWER
                 /\ state'[s] = CANDIDATE
                 /\ mu[s] = "run"
              \/ restarts' = restarts + 1]_vars

\* Every candidate of the cluster is deaf: its rf.mu is held by its own
\* returned run goroutine, so each RequestVote or other Lock() on it parks
\* for good (line 150).  Holds through restarts and the handlers' races.
CandidateHoldsLock ==
    \A s \in Server : state[s] = CANDIDATE => mu[s] = "run"

\* Where every run of the cluster ends: unless the process panicked, each
\* peer ends as a CANDIDATE of term 0 whose run goroutine has returned, so
\* no peer ever campaigns (run() makes a single pass and is not re-armed).
StuckCandidate ==
    <>[](panicked \/ \A s \in Server : /\ state[s] = CANDIDATE
                                       /\ currentTerm[s] = 0
                                       /\ runPc[s] = "done")

\* Spec section 8 (a new leader is elected within bounded time): some
\* peer eventually becomes leader.  Violated: run() passes once.
EventuallyLeader ==
    <>(\E s \in Server : state[s] = LEADER)

\* Spec section 6: RequestVote always answers (term, voteGranted).  The
\* handler's read of rf.logs[len(rf.logs)-1] (line 156) must never panic.
NoPanic == ~panicked

\* Spec sections 4.5 and 6: Start on a non-leader reports isLeader = false,
\* and a leader reports the index (>= 1) and term of the new entry.
StartReplyHonest ==
    \A s \in Server :
        (startReply[s] # NoReply /\ startReply[s].isLeader) =>
            /\ state[s] = LEADER
            /\ startReply[s].index >= 1
            /\ startReply[s].term = currentTerm[s]

\* Spec section 5: no activity holds the lock indefinitely, so a
\* RequestVote handler parked on rf.mu.Lock() (line 150) eventually runs.
RequestVoteAnswered ==
    \A s \in Server : rvBlocked[s] > 0 ~> rvBlocked[s] = 0

\* Spec section 6: AppendEntries always answers (term, success).  The
\* handler's send on rf.heartBeatCh (line 171) must eventually complete.
AppendEntriesAnswered ==
    \A s \in Server : aeBlocked[s] > 0 ~> aeBlocked[s] = 0

-----------------------------------------------------------------------------
(* Refinement of the abstract lifecycle.  A peer's lock is wedged when the *)
(* run goroutine holds it; the process is dead when a goroutine panicked.  *)
Lifecycle == INSTANCE PeerLifecycle
               WITH role <- state,
                    wedged <- [s \in Server |-> mu[s] = "run"],
                    dead <- panicked

\* The peers of raft.go implement PeerLifecycle: every step of run(), the
\* handlers, the tester API and restarts is a step of the abstract life
\* (wedge, time out, panic, restart) or leaves it unchanged, and the fair
\* run goroutine makes every follower wedge and time out, as there.
RefinesLifecycle == Lifecycle!Spec

=============================================================================
