# Verification of the tzkv Raft peer

This directory holds TLA+ models of the Raft peer in
`src/P3/src/github.com/cmu440/raft/raft.go`, the TLC configurations that
check them, and TLAPS proofs about them. The other sources of the
repository are described below; none has behaviour to model.

## 1. Inventory

### What the code is

`raft.go` (342 lines) is an early sketch of the lab's Raft peer. It does
not compile as written: both `select` statements in `run()` use
`case time.After(...)` with no receive operator (lines 334 and 339). The
models read those cases as the receive `case <-time.After(...)` that they
must mean. Two further readings go beyond the literal code:

* `RaftPeer` treats the RPC handlers as an open surface the network may
  call at any time, although in the closed program no peer ever sends;
* the RPC argument structs have only lowercase fields, which labrpc's gob
  encoding does not carry (the code's own comments at lines 104, 128 and
  199-202 say so). The models deliver the sender's values instead. This
  is listed as a hazard at line 108, and in `RaftPeer` it makes no
  difference, since every term is 0 there.

### Components, their state and operations

| Component (spec.md) | Code | State | Operations |
|---|---|---|---|
| Replica State Machine | `Raft` struct (56-88), `Make` (297-307), `run` (309-343) | `state`, `currentTerm`, `votedFor`, `voteCount`, `mu`, three channels | `Make` starts `go rf.run()`; `run` takes `mu`, switches on `state` once |
| Election Protocol | `RequestVote` (148-163), `sendRequestVote` (204-209), `broadcastRequestVote` (219-234) | `votedFor` (never read), `voteCount` | vote handler; candidate broadcast |
| Replication Protocol | `AppendEntries` (168-173), `sendAppendEntries` (211-214), `broadcastAppendEntries` (240-252) | `nextIndex`, `matchIndex` (never used) | heartbeat handler; leader broadcast |
| Command submission | `Start` (267-276), `GetState` (92-101), `Kill` (284-286) | none | tester API |
| Log store | `logs []LogEntry` | never initialised or appended | none |
| Persistent term/vote | none (no persister) | none | none |
| Commit/apply pipeline | `applych` | stored, never written | none |
| B+ tree sketch | `bPlusTree.hpp`, `Object.h` | declarations only | none has a body |
| LevelDB example and build files | `src/unnamed/part_000`, `part_001` | external library | none |

### How the parts interact

Make creates a `Raft` and starts one goroutine running `run()`. The
RPC handlers are called by labrpc (not in this repository) on their own
goroutines; the tester calls `Start`, `GetState` and `Kill`, and can crash
a peer and call `Make` again. All share the peer's `rf.mu`; handlers and
`run()` were meant to talk through `heartBeatCh` and `winElecCh`, but Make
never creates those channels, so they are nil.

What the code really does from `Make`:

1. `run()` takes `rf.mu` (line 310) and, `state` being FOLLOWER, waits on
   the timer; when it fires it sets CANDIDATE and returns **holding
   `rf.mu`**. It never runs again. The CANDIDATE and LEADER branches, and
   everything they call (`broadcastRequestVote`, `sendRequestVote`,
   `broadcastAppendEntries`, `sendAppendEntries`), are unreachable.
2. A `RequestVote` that gets `rf.mu` reads `rf.logs[len(rf.logs)-1]` on the
   empty log and panics, killing the process that hosts every peer; one
   that arrives after `run()` has the lock waits forever.
3. An `AppendEntries` sends on the nil `heartBeatCh` and waits forever.
4. `Start` answers `(-1, -1, true)` everywhere; `GetState` reads
   without the lock (a data race with line 340).

### What is hard here

Interleavings of `run()`, the handler goroutines and the tester around one
mutex; a lock that is never released; goroutines parked forever on nil
channels; a panic that ends all peers at once; a tester restart that
leaves the old goroutines parked; and liveness (whether anything ever
gets elected). The unreachable branches hold more: a self-deadlock (317),
a lock held across RPCs (241-250), a vote rule with no `votedFor` check
(148-163) and wrong request arguments
(226). `PROJECT.json` "hazards" lists each at its line.

### Properties that would make each component correct (spec.md section 8)

Election Safety, Leader Append-Only, Log Matching, Leader Completeness,
State Machine Safety, eventual election, and every RPC answered. The log
properties have no code to be about. Election Safety holds vacuously,
because no path from Make ever assigns LEADER, so no run checks it. The
project checks eventual election and RPC answering, and the vote rules
behind Election Safety (`VoteOncePerTerm`, `GrantOnlyUpToDate`).

## 2. Modules

| Module | Models | Status |
|---|---|---|
| `RaftPeer` | Peers from `Make`: `run()`'s lock, FOLLOWER branch and timer; the `RequestVote` and `AppendEntries` handlers as RPC surface; `Start`, `GetState`; tester restart. Refines `PeerLifecycle` | done |
| `PeerLifecycle` | Abstract spec of a peer's life: wedge, time out, panic, restart | done |
| `ElectionRound` | Unit level: `broadcastRequestVote`, the `sendRequestVote` goroutines, `RequestVote` at the peers called, lossy `Call` | done |
| `RunBranches` | Unit level: `run()` entered in each role; `broadcastAppendEntries`/`sendAppendEntries` spawned by it or entered with `rf.mu` free | done |
| `MCRaftPeer`, `MCElectionRound`, `MCRunBranches` | TLC instances | done |
| `RaftPeerProofs`, `ElectionRoundProofs`, `RunBranchesProofs` | TLAPS proofs | done |

"Unit level" means the module starts the code in the input domain its
functions are written for, although no execution from `Make` gets there
(section 1). Each such module says so in its header. Its findings are
about what that code would do once reached.

### RaftPeer: state and actions against the code

Variables: `state`, `currentTerm`, `logs`, `mu` (free, or held by the
`run` goroutine) are the struct fields; `runPc` is where the run goroutine
is (`lock` before line 310, `select` in the timer wait, `done` after
return); `rvBlocked` and `aeBlocked` count handler goroutines parked at
line 150 and at line 171; `calls` and `restarts` are bounds; `panicked`
records a Go panic; `startReply`, `stateReply` are what the tester was
told. The log entry's value and the RPC arguments other than the term are
abstracted away: no reachable line reads them.

| Action | Code |
|---|---|
| `Init` | `Make`, 297-307 |
| `RunLock` | `run`, 309-312 (lock, dispatch to FOLLOWER, enter select) |
| `RunTimeout` | `run`, 337-343 (timer fires, `state = CANDIDATE`, return holding the lock) |
| `RequestVoteRun` | `RequestVote`, 148-163, lock free: panic on the empty log unless its term is larger |
| `RequestVoteBlock` | `RequestVote`, 150, lock held: parks |
| `AppendEntries` | `AppendEntries`, 168-173: parks on the nil channel |
| `GetState`, `Start` | 92-101, 267-276 |
| `Restart` | tester crash + `Make` again, 297-307 |

`Kill` (284-286) is empty and has no action. The network delivers a call
at any time. This is the open-system view of the handlers: in the closed
program nobody ever sends, because the senders are unreachable.

### PeerLifecycle and the refinement

`PeerLifecycle` keeps, per peer, `role`, `wedged` (its `rf.mu` is held for
good) and a global `dead` (the process panicked). Its actions are:

* `Wedge`: a follower's lock is taken (line 310);
* `Timeout`: a wedged follower becomes a candidate (line 340);
* `Panic`: a vote request on an unwedged peer kills the process (line 156);
* `Restart`: a fresh `Make`.

`RaftPeer` defines
`Lifecycle == INSTANCE PeerLifecycle WITH role <- state, wedged <- [s |-> mu[s] = "run"], dead <- panicked`.
The steps map as follows:

* `RunLock` is `Wedge`, `RunTimeout` is `Timeout` and `Restart` is `Restart`.
* A `RequestVoteRun` that panics is `Panic`.
* Every other step is a stutter.

`RefinesLifecycle == Lifecycle!Spec` is checked with its fairness in
`peer_core`.

### ElectionRound: state and actions against the code

The variables are:

* `currentTerm`, `logs` and `mu`, the struct fields. `mu` is free or
  names the target of the `sendRequestVote` goroutine that holds it.
* `bcast`: the candidates that have broadcast.
* `args`: the `RequestVoteArgs` each candidate built.
* `pc[c][t]`: where candidate c's goroutine that calls t is: not spawned,
  in `Call`, parked on `Lock` (206), or parked on the nil `winElecCh` (207).
* `grants`: a ghost set of `<<voter, candidate, term>>` for every vote
  granted.
* `panicked`.

The handler body and `broadcastRequestVote`'s body never block, so each
is one atomic step. Only the `sendRequestVote` goroutines hold `rf.mu`
across steps.

| Action | Code |
|---|---|
| `BroadcastRequestVote(c)` | 219-234: panics on the empty log (225); `lastLogIndex` := last term (226); one goroutine per peer, self included (228) |
| `RequestVote(c, t)` | 148-163 at t, when t's lock is free: panic on the empty log, else the decision `Grant` (153-162) |
| `CallLost(c, t)` | `Call` returns false (205); the goroutine goes on regardless of `ok` |
| `SendRequestVoteLock(c, t)` | 206-208: lock, park on the nil channel, never unlock |

The input domain is defined in `MCElectionRound`:

* three peers, two of them candidates;
* terms in {1, 2};
* logs from: empty (the program's only log), the sentinel entry alone,
  and two-entry logs with last term 1 or 2.

### RunBranches: state and actions against the code

The variables are:

* `state`, `currentTerm` and `mu` (free, `run`, or `bae`, short for
  `broadcastAppendEntries`);
* `runPc`: `absent`, `lock`, `branch`, `relock` or `done`;
* `baePc`: `idle`, `lock`, `loop`, `call` or `done`;
* `todo`: the peers the loop has still to call;
* `aeParked`: the peers whose `AppendEntries` handler is parked.

There are two entries: `run()` started in any role, or
`broadcastAppendEntries` started on a leader with `rf.mu` free.

| Action | Code |
|---|---|
| `RunLock` | 309-312 |
| `RunLeader` | 313-314: spawn `broadcastAppendEntries`, return holding `rf.mu` |
| `RunCandidate` | 316-317: the second `Lock` never returns; 318-336 never run |
| `RunFollower` | 337-343 |
| `BaeLock` | 240-244 |
| `BaeCall(i)` | 245-250: the request reaches i, whose handler parks; `Call` never returns |
| `BaeCallLost(i)` | 211-214: `Call` returns false, the loop goes on |
| `BaeReturn` | 251-252: deferred `Unlock` |

### Fairness

* `RaftPeer`: `WF` on `RunLock` and `RunTimeout` per peer. The run
  goroutine is runnable whenever the lock is free, and Go timers fire.
* `ElectionRound`: `WF` on the broadcast, on each handler, and on each
  `sendRequestVote` lock. These are goroutines that run when they can.
  `CallLost` is the network's choice and is not fair. The labrpc comment
  (lines 184-186) says `Call` returns unless the handler does not, so a
  handler that can run eventually runs.
* `RunBranches`: `WF` on every goroutine step. `BaeCallLost` is not fair.
* `PeerLifecycle`: `WF` on `Wedge` and `Timeout`, the images of the fair
  steps of `RaftPeer`.

Nothing is fair for the network or the tester, which may stop calling at
any time. Once the process has panicked, or every goroutine is parked,
no step is possible. The runs therefore say `CHECK_DEADLOCK FALSE`: the
program really stops there.

## 3. Runs

`MCRaftPeer` runs use three peers and `MaxCalls = 1`. One call per peer is
enough for a handler to race `run()` and for one handler to park on each
peer. `peer_core` also has `MaxRestarts = 1`, so a restarted peer runs
`run()` again next to parked goroutines of the old one (105,472 states).
The violation runs use `MaxRestarts = 0`, and `no_leader_elected` uses `MaxCalls = 0`.

`election_round` has 315,502 states. Two candidates are needed for two
requests to meet at one voter. Three peers give each candidate a voter
that is not a candidate. Two terms let a voter's larger term avoid the
panic.

`run_branches` has seven peers, the size of the lab's largest tests, so
the heartbeat loop runs over six others (267 states).

| Run | Expect | Shows |
|---|---|---|
| `peer_core` | pass | `TypeOK`; `RunOwnsLock` (the lock leak); `CandidateHoldsLock`: every candidate's `rf.mu` is held by its run goroutine, so a vote request to a candidate always parks; `StuckCandidate`: every execution ends with all peers non-campaigning candidates of term 0, or panicked; `RefinesLifecycle`; `RoleChangesUnderLock` (action property): `rf.state` changes only from FOLLOWER to CANDIDATE by the run goroutine holding `rf.mu`, or by a restart |
| `no_leader_elected` | violation of `EventuallyLeader` | in the closed cluster (`MaxCalls = 0`: no peer sends) every peer times out once, becomes CANDIDATE and stops; no leader, ever, even under fairness |
| `requestvote_panics` | violation of `NoPanic` | a vote request that wins the race with `run()` kills the process |
| `start_claims_leadership` | violation of `StartReplyHonest` | `Start` claims leadership on a follower |
| `requestvote_blocks` | violation of `RequestVoteAnswered` | a vote request that loses the race waits forever |
| `appendentries_blocks` | violation of `AppendEntriesAnswered` | every heartbeat handler waits forever |
| `election_round` | pass | `TypeOK`; `OneReplyReachesWinElec`: at most one reply per candidate gets past line 206; `RoundWedges`: every round ends with each candidate's lock held for good by its own reply goroutine, or with a panic |
| `vote_twice_in_term` | violation of `VoteOncePerTerm` | no `votedFor` check: two grants in one term |
| `vote_for_stale_log` | violation of `GrantOnlyUpToDate` | lines 226 and 156 compare an index with a term: a vote for a stale log |
| `run_branches` | pass | `TypeOK`; `LeaderSendsNothing`: a leader's heartbeat never leaves; `RunLockNeverReleased` (action property): no step frees the `rf.mu` that `run()` took, in any branch |
| `candidate_never_campaigns` | violation of `CandidateCampaigns` | a `run()` that reads CANDIDATE reaches the second Lock at 317 and waits on itself; it never starts a term |
| `heartbeat_holds_lock` | violation of `NoLockAcrossCall` | `broadcastAppendEntries` holds `rf.mu` across a `Call` that never returns |

Each property of a passing run has a mutant of the code that breaks it
(`PROJECT.json` "mutants"):

* `run()` unlocking on return, or dropping the assignment;
* an off-by-one in `GetState`;
* a restart that keeps the old role (for `RefinesLifecycle` and `CandidateHoldsLock`);
* an off-by-one in `lastLogIndex`;
* a `Lock` that does not wait;
* a `sendRequestVote` that returns when `Call` fails;
* a reentrant CANDIDATE branch that decrements the term;
* a LEADER branch that releases `rf.mu` (for `LeaderSendsNothing` and `RunLockNeverReleased`);
* a `run()` that never calls `rf.mu.Lock()`.

## 4. Proofs

`RaftPeerProofs` proves the following for every set of peers and every
`MaxCalls` and `MaxRestarts` that satisfy `ConstantsAssumption`:

* `TypeCorrect`: `Spec => []TypeOK`;
* `LockLeak`: `Spec => []RunOwnsLock`;
* `ImplementsLifecycle`: `Spec => Lifecycle!Init /\ [][Lifecycle!Next]_lvars`,
  the safety part of the refinement;
* `RoleChangeLocked`: `Spec => RoleChangesUnderLock`, an action property;
* `CandidateLocked`: `Spec => []CandidateHoldsLock`.

They rest on the inductive invariant
`IInv == TypeOK /\ CallsAccounted /\ RunOwnsLock /\ NoLeader`.

* `TypeOK` alone is not inductive. A parked-handler count stays within
  `0..MaxCalls` only because each parked handler is one of the calls
  delivered (`CallsAccounted`).
* `NoLeader` records that no step assigns LEADER.
* `RunOwnsLock` is inductive because the only step that frees `mu` is
  `Restart`, which also puts `runPc` back to `lock`.

The refinement also needs `PcState`: a run goroutine in `lock` or `select`
belongs to a follower, one in `done` to a candidate. Without it,
`RunTimeout` could not be shown to be an abstract `Timeout`, which needs
a follower. `RoleChangeLocked` rests on the same two invariants: in a
`RunTimeout` step `PcState` gives the follower and `RunOwnsLock` the
lock. `CandidateLocked` is proved on the abstract side and carried down.
`AbsInv` (abstract typing and `CandidatesWedged`: a candidate's lock is
wedged) is inductive for `PeerLifecycle`'s next-state relation, because
`Timeout` needs a wedged lock and only `Restart` unwedges it, making the
peer a follower again. `ImplementsLifecycle` then gives the invariant for
the code under the mapping `wedged = (mu = "run")`. The proof of each step case has one step per action, split
per conjunct where the provers needed it.

`ElectionRoundProofs` proves the following for any peers, candidates,
terms and logs that satisfy `RoundAssumption`:

* `RoundTypeCorrect`: `Spec => []TypeOK`;
* `OneReply`: `Spec => []OneReplyReachesWinElec`.

The invariant is `TypeOK /\ ArgsBuilt /\ LockHolder`.

* `LockHolder` says that the goroutines at line 207 are exactly the holder
  of the lock (none when it is free). From this, the cardinality bound
  follows by `FS_EmptySet` and `FS_Singleton`.
* `ArgsBuilt` says a spawned goroutine's candidate has built arguments
  whose term is in `Terms`. `TypeOK` of `grants` needs it.
* The lemma `LastEntryType` types the last entry of a nonempty log.

`RunBranchesProofs` proves, for any set of peers:

* `BranchesTypeCorrect`: `Spec => []TypeOK`;
* `LeaderSilent`: `Spec => []LeaderSendsNothing`;
* `LockNeverReleased`: `Spec => RunLockNeverReleased`, an action
  property.

They use the inductive invariant `TypeOK /\ RunKeepsLock /\ RunHolder`.

* `RunKeepsLock`: once `run()` has started it holds `rf.mu` for good, and
  its `broadcastAppendEntries` has not got past line 241.
* `RunHolder`: `rf.mu` is held as "run" only by a `run()` past line 310.

Together they say no branch of `run()` unlocks, and the heartbeat
goroutine (whose deferred Unlock is the only one) is still before its
own Lock whenever `run()` holds the lock.

Model-checked only:

* `StuckCandidate`, `RoundWedges` and the liveness (fairness) part of
  `RefinesLifecycle`. TLAPS does not handle liveness under fairness or
  ENABLED.
* The violation runs.

Induction over data and RECURSIVE operators are out of the prover's reach
too; no module here uses them.

## 5. Not modelled, and why

* Log store, persistence, commit/apply: the code has none.
* labrpc is not in this repository. Only its delivery, loss of requests,
  and a `Call` that never returns while the handler is blocked are
  modelled. Its gob encoding drops the unexported fields of the RPC
  structs; this is listed as a hazard.
* Timing: timers are fair nondeterministic steps. The nanosecond timeouts
  (lines 334 and 339) are listed as a hazard.
* The CANDIDATE `select` (322-335) and `sendRequestVote`'s `winElecCh`
  receiver. The select is behind the deadlock at 317, and `winElecCh` is
  nil. `OneReplyReachesWinElec` bounds what could ever reach it.
* The B+ tree, the LevelDB example and the build files have no behaviour.

## 6. Next steps

1. Compose `ElectionRound` with `RaftPeer`'s restart, to check a round
   that a tester crash interrupts.
2. Map `ElectionRound` onto an abstract vote-collection spec, to show
   the only possible outcome (no leader) as a refinement.
