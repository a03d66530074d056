---------------------------- MODULE ElectionRound ----------------------------
(***************************************************************************)
(* One election round of raft.go at unit level: broadcastRequestVote       *)
(* (lines 219-234) on each candidate, the goroutines it spawns running     *)
(* sendRequestVote (204-209), and the RequestVote handler (148-163) on     *)
(* the peers they call.                                                    *)
(*                                                                         *)
(* From Make no peer reaches this code (RaftPeer: run() self-deadlocks at  *)
(* line 317 before line 321).  The round starts in the input domain the   *)
(* functions are written for: each candidate's rf.mu is free, and terms   *)
(* and logs are any of a small set, including the empty log that is the   *)
(* only log the program ever has.                                          *)
(*                                                                         *)
(* A critical section that cannot block (the handler body, the body of     *)
(* broadcastRequestVote, which only spawns goroutines) is one atomic step; *)
(* rf.mu is then only ever held across a step by a sendRequestVote        *)
(* goroutine, which locks it at line 206 and never unlocks it.            *)
(***************************************************************************)
EXTENDS Naturals, Sequences, FiniteSets

CONSTANTS
    Server,       \* the peers (model values)
    Candidates,   \* the peers that call broadcastRequestVote
    Terms,        \* the candidates' and voters' possible currentTerm
    Logs          \* the possible logs of a peer

\* A log entry, with the opaque value abstracted away.
LogEntry == [index : Nat, term : Nat]

ASSUME RoundAssumption ==
    /\ Candidates \subseteq Server
    /\ "free" \notin Server
    /\ Terms \subseteq Nat
    /\ Logs \subseteq Seq(LogEntry)

\* rf.logs[len(rf.logs)-1]: the last entry of a nonempty log.
LastEntry(l) == l[Len(l)]

VARIABLES
    currentTerm,  \* rf.currentTerm
    logs,         \* rf.logs
    mu,           \* rf.mu: "free", or the server whose sendRequestVote
                  \* goroutine (of this candidate) holds it
    bcast,        \* the candidates whose broadcastRequestVote has run
    args,         \* the RequestVoteArgs each candidate built
    pc,           \* pc[c][t]: where c's goroutine calling t is
    grants,       \* <<voter, candidate, term>> of every vote granted
    panicked      \* a goroutine has panicked: the process is gone

vars == <<currentTerm, logs, mu, bcast, args, pc, grants, panicked>>

\* Places of a sendRequestVote goroutine: not spawned, in Call, parked on
\* rf.mu.Lock() (line 206), parked on the nil winElecCh (line 207).
Pc == {"idle", "call", "lock", "send"}

\* The arguments broadcastRequestVote builds (lines 222-226): line 226
\* overwrites lastLogIndex with the last term; lastLogTerm stays 0.
RequestVoteArgs == [term : Nat, candidateId : Server,
                    lastLogIndex : Nat, lastLogTerm : Nat]

NoArgs == [none |-> TRUE]

Init ==
    /\ currentTerm \in [Server -> Terms]
    /\ logs \in [Server -> Logs]
    /\ mu = [s \in Server |-> "free"]
    /\ bcast = {}
    /\ args = [c \in Candidates |-> NoArgs]
    /\ pc = [c \in Candidates |-> [t \in Server |-> "idle"]]
    /\ grants = {}
    /\ panicked = FALSE

\* Mutant of BroadcastRequestVote: lastLogIndex one below the last term.
BroadcastRequestVoteOffByOne(c) ==
    /\ c \notin bcast
    /\ mu[c] = "free"
    /\ bcast' = bcast \cup {c}
    /\ IF logs[c] = <<>>
         THEN /\ panicked' = TRUE
              /\ UNCHANGED <<args, pc>>
         ELSE /\ args' = [args EXCEPT ![c] =
                            [term |-> currentTerm[c], candidateId |-> c,
                             lastLogIndex |-> LastEntry(logs[c]).term - 1,
                             lastLogTerm |-> 0]]
              /\ pc' = [pc EXCEPT ![c] = [t \in Server |-> "call"]]
              /\ UNCHANGED panicked
    /\ UNCHANGED <<currentTerm, logs, mu, grants>>

\* broadcastRequestVote, lines 219-234: lock rf.mu, build the arguments
\* (reading rf.logs[len(rf.logs)-1], which panics on the empty log), start
\* one goroutine per peer, itself included, and unlock on return.
BroadcastRequestVote(c) ==
    /\ c \notin bcast
    /\ mu[c] = "free"
    /\ bcast' = bcast \cup {c}
    /\ IF logs[c] = <<>>
         THEN /\ panicked' = TRUE
              /\ UNCHANGED <<args, pc>>
         ELSE /\ args' = [args EXCEPT ![c] =
                            [term |-> currentTerm[c], candidateId |-> c,
                             lastLogIndex |-> LastEntry(logs[c]).term,
                             lastLogTerm |-> 0]]
              /\ pc' = [pc EXCEPT ![c] = [t \in Server |-> "call"]]
              /\ UNCHANGED panicked
    /\ UNCHANGED <<currentTerm, logs, mu, grants>>

\* The decision of RequestVote, lines 153-162, at voter v.
Grant(v, a) ==
    /\ ~(currentTerm[v] > a.term)
    /\ ~(LastEntry(logs[v]).index > a.lastLogIndex)

\* labrpc delivers c's request to t, and t's RequestVote handler runs
\* (lines 148-163) with rf.mu held: unless its term is larger it reads
\* rf.logs[len(rf.logs)-1] and panics on the empty log.  Call returns.
RequestVote(c, t) ==
    /\ pc[c][t] = "call"
    /\ mu[t] = "free"
    /\ IF ~(currentTerm[t] > args[c].term) /\ logs[t] = <<>>
         THEN /\ panicked' = TRUE
              /\ UNCHANGED <<pc, grants>>
         ELSE /\ pc' = [pc EXCEPT ![c][t] = "lock"]
              /\ grants' = IF Grant(t, args[c])
                             THEN grants \cup {<<t, c, args[c].term>>}
                             ELSE grants
              /\ UNCHANGED panicked
    /\ UNCHANGED <<currentTerm, logs, mu, bcast, args>>

\* Mutant of CallLost: a sendRequestVote that returns when Call fails.
CallLostReturns(c, t) ==
    /\ pc[c][t] = "call"
    /\ pc' = [pc EXCEPT ![c][t] = "idle"]
    /\ UNCHANGED <<currentTerm, logs, mu, bcast, args, grants, panicked>>

\* labrpc loses the request: Call returns false (lines 181-183), and the
\* goroutine goes on with the zero reply.
CallLost(c, t) ==
    /\ pc[c][t] = "call"
    /\ pc' = [pc EXCEPT ![c][t] = "lock"]
    /\ UNCHANGED <<currentTerm, logs, mu, bcast, args, grants, panicked>>

\* Mutant of SendRequestVoteLock: a lock that does not wait.
SendRequestVoteLockNoWait(c, t) ==
    /\ pc[c][t] = "lock"
    /\ mu' = [mu EXCEPT ![c] = t]
    /\ pc' = [pc EXCEPT ![c][t] = "send"]
    /\ UNCHANGED <<currentTerm, logs, bcast, args, grants, panicked>>

\* sendRequestVote, lines 206-207 after Call: rf.mu.Lock(), then a send
\* of reply.vote on the nil winElecCh, which blocks forever with rf.mu
\* held.  No line of sendRequestVote unlocks.
SendRequestVoteLock(c, t) ==
    /\ pc[c][t] = "lock"
    /\ mu[c] = "free"
    /\ mu' = [mu EXCEPT ![c] = t]
    /\ pc' = [pc EXCEPT ![c][t] = "send"]
    /\ UNCHANGED <<currentTerm, logs, bcast, args, grants, panicked>>

Next ==
    /\ ~panicked
    /\ \/ \E c \in Candidates : BroadcastRequestVote(c)
       \/ \E c \in Candidates, t \in Server :
             \/ RequestVote(c, t)
             \/ CallLost(c, t)
             \/ SendRequestVoteLock(c, t)

\* Goroutines run when they can: the broadcast, the handlers labrpc has
\* started, and the lock of each sendRequestVote.  Losing a request is
\* the network's choice and is not fair.
Fairness ==
    /\ \A c \in Candidates : WF_vars(~panicked /\ BroadcastRequestVote(c))
    /\ \A c \in Candidates, t \in Server :
          /\ WF_vars(~panicked /\ RequestVote(c, t))
          /\ WF_vars(~panicked /\ SendRequestVoteLock(c, t))

Spec == Init /\ [][Next]_vars /\ Fairness

-----------------------------------------------------------------------------
(* Properties.                                                             *)

\* Type invariant.
TypeOK ==
    /\ currentTerm \in [Server -> Terms]
    /\ logs \in [Server -> Logs]
    /\ mu \in [Server -> {"free"} \cup Server]
    /\ bcast \subseteq Candidates
    /\ args \in [Candidates -> {NoArgs} \cup RequestVoteArgs]
    /\ pc \in [Candidates -> [Server -> Pc]]
    /\ grants \subseteq Server \X Candidates \X Terms
    /\ panicked \in BOOLEAN

\* The lock taken at line 206 is never given back, so of all the replies
\* a candidate gets, at most one reaches the winElecCh send at line 207;
\* the others park on rf.mu.Lock().  Even with winElecCh made, run()
\* could see at most one vote per round.
OneReplyReachesWinElec ==
    \A c \in Candidates : Cardinality({t \in Server : pc[c][t] = "send"}) <= 1

\* Every round wedges: unless the process panicked, every candidate's
\* rf.mu ends held for good by one of its own sendRequestVote goroutines,
\* so nothing can lock it again (no later vote handler, no heartbeat).
RoundWedges ==
    <>[](panicked \/ \A c \in Candidates : mu[c] \in Server)

\* Spec section 4.2 rule 3: a peer grants at most one vote per term (the
\* handler never checks or records votedFor, line 159).
VoteOncePerTerm ==
    \A g, h \in grants : (g[1] = h[1] /\ g[3] = h[3]) => g[2] = h[2]

\* The candidate's (lastLogTerm, lastLogIndex) is at least the voter's
\* (term, index) of its last entry.
UpToDate(c, v) ==
    LET lc == LastEntry(logs[c])
        lv == LastEntry(logs[v])
    IN \/ lc.term > lv.term
       \/ lc.term = lv.term /\ lc.index >= lv.index

\* Spec section 4.2 rule 3: a vote is granted only to a candidate whose
\* log is at least as up to date as the voter's.  Lines 156 and 226
\* compare the voter's last index with the candidate's last term.
GrantOnlyUpToDate ==
    \A g \in grants : UpToDate(g[2], g[1])

=============================================================================
