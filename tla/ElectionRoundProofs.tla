------------------------- MODULE ElectionRoundProofs -------------------------
(***************************************************************************)
(* Proofs about ElectionRound, for every set of peers and candidates and  *)
(* every set of terms and logs.                                            *)
(*                                                                         *)
(* OneReplyReachesWinElec is not inductive: it says nothing of who holds   *)
(* rf.mu.  LockHolder says more: the goroutines of c at the winElecCh send *)
(* are exactly the holder of c's rf.mu, none when it is free.  TypeOK      *)
(* needs ArgsBuilt: a goroutine past its spawn sees the arguments built   *)
(* by its candidate, whose term is one of Terms.                           *)
(***************************************************************************)
EXTENDS ElectionRound, FiniteSetTheorems, TLAPS

\* The goroutines of c parked at line 207 are the holder of c's rf.mu.
LockHolder ==
    \A c \in Candidates :
        {t \in Server : pc[c][t] = "send"} =
            IF mu[c] = "free" THEN {} ELSE {mu[c]}

\* A spawned goroutine's candidate has built its arguments.
ArgsBuilt ==
    \A c \in Candidates, t \in Server :
        pc[c][t] # "idle" => /\ args[c] \in RequestVoteArgs
                             /\ args[c].term \in Terms

\* The inductive invariant.
IInv == TypeOK /\ ArgsBuilt /\ LockHolder

\* The last entry of a nonempty log is an entry.
LEMMA LastEntryType ==
    ASSUME NEW S, NEW l \in Seq(S), l # <<>>
    PROVE  LastEntry(l) \in S
BY DEF LastEntry

-----------------------------------------------------------------------------
LEMMA InitIInv == Init => IInv
<1> SUFFICES ASSUME Init PROVE IInv
  OBVIOUS
<1>1. TypeOK
  BY DEF Init, TypeOK, Pc
<1>2. ArgsBuilt
  BY DEF Init, ArgsBuilt
<1>3. LockHolder
  <2> SUFFICES ASSUME NEW c \in Candidates
               PROVE {t \in Server : pc[c][t] = "send"} = {} /\ mu[c] = "free"
    BY DEF LockHolder
  <2>1. mu[c] = "free"
    BY RoundAssumption DEF Init
  <2>2. \A t \in Server : pc[c][t] = "idle"
    BY DEF Init
  <2>3. QED
    BY <2>1, <2>2
<1>4. QED
  BY <1>1, <1>2, <1>3 DEF IInv

LEMMA NextIInv == IInv /\ [Next]_vars => IInv'
<1> SUFFICES ASSUME IInv, [Next]_vars PROVE IInv'
  OBVIOUS
<1> USE RoundAssumption DEF IInv
<1>1. ASSUME NEW c \in Candidates, BroadcastRequestVote(c) PROVE IInv'
  <2>1. CASE logs[c] = <<>>
    BY <1>1, <2>1 DEF BroadcastRequestVote, TypeOK, ArgsBuilt, LockHolder
  <2>2. CASE logs[c] # <<>>
    <3> DEFINE R == [term |-> currentTerm[c], candidateId |-> c,
                     lastLogIndex |-> LastEntry(logs[c]).term,
                     lastLogTerm |-> 0]
    <3>1. /\ args' = [args EXCEPT ![c] = R]
          /\ pc' = [pc EXCEPT ![c] = [t \in Server |-> "call"]]
          /\ bcast' = bcast \cup {c}
          /\ UNCHANGED <<currentTerm, logs, mu, grants, panicked>>
      BY <1>1, <2>2 DEF BroadcastRequestVote
    <3>2. R \in RequestVoteArgs /\ R.term \in Terms
      <4>1. LastEntry(logs[c]) \in LogEntry
        BY <2>2, LastEntryType DEF TypeOK
      <4>2. QED
        BY <4>1 DEF TypeOK, RequestVoteArgs, LogEntry
    <3>3. TypeOK'
      BY <3>1, <3>2 DEF TypeOK, Pc
    <3>4. ArgsBuilt'
      BY <3>1, <3>2 DEF TypeOK, ArgsBuilt
    <3>5. LockHolder'
      <4> SUFFICES ASSUME NEW d \in Candidates
                   PROVE {t \in Server : pc'[d][t] = "send"} =
                           IF mu'[d] = "free" THEN {} ELSE {mu'[d]}
        BY DEF LockHolder
      <4>1. CASE d = c
        BY <3>1, <4>1, <1>1 DEF BroadcastRequestVote, TypeOK
      <4>2. CASE d # c
        BY <3>1, <4>2 DEF TypeOK, LockHolder
      <4>3. QED
        BY <4>1, <4>2
    <3>6. QED
      BY <3>3, <3>4, <3>5
  <2>3. QED
    BY <2>1, <2>2
<1>2. ASSUME NEW c \in Candidates, NEW t \in Server, RequestVote(c, t)
      PROVE IInv'
  <2>1. CASE ~(currentTerm[t] > args[c].term) /\ logs[t] = <<>>
    BY <1>2, <2>1 DEF RequestVote, TypeOK, ArgsBuilt, LockHolder
  <2>2. CASE ~(~(currentTerm[t] > args[c].term) /\ logs[t] = <<>>)
    <3>1. /\ pc' = [pc EXCEPT ![c][t] = "lock"]
          /\ grants' \subseteq grants \cup {<<t, c, args[c].term>>}
          /\ UNCHANGED <<currentTerm, logs, mu, bcast, args, panicked>>
      BY <1>2, <2>2 DEF RequestVote
    <3>2. pc[c][t] = "call"
      BY <1>2 DEF RequestVote
    <3>3. args[c].term \in Terms
      BY <3>2 DEF ArgsBuilt
    <3>4. TypeOK'
      BY <3>1, <3>3 DEF TypeOK, Pc
    <3>5. ArgsBuilt'
      BY <3>1, <3>2 DEF TypeOK, ArgsBuilt
    <3>6. LockHolder'
      BY <3>1, <3>2 DEF TypeOK, LockHolder
    <3>7. QED
      BY <3>4, <3>5, <3>6
  <2>3. QED
    BY <2>1, <2>2
<1>3. ASSUME NEW c \in Candidates, NEW t \in Server, CallLost(c, t)
      PROVE IInv'
  <2>1. TypeOK'
    BY <1>3 DEF CallLost, TypeOK, Pc
  <2>2. ArgsBuilt'
    BY <1>3 DEF CallLost, TypeOK, ArgsBuilt
  <2>3. LockHolder'
    BY <1>3 DEF CallLost, TypeOK, LockHolder
  <2>4. QED
    BY <2>1, <2>2, <2>3
<1>4. ASSUME NEW c \in Candidates, NEW t \in Server,
             SendRequestVoteLock(c, t)
      PROVE IInv'
  <2>1. TypeOK'
    BY <1>4 DEF SendRequestVoteLock, TypeOK, Pc
  <2>2. ArgsBuilt'
    BY <1>4 DEF SendRequestVoteLock, TypeOK, ArgsBuilt
  <2>3. LockHolder'
    <3> SUFFICES ASSUME NEW d \in Candidates
                 PROVE {u \in Server : pc'[d][u] = "send"} =
                         IF mu'[d] = "free" THEN {} ELSE {mu'[d]}
      BY DEF LockHolder
    <3>1. CASE d = c
      <4>1. {u \in Server : pc[c][u] = "send"} = {}
        BY <1>4 DEF SendRequestVoteLock, LockHolder
      <4>2. mu'[c] = t /\ t # "free"
        BY <1>4 DEF SendRequestVoteLock, TypeOK
      <4>3. \A u \in Server : pc'[c][u] = "send" <=> (u = t \/ pc[c][u] = "send")
        BY <1>4 DEF SendRequestVoteLock, TypeOK
      <4>4. QED
        BY <3>1, <4>1, <4>2, <4>3
    <3>2. CASE d # c
      BY <1>4, <3>2 DEF SendRequestVoteLock, TypeOK, LockHolder
    <3>3. QED
      BY <3>1, <3>2
  <2>4. QED
    BY <2>1, <2>2, <2>3
<1>5. CASE UNCHANGED vars
  BY <1>5 DEF vars, TypeOK, ArgsBuilt, LockHolder
<1>6. QED
  BY <1>1, <1>2, <1>3, <1>4, <1>5 DEF Next

\* The inductive invariant holds in every reachable state.
LEMMA Invariance == Spec => []IInv
BY InitIInv, NextIInv, PTL DEF Spec

\* Every step of the round keeps every variable in its type.
THEOREM RoundTypeCorrect == Spec => []TypeOK
BY Invariance, PTL DEF IInv

\* For any number of peers and candidates, at most one sendRequestVote
\* goroutine per candidate gets past the rf.mu.Lock() of line 206.
THEOREM OneReply == Spec => []OneReplyReachesWinElec
<1>1. IInv => OneReplyReachesWinElec
  <2> SUFFICES ASSUME IInv, NEW c \in Candidates
               PROVE Cardinality({t \in Server : pc[c][t] = "send"}) <= 1
    BY DEF OneReplyReachesWinElec
  <2>1. CASE mu[c] = "free"
    <3>1. {t \in Server : pc[c][t] = "send"} = {}
      BY <2>1 DEF IInv, LockHolder
    <3>2. Cardinality({}) = 0
      BY FS_EmptySet
    <3>3. QED
      BY <3>1, <3>2
  <2>2. CASE mu[c] # "free"
    <3>1. {t \in Server : pc[c][t] = "send"} = {mu[c]}
      BY <2>2 DEF IInv, LockHolder
    <3>2. Cardinality({mu[c]}) = 1
      BY FS_Singleton
    <3>3. QED
      BY <3>1, <3>2
  <2>3. QED
    BY <2>1, <2>2
<1>2. QED
  BY <1>1, Invariance, PTL

=============================================================================
