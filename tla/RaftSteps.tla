------------------------------ MODULE RaftSteps ------------------------------
(***************************************************************************)
(* Every action of Raft is a step of the kind RaftInv describes            *)
(* (Progress), whatever is lost or late.                                   *)
(***************************************************************************)
EXTENDS RaftSafety

\* See RaftSafety.
USE Zenon

-----------------------------------------------------------------------------
(* Every action makes progress.                                            *)

\* The index before one within a bound is below the bound.
LEMMA PredecessorLess ==
    ASSUME NEW p \in Nat, NEW n \in Nat, p <= n
    PROVE  p - 1 < n
  BY SMT

\* The actions that leave the logs, the history and commit_idx alone.
LEMMA QuietProgress ==
    ASSUME TypeOK, TypeOK', Safe, UNCHANGED <<log, leader_log, acked, commit_idx>>,
           StateStep, BallotStep, PacketStep, ApplyInOrder', PeersKnown',
           \A s \in Server : state'[s] = Leader =>
               state[s] = Leader /\ current_term'[s] = current_term[s]
    PROVE  Progress
  <1>1. ReignStep /\ AckStep /\ LogStep /\ CommitStep /\ IngestStep
    BY QuietHistory
  <1>2. LeadersRecorded'
    BY QuietLeaders DEF Safe
  <1>3. AcksComplete'
    BY DEF Safe, AcksComplete
  <1> QED BY <1>1, <1>2, <1>3 DEF Progress

\* Those that besides leave what leaders know of their peers alone.
LEMMA YieldingProgress ==
    ASSUME TypeOK, TypeOK', Safe, UNCHANGED <<log, leader_log, acked, commit_idx, peerVars>>,
           Yields, BallotStep, PacketStep, ApplyInOrder'
    PROVE  Progress
  <1>1. /\ StateStep
        /\ \A s \in Server : state'[s] = Leader =>
              state[s] = Leader /\ current_term'[s] = current_term[s]
    BY YieldingStates
  <1>2. PeersKnown'
    BY <1>1, QuietPeers DEF Safe
  <1> QED BY <1>1, <1>2, QuietProgress

\* A step that leaves commit_idx alone.
LEMMA CommitStays ==
    ASSUME TypeOK, commit_idx' = commit_idx
    PROVE  CommitsMoveUp
  <1>1. \A x \in Nat : x <= x
    BY SMT
  <1> QED BY <1>1 DEF TypeOK, ServerTypes, CommitsMoveUp

\* The loss of a packet.
LEMMA LoseProgress ==
    ASSUME TypeOK, TypeOK', VoteStep, Safe, NEW i \in Server, NEW j \in Peers(i), Lose(i, j)
    PROVE  Progress
  <1>1. /\ UNCHANGED <<current_term, voted_for, state, log, leader_log, acked, commit_idx>>
        /\ UNCHANGED <<peerVars, applyVars>> /\ chan' = Taken(i, j) /\ chan[j][i] # <<>>
    BY DEF Lose, electionVars, logVars, historyVars
  <1>2. j \in Server
    BY DEF Peers
  <1>3. PacketStep
    BY <1>1, <1>2, TakenMoves
  <1>4. BallotStep
    BY <1>1, QuietBallots
  <1>5. Yields
    BY <1>1 DEF Yields
  <1>6. ApplyInOrder'
    BY <1>1, CommitStays, QuietApply DEF Safe
  <1> QED BY <1>1, <1>3, <1>4, <1>5, <1>6, YieldingProgress

\* raft_periodic without a timeout.
LEMMA PeriodicIdleProgress ==
    ASSUME TypeOK, TypeOK', VoteStep, Safe, NEW i \in Server, PeriodicIdle(i)
    PROVE  Progress
  <1>1. /\ UNCHANGED <<current_term, voted_for, state, log, leader_log, acked, commit_idx>>
        /\ UNCHANGED peerVars /\ chan' = chan /\ ApplyCommitted(i)
    BY DEF PeriodicIdle, electionVars, netVars, historyVars
  <1>2. PacketStep
    BY <1>1, SameQueues
  <1>3. BallotStep
    BY <1>1, QuietBallots
  <1>4. Yields
    BY <1>1 DEF Yields
  <1>5. ApplyInOrder'
    BY <1>1, CommitStays, ApplyStep DEF Safe
  <1> QED BY <1>1, <1>2, <1>3, <1>4, <1>5, YieldingProgress

\* A step that changes nothing.
LEMMA StutterProgress ==
    ASSUME TypeOK, TypeOK', VoteStep, Safe, UNCHANGED vars
    PROVE  Progress
  <1>1. /\ UNCHANGED <<current_term, voted_for, state, log, leader_log, acked, commit_idx>>
        /\ UNCHANGED <<peerVars, applyVars>> /\ chan' = chan
    BY DEF vars, electionVars, logVars, netVars, historyVars
  <1>2. PacketStep
    BY <1>1, SameQueues
  <1>3. BallotStep
    BY <1>1, QuietBallots
  <1>4. Yields
    BY <1>1 DEF Yields
  <1>5. ApplyInOrder'
    BY <1>1, CommitStays, QuietApply DEF Safe
  <1> QED BY <1>1, <1>2, <1>3, <1>4, <1>5, YieldingProgress

\* raft_periodic with an election timeout.
LEMMA PeriodicElectionProgress ==
    ASSUME TypeOK, TypeOK', VoteStep, Safe, NEW i \in Server, PeriodicElection(i)
    PROVE  Progress
  <1> DEFINE rv == [type |-> "RV", term |-> current_term[i] + 1,
                    last_log_idx |-> current_idx(i),
                    last_log_term |-> TermAt(log[i], current_idx(i))]
             row == [k \in Server |-> IF k = i THEN chan[i][k] ELSE Send(chan[i][k], rv)]
  <1>1. /\ UNCHANGED <<log, leader_log, acked, commit_idx>>
        /\ UNCHANGED peerVars /\ chan' = [chan EXCEPT ![i] = row] /\ ApplyCommitted(i)
        /\ state[i] # Leader
    BY DEF PeriodicElection, historyVars
  <1>2. /\ current_term' = [current_term EXCEPT ![i] = @ + 1] /\ voted_for' = [voted_for EXCEPT ![i] = i]
        /\ state' = [state EXCEPT ![i] = Candidate]
    BY DEF PeriodicElection
  <1>3. current_term'[i] = current_term[i] + 1 /\ voted_for'[i] = i /\ state'[i] = Candidate
    BY <1>2 DEF TypeOK, ServerTypes
  <1>4. \A s \in Server : s # i => /\ current_term'[s] = current_term[s]
                                   /\ voted_for'[s] = voted_for[s] /\ state'[s] = state[s]
    BY <1>2 DEF TypeOK, ServerTypes
  <1>5. current_term'[i] # current_term[i]
    <2>1. current_term[i] \in Nat
      BY DEF TypeOK, ServerTypes
    <2> QED BY SMT, <1>3, <2>1
  <1>6. Candidate # Leader
    BY DEF Candidate, Leader
  <1>7. \A s \in Server : state'[s] = Leader => state[s] = Leader /\ current_term'[s] = current_term[s]
    BY <1>3, <1>4, <1>6
  <1>8. StateStep
    BY <1>1, <1>3, <1>4, <1>5, <1>6 DEF StateStep
  <1>9. PacketStep
    <2> SUFFICES ASSUME NEW a \in Server, NEW b \in Server PROVE QueueMoves(a, b, 0)
      BY DEF PacketStep
    <2>1. chan[a][b] \in Seq(Message)
      BY DEF TypeOK, ServerTypes
    <2>2. chan'[i] = row /\ (a # i => chan'[a] = chan[a])
      BY <1>1 DEF TypeOK, ServerTypes
    <2>3. CASE a = i /\ b # i
      <3>1. /\ rv.type = "RV" /\ rv.term = current_term'[i] /\ rv.last_log_idx = Len(log'[i])
            /\ rv.last_log_term = TermAt(log'[i], Len(log'[i]))
        BY <1>1, <1>3 DEF current_idx
      <3> HIDE DEF rv
      <3>2. NewPacket(a, b, rv)
        BY <2>3, <3>1 DEF NewPacket
      <3>3. chan'[a][b] = Send(chan[a][b], rv)
        BY <2>2, <2>3
      <3> QED BY <2>1, <3>2, <3>3, QueueIsSent
    <2>4. CASE ~(a = i /\ b # i)
      BY <2>1, <2>2, <2>4, QueueStays
    <2> QED BY <2>3, <2>4
  <1>10. BallotStep
    <2>1. ASSUME NEW s \in Server
          PROVE  \/ voted_for'[s] = voted_for[s] /\ current_term'[s] = current_term[s]
                 \/ voted_for'[s] = Nil
                 \/ voted_for'[s] = s
      BY <1>3, <1>4
    <2> QED BY <2>1, QuietBallots
  <1>11. ApplyInOrder'
    BY <1>1, CommitStays, ApplyStep DEF Safe
  <1>12. PeersKnown'
    BY <1>1, <1>7, QuietPeers DEF Safe
  <1> QED BY <1>1, <1>7, <1>8, <1>9, <1>10, <1>11, <1>12, QuietProgress

\* A leader's next_idx is an index of its log, or the one behind it.
LEMMA NextInLog ==
    ASSUME TypeOK, PeersKnown, NEW i \in Server, NEW k \in Peers(i), state[i] = Leader
    PROVE  next_idx[i][k] \in 1..(Len(log[i]) + 1) /\ next_idx[i][k] <= Len(log[i]) + 1
  <1>3. k \in Server /\ next_idx[i] \in [Server -> Nat \ {0}]
    BY DEF Peers, TypeOK, ServerTypes
  <1>1. next_idx[i][k] \in Nat \ {0} /\ log[i] \in Seq(Entry)
    BY <1>3 DEF TypeOK, ServerTypes
  <1>2. Len(log[i]) \in Nat /\ next_idx[i][k] <= Len(log[i]) + 1
    BY <1>1, SeqLength DEF PeersKnown
  <1> QED BY SMT, <1>1, <1>2

\* Leader i moves next_idx within its log.
LEMMA SentPeers ==
    ASSUME PeersKnown, match_idx' = match_idx, acked \subseteq acked', NEW i \in Server,
           \A s \in Server : state'[s] = Leader =>
               state[s] = Leader /\ current_term'[s] = current_term[s],
           \A s \in Server : s # i => next_idx'[s] = next_idx[s] /\ log'[s] = log[s],
           \A k \in Peers(i) : next_idx'[i][k] <= Len(log'[i]) + 1
    PROVE  PeersKnown'
  <1> SUFFICES ASSUME NEW s \in Server, NEW k \in Peers(s), state'[s] = Leader
               PROVE  /\ match_idx'[s][k] > 0 => <<k, current_term'[s], match_idx'[s][k]>> \in acked'
                      /\ next_idx'[s][k] <= Len(log'[s]) + 1
    BY DEF PeersKnown
  <1>1. /\ match_idx[s][k] > 0 => <<k, current_term[s], match_idx[s][k]>> \in acked
        /\ next_idx[s][k] <= Len(log[s]) + 1 /\ current_term'[s] = current_term[s]
    BY DEF PeersKnown
  <1>2. CASE s = i
    BY <1>1, <1>2
  <1>3. CASE s # i
    BY <1>1, <1>3
  <1> QED BY <1>2, <1>3

\* raft_periodic of a leader.
LEMMA PeriodicLeaderProgress ==
    ASSUME TypeOK, TypeOK', VoteStep, Safe, NEW i \in Server, NEW X \in SUBSET Peers(i),
           PeriodicLeader(i, X)
    PROVE  Progress
  <1> DEFINE K == X \cup {k \in Peers(i) : next_idx[i][k] <= current_idx(i)}
  <1>1. /\ UNCHANGED <<current_term, voted_for, state, log, leader_log, acked, commit_idx>>
        /\ match_idx' = match_idx /\ state[i] = Leader /\ ApplyCommitted(i)
        /\ raft_send_appendentries(i, K, next_idx[i], chan)
    BY DEF PeriodicLeader, electionVars, historyVars
  <1>2. K \in SUBSET Peers(i)
    OBVIOUS
  <1> HIDE DEF K
  <1>3. \A k \in Peers(i) : next_idx[i][k] \in 1..(Len(log'[i]) + 1) /\ next_idx[i][k] <= Len(log'[i]) + 1
    BY <1>1, NextInLog DEF Safe
  <1>4. /\ PacketStep
        /\ \A k \in Peers(i) : next_idx[i][k] <= Len(log'[i]) + 1 => next_idx'[i][k] <= Len(log'[i]) + 1
        /\ \A s \in Server : s # i => next_idx'[s] = next_idx[s]
    <2>1. state'[i] = Leader /\ \A k \in K : next_idx[i][k] \in 1..(Len(log'[i]) + 1)
      BY <1>1, <1>2, <1>3
    <2> QED BY <1>1, <1>2, <2>1, SendMoves
  <1>5. \A k \in Peers(i) : next_idx'[i][k] <= Len(log'[i]) + 1
    BY <1>3, <1>4
  <1>6. PeersKnown'
    BY <1>1, <1>4, <1>5, SentPeers DEF Safe
  <1>7. Yields
    BY <1>1 DEF Yields
  <1>8. StateStep
    BY <1>1, <1>7, YieldingStates
  <1>9. BallotStep
    BY <1>1, QuietBallots
  <1>10. ApplyInOrder'
    BY <1>1, CommitStays, ApplyStep DEF Safe
  <1> QED BY <1>1, <1>4, <1>6, <1>8, <1>9, <1>10, QuietProgress

\* raft_recv_requestvote, whose grant compares the logs.
LEMMA RecvRequestVoteProgress ==
    ASSUME TypeOK, TypeOK', VoteStep, Safe, NEW i \in Server, NEW j \in Peers(i),
           raft_recv_requestvote(i, j)
    PROVE  Progress
  <1> DEFINE m == Head(chan[j][i])
             newer == current_term[i] < m.term
             term == IF newer THEN m.term ELSE current_term[i]
             vf == IF newer THEN Nil ELSE voted_for[i]
             grant == should_grant_vote(i, term, vf, m)
             rvr == [type |-> "RVR", term |-> term, vote_granted |-> grant]
  <1>0. j \in Server /\ i # j
    BY DEF Peers
  <1>1. /\ UNCHANGED <<log, leader_log, acked, commit_idx, peerVars, applyVars>>
        /\ chan[j][i] # <<>> /\ m.type = "RV"
        /\ current_term' = [current_term EXCEPT ![i] = term]
        /\ state' = [state EXCEPT ![i] = IF newer THEN Follower ELSE @]
        /\ voted_for' = [voted_for EXCEPT ![i] = IF grant THEN j ELSE vf]
        /\ chan' = [Taken(i, j) EXCEPT ![i][j] = Send(@, rvr)]
    BY DEF raft_recv_requestvote, Arrived, logVars, historyVars
  <1>2. Has(chan[j][i], m) /\ m \in Message
    <2>1. chan[j][i] \in Seq(Message)
      BY <1>0 DEF TypeOK, ServerTypes
    <2>2. m = chan[j][i][1] /\ 1 \in 1..Len(chan[j][i]) /\ m \in Message
      BY <1>1, <2>1, SeqNonEmpty
    <2> QED BY <2>2 DEF Has
  <1>3. AsksFor(m, j)
    BY <1>0, <1>1, <1>2 DEF Safe, PacketsAreTrue
  <1>4. m.term \in Nat /\ current_term[i] \in Nat /\ current_term[j] \in Nat
    <2>1. m.term \in Nat
      BY ZenonT(30), <1>1, <1>2 DEF Message
    <2> QED BY <1>0, <2>1 DEF TypeOK, ServerTypes
  <1>5. PacketStep
    <2>1. rvr.type = "RVR"
      OBVIOUS
    <2> HIDE DEF rvr
    <2>2. NewPacket(i, j, rvr)
      BY <1>0, <2>1 DEF NewPacket
    <2> QED BY <1>0, <1>1, <2>2, AnswerMoves
  <1> HIDE DEF m, rvr
  <1>6. /\ current_term'[i] = term /\ state'[i] = (IF newer THEN Follower ELSE state[i])
        /\ voted_for'[i] = IF grant THEN j ELSE vf
    BY ZenonT(30), <1>1 DEF TypeOK, ServerTypes
  <1>7. \A s \in Server : s # i => /\ current_term'[s] = current_term[s]
                                   /\ voted_for'[s] = voted_for[s] /\ state'[s] = state[s]
    BY ZenonT(30), <1>1 DEF TypeOK, ServerTypes
  <1>8. newer => m.term # current_term[i]
    BY SMT, <1>4
  <1>9. Yields
    BY <1>6, <1>7, <1>8 DEF Yields
  <1>10. BallotStep
    <2> SUFFICES ASSUME NEW v \in Server, NEW c \in Server, NEW t, t \in VoteTerms(v, c)',
                        t \notin VoteTerms(v, c), v # c
                 PROVE  /\ t <= current_term[c] /\ current_term'[c] = current_term[c]
                        /\ t = current_term[c] /\ state[c] = Candidate => UpToDate(log[v], log[c])
      BY DEF BallotStep
    <2>1. t = current_term'[v] /\ voted_for'[v] = c /\ (current_term[v] < t \/ voted_for[v] = Nil)
      BY DEF VoteStep
    <2>2. c # Nil
      BY ServerAssumption
    <2>3. v = i
      <3> SUFFICES ASSUME v # i PROVE FALSE
        OBVIOUS
      <3>1. current_term[v] < current_term[v] /\ current_term[v] \in Nat
        BY <1>7, <2>1, <2>2 DEF TypeOK, ServerTypes
      <3> QED BY SMT, <3>1
    <2>4. grant /\ c = j /\ t = term
      <3> SUFFICES ASSUME ~grant PROVE FALSE
        BY <1>6, <2>1, <2>3
      <3>1. vf = c /\ c # Nil /\ ~newer
        BY <1>6, <2>1, <2>2, <2>3
      <3>2. t = current_term[i] /\ voted_for[i] # Nil
        BY <1>6, <2>1, <2>3, <3>1
      <3>3. current_term[i] < current_term[i]
        BY <2>1, <2>3, <3>2
      <3> QED BY SMT, <1>4, <3>3
    <2>5. m.term >= term /\ (\/ Len(log[i]) = 0
                             \/ TermAt(log[i], Len(log[i])) < m.last_log_term
                             \/ /\ m.last_log_term = TermAt(log[i], Len(log[i]))
                                /\ Len(log[i]) <= m.last_log_idx)
      BY <2>4 DEF should_grant_vote, current_idx
    <2>6. t = m.term
      <3>1. newer \/ term = current_term[i]
        OBVIOUS
      <3> QED BY SMT, <1>4, <2>4, <2>5
    <2>7. t <= current_term[c] /\ current_term'[c] = current_term[c]
      BY <1>0, <1>3, <1>7, <2>4, <2>6 DEF AsksFor
    <2>8. ASSUME t = current_term[c], state[c] = Candidate PROVE UpToDate(log[v], log[c])
      <3>1. m.last_log_idx = Len(log[j]) /\ m.last_log_term = TermAt(log[j], Len(log[j]))
        BY <1>3, <2>4, <2>6, <2>8 DEF AsksFor
      <3> QED BY <2>3, <2>4, <2>5, <3>1 DEF UpToDate
    <2> QED BY <2>7, <2>8
  <1>11. ApplyInOrder'
    BY <1>1, CommitStays, QuietApply DEF Safe
  <1> QED BY <1>1, <1>5, <1>9, <1>10, <1>11, YieldingProgress

\* What the history records of a leader.
LEMMA LeadsRecords ==
    ASSUME TypeOK, NEW i \in Server, NEW t \in Nat, NEW lg \in Seq(Entry), Leads(i, t, lg)
    PROVE  /\ DOMAIN leader_log' = DOMAIN leader_log \cup {t} /\ leader_log'[t] = lg
           /\ \A u \in DOMAIN leader_log : u # t => leader_log'[u] = leader_log[u]
           /\ acked \subseteq acked'
           /\ \A v, u, n : <<v, u, n>> \in acked' =>
                 <<v, u, n>> \in acked \/ (v = i /\ u = t /\ n <= Len(lg))
  <1>1. leader_log' = [u \in DOMAIN leader_log \cup {t} |-> IF u = t THEN lg ELSE leader_log[u]]
    BY DEF Leads
  <1>2. acked' = acked \cup {<<i, t, l>> : l \in 0..Len(lg)}
    BY DEF Leads, Holds
  <1>3. \A n \in 0..Len(lg) : n <= Len(lg)
    BY SMT, SeqLength
  <1>4. ASSUME NEW v, NEW u, NEW n, <<v, u, n>> \in {<<i, t, l>> : l \in 0..Len(lg)}
        PROVE  v = i /\ u = t /\ n \in 0..Len(lg)
    BY <1>4
  <1>5. /\ DOMAIN leader_log' = DOMAIN leader_log \cup {t} /\ leader_log'[t] = lg
        /\ \A u \in DOMAIN leader_log : u # t => leader_log'[u] = leader_log[u]
    BY <1>1
  <1> QED BY <1>2, <1>3, <1>4, <1>5

\* Server i holds the first l entries of the leader of t.
LEMMA HoldsComplete ==
    ASSUME AcksComplete, NEW i \in Server, NEW t \in Nat, NEW l \in Nat, Holds(i, t, l)
    PROVE  /\ \A v \in Server : \A u, n, k \in Nat :
                 <<v, u, n>> \in acked' /\ k <= n => <<v, u, k>> \in acked'
           /\ <<i, t, l>> \in acked' /\ acked \subseteq acked'
           /\ \A v, u, n : <<v, u, n>> \in acked' =>
                 <<v, u, n>> \in acked \/ (v = i /\ u = t /\ n <= l)
  <1>1. acked' = acked \cup {<<i, t, x>> : x \in 0..l}
    BY DEF Holds
  <1>2. ASSUME NEW v, NEW u, NEW n
        PROVE  <<v, u, n>> \in {<<i, t, x>> : x \in 0..l} <=> v = i /\ u = t /\ n \in 0..l
    OBVIOUS
  <1>3. /\ l \in 0..l /\ \A n \in 0..l : n <= l
        /\ \A k \in Nat, n \in 0..l : k <= n => k \in 0..l
    BY SMT
  <1>4. ASSUME NEW v \in Server, NEW u \in Nat, NEW n \in Nat, NEW k \in Nat,
               <<v, u, n>> \in acked', k <= n
        PROVE  <<v, u, k>> \in acked'
    <2>1. CASE <<v, u, n>> \in acked
      BY <1>1, <1>4, <2>1 DEF AcksComplete
    <2>2. CASE <<v, u, n>> \in {<<i, t, x>> : x \in 0..l}
      BY <1>1, <1>2, <1>3, <1>4, <2>2
    <2> QED BY <1>1, <1>4, <2>1, <2>2
  <1> QED BY <1>1, <1>2, <1>3, <1>4

\* The leader i of a term appends nothing, or entries of its term.
LEMMA LeadsSteps ==
    ASSUME TypeOK, TypeOK', NEW i \in Server, Leads(i, current_term[i], log'[i]),
           current_term' = current_term, commit_idx' = commit_idx, state'[i] = Leader,
           \A s \in Server : s # i => log'[s] = log[s] /\ state'[s] = state[s],
           LeadersRecorded, AcksComplete, ElectionSafety'
    PROVE  AckStep /\ CommitStep /\ IngestStep /\ LeadersRecorded' /\ AcksComplete'
  <1> DEFINE t == current_term[i]
             hh == leader_log'
  <1>1. t \in Nat /\ log'[i] \in Seq(Entry)
    BY BothTypes
  <1>2. /\ DOMAIN hh = DOMAIN leader_log \cup {t} /\ hh[t] = log'[i] /\ acked \subseteq acked'
        /\ \A u \in DOMAIN leader_log : u # t => hh[u] = leader_log[u]
    <2>1. DOMAIN hh = DOMAIN leader_log \cup {t}
      BY <1>1, LeadsRecords
    <2>3. hh[t] = log'[i]
      BY DEF Leads
    <2>4. \A u \in DOMAIN leader_log : u # t => hh[u] = leader_log[u]
      BY <1>1, LeadsRecords
    <2>2. acked \subseteq acked'
      BY <1>1, LeadsRecords
    <2> QED BY <2>1, <2>2, <2>3, <2>4
  <1>3. ASSUME NEW v, NEW u, NEW n, <<v, u, n>> \in acked', <<v, u, n>> \notin acked
        PROVE  v = i /\ u = t /\ n <= Len(log'[i])
    BY <1>1, <1>3, LeadsRecords
  <1>4. AckStep
    <2>1. ASSUME NEW v \in Server, NEW u \in Nat, NEW n \in Nat,
                 <<v, u, n>> \in acked', <<v, u, n>> \notin acked
          PROVE  u = current_term'[v] /\ u \in DOMAIN hh /\ Agree(log'[v], hh[u], n)
      BY ZenonT(30), <1>2, <1>3, <2>1, AgreeRefl
    <2> QED BY <1>2, <2>1 DEF AckStep
  <1>5. CommitStep
    BY DEF CommitStep
  <1>6. IngestStep
    <2>1. ASSUME NEW v \in Server, state'[v] # Leader, NEW u \in Nat, NEW n \in Nat,
                 <<v, u, n>> \in acked'
          PROVE  <<v, u, n>> \in acked
      BY <1>3, <2>1
    <2> QED BY <2>1 DEF IngestStep
  <1>7. LeadersRecorded'
    <2> SUFFICES ASSUME NEW s \in Server, state'[s] = Leader
                 PROVE  current_term'[s] \in DOMAIN hh /\ log'[s] = hh[current_term'[s]]
      BY DEF LeadersRecorded
    <2>1. CASE s = i
      BY <1>2, <2>1
    <2>2. CASE s # i
      <3>1. current_term[s] \in DOMAIN leader_log /\ log[s] = leader_log[current_term[s]]
        BY <2>2 DEF LeadersRecorded
      <3>2. current_term[s] # t
        BY <2>2 DEF ElectionSafety
      <3> QED BY <1>2, <2>2, <3>1, <3>2
    <2> QED BY <2>1, <2>2
  <1>8. AcksComplete'
    <2>1. Len(log'[i]) \in Nat /\ Holds(i, t, Len(log'[i]))
      BY <1>1, SeqLength DEF Leads
    <2>2. /\ \A v \in Server : \A u, n, k \in Nat : <<v, u, n>> \in acked' /\ k <= n => <<v, u, k>> \in acked'
          /\ <<i, t, Len(log'[i])>> \in acked'
      BY <1>1, <2>1, HoldsComplete
    <2>3. ASSUME NEW s \in Server, state'[s] = Leader
          PROVE  <<s, current_term'[s], Len(log'[s])>> \in acked'
      <3>1. CASE s = i
        BY <2>2, <3>1
      <3>2. CASE s # i
        BY <1>2, <2>3, <3>2 DEF AcksComplete
      <3> QED BY <3>1, <3>2
    <2> QED BY <2>2, <2>3 DEF AcksComplete
  <1> QED BY <1>4, <1>5, <1>6, <1>7, <1>8

\* The leader's append of entries of its term.
LEMMA RecvEntryBatchProgress ==
    ASSUME TypeOK, TypeOK', VoteStep, ElectionSafety', Safe, NEW i \in Server,
           NEW cmds \in Seq(Command \cup {Kicker}), state[i] = Leader, raft_recv_entry_batch(i, cmds)
    PROVE  Progress
  <1> DEFINE t == current_term[i]
             hh == leader_log'
             new == [n \in 1..Len(cmds) |-> [term |-> t, cmd |-> cmds[n]]]
  <1>1. /\ current_term' = current_term /\ commit_idx' = commit_idx /\ match_idx' = match_idx
        /\ voted_for' = voted_for /\ state' = state /\ UNCHANGED applyVars
        /\ raft_send_appendentries(i, Peers(i), next_idx[i], chan)
        /\ Leads(i, t, log'[i]) /\ log' = [log EXCEPT ![i] = log[i] \o new]
    BY DEF raft_recv_entry_batch
  <1>2. new \in Seq(Entry) /\ \A n \in 1..Len(new) : new[n].term = t
    <2>1. Len(cmds) \in Nat /\ t \in Nat
      BY SeqLength DEF TypeOK, ServerTypes
    <2>2. ASSUME NEW n \in 1..Len(cmds) PROVE new[n] \in Entry /\ new[n].term = t
      <3>1. cmds[n] \in Command \cup {Kicker}
        BY ZenonT(30), SeqElement
      <3>2. [term |-> t, cmd |-> cmds[n]] \in Entry
        BY <2>1, <3>1 DEF Entry
      <3> QED BY <3>2
    <2>3. new \in [1..Len(cmds) -> Entry]
      BY <2>2
    <2>4. \A n \in 1..Len(cmds) : new[n].term = t
      BY <2>2
    <2> HIDE DEF new
    <2>5. new \in Seq(Entry) /\ Len(new) = Len(cmds)
      BY SMT, <2>1, <2>3
    <2> QED BY <2>4, <2>5
  <1> HIDE DEF new
  <1>3. /\ log'[i] = log[i] \o new /\ log[i] \in Seq(Entry) /\ log'[i] \in Seq(Entry)
        /\ Len(log[i]) \in Nat /\ Len(log'[i]) \in Nat /\ Len(new) \in Nat
        /\ \A s \in Server : s # i => log'[s] = log[s]
    <2>1. log[i] \in Seq(Entry) /\ log'[i] \in Seq(Entry)
      BY DEF TypeOK, ServerTypes
    <2>2. log'[i] = log[i] \o new /\ \A s \in Server : s # i => log'[s] = log[s]
      BY <1>1 DEF TypeOK, ServerTypes
    <2> QED BY <1>2, <2>1, <2>2, SeqLength
  <1>4. /\ Len(log'[i]) = Len(log[i]) + Len(new) /\ Agree(log'[i], log[i], Len(log[i]))
        /\ \A k \in 1..Len(new) : log'[i][Len(log[i]) + k] = new[k]
    <2>1. /\ Len(log[i] \o new) = Len(log[i]) + Len(new) /\ Agree(log[i] \o new, log[i], Len(log[i]))
          /\ \A k \in 1..Len(new) : (log[i] \o new)[Len(log[i]) + k] = new[k]
      BY <1>2, <1>3, AppendedProperties
    <2> QED BY <1>3, <2>1
  <1>5. ASSUME NEW k \in 1..Len(log'[i]), k > Len(log[i]) PROVE log'[i][k].term = t
    <2>1. k - Len(log[i]) \in 1..Len(new) /\ k = Len(log[i]) + (k - Len(log[i]))
      BY SMT, <1>3, <1>4, <1>5
    <2>2. PICK x \in 1..Len(new) : x = k - Len(log[i])
      BY <2>1
    <2>3. k = Len(log[i]) + x
      BY <2>1, <2>2
    <2>4. log'[i][Len(log[i]) + x] = new[x] /\ new[x].term = t
      BY <1>2, <1>4
    <2> QED BY <2>3, <2>4
  <1>6. t \in DOMAIN leader_log /\ log[i] = leader_log[t] /\ t \in Nat
    BY BothTypes DEF Safe, LeadersRecorded
  <1>7. /\ DOMAIN hh = DOMAIN leader_log /\ hh[t] = log'[i] /\ acked \subseteq acked'
        /\ \A u \in DOMAIN leader_log : u # t => hh[u] = leader_log[u]
    <2>1. DOMAIN hh = DOMAIN leader_log \cup {t}
      BY <1>1, <1>3, <1>6, LeadsRecords
    <2>3. hh[t] = log'[i]
      BY <1>1 DEF Leads
    <2>4. \A u \in DOMAIN leader_log : u # t => hh[u] = leader_log[u]
      BY ZenonT(30), <1>1, <1>3, <1>6, LeadsRecords
    <2>2. acked \subseteq acked'
      BY <1>1, <1>3, <1>6, LeadsRecords
    <2> QED BY <1>6, <2>1, <2>2, <2>3, <2>4
  <1>8. ReignStep
    <2>1. ASSUME NEW u \in DOMAIN leader_log
          PROVE  /\ Agree(hh[u], leader_log[u], Len(leader_log[u]))
                 /\ \A k \in 1..Len(hh[u]) : k > Len(leader_log[u]) => hh[u][k].term = u
      <3>1. CASE u = t
        BY <1>4, <1>5, <1>6, <1>7, <3>1
      <3>2. CASE u # t
        <4>1. hh[u] = leader_log[u] /\ leader_log[u] \in Seq(Entry)
          BY <1>7, <3>2, BothTypes DEF IsHistory
        <4>2. Len(leader_log[u]) \in Nat
          BY <4>1, SeqLength
        <4>3. /\ Len(leader_log[u]) <= Len(leader_log[u])
              /\ \A k \in 1..Len(leader_log[u]) : ~(k > Len(leader_log[u]))
          BY SMT, <4>2
        <4> QED BY <4>1, <4>3, AgreeRefl
      <3> QED BY <3>1, <3>2
    <2>2. Grown(leader_log, hh)
      BY <1>7, <2>1 DEF Grown
    <2> QED BY <1>7, <2>2 DEF ReignStep
  <1>9. AckStep /\ CommitStep /\ IngestStep /\ LeadersRecorded' /\ AcksComplete'
    BY <1>1, <1>3, LeadsSteps DEF Safe
  <1>10. LogStep
    BY <1>1, <1>3, <1>4 DEF LogStep
  <1>11. StateStep
    <2>1. Yields
      BY <1>1 DEF Yields
    <2>2. Candidate # Leader
      BY DEF Candidate, Leader
    <2>3. \A s \in Server : state'[s] = Candidate => log'[s] = log[s]
      BY <1>1, <1>3, <2>2
    <2> QED BY <2>1, <2>3, YieldingStates
  <1>12. \A k \in Peers(i) : next_idx[i][k] \in 1..(Len(log'[i]) + 1) /\ next_idx[i][k] <= Len(log'[i]) + 1
    <2>1. \A l, m, n \in Nat : \A x \in 1..(l + 1) : m = l + n => x \in 1..(m + 1) /\ x <= m + 1
      BY SMT
    <2>2. \A k \in Peers(i) : next_idx[i][k] \in 1..(Len(log[i]) + 1)
      BY NextInLog DEF Safe
    <2> QED BY <1>3, <1>4, <2>1, <2>2
  <1>13. /\ PacketStep
         /\ \A k \in Peers(i) : next_idx[i][k] <= Len(log'[i]) + 1 => next_idx'[i][k] <= Len(log'[i]) + 1
         /\ \A s \in Server : s # i => next_idx'[s] = next_idx[s]
    <2>1. state'[i] = Leader /\ Peers(i) \in SUBSET Peers(i)
      BY <1>1
    <2> QED BY <1>1, <1>12, <2>1, SendMoves
  <1>14. PeersKnown'
    BY <1>1, <1>3, <1>7, <1>12, <1>13, SentPeers DEF Safe
  <1>15. BallotStep
    BY <1>1, QuietBallots
  <1>16. ApplyInOrder'
    BY <1>1, CommitStays, QuietApply DEF Safe
  <1> QED BY <1>8, <1>9, <1>10, <1>11, <1>13, <1>14, <1>15, <1>16 DEF Progress

\* The packet at the head of a queue.
LEMMA ArrivedPacket ==
    ASSUME TypeOK, NEW i \in Server, NEW j \in Peers(i), NEW type, Arrived(i, j, type)
    PROVE  /\ j \in Server /\ i # j /\ chan[j][i] # <<>> /\ chan[j][i] \in Seq(Message)
           /\ Head(chan[j][i]).type = type /\ Head(chan[j][i]) \in Message
           /\ Has(chan[j][i], Head(chan[j][i]))
           /\ 1 \in 1..Len(chan[j][i]) /\ Head(chan[j][i]) = chan[j][i][1]
  <1>1. j \in Server /\ i # j /\ chan[j][i] # <<>> /\ Head(chan[j][i]).type = type
    BY DEF Peers, Arrived
  <1>2. chan[j][i] \in Seq(Message)
    BY <1>1 DEF TypeOK, ServerTypes
  <1>3. /\ Head(chan[j][i]) = chan[j][i][1] /\ 1 \in 1..Len(chan[j][i])
        /\ Head(chan[j][i]) \in Message
    BY <1>1, <1>2, SeqNonEmpty
  <1> QED BY <1>1, <1>2, <1>3 DEF Has

\* A server that takes a packet and at most steps down to a newer term.
LEMMA TakeProgress ==
    ASSUME TypeOK, TypeOK', VoteStep, Safe, NEW i \in Server, NEW j \in Peers(i),
           chan[j][i] # <<>>, chan' = Taken(i, j), UNCHANGED <<logVars, peerVars, historyVars>>,
           \/ UNCHANGED electionVars
           \/ \E t \in Nat : current_term[i] < t /\ StepDown(i, t)
    PROVE  Progress
  <1>1. UNCHANGED <<log, leader_log, acked, commit_idx, peerVars, applyVars>>
    BY DEF logVars, historyVars
  <1>2. PacketStep
    BY TakenMoves DEF Peers
  <1>3. ASSUME UNCHANGED electionVars PROVE BallotStep /\ Yields
    <2>1. BallotStep
      BY <1>3, QuietBallots DEF electionVars
    <2>2. Yields
      BY <1>3 DEF Yields, electionVars
    <2> QED BY <2>1, <2>2
  <1>4. ASSUME NEW t \in Nat, current_term[i] < t, StepDown(i, t) PROVE BallotStep /\ Yields
    <2>1. /\ current_term'[i] = t /\ voted_for'[i] = Nil /\ state'[i] = Follower
          /\ \A s \in Server : s # i => /\ current_term'[s] = current_term[s]
                                        /\ voted_for'[s] = voted_for[s] /\ state'[s] = state[s]
      BY <1>4 DEF StepDown, TypeOK, ServerTypes
    <2>2. t # current_term[i]
      BY SMT, <1>4, BothTypes
    <2>3. BallotStep
      BY <2>1, QuietBallots
    <2>4. Yields
      BY <2>1, <2>2 DEF Yields
    <2> QED BY <2>3, <2>4
  <1>5. BallotStep /\ Yields
    BY <1>3, <1>4
  <1>6. ApplyInOrder'
    BY <1>1, CommitStays, QuietApply DEF Safe
  <1> QED BY <1>1, <1>2, <1>5, <1>6, YieldingProgress

\* A candidate that is elected: no term is won twice.
LEMMA ElectedOnce ==
    ASSUME Quorums, TypeOK, Safe, NEW i \in Server, state[i] = Candidate, NEW M \in SUBSET Server,
           Majority(M), \A v \in M : current_term[i] \in VoteTerms(v, i)
    PROVE  current_term[i] \notin DOMAIN leader_log
  <1> SUFFICES ASSUME current_term[i] \in DOMAIN leader_log PROVE FALSE
    OBVIOUS
  <1>1. PICK w \in Server : \E Q \in SUBSET Server : ElectedBy(current_term[i], w, Q)
    BY DEF Safe, TermsElected
  <1>2. PICK Q \in SUBSET Server : ElectedBy(current_term[i], w, Q)
    BY <1>1
  <1>3. Majority(Q)
    BY <1>2 DEF ElectedBy
  <1>4. PICK v \in Server : v \in M /\ v \in Q
    <2>1. M \cap Q # {}
      BY <1>3, QuorumsMeet
    <2> QED BY <2>1
  <1>5. i = w
    BY <1>2, <1>4 DEF ElectedBy
  <1>6. state[i] = Leader
    BY <1>2, <1>5 DEF ElectedBy
  <1> QED BY <1>6 DEF Leader, Candidate

\* raft_recv_requestvote_response with the vote that makes a majority.
LEMMA WinProgress ==
    ASSUME Quorums, TypeOK, TypeOK', VoteStep, ElectionSafety', Safe, NEW i \in Server, NEW j \in Peers(i),
           Arrived(i, j, "RVR"), state[i] = Candidate, Head(chan[j][i]).term = current_term[i],
           Head(chan[j][i]).vote_granted, UNCHANGED <<current_term, voted_for, logVars>>,
           Majority(voted_for_me[i] \cup {j} \cup (IF voted_for[i] = i THEN {i} ELSE {})),
           raft_become_leader(i, Taken(i, j))
    PROVE  Progress
  <1> DEFINE t == current_term[i]
             hh == leader_log'
             M == voted_for_me[i] \cup {j} \cup {i}
             next == [k \in Server |-> IF k = i THEN next_idx[i][k] ELSE current_idx(i) + 1]
  <1>1. /\ UNCHANGED <<current_term, voted_for, log, commit_idx, applyVars>>
        /\ state' = [state EXCEPT ![i] = Leader] /\ Leads(i, t, log[i])
        /\ match_idx' = [match_idx EXCEPT ![i] = [k \in Server |-> IF k = i THEN @[k] ELSE 0]]
        /\ raft_send_appendentries(i, Peers(i), next, Taken(i, j))
    BY DEF raft_become_leader, logVars
  <1>2. /\ state'[i] = Leader
        /\ \A s \in Server : s # i => state'[s] = state[s] /\ match_idx'[s] = match_idx[s]
        /\ \A k \in Peers(i) : match_idx'[i][k] = 0
    <2>1. /\ state'[i] = Leader
          /\ \A s \in Server : s # i => state'[s] = state[s] /\ match_idx'[s] = match_idx[s]
      BY <1>1 DEF TypeOK, ServerTypes
    <2>2. match_idx'[i] = [k \in Server |-> IF k = i THEN match_idx[i][k] ELSE 0]
      BY <1>1 DEF TypeOK, ServerTypes
    <2>3. ASSUME NEW k \in Peers(i) PROVE match_idx'[i][k] = 0
      <3>1. k \in Server /\ k # i
        BY DEF Peers
      <3> QED BY <2>2, <3>1
    <2> QED BY <2>1, <2>3
  <1>3. /\ j \in Server /\ i # j /\ chan[j][i] # <<>>
        /\ 1 \in 1..Len(chan[j][i]) /\ Head(chan[j][i]) = chan[j][i][1]
        /\ chan[j][i][1].type = "RVR" /\ chan[j][i][1].vote_granted /\ chan[j][i][1].term = t
    <2>1. /\ j \in Server /\ i # j /\ chan[j][i] # <<>> /\ Head(chan[j][i]).type = "RVR"
          /\ 1 \in 1..Len(chan[j][i]) /\ Head(chan[j][i]) = chan[j][i][1]
      BY ArrivedPacket
    <2> QED BY <2>1
  <1>4. M \in SUBSET Server /\ \A v \in M : t \in VoteTerms(v, i)
    <2>1. Candidate # Follower
      BY DEF Candidate, Follower
    <2>2. t \in VoteTerms(j, i)
      BY <1>3 DEF VoteTerms
    <2>3. ASSUME NEW v \in voted_for_me[i] \cup {i} PROVE t \in VoteTerms(v, i)
      BY <2>1 DEF VoteTerms
    <2>4. voted_for_me[i] \in SUBSET Server
      BY DEF TypeOK, ServerTypes
    <2> QED BY <1>3, <2>2, <2>3, <2>4
  <1>5. Majority(M)
    <2>1. voted_for_me[i] \cup {j} \cup (IF voted_for[i] = i THEN {i} ELSE {}) \subseteq M
      OBVIOUS
    <2> HIDE DEF M
    <2> QED BY <1>4, <2>1, LargerQuorum
  <1> HIDE DEF M
  <1>6. t \notin DOMAIN leader_log /\ t \in Nat /\ log[i] \in Seq(Entry)
    BY <1>4, <1>5, ElectedOnce, BothTypes
  <1>7. /\ DOMAIN hh = DOMAIN leader_log \cup {t} /\ acked \subseteq acked'
        /\ \A u \in DOMAIN leader_log : hh[u] = leader_log[u]
    <2>1. DOMAIN hh = DOMAIN leader_log \cup {t}
      BY <1>1, <1>6, LeadsRecords
    <2>2. \A u \in DOMAIN leader_log : u # t => hh[u] = leader_log[u]
      BY ZenonT(30), <1>1, <1>6, LeadsRecords
    <2>3. acked \subseteq acked'
      BY <1>1, <1>6, LeadsRecords
    <2> QED BY <1>6, <2>1, <2>2, <2>3
  <1>8. hh[t] = log[i]
    BY <1>1 DEF Leads
  <1>9. ReignStep
    <2>1. ASSUME NEW u \in DOMAIN leader_log
          PROVE  /\ Agree(hh[u], leader_log[u], Len(leader_log[u]))
                 /\ \A k \in 1..Len(hh[u]) : ~(k > Len(leader_log[u]))
      <3>1. hh[u] = leader_log[u] /\ leader_log[u] \in Seq(Entry)
        BY <1>7, BothTypes DEF IsHistory
      <3>2. Len(leader_log[u]) \in Nat
        BY <3>1, SeqLength
      <3>3. /\ Len(leader_log[u]) <= Len(leader_log[u])
            /\ \A k \in 1..Len(leader_log[u]) : ~(k > Len(leader_log[u]))
        BY SMT, <3>2
      <3> QED BY <3>1, <3>3, AgreeRefl
    <2>2. Grown(leader_log, hh)
      BY <1>7, <2>1 DEF Grown
    <2>3. ASSUME NEW u \in DOMAIN hh, u \notin DOMAIN leader_log PROVE u = t
      BY <1>7, <2>3
    <2>4. /\ state[i] = Candidate /\ t = current_term[i] /\ hh[t] = log[i]
          /\ state'[i] = Leader /\ t = current_term'[i]
          /\ Majority(M) /\ \A v \in M : t \in VoteTerms(v, i)
      BY <1>1, <1>2, <1>4, <1>5, <1>8
    <2> QED BY <1>4, <2>2, <2>3, <2>4 DEF ReignStep
  <1>10. AckStep /\ CommitStep /\ IngestStep /\ LeadersRecorded' /\ AcksComplete'
    <2>1. Leads(i, t, log'[i])
      BY <1>1
    <2> QED BY <1>1, <1>2, <2>1, LeadsSteps DEF Safe
  <1>11. LogStep
    BY <1>1 DEF LogStep
  <1>12. StateStep
    <2>1. ASSUME NEW s \in Server, s = i PROVE state[s] # Leader /\ state'[s] # Candidate
      BY <1>2, <2>1 DEF Leader, Candidate
    <2> QED BY <1>1, <1>2, <1>6, <2>1 DEF StateStep
  <1>13. \A k \in Peers(i) : next[k] \in 1..(Len(log'[i]) + 1) /\ next[k] <= Len(log'[i]) + 1
    <2>1. \A n \in Nat : n + 1 \in 1..(n + 1) /\ n + 1 <= n + 1
      BY SMT
    <2>2. \A k \in Peers(i) : next[k] = Len(log[i]) + 1
      BY DEF Peers, current_idx
    <2> QED BY <1>1, <2>1, <2>2, BothTypes
  <1> HIDE DEF next
  <1>14. /\ PacketStep
         /\ \A k \in Peers(i) : next[k] <= Len(log'[i]) + 1 => next_idx'[i][k] <= Len(log'[i]) + 1
         /\ \A s \in Server : s # i => next_idx'[s] = next_idx[s]
    <2>1. Peers(i) \in SUBSET Peers(i)
      OBVIOUS
    <2>2. PICK net : net = Taken(i, j)
      OBVIOUS
    <2> QED BY <1>1, <1>2, <1>3, <1>13, <2>1, <2>2, SendMoves
  <1>15. PeersKnown'
    <2> SUFFICES ASSUME NEW s \in Server, NEW k \in Peers(s), state'[s] = Leader
                 PROVE  /\ match_idx'[s][k] > 0 => <<k, current_term'[s], match_idx'[s][k]>> \in acked'
                        /\ next_idx'[s][k] <= Len(log'[s]) + 1
      BY DEF PeersKnown
    <2>1. CASE s = i
      <3>1. ~(0 > 0)
        BY SMT
      <3> QED BY <1>2, <1>13, <1>14, <2>1, <3>1
    <2>2. CASE s # i
      <3>1. /\ match_idx[s][k] > 0 => <<k, current_term[s], match_idx[s][k]>> \in acked
            /\ next_idx[s][k] <= Len(log[s]) + 1
        BY <1>2, <2>2 DEF Safe, PeersKnown
      <3> QED BY <1>1, <1>2, <1>7, <1>14, <2>2, <3>1
    <2> QED BY <2>1, <2>2
  <1>16. BallotStep
    BY <1>1, QuietBallots
  <1>17. ApplyInOrder'
    BY <1>1, CommitStays, QuietApply DEF Safe
  <1> QED BY <1>9, <1>10, <1>11, <1>12, <1>14, <1>15, <1>16, <1>17 DEF Progress

\* raft_recv_requestvote_response.
LEMMA RecvRequestVoteResponseProgress ==
    ASSUME Quorums, TypeOK, TypeOK', VoteStep, ElectionSafety', Safe, NEW i \in Server, NEW j \in Peers(i),
           raft_recv_requestvote_response(i, j)
    PROVE  Progress
  <1> DEFINE m == Head(chan[j][i])
             votes == voted_for_me[i] \cup {j} \cup (IF voted_for[i] = i THEN {i} ELSE {})
  <1>1. Arrived(i, j, "RVR")
    BY DEF raft_recv_requestvote_response
  <1>2. chan[j][i] # <<>> /\ m \in Message /\ m.type = "RVR" /\ j \in Server
    BY <1>1, ArrivedPacket
  <1>3. m.term \in Nat
    BY <1>2 DEF Message
  <1>4. CASE /\ state[i] = Candidate /\ m.term = current_term[i] /\ m.vote_granted
             /\ CountVote(i, j)
    <2>1. CASE Majority(votes)
      <3>1. UNCHANGED <<current_term, voted_for, logVars>> /\ raft_become_leader(i, Taken(i, j))
        BY <1>4, <2>1 DEF CountVote
      <3> QED BY <1>1, <1>4, <2>1, <3>1, WinProgress
    <2>2. CASE ~Majority(votes)
      <3>1. /\ UNCHANGED <<current_term, voted_for, logVars, state, peerVars, historyVars>>
            /\ chan' = Taken(i, j)
        BY <1>4, <2>2 DEF CountVote
      <3>2. UNCHANGED <<log, leader_log, acked, commit_idx, peerVars, applyVars>>
        BY <3>1 DEF logVars, historyVars
      <3>3. PacketStep
        BY <1>2, <3>1, TakenMoves
      <3>4. BallotStep
        BY <3>1, QuietBallots
      <3>5. Yields
        BY <3>1 DEF Yields
      <3>6. ApplyInOrder'
        BY <3>2, CommitStays, QuietApply DEF Safe
      <3> QED BY <3>2, <3>3, <3>4, <3>5, <3>6, YieldingProgress
    <2> QED BY <2>1, <2>2
  <1>5. CASE /\ current_term[i] < m.term /\ StepDown(i, m.term) /\ chan' = Taken(i, j)
             /\ UNCHANGED <<logVars, peerVars, historyVars>>
    BY <1>2, <1>3, <1>5, TakeProgress
  <1>6. CASE chan' = Taken(i, j) /\ UNCHANGED <<electionVars, logVars, peerVars, historyVars>>
    BY <1>2, <1>6, TakeProgress
  <1> QED BY <1>4, <1>5, <1>6 DEF raft_recv_requestvote_response

\* An AppendEntries at the head of a queue: its sender leads its term.
LEMMA ArrivedEntries ==
    ASSUME TypeOK, Safe, NEW i \in Server, NEW j \in Peers(i), Arrived(i, j, "AE"),
           NEW m, m = Head(chan[j][i])
    PROVE  /\ m.type = "AE" /\ m.term \in Nat /\ m.prev_log_idx \in Nat /\ m.leader_commit \in Nat
           /\ m.entries \in Seq(Entry) /\ Has(chan[j][i], m) /\ Describes(m, leader_log, acked)
           /\ state[i] = Leader => current_term[i] # m.term
  <1>1. j \in Server /\ i # j /\ m.type = "AE" /\ m \in Message /\ Has(chan[j][i], m)
    BY ArrivedPacket
  <1>2. /\ m.term \in Nat /\ m.prev_log_idx \in Nat /\ m.leader_commit \in Nat
        /\ m.entries \in Seq(Entry)
    BY <1>1 DEF Message
  <1>3. Describes(m, leader_log, acked)
    BY <1>1 DEF Safe, PacketsAreTrue
  <1>4. \A k \in Server : state[k] = Leader /\ current_term[k] = m.term => k = j
    <2>1. \A a, b \in Server : \A x : Has(chan[b][a], x) /\ x.type = "AE" =>
             \A k \in Server : state[k] = Leader /\ current_term[k] = x.term => k = b
      BY DEF Safe, OneSender
    <2> QED BY <1>1, <2>1
  <1> QED BY <1>1, <1>2, <1>3, <1>4

\* The response to one.
LEMMA AnswerPacket ==
    ASSUME TypeOK, NEW i \in Server, NEW j \in Peers(i), Arrived(i, j, "AE"),
           NEW h, h = Head(chan[j][i]), UNCHANGED leader_log,
           NEW term, NEW success, NEW idx, Answer(i, j, term, success, idx),
           success => term = h.term /\ <<i, term, idx>> \in acked',
           ~success => h.term < term \/ (term \in DOMAIN leader_log /\ idx < Len(leader_log[term]))
    PROVE  PacketStep /\ QueueMoves(j, i, 1)
  <1>1. j \in Server /\ i # j /\ chan[j][i] # <<>>
    BY DEF Peers, Arrived
  <1> DEFINE m == [type |-> "AER", term |-> term, success |-> success, current_idx |-> idx]
  <1>2. m.type = "AER" /\ m.success = success /\ m.term = term /\ m.current_idx = idx
    OBVIOUS
  <1>3. chan' = [Taken(i, j) EXCEPT ![i][j] = Send(@, m)]
    BY DEF Answer
  <1> HIDE DEF m
  <1>4. Answers(i, j, m)
    <2>1. leader_log' = leader_log
      OBVIOUS
    <2> QED BY <1>2, <2>1 DEF Answers, Short
  <1>5. NewPacket(i, j, m)
    BY <1>1, <1>2, <1>4 DEF NewPacket
  <1> QED BY <1>1, <1>3, <1>5, AnswerMoves

\* Whoever takes an AppendEntries that is not stale follows its sender.
LEMMA FollowProgress ==
    ASSUME TypeOK, TypeOK', VoteStep, Safe, NEW i \in Server, NEW j \in Peers(i),
           Arrived(i, j, "AE"), NEW m, m = Head(chan[j][i]), ~StaleTerm(i, m), FollowLeader(i, m),
           UNCHANGED <<applyVars, peerVars, leader_log>>,
           \A s \in Server : s # i => log'[s] = log[s],
           \A v \in Server : \A t, n, k \in Nat :
               <<v, t, n>> \in acked' /\ k <= n => <<v, t, k>> \in acked',
           LogStep, AckStep, CommitStep, IngestStep, PacketStep
    PROVE  Progress /\ current_term'[i] = m.term
  <1>1. /\ m.term \in Nat /\ current_term[i] \in Nat
        /\ state[i] = Leader => current_term[i] # m.term
    BY ArrivedEntries, BothTypes
  <1>2. /\ current_term'[i] = m.term
        /\ voted_for'[i] = (IF current_term[i] < m.term THEN Nil ELSE voted_for[i])
        /\ state'[i] = (IF current_term[i] < m.term \/ state[i] = Candidate THEN Follower ELSE state[i])
        /\ \A s \in Server : s # i => /\ current_term'[s] = current_term[s]
                                      /\ voted_for'[s] = voted_for[s] /\ state'[s] = state[s]
    BY DEF FollowLeader, TypeOK, ServerTypes
  <1>3. current_term[i] < m.term \/ current_term[i] = m.term
    BY SMT, <1>1 DEF StaleTerm
  <1>4. state'[i] = Follower
    <2>1. state[i] \in {Follower, Candidate, Leader}
      BY DEF TypeOK, ServerTypes
    <2> QED BY <1>1, <1>2, <1>3, <2>1
  <1>5. Yields
    <2>1. state[i] = Leader => current_term'[i] # current_term[i]
      BY <1>1, <1>2
    <2> QED BY <1>2, <1>4, <2>1 DEF Yields
  <1>6. Follower # Leader /\ Follower # Candidate
    BY DEF Follower, Leader, Candidate
  <1>7. /\ StateStep
        /\ \A s \in Server : state'[s] = Leader => /\ s # i /\ state[s] = Leader
                                                   /\ current_term'[s] = current_term[s]
    <2>1. \A s \in Server : state'[s] = Candidate => log'[s] = log[s]
      BY <1>4, <1>6
    <2> QED BY <1>4, <1>5, <1>6, <2>1, YieldingStates
  <1>8. BallotStep
    <2>1. ASSUME NEW s \in Server
          PROVE  \/ voted_for'[s] = voted_for[s] /\ current_term'[s] = current_term[s]
                 \/ voted_for'[s] = Nil
      BY <1>2, <1>3
    <2> QED BY <2>1, QuietBallots
  <1>9. LeadersRecorded'
    BY <1>7 DEF Safe, LeadersRecorded
  <1>10. acked \subseteq acked'
    BY DEF AckStep
  <1>11. AcksComplete'
    <2>1. ASSUME NEW s \in Server, state'[s] = Leader
          PROVE  <<s, current_term'[s], Len(log'[s])>> \in acked'
      BY <1>7, <1>10, <2>1 DEF Safe, AcksComplete
    <2> QED BY <2>1 DEF AcksComplete
  <1>12. PeersKnown'
    BY <1>7, <1>10, QuietPeers DEF Safe
  <1>13. ReignStep
    BY SameReign
  <1>14. ApplyInOrder'
    <2>1. CommitsMoveUp
      <3> SUFFICES ASSUME NEW s \in Server PROVE commit_idx[s] <= commit_idx'[s]
        BY DEF CommitsMoveUp
      <3>1. commit_idx'[s] = commit_idx[s] \/ commit_idx[s] < commit_idx'[s]
        BY DEF CommitStep
      <3> QED BY SMT, <3>1, BothTypes
    <2> QED BY <2>1, QuietApply DEF Safe
  <1> QED BY <1>2, <1>7, <1>8, <1>9, <1>11, <1>12, <1>13, <1>14 DEF Progress

\* An AppendEntries that is refused: it is stale, or lacks its previous entry.
LEMMA RefusedProgress ==
    ASSUME TypeOK, TypeOK', VoteStep, Safe, NEW i \in Server, NEW j \in Peers(i),
           Arrived(i, j, "AE"), NEW m, m = Head(chan[j][i]),
           UNCHANGED <<log, commit_idx, acked, applyVars, peerVars, leader_log>>,
           NEW term, NEW idx, Answer(i, j, term, FALSE, idx),
           m.term < term \/ (term \in DOMAIN leader_log /\ idx < Len(leader_log[term])),
           \/ UNCHANGED <<current_term, voted_for, state>>
           \/ ~StaleTerm(i, m) /\ FollowLeader(i, m)
    PROVE  Progress
  <1>1. PacketStep
    BY AnswerPacket
  <1>2. LogStep /\ AckStep /\ CommitStep /\ IngestStep
    BY QuietHistory
  <1>3. CASE UNCHANGED <<current_term, voted_for, state>>
    <2>1. BallotStep
      BY <1>3, QuietBallots
    <2>2. Yields
      BY <1>3 DEF Yields
    <2>3. ApplyInOrder'
      BY CommitStays, QuietApply DEF Safe
    <2> QED BY <1>1, <2>1, <2>2, <2>3, YieldingProgress
  <1>4. CASE ~StaleTerm(i, m) /\ FollowLeader(i, m)
    <2>1. \A v \in Server : \A t, n, k \in Nat :
             <<v, t, n>> \in acked' /\ k <= n => <<v, t, k>> \in acked'
      BY DEF Safe, AcksComplete
    <2> QED BY <1>1, <1>2, <1>4, <2>1, FollowProgress
  <1> QED BY <1>3, <1>4

\* A log cut in front of an entry that its leader does not have.
LEMMA CutFollowed ==
    ASSUME TypeOK, TypeOK', NEW i \in Server, NEW t \in DOMAIN leader_log, NEW p \in 1..Len(log[i]),
           TermAt(log[i], p) # TermAt(leader_log[t], p), log'[i] = SubSeq(log[i], 1, p - 1)
    PROVE  Followed(i, t)
  <1>1. log[i] \in Seq(Entry) /\ log'[i] \in Seq(Entry) /\ Len(log[i]) \in Nat
        /\ leader_log[t] \in Seq(Entry)
    BY BothTypes DEF IsHistory
  <1>2. p \in Nat /\ p - 1 \in Nat /\ p - 1 <= Len(log[i])
    BY SMT, <1>1
  <1>3. PICK c \in Nat : c = p - 1
    BY <1>2
  <1>4. Len(log'[i]) = c /\ Agree(log'[i], log[i], c)
    BY <1>1, <1>2, <1>3, CutProperties
  <1>5. ASSUME NEW n \in 1..c
        PROVE  n \in 1..Len(log[i]) /\ Agree(log'[i], log[i], n)
    <2>1. n \in Nat /\ n <= c /\ n \in 1..Len(log[i])
      BY SMT, <1>1, <1>2, <1>3
    <2> QED BY <1>1, <1>4, <2>1, AgreeLess
  <1>6. ASSUME NEW n \in 1..Len(log[i]), n \notin 1..c PROVE ~Agree(log[i], leader_log[t], n)
    <2>1. n \in Nat /\ p \in 1..n
      BY SMT, <1>1, <1>2, <1>3, <1>6
    <2> QED BY <1>1, <2>1, AgreeTermAt
  <1> QED BY <1>4, <1>5, <1>6 DEF Followed

\* An AppendEntries whose previous entry is another one: what disagrees goes.
LEMMA MismatchProgress ==
    ASSUME TypeOK, TypeOK', VoteStep, Safe, NEW i \in Server, NEW j \in Peers(i),
           Arrived(i, j, "AE"), NEW m, m = Head(chan[j][i]), ~StaleTerm(i, m), PrevMismatch(i, m),
           FollowLeader(i, m), Answer(i, j, m.term, FALSE, m.prev_log_idx - 1),
           log' = [log EXCEPT ![i] = SubSeq(@, 1, m.prev_log_idx - 1)],
           UNCHANGED <<commit_idx, acked, applyVars, peerVars, leader_log>>
    PROVE  Progress
  <1> DEFINE t == m.term
             p == m.prev_log_idx
  <1>1. t \in DOMAIN leader_log /\ p \in Nat /\ TermAt(leader_log[t], p) = m.prev_log_term
    BY ArrivedEntries DEF Describes
  <1>2. p \in 1..Len(log[i]) /\ TermAt(log[i], p) # m.prev_log_term
    <2>1. 0 < p /\ p \in log_base[i]..Len(log[i]) /\ TermAt(log[i], p) # m.prev_log_term
      BY DEF PrevMismatch, current_idx
    <2>2. log_base[i] \in Nat /\ Len(log[i]) \in Nat
      BY BothTypes DEF TypeOK, ServerTypes
    <2>3. \A a, b, c \in Nat : 0 < a /\ a \in b..c => a \in 1..c
      BY SMT
    <2> QED BY <1>1, <2>1, <2>2, <2>3
  <1>3. /\ \A s \in Server : s # i => log'[s] = log[s]
        /\ log'[i] = SubSeq(log[i], 1, p - 1)
    BY DEF TypeOK, ServerTypes
  <1>4. Followed(i, t)
    BY <1>1, <1>2, <1>3, CutFollowed
  <1>5. current_term'[i] = t
    BY DEF FollowLeader, TypeOK, ServerTypes
  <1>6. LogStep
    BY <1>3, <1>4, <1>5 DEF LogStep
  <1>7. AckStep /\ CommitStep /\ IngestStep
    BY DEF AckStep, CommitStep, IngestStep
  <1>8. PacketStep
    <2>1. p <= Len(leader_log[t]) /\ Len(leader_log[t]) \in Nat
      <3>1. p <= Len(leader_log[t])
        BY ArrivedEntries DEF Describes
      <3>2. leader_log[t] \in Seq(Entry)
        BY <1>1, BothTypes DEF IsHistory
      <3> QED BY <3>1, <3>2, SeqLength
    <2>2. p - 1 < Len(leader_log[t])
      BY <1>1, <2>1, PredecessorLess
    <2> QED BY <1>1, <2>2, AnswerPacket
  <1>9. \A v \in Server : \A u, n, k \in Nat :
           <<v, u, n>> \in acked' /\ k <= n => <<v, u, k>> \in acked'
    BY DEF Safe, AcksComplete
  <1> QED BY <1>3, <1>6, <1>7, <1>8, <1>9, FollowProgress

\* What a server has committed, the leader of its term or a later one has.
LEMMA CommittedAgrees ==
    ASSUME Quorums, TypeOK, Safe, NEW i \in Server, NEW t \in DOMAIN leader_log,
           current_term[i] <= t, NEW n \in Nat, n > 0, n <= commit_idx[i]
    PROVE  Agree(log[i], leader_log[t], n)
  <1>0. /\ IsHistory(leader_log) /\ log[i] \in Seq(Entry) /\ commit_idx[i] \in Nat
        /\ current_term[i] \in Nat /\ t \in Nat
        /\ \A u \in DOMAIN leader_log : u \in Nat /\ leader_log[u] \in Seq(Entry)
    BY Types
  <1>1. commit_idx[i] > 0
    BY SMT, <1>0
  <1>2. PICK u \in DOMAIN leader_log : \E k \in Nat :
           /\ u <= current_term[i] /\ commit_idx[i] <= k /\ Chosen(k, u, leader_log, acked)
           /\ Agree(log[i], leader_log[u], commit_idx[i])
    BY <1>1 DEF Safe, CommitsSettled, IsSettled
  <1>3. PICK k \in Nat :
           /\ u <= current_term[i] /\ commit_idx[i] <= k /\ Chosen(k, u, leader_log, acked)
           /\ Agree(log[i], leader_log[u], commit_idx[i])
    BY <1>2
  <1>4. u <= t /\ n <= k
    BY SMT, <1>0, <1>3
  <1>5. Agree(leader_log[t], leader_log[u], k)
    BY <1>0, <1>3, <1>4, ChosenIsHeld DEF Safe
  <1>6. Agree(leader_log[t], leader_log[u], n)
    BY <1>0, <1>4, <1>5, AgreeLess
  <1>7. Agree(log[i], leader_log[u], n)
    BY <1>0, <1>3, AgreeLess
  <1> QED BY <1>6, <1>7, AgreeSym, AgreeTrans

\* Where the checks of raft_recv_appendentries pass, the previous entry is
\* that of the leader, also below log_base, where they do not look.
LEMMA PrevAgrees ==
    ASSUME Quorums, TypeOK, Safe, NEW i \in Server, NEW m, Describes(m, leader_log, acked),
           m.prev_log_idx \in Nat, current_term[i] <= m.term, ~NoPrevEntry(i, m), ~PrevMismatch(i, m)
    PROVE  Agree(log[i], leader_log[m.term], m.prev_log_idx)
  <1>1. PICK t \in DOMAIN leader_log : t = m.term
    BY DEF Describes
  <1>2. PICK p \in Nat : p = m.prev_log_idx
    OBVIOUS
  <1>3. /\ log[i] \in Seq(Entry) /\ Len(log[i]) \in Nat /\ commit_idx[i] \in Nat
        /\ log_base[i] \in Nat /\ last_applied_idx[i] \in Nat
        /\ leader_log[t] \in Seq(Entry) /\ Len(leader_log[t]) \in Nat
    BY Types
  <1>4. /\ p <= Len(leader_log[t]) /\ TermAt(leader_log[t], p) = m.prev_log_term
        /\ Linked(log[i], leader_log) /\ Linked(leader_log[t], leader_log)
    BY <1>1, <1>2 DEF Describes, Safe, LogsLinked, LeaderLogs
  <1>5. CASE p = 0
    <2>1. 0 <= Len(log[i]) /\ 0 <= Len(leader_log[t]) /\ \A k \in 1..0 : log[i][k] = leader_log[t][k]
      BY SMT, <1>3
    <2>2. Agree(log[i], leader_log[t], 0)
      BY ZenonT(30), <1>3, <2>1, AgreeIs
    <2> QED BY <1>1, <1>2, <1>5, <2>2
  <1>6. CASE p > 0 /\ p < log_base[i]
    <2>1. log_base[i] <= last_applied_idx[i] /\ last_applied_idx[i] <= commit_idx[i]
      BY DEF Safe, ApplyInOrder
    <2>2. p <= commit_idx[i]
      BY SMT, <1>3, <1>6, <2>1
    <2> QED BY <1>1, <1>2, <1>6, <2>2, CommittedAgrees
  <1>7. CASE p > 0 /\ log_base[i] <= p
    <2>1. ~(p > Len(log[i]))
      BY <1>2, <1>7 DEF NoPrevEntry, current_idx
    <2>2. 0 < p /\ p \in log_base[i]..Len(log[i]) /\ p \in 1..Len(log[i]) /\ p \in 1..Len(leader_log[t])
      BY SMT, <1>3, <1>4, <1>7, <2>1
    <2>3. TermAt(log[i], p) = m.prev_log_term
      BY <1>2, <2>2 DEF PrevMismatch, current_idx
    <2>4. log[i][p].term = leader_log[t][p].term
      BY <1>4, <2>2, <2>3 DEF TermAt
    <2>5. Agree(log[i], leader_log[t], p)
      BY <1>4, <2>2, <2>4, LinkedLogsMatch
    <2> QED BY <1>1, <1>2, <2>5
  <1>8. p = 0 \/ (p > 0 /\ p < log_base[i]) \/ (p > 0 /\ log_base[i] <= p)
    BY SMT, <1>3
  <1> QED BY <1>5, <1>6, <1>7, <1>8

\* The log is left as it is.
LEMMA SameFollowed ==
    ASSUME TypeOK, NEW i \in Server, NEW t \in DOMAIN leader_log, log'[i] = log[i]
    PROVE  Followed(i, t)
  <1>1. log[i] \in Seq(Entry)
    BY Types
  <1>2. \A n \in 1..Len(log[i]) : Agree(log[i], log[i], n)
    BY <1>1, EntryTerm, AgreeRefl
  <1> QED BY <1>2 DEF Followed

\* The log is cut to where the leader's ended.
LEMMA EmptyFollowed ==
    ASSUME TypeOK, TypeOK', NEW i \in Server, NEW t \in DOMAIN leader_log, NEW p \in Nat,
           p <= Len(log[i]), log'[i] = SubSeq(log[i], 1, p), Agree(log[i], leader_log[t], p),
           \A k \in 1..Len(leader_log[t]) : k > p => leader_log[t][k].term = t,
           \A k \in Nat : <<i, t, k>> \in acked => k <= p,
           t = current_term[i] => commit_idx[i] <= p
    PROVE  Followed(i, t) /\ Agree(log'[i], leader_log[t], p)
  <1>1. log[i] \in Seq(Entry) /\ log'[i] \in Seq(Entry) /\ Len(log[i]) \in Nat
    BY BothTypes
  <1>2. Len(log'[i]) = p /\ Agree(log'[i], log[i], p)
    BY <1>1, CutProperties
  <1>3. ASSUME NEW n \in 1..p
        PROVE  n \in 1..Len(log[i]) /\ Agree(log'[i], log[i], n)
    <2>1. n \in Nat /\ n <= p /\ n \in 1..Len(log[i])
      BY SMT, <1>1
    <2> QED BY <1>1, <1>2, <2>1, AgreeLess
  <1>4. ASSUME NEW n \in 1..Len(log[i]), n \notin 1..p PROVE Beyond(i, t, n)
    <2>1. p < n
      BY SMT, <1>1, <1>4
    <2> QED BY <2>1 DEF Beyond
  <1>5. Followed(i, t)
    BY <1>2, <1>3, <1>4 DEF Followed
  <1> QED BY <1>2, <1>5, AgreeTrans

\* One more entry in common.
LEMMA AgreeMore ==
    ASSUME NEW a \in Seq(Entry), NEW b \in Seq(Entry), NEW n \in Nat, Agree(a, b, n),
           n + 1 <= Len(a), n + 1 <= Len(b), a[n + 1] = b[n + 1]
    PROVE  Agree(a, b, n + 1)
  <1>1. Len(a) \in Nat /\ Len(b) \in Nat /\ n + 1 \in Nat
    BY SMT, SeqLength
  <1>2. \A k \in 1..n : a[k] = b[k]
    BY AgreeIs
  <1>3. \A k \in 1..(n + 1) : k \in 1..n \/ k = n + 1
    BY SMT
  <1>4. \A k \in 1..(n + 1) : a[k] = b[k]
    BY <1>2, <1>3
  <1> QED BY <1>1, <1>4, AgreeIs

\* The log is cut behind the previous entry and the entry sent put there.
LEMMA AppendFollowed ==
    ASSUME TypeOK, TypeOK', NEW i \in Server, NEW t \in DOMAIN leader_log, NEW p \in Nat,
           NEW es \in Seq(Entry), Len(es) = 1, p + 1 <= Len(leader_log[t]),
           es[1] = leader_log[t][p + 1], Agree(log[i], leader_log[t], p),
           ~(p < Len(log[i]) /\ log[i][p + 1].term = es[1].term),
           log'[i] = SubSeq(log[i], 1, p) \o es
    PROVE  Followed(i, t) /\ Agree(log'[i], leader_log[t], p + 1)
  <1>1. /\ log[i] \in Seq(Entry) /\ log'[i] \in Seq(Entry) /\ Len(log[i]) \in Nat
        /\ leader_log[t] \in Seq(Entry) /\ Len(leader_log[t]) \in Nat
    BY BothTypes, Types
  <1>2. p <= Len(log[i]) /\ p + 1 \in Nat /\ 1 \in 1..Len(es) /\ p \in Nat
    BY SMT, <1>1 DEF Agree
  <1>3. PICK c \in Seq(Entry) : c = SubSeq(log[i], 1, p)
    BY <1>1, <1>2, CutProperties
  <1>4. Len(c) = p /\ Agree(c, log[i], p)
    BY <1>1, <1>2, <1>3, CutProperties
  <1>5. /\ Len(log'[i]) = p + 1 /\ Agree(log'[i], c, p)
        /\ \A k \in 1..Len(es) : log'[i][p + k] = es[k]
    <2>1. log'[i] = c \o es
      BY <1>3
    <2>2. /\ Len(c \o es) = Len(c) + Len(es) /\ Agree(c \o es, c, Len(c))
          /\ \A k \in 1..Len(es) : (c \o es)[Len(c) + k] = es[k]
      BY AppendedProperties
    <2> QED BY <1>4, <2>1, <2>2
  <1>6. Agree(log'[i], log[i], p)
    BY <1>4, <1>5, AgreeTrans
  <1>7. Agree(log'[i], leader_log[t], p)
    BY <1>6, AgreeTrans
  <1>8. log'[i][p + 1] = leader_log[t][p + 1] /\ p + 1 <= Len(log'[i])
    <2>1. p + 1 <= p + 1
      BY SMT
    <2> QED BY <1>2, <1>5, <2>1
  <1>9. Agree(log'[i], leader_log[t], p + 1)
    BY <1>1, <1>7, <1>8, AgreeMore
  <1>10. ASSUME NEW n \in 1..(p + 1) PROVE Agree(log'[i], leader_log[t], n)
    <2>1. n \in Nat /\ n <= p + 1
      BY SMT
    <2> QED BY <1>1, <1>2, <1>9, <2>1, AgreeLess
  <1>11. ASSUME NEW n \in 1..Len(log[i]), ~Agree(log'[i], log[i], n)
         PROVE  ~Agree(log[i], leader_log[t], n)
    <2>1. n \in Nat /\ ~(n <= p)
      <3>1. n \in Nat
        BY SMT, <1>1
      <3> QED BY <1>1, <1>6, <1>11, <3>1, AgreeLess
    <2>2. p < Len(log[i]) /\ p + 1 \in 1..n
      BY SMT, <1>1, <2>1
    <2>3. log[i][p + 1].term # leader_log[t][p + 1].term
      BY <2>2
    <2>4. ASSUME Agree(log[i], leader_log[t], n) PROVE FALSE
      <3>1. \A k \in 1..n : log[i][k] = leader_log[t][k]
        BY ZenonT(30), <1>1, <2>1, <2>4, AgreeIs
      <3> QED BY <2>2, <2>3, <3>1
    <2> QED BY <2>4
  <1>12. Followed(i, t)
    BY <1>5, <1>10, <1>11 DEF Followed
  <1> QED BY <1>9, <1>12

\* AcceptEntries follows the leader: the log agrees with the leader's as far
\* as the packet reaches, and loses nothing it shared with it.
LEMMA AcceptFollowed ==
    ASSUME Quorums, TypeOK, TypeOK', Safe, NEW i \in Server, NEW m,
           Describes(m, leader_log, acked), m.prev_log_idx \in Nat, m.entries \in Seq(Entry),
           current_term[i] <= m.term, ~NoPrevEntry(i, m), ~PrevMismatch(i, m),
           m.entries = <<>> =>
               /\ \A k \in Nat : <<i, m.term, k>> \in acked => k <= m.prev_log_idx
               /\ m.term = current_term[i] => commit_idx[i] <= m.prev_log_idx,
           log'[i] = AcceptEntries(log[i], m)
    PROVE  /\ Followed(i, m.term)
           /\ Agree(log'[i], leader_log[m.term], m.prev_log_idx + Len(m.entries))
  <1>1. PICK t \in DOMAIN leader_log : t = m.term
    BY DEF Describes
  <1>2. PICK p \in Nat : p = m.prev_log_idx
    OBVIOUS
  <1>3. PICK es \in Seq(Entry) : es = m.entries
    OBVIOUS
  <1>4. /\ log[i] \in Seq(Entry) /\ Len(log[i]) \in Nat
        /\ leader_log[t] \in Seq(Entry) /\ Len(leader_log[t]) \in Nat
    BY Types
  <1>5. Agree(log[i], leader_log[t], p)
    BY <1>1, <1>2, PrevAgrees
  <1>6. p <= Len(log[i]) /\ p <= Len(leader_log[t])
    BY <1>5 DEF Agree
  <1>7. CASE es = <<>>
    <2>1. Len(es) = 0 /\ p + 0 = p
      BY SMT, <1>7
    <2>2. \A k \in 1..Len(leader_log[t]) : k > p => leader_log[t][k].term = t
      <3>1. Len(es) # 1
        BY SMT, <2>1
      <3> QED BY <1>1, <1>2, <1>3, <3>1 DEF Describes
    <2>3. log'[i] = SubSeq(log[i], 1, p) \/ log'[i] = log[i]
      BY <1>2, <1>3, <1>7 DEF AcceptEntries
    <2>4. Followed(i, t) /\ Agree(log'[i], leader_log[t], p)
      <3>1. CASE log'[i] = log[i]
        BY <1>5, <3>1, SameFollowed
      <3>2. CASE log'[i] = SubSeq(log[i], 1, p)
        BY <1>1, <1>2, <1>3, <1>5, <1>6, <1>7, <2>2, <3>2, EmptyFollowed
      <3> QED BY <2>3, <3>1, <3>2
    <2> QED BY <1>1, <1>2, <1>3, <2>1, <2>4
  <1>8. CASE es # <<>>
    <2>1. /\ Len(es) = 1 /\ p + 1 <= Len(leader_log[t]) /\ es[1] = leader_log[t][p + 1]
      BY <1>1, <1>2, <1>3, <1>8 DEF Describes
    <2>2. CASE p < Len(log[i]) /\ log[i][p + 1].term = es[1].term
      <3>1. log'[i] = log[i]
        BY <1>2, <1>3, <1>8, <2>2 DEF AcceptEntries
      <3>2. p + 1 \in 1..Len(log[i]) /\ p + 1 \in 1..Len(leader_log[t])
        BY SMT, <1>4, <2>1, <2>2
      <3>3. Linked(log[i], leader_log) /\ Linked(leader_log[t], leader_log)
        BY DEF Safe, LogsLinked, LeaderLogs
      <3>4. log[i][p + 1].term = leader_log[t][p + 1].term
        BY <2>1, <2>2
      <3>5. Agree(log[i], leader_log[t], p + 1)
        BY <3>2, <3>3, <3>4, LinkedLogsMatch
      <3> QED BY <1>1, <1>2, <1>3, <2>1, <3>1, <3>5, SameFollowed
    <2>3. CASE ~(p < Len(log[i]) /\ log[i][p + 1].term = es[1].term)
      <3>1. Smaller(p, Len(log[i])) = p
        BY <1>6 DEF Smaller
      <3>2. log'[i] = SubSeq(log[i], 1, p) \o es
        BY <1>2, <1>3, <1>8, <2>3, <3>1 DEF AcceptEntries
      <3>3. Followed(i, t) /\ Agree(log'[i], leader_log[t], p + 1)
        BY <1>5, <2>1, <2>3, <3>2, AppendFollowed
      <3> QED BY <1>1, <1>2, <1>3, <2>1, <3>3
    <2> QED BY <2>2, <2>3
  <1> QED BY <1>7, <1>8

\* More acknowledgements leave what is chosen chosen.
LEMMA MoreAcked ==
    ASSUME Quorums, NEW h, NEW a, NEW aa, a \subseteq aa, NEW n, NEW t, Chosen(n, t, h, a)
    PROVE  Chosen(n, t, h, aa)
  <1>1. Own(n, t, h) /\ Majority({v \in Server : <<v, t, n>> \in a})
    BY DEF Chosen
  <1>2. Majority({v \in Server : <<v, t, n>> \in aa})
    BY <1>1, LargerQuorum
  <1> QED BY <1>1, <1>2 DEF Chosen

\* The commit of raft_recv_appendentries, where it was compared: up to what
\* the leader had committed and the log shares with the leader's.
LEMMA AcceptCommit ==
    ASSUME Quorums, TypeOK, TypeOK', VoteStep, LogStep, Safe, NEW i \in Server, NEW m,
           Describes(m, leader_log, acked), m.prev_log_idx \in Nat, m.leader_commit \in Nat,
           m.entries \in Seq(Entry), current_term'[i] = m.term, Followed(i, m.term),
           Agree(log'[i], leader_log[m.term], m.prev_log_idx + Len(m.entries)),
           leader_log' = leader_log, acked \subseteq acked',
           commit_idx'[i] = CommitUpTo(commit_idx[i], log'[i], m),
           \/ commit_idx'[i] = commit_idx[i]
           \/ commit_idx'[i] <= m.prev_log_idx + Len(m.entries)
           \/ TermAt(log'[i], commit_idx'[i]) = m.term
    PROVE  \/ commit_idx'[i] = commit_idx[i]
           \/ /\ commit_idx[i] < commit_idx'[i] /\ commit_idx'[i] <= m.leader_commit
              /\ IsSettled(log[i], commit_idx[i], current_term[i])'
  <1> SUFFICES ASSUME commit_idx'[i] # commit_idx[i]
               PROVE  /\ commit_idx[i] < commit_idx'[i] /\ commit_idx'[i] <= m.leader_commit
                      /\ IsSettled(log[i], commit_idx[i], current_term[i])'
    OBVIOUS
  <1>1. PICK t \in DOMAIN leader_log : t = m.term
    BY DEF Describes
  <1>2. PICK p \in Nat : p = m.prev_log_idx
    OBVIOUS
  <1>3. PICK l \in Nat : l = Len(m.entries)
    BY SeqLength
  <1>4. PICK lc \in Nat : lc = m.leader_commit
    OBVIOUS
  <1>5. PICK cc \in Nat : cc = commit_idx'[i]
    BY BothTypes
  <1>6. /\ IsHistory(leader_log) /\ commit_idx[i] \in Nat /\ t \in Nat
        /\ log[i] \in Seq(Entry) /\ log'[i] \in Seq(Entry)
        /\ Len(log[i]) \in Nat /\ Len(log'[i]) \in Nat
        /\ \A u \in DOMAIN leader_log : u \in Nat /\ leader_log[u] \in Seq(Entry)
    BY BothTypes, Types
  <1>7. Agree(log'[i], leader_log[t], p + l) /\ p + l <= Len(log'[i])
    BY <1>1, <1>2, <1>3 DEF Agree
  <1>8. commit_idx[i] <= Len(log'[i])
    <2>1. Agree(log'[i], log[i], commit_idx[i])
      BY CommittedStays DEF Safe
    <2> QED BY <2>1 DEF Agree
  <1>9. commit_idx[i] < lc /\ cc = Smaller(Larger(Len(log'[i]), 1), lc)
    BY <1>4, <1>5 DEF CommitUpTo
  <1>10. l = 1 \/ lc <= p
    BY <1>2, <1>3, <1>4 DEF Describes
  <1>11. /\ commit_idx[i] < cc /\ cc <= lc /\ cc \in 1..Len(log'[i]) /\ p + l \in Nat
    <2>1. commit_idx[i] # cc
      BY <1>5
    <2>2. p + l <= Len(log'[i])
      BY <1>7
    <2> QED BY SMT, <1>6, <1>8, <1>9, <1>10, <2>1, <2>2 DEF Smaller, Larger
  <1>12. Agree(log'[i], leader_log[t], cc)
    <2>1. CASE cc <= p + l
      BY <1>6, <1>7, <1>11, <2>1, AgreeLess
    <2>2. CASE TermAt(log'[i], cc) = t
      <3>1. log'[i][cc].term = t
        BY <1>11, <2>2 DEF TermAt
      <3>2. CASE Agree(log'[i], leader_log[t], cc)
        BY <3>2
      <3>3. CASE cc \in 1..Len(log[i]) /\ Agree(log'[i], log[i], cc)
        <4>1. \A k \in 1..cc : log'[i][k] = log[i][k]
          BY <1>6, <3>3, AgreeIs
        <4>2. cc \in 1..cc
          BY SMT, <1>11
        <4>3. log[i][cc].term = t
          BY <3>1, <4>1, <4>2
        <4>4. Agree(log[i], leader_log[t], cc)
          BY <3>3, <4>3 DEF Safe, LogsLinked, Linked
        <4> QED BY <3>3, <4>4, AgreeTrans
      <3> QED BY <1>1, <1>11, <3>2, <3>3 DEF Followed
    <2> QED BY <1>1, <1>2, <1>3, <1>5, <2>1, <2>2
  <1>13. lc > 0
    <2>1. \A a, b \in Nat : a < b => b > 0
      BY SMT
    <2> QED BY <1>6, <1>9, <2>1
  <1>14. Settled(lc, t, leader_log, acked)
    BY <1>1, <1>4, <1>13 DEF Describes
  <1>15. PICK u \in DOMAIN leader_log : \E n \in Nat :
            u <= t /\ lc <= n /\ Chosen(n, u, leader_log, acked)
    BY <1>14 DEF Settled
  <1>16. PICK n \in Nat : u <= t /\ lc <= n /\ Chosen(n, u, leader_log, acked)
    BY <1>15
  <1>17. Agree(leader_log[t], leader_log[u], n)
    BY <1>6, <1>16, ChosenIsHeld DEF Safe
  <1>18. cc <= n
    BY SMT, <1>11, <1>16
  <1>19. Agree(leader_log[t], leader_log[u], cc)
    BY <1>6, <1>17, <1>18, AgreeLess
  <1>20. Agree(log'[i], leader_log[u], cc)
    BY <1>12, <1>19, AgreeTrans
  <1>21. Chosen(n, u, leader_log, acked')
    BY <1>16, MoreAcked
  <1>22. IsSettled(log[i], commit_idx[i], current_term[i])'
    BY <1>1, <1>5, <1>16, <1>18, <1>20, <1>21 DEF IsSettled, Chosen, Own
  <1> QED BY <1>4, <1>5, <1>11, <1>22

\* An AppendEntries the follower accepts.
LEMMA AcceptProgress ==
    ASSUME Quorums, TypeOK, TypeOK', VoteStep, Safe, CommitsCompared,
           NEW i \in Server, NEW j \in Peers(i), Arrived(i, j, "AE"),
           NEW m, m = Head(chan[j][i]), ~StaleTerm(i, m), ~NoPrevEntry(i, m), ~PrevMismatch(i, m),
           FollowLeader(i, m), log' = [log EXCEPT ![i] = AcceptEntries(@, m)],
           commit_idx' = [commit_idx EXCEPT ![i] = CommitUpTo(@, log'[i], m)],
           Answer(i, j, m.term, TRUE, m.prev_log_idx + Len(m.entries)),
           Holds(i, m.term, m.prev_log_idx + Len(m.entries)),
           UNCHANGED <<applyVars, peerVars, leader_log>>
    PROVE  Progress
  <1>0. j \in Server /\ i # j
    BY DEF Peers
  <1>1. /\ m.type = "AE" /\ m.term \in Nat /\ m.prev_log_idx \in Nat /\ m.leader_commit \in Nat
        /\ m.entries \in Seq(Entry) /\ Has(chan[j][i], m) /\ Describes(m, leader_log, acked)
    BY ArrivedEntries
  <1>2. PICK t \in DOMAIN leader_log : t = m.term
    BY <1>1 DEF Describes
  <1>3. PICK n \in Nat : n = m.prev_log_idx + Len(m.entries)
    <2>1. Len(m.entries) \in Nat
      BY <1>1, SeqLength
    <2>2. \A a, b \in Nat : a + b \in Nat
      BY SMT
    <2> QED BY <1>1, <2>1, <2>2
  <1>4. current_term'[i] = m.term /\ current_term[i] <= m.term
    <2>1. \A a, b \in Nat : ~(a < b) => b <= a
      BY SMT
    <2>2. current_term[i] \in Nat
      BY Types
    <2>3. current_term'[i] = m.term
      BY DEF FollowLeader, TypeOK, ServerTypes
    <2> QED BY <1>1, <2>1, <2>2, <2>3 DEF StaleTerm
  <1>5. /\ log'[i] = AcceptEntries(log[i], m)
        /\ commit_idx'[i] = CommitUpTo(commit_idx[i], log'[i], m)
        /\ \A s \in Server : s # i => log'[s] = log[s] /\ commit_idx'[s] = commit_idx[s]
    BY DEF TypeOK, ServerTypes
  <1>6. m.entries = <<>> =>
            /\ \A k \in Nat : <<i, m.term, k>> \in acked => k <= m.prev_log_idx
            /\ m.term = current_term[i] => commit_idx[i] <= m.prev_log_idx
    BY <1>0, <1>1 DEF Safe, EmptiesLast
  <1>7. Followed(i, m.term) /\ Agree(log'[i], leader_log[m.term], m.prev_log_idx + Len(m.entries))
    BY <1>1, <1>4, <1>5, <1>6, AcceptFollowed
  <1>8. LogStep
    BY <1>4, <1>5, <1>7 DEF LogStep
  <1>9. /\ \A v \in Server : \A u, l, k \in Nat :
             <<v, u, l>> \in acked' /\ k <= l => <<v, u, k>> \in acked'
        /\ <<i, t, n>> \in acked' /\ acked \subseteq acked'
        /\ \A v, u, l : <<v, u, l>> \in acked' =>
             <<v, u, l>> \in acked \/ (v = i /\ u = t /\ l <= n)
    <2>1. AcksComplete /\ Holds(i, t, n) /\ t \in Nat
      BY <1>1, <1>2, <1>3 DEF Safe
    <2> QED BY <2>1, HoldsComplete
  <1>10. AckStep
    <2> SUFFICES ASSUME NEW v \in Server, NEW u \in Nat, NEW l \in Nat,
                        <<v, u, l>> \in acked', <<v, u, l>> \notin acked
                 PROVE  /\ u = current_term'[v] /\ u \in DOMAIN leader_log'
                        /\ Agree(log'[v], leader_log'[u], l)
      BY <1>9 DEF AckStep
    <2>1. v = i /\ u = t /\ l <= n
      BY <1>9
    <2>2. log'[i] \in Seq(Entry) /\ leader_log[t] \in Seq(Entry)
      BY BothTypes, Types
    <2>3. Agree(log'[i], leader_log[t], n)
      BY <1>2, <1>3, <1>7
    <2>4. Agree(log'[i], leader_log[t], l)
      BY <2>1, <2>2, <2>3, AgreeLess
    <2> QED BY <1>2, <1>4, <2>1, <2>4
  <1>11. \/ commit_idx'[i] = commit_idx[i]
         \/ commit_idx'[i] <= m.prev_log_idx + Len(m.entries)
         \/ TermAt(log'[i], commit_idx'[i]) = m.term
    <2>1. Pending(i, j, "AE")
      BY <1>0 DEF Pending
    <2>2. LET lg == AcceptEntries(log[i], m)
              c == CommitUpTo(commit_idx[i], lg, m)
          IN  \/ c = commit_idx[i]
              \/ c <= m.prev_log_idx + Len(m.entries)
              \/ TermAt(lg, c) = m.term
      BY <1>0, <2>1 DEF CommitsCompared
    <2> QED BY <1>5, <2>2
  <1>12. leader_log' = leader_log /\ acked \subseteq acked'
    BY <1>9
  <1>13. \/ commit_idx'[i] = commit_idx[i]
         \/ /\ commit_idx[i] < commit_idx'[i] /\ commit_idx'[i] <= m.leader_commit
            /\ IsSettled(log[i], commit_idx[i], current_term[i])'
    BY <1>1, <1>4, <1>5, <1>7, <1>8, <1>11, <1>12, AcceptCommit
  <1>14. CommitStep
    BY <1>5, <1>13 DEF CommitStep
  <1>15. PacketStep /\ QueueMoves(j, i, 1)
    <2>1. <<i, m.term, m.prev_log_idx + Len(m.entries)>> \in acked'
      BY <1>2, <1>3, <1>9
    <2> QED BY <2>1, AnswerPacket
  <1>16. IngestStep
    <2> DEFINE A(v) == /\ commit_idx'[v] = commit_idx[v]
                       /\ \A u, l \in Nat : <<v, u, l>> \in acked' => <<v, u, l>> \in acked
               B(v) == \E k \in Server : \E x : \E first \in 1..Len(chan[k][v]) :
                         /\ first = 1 /\ x = chan[k][v][first] /\ QueueMoves(k, v, 1)
                         /\ x.type = "AE" /\ x.term = current_term'[v]
                         /\ commit_idx'[v] = commit_idx[v] \/ commit_idx'[v] <= x.leader_commit
                         /\ \A u, l \in Nat : <<v, u, l>> \in acked' =>
                               <<v, u, l>> \in acked \/ l <= x.prev_log_idx + Len(x.entries)
    <2>1. chan[j][i] # <<>>
      BY DEF Arrived
    <2>2. chan[j][i] \in Seq(Message)
      <3>1. chan \in [Server -> [Server -> Seq(Message)]]
        BY DEF TypeOK, ServerTypes
      <3> QED BY <1>0, <3>1
    <2>3. 1 \in 1..Len(chan[j][i]) /\ m = chan[j][i][1]
      <3>1. 1 \in 1..Len(chan[j][i]) /\ Head(chan[j][i]) = chan[j][i][1]
        BY <2>1, <2>2, SeqNonEmpty
      <3> QED BY <3>1
    <2>4. commit_idx'[i] = commit_idx[i] \/ commit_idx'[i] <= m.leader_commit
      BY <1>13
    <2>5. \A u, l \in Nat : <<i, u, l>> \in acked' =>
             <<i, u, l>> \in acked \/ l <= m.prev_log_idx + Len(m.entries)
      BY <1>3, <1>9
    <2>6. \A v \in Server : v # i => A(v)
      BY <1>5, <1>9
    <2>7. B(i)
      BY <1>0, <1>1, <1>4, <1>15, <2>3, <2>4, <2>5
    <2>8. \A v \in Server : A(v) \/ B(v)
      <3> HIDE DEF A, B
      <3> QED BY <2>6, <2>7
    <2> QED BY <2>8 DEF IngestStep
  <1>17. \A s \in Server : s # i => log'[s] = log[s]
    BY <1>5
  <1>18. \A v \in Server : \A u, l, k \in Nat :
             <<v, u, l>> \in acked' /\ k <= l => <<v, u, k>> \in acked'
    BY <1>9
  <1> QED BY <1>8, <1>10, <1>14, <1>15, <1>16, <1>17, <1>18, FollowProgress

\* raft_recv_appendentries.
LEMMA RecvAppendEntriesProgress ==
    ASSUME Quorums, TypeOK, TypeOK', VoteStep, Safe, CommitsCompared,
           NEW i \in Server, NEW j \in Peers(i), raft_recv_appendentries(i, j)
    PROVE  Progress
  <1> DEFINE m == Head(chan[j][i])
  <1>1. Arrived(i, j, "AE") /\ UNCHANGED <<applyVars, peerVars, leader_log>>
    BY DEF raft_recv_appendentries
  <1>2. CASE /\ StaleTerm(i, m)
             /\ Answer(i, j, current_term[i], FALSE, current_idx(i))
             /\ UNCHANGED <<current_term, voted_for, state, log, commit_idx, acked>>
    <2>1. UNCHANGED <<log, commit_idx, acked, applyVars, peerVars, leader_log>>
      BY <1>1, <1>2
    <2>2. UNCHANGED <<current_term, voted_for, state>> /\ Answer(i, j, current_term[i], FALSE, current_idx(i))
      BY <1>2
    <2>3. m.term < current_term[i]
      BY <1>2 DEF StaleTerm
    <2> HIDE DEF m
    <2>4. m = Head(chan[j][i])
      BY DEF m
    <2> QED BY <1>1, <2>1, <2>2, <2>3, <2>4, RefusedProgress
  <1>3. CASE /\ ~StaleTerm(i, m) /\ NoPrevEntry(i, m)
             /\ FollowLeader(i, m)
             /\ Answer(i, j, m.term, FALSE, current_idx(i))
             /\ UNCHANGED <<log, commit_idx, acked>>
    <2>1. UNCHANGED <<log, commit_idx, acked, applyVars, peerVars, leader_log>>
      BY <1>1, <1>3
    <2>2. ~StaleTerm(i, m) /\ FollowLeader(i, m) /\ Answer(i, j, m.term, FALSE, current_idx(i))
      BY <1>3
    <2> HIDE DEF m
    <2>3. m = Head(chan[j][i])
      BY DEF m
    <2>4. /\ m.term \in DOMAIN leader_log /\ m.prev_log_idx \in Nat
          /\ m.prev_log_idx <= Len(leader_log[m.term])
      BY <1>1, <2>3, ArrivedEntries DEF Describes
    <2>5. current_idx(i) \in Nat /\ m.prev_log_idx > current_idx(i) /\ Len(leader_log[m.term]) \in Nat
      BY <1>3, <2>4, Types DEF NoPrevEntry, current_idx
    <2>6. current_idx(i) < Len(leader_log[m.term])
      BY SMT, <2>4, <2>5
    <2> QED BY <1>1, <2>1, <2>2, <2>3, <2>4, <2>6, RefusedProgress
  <1>4. CASE /\ ~StaleTerm(i, m) /\ ~NoPrevEntry(i, m) /\ PrevMismatch(i, m)
             /\ FollowLeader(i, m)
             /\ log' = [log EXCEPT ![i] = SubSeq(@, 1, m.prev_log_idx - 1)]
             /\ Answer(i, j, m.term, FALSE, m.prev_log_idx - 1)
             /\ UNCHANGED <<commit_idx, acked>>
    <2>1. UNCHANGED <<commit_idx, acked, applyVars, peerVars, leader_log>>
      BY <1>1, <1>4
    <2> HIDE DEF m
    <2>2. m = Head(chan[j][i])
      BY DEF m
    <2> QED BY <1>1, <1>4, <2>1, <2>2, MismatchProgress
  <1>5. CASE /\ ~StaleTerm(i, m) /\ ~NoPrevEntry(i, m) /\ ~PrevMismatch(i, m)
             /\ FollowLeader(i, m)
             /\ log' = [log EXCEPT ![i] = AcceptEntries(@, m)]
             /\ commit_idx' = [commit_idx EXCEPT ![i] = CommitUpTo(@, log'[i], m)]
             /\ Answer(i, j, m.term, TRUE, m.prev_log_idx + Len(m.entries))
             /\ Holds(i, m.term, m.prev_log_idx + Len(m.entries))
    <2> HIDE DEF m
    <2>1. m = Head(chan[j][i])
      BY DEF m
    <2> QED BY <1>1, <1>5, <2>1, AcceptProgress
  <1> QED BY <1>2, <1>3, <1>4, <1>5 DEF raft_recv_appendentries

\* What the head of the queue says, when it is a response to AppendEntries.
LEMMA ArrivedResponse ==
    ASSUME TypeOK, Safe, NEW i \in Server, NEW j \in Peers(i), Arrived(i, j, "AER"),
           NEW m, m = Head(chan[j][i])
    PROVE  /\ m.type = "AER" /\ m.term \in Nat /\ m.current_idx \in Nat
           /\ m.success => <<j, m.term, m.current_idx>> \in acked
  <1>1. j \in Server /\ m.type = "AER" /\ m \in Message /\ Has(chan[j][i], m)
    BY ArrivedPacket
  <1>2. m \in [type : {"AER"}, term : Nat, success : BOOLEAN, current_idx : Nat]
    BY ZenonT(30), <1>1 DEF Message
  <1>3. m.success => <<j, m.term, m.current_idx>> \in acked
    BY <1>1 DEF Safe, PacketsAreTrue
  <1> QED BY <1>1, <1>2, <1>3

\* What a majority acknowledged, up to entries of the leader's own term, is
\* behind an entry of that term all of them have.
LEMMA ReplicatedIsChosen ==
    ASSUME Quorums, Counting, TypeOK, Safe, NEW i \in Server, state[i] = Leader,
           NEW match, NEW point \in Nat,
           \A k \in Peers(i) : /\ match[k] \in Nat
                               /\ match[k] > 0 => <<k, current_term[i], match[k]>> \in acked,
           Majority(Replicated(i, match, point))
    PROVE  \E n \in Nat : point <= n /\ Chosen(n, current_term[i], leader_log, acked)
  <1>1. PICK t \in DOMAIN leader_log : t = current_term[i] /\ log[i] = leader_log[t]
    BY DEF Safe, LeadersRecorded
  <1>2. /\ t \in Nat /\ log[i] \in Seq(Entry) /\ Len(log[i]) \in Nat
    BY Types
  <1> DEFINE R == {k \in Peers(i) : /\ 0 < match[k] /\ point <= match[k]
                                    /\ TermAt(log[i], match[k]) = t}
             S == {match[k] : k \in R}
  <1>3. Majority({i} \cup R) /\ {i} \cup R \subseteq Server
    BY <1>1 DEF Replicated, Peers
  <1>4. R # {}
    <2>1. CASE R = {}
      <3>1. {i} \cup R = {i}
        BY <2>1
      <3> QED BY <1>3, <3>1 DEF Counting
    <2> QED BY <2>1
  <1>5. S \in SUBSET Nat /\ S # {}
    BY <1>4
  <1>6. PICK n \in S : \A k \in S : n <= k
    BY <1>5 DEF Counting
  <1>7. PICK r \in R : n = match[r]
    BY <1>6
  <1>8. n \in Nat /\ 0 < n /\ point <= n /\ TermAt(log[i], n) = t /\ <<r, t, n>> \in acked
    BY <1>1, <1>5, <1>7
  <1>9. n <= Len(log[i])
    BY <1>1, <1>2, <1>7, <1>8 DEF Safe, AckersHold, Peers
  <1>10. n \in 1..Len(log[i])
    BY SMT, <1>2, <1>8, <1>9
  <1>11. Own(n, t, leader_log)
    BY <1>1, <1>8, <1>10 DEF Own, TermAt
  <1>12. <<i, t, n>> \in acked
    BY <1>1, <1>2, <1>8, <1>9 DEF Safe, AcksComplete
  <1>13. ASSUME NEW k \in R PROVE k \in Server /\ <<k, t, n>> \in acked
    <2>1. n <= match[k] /\ match[k] \in Nat /\ <<k, t, match[k]>> \in acked /\ k \in Server
      BY <1>1, <1>6 DEF Peers
    <2> QED BY <1>2, <1>8, <2>1 DEF Safe, AcksComplete
  <1>14. {i} \cup R \subseteq {v \in Server : <<v, t, n>> \in acked}
    BY <1>12, <1>13
  <1> HIDE DEF R
  <1>15. Majority({v \in Server : <<v, t, n>> \in acked})
    BY <1>3, <1>14, LargerQuorum
  <1> QED BY <1>1, <1>8, <1>11, <1>15 DEF Chosen

\* A negative response: the entries are sent again from further back.
LEMMA NackProgress ==
    ASSUME TypeOK, TypeOK', VoteStep, Safe, NEW i \in Server, NEW j \in Peers(i),
           chan[j][i] # <<>>, state[i] = Leader, NEW m, m.current_idx \in Nat,
           RecvNack(i, j, m), UNCHANGED historyVars
    PROVE  Progress
  <1>1. PICK x \in Nat : x = Larger(1, Smaller(m.current_idx + 1, current_idx(i)))
    <2>1. Len(log[i]) \in Nat
      BY Types
    <2>2. \A a, b \in Nat : Larger(1, Smaller(a + 1, b)) \in Nat
      BY SMT DEF Larger, Smaller
    <2> QED BY <2>1, <2>2 DEF current_idx
  <1>2. x \in 1..(Len(log[i]) + 1) /\ x <= Len(log[i]) + 1
    <2>1. Len(log[i]) \in Nat
      BY Types
    <2>2. \A a, b \in Nat : /\ Larger(1, Smaller(a + 1, b)) \in 1..(b + 1)
                            /\ Larger(1, Smaller(a + 1, b)) <= b + 1
      BY SMT DEF Larger, Smaller
    <2> QED BY <1>1, <2>1, <2>2 DEF current_idx
  <1>3. PICK next : next = [next_idx[i] EXCEPT ![j] = x]
    OBVIOUS
  <1>4. /\ UNCHANGED <<current_term, voted_for, state, log, leader_log, acked, commit_idx, applyVars>>
        /\ match_idx' = match_idx
    BY DEF RecvNack, electionVars, logVars, historyVars
  <1>5. raft_send_appendentries(i, {j}, next, Taken(i, j))
    BY <1>1, <1>3 DEF RecvNack
  <1>6. j \in Server /\ next_idx[i] \in [Server -> Nat \ {0}]
    BY DEF Peers, TypeOK, ServerTypes
  <1>7. next[j] = x /\ \A k \in Server : k # j => next[k] = next_idx[i][k]
    BY <1>3, <1>6
  <1>8. /\ \A k \in Peers(i) : next[k] <= Len(log'[i]) + 1
        /\ \A k \in {j} : next[k] \in 1..(Len(log'[i]) + 1)
    <2>1. \A k \in Peers(i) : next_idx[i][k] <= Len(log[i]) + 1 /\ k \in Server
      BY NextInLog DEF Safe, Peers
    <2> QED BY <1>2, <1>4, <1>7, <2>1
  <1>9. /\ PacketStep
        /\ \A k \in Peers(i) : next[k] <= Len(log'[i]) + 1 => next_idx'[i][k] <= Len(log'[i]) + 1
        /\ \A s \in Server : s # i => next_idx'[s] = next_idx[s]
    <2>1. /\ state'[i] = Leader /\ {j} \in SUBSET Peers(i)
          /\ \A k \in {j} : next[k] \in 1..(Len(log'[i]) + 1)
      BY <1>4, <1>8
    <2>2. \E k \in Peers(i) : chan[k][i] # <<>> /\ Taken(i, j) = Taken(i, k)
      OBVIOUS
    <2> QED BY <1>5, <2>1, <2>2, SendMoves
  <1>10. \A k \in Peers(i) : next_idx'[i][k] <= Len(log'[i]) + 1
    BY <1>8, <1>9
  <1>11. PeersKnown'
    BY <1>4, <1>9, <1>10, SentPeers DEF Safe
  <1>12. Yields
    BY <1>4 DEF Yields
  <1>13. StateStep
    BY <1>4, <1>12, YieldingStates
  <1>14. BallotStep
    BY <1>4, QuietBallots
  <1>15. ApplyInOrder'
    BY <1>4, CommitStays, QuietApply DEF Safe
  <1> QED BY <1>4, <1>9, <1>11, <1>13, <1>14, <1>15, QuietProgress

\* The leader's commit, and what it notes about the follower that answered.
LEMMA AckCommit ==
    ASSUME Quorums, Counting, TypeOK, TypeOK', Safe, NEW i \in Server, NEW j \in Peers(i),
           state[i] = Leader, NEW point \in Nat, <<j, current_term[i], point>> \in acked,
           NEW match, match = [match_idx[i] EXCEPT ![j] = point],
           UNCHANGED <<current_term, state, log, leader_log, acked>>,
           commit_idx' = [commit_idx EXCEPT ![i] =
               IF Majority(Replicated(i, match, point)) /\ @ < point THEN point ELSE @]
    PROVE  /\ point <= Len(log[i])
           /\ \A k \in Peers(i) : match[k] > 0 => <<k, current_term[i], match[k]>> \in acked
           /\ CommitStep /\ IngestStep /\ CommitsMoveUp
  <1>1. PICK t \in DOMAIN leader_log : t = current_term[i] /\ log[i] = leader_log[t]
    BY DEF Safe, LeadersRecorded
  <1>2. /\ t \in Nat /\ log[i] \in Seq(Entry) /\ Len(log[i]) \in Nat /\ commit_idx[i] \in Nat
        /\ j \in Server
    BY Types DEF Peers
  <1>3. point <= Len(log[i])
    BY <1>1, <1>2 DEF Safe, AckersHold
  <1>4. match_idx[i] \in [Server -> Nat]
    BY DEF TypeOK, ServerTypes
  <1>5. match[j] = point /\ \A k \in Server : k # j => match[k] = match_idx[i][k] /\ match[k] \in Nat
    BY <1>2, <1>4
  <1>6. \A k \in Peers(i) : /\ match[k] \in Nat
                            /\ match[k] > 0 => <<k, current_term[i], match[k]>> \in acked
    <2>1. \A k \in Peers(i) : k \in Server /\ (match_idx[i][k] > 0 => <<k, current_term[i], match_idx[i][k]>> \in acked)
      BY DEF Safe, PeersKnown, Peers
    <2> QED BY <1>5, <2>1
  <1>7. /\ \A s \in Server : s # i => commit_idx'[s] = commit_idx[s]
        /\ \/ commit_idx'[i] = commit_idx[i]
           \/ /\ commit_idx'[i] = point /\ commit_idx[i] < point
              /\ Majority(Replicated(i, match, point))
    BY DEF TypeOK, ServerTypes
  <1>8. ASSUME commit_idx'[i] # commit_idx[i]
        PROVE  commit_idx[i] < commit_idx'[i] /\ IsSettled(log[i], commit_idx[i], current_term[i])'
    <2>1. commit_idx'[i] = point /\ commit_idx[i] < point /\ Majority(Replicated(i, match, point))
      BY <1>7, <1>8
    <2>2. PICK n \in Nat : point <= n /\ Chosen(n, t, leader_log, acked)
      BY <1>1, <1>6, <2>1, ReplicatedIsChosen
    <2>3. Agree(log[i], leader_log[t], point)
      BY <1>1, <1>3, AgreeRefl
    <2>4. t <= t
      BY SMT, <1>2
    <2>5. IsSettled(log[i], commit_idx[i], current_term[i])'
      BY <1>1, <2>1, <2>2, <2>3, <2>4 DEF IsSettled
    <2> QED BY <2>1, <2>5
  <1>9. CommitStep
    BY <1>7, <1>8 DEF CommitStep
  <1>10. IngestStep
    BY <1>7 DEF IngestStep
  <1>11. CommitsMoveUp
    <2>1. \A a, b \in Nat : a < b \/ a = b => a <= b
      BY SMT
    <2>2. \A s \in Server : commit_idx[s] \in Nat /\ commit_idx'[s] \in Nat
      BY BothTypes
    <2>3. \A s \in Server : commit_idx[s] < commit_idx'[s] \/ commit_idx[s] = commit_idx'[s]
      BY <1>7, <1>8
    <2> QED BY <2>1, <2>2, <2>3 DEF CommitsMoveUp
  <1> QED BY <1>3, <1>6, <1>9, <1>10, <1>11

\* A positive response: what the follower has is noted, committed and applied.
LEMMA AckProgress ==
    ASSUME Quorums, Counting, TypeOK, TypeOK', VoteStep, Safe, NEW i \in Server, NEW j \in Peers(i),
           chan[j][i] # <<>>, state[i] = Leader, NEW m, m.current_idx \in Nat,
           <<j, current_term[i], m.current_idx>> \in acked, RecvAck(i, j, m), UNCHANGED historyVars
    PROVE  Progress
  <1>1. PICK point \in Nat : point = m.current_idx
    OBVIOUS
  <1>2. PICK match : match = [match_idx[i] EXCEPT ![j] = point]
    OBVIOUS
  <1>3. PICK next : next = [next_idx[i] EXCEPT ![j] = Larger(point + 1, @)]
    OBVIOUS
  <1>4. PICK K : K = IF next[j] <= current_idx(i) THEN {j} ELSE {}
    OBVIOUS
  <1>5. /\ UNCHANGED <<current_term, voted_for, state, log, leader_log, acked>>
        /\ ApplyCommitted(i)
    BY DEF RecvAck, electionVars, historyVars
  <1>6. match_idx' = [match_idx EXCEPT ![i] = match]
    BY <1>1, <1>2 DEF RecvAck
  <1>7. commit_idx' = [commit_idx EXCEPT ![i] =
            IF Majority(Replicated(i, match, point)) /\ @ < point THEN point ELSE @]
    BY <1>1, <1>2 DEF RecvAck
  <1>8. raft_send_appendentries(i, K, next, Taken(i, j))
    BY <1>1, <1>3, <1>4 DEF RecvAck
  <1>9. /\ point <= Len(log[i])
        /\ \A k \in Peers(i) : match[k] > 0 => <<k, current_term[i], match[k]>> \in acked
        /\ CommitStep /\ IngestStep /\ CommitsMoveUp
    <2>1. <<j, current_term[i], point>> \in acked
      BY <1>1
    <2>2. UNCHANGED <<current_term, state, log, leader_log, acked>>
      BY <1>5
    <2> QED BY <1>2, <1>7, <2>1, <2>2, AckCommit
  <1>10. j \in Server /\ next_idx[i] \in [Server -> Nat \ {0}] /\ Len(log[i]) \in Nat
    BY Types DEF Peers, TypeOK, ServerTypes
  <1>11. next[j] = Larger(point + 1, next_idx[i][j]) /\ \A k \in Server : k # j => next[k] = next_idx[i][k]
    BY <1>3, <1>10
  <1>12. \A k \in Peers(i) : next_idx[i][k] \in 1..(Len(log[i]) + 1) /\ next_idx[i][k] <= Len(log[i]) + 1
    BY NextInLog DEF Safe
  <1>13. next[j] \in 1..(Len(log[i]) + 1) /\ next[j] <= Len(log[i]) + 1
    <2>1. \A a, l \in Nat : \A b \in 1..(l + 1) : a <= l =>
             Larger(a + 1, b) \in 1..(l + 1) /\ Larger(a + 1, b) <= l + 1
      BY SMT DEF Larger
    <2> QED BY <1>9, <1>10, <1>11, <1>12, <2>1
  <1>14. \A k \in Peers(i) : k \in Server /\ next[k] <= Len(log'[i]) + 1
    BY <1>5, <1>11, <1>12, <1>13 DEF Peers
  <1>15. /\ PacketStep
         /\ \A k \in Peers(i) : next[k] <= Len(log'[i]) + 1 => next_idx'[i][k] <= Len(log'[i]) + 1
         /\ \A s \in Server : s # i => next_idx'[s] = next_idx[s]
    <2>1. K \in SUBSET Peers(i) /\ \A k \in K : k = j
      BY <1>4
    <2>2. state'[i] = Leader /\ \A k \in K : next[k] \in 1..(Len(log'[i]) + 1)
      BY <1>5, <1>13, <2>1
    <2>3. \E k \in Peers(i) : chan[k][i] # <<>> /\ Taken(i, j) = Taken(i, k)
      OBVIOUS
    <2> QED BY <1>8, <2>1, <2>2, <2>3, SendMoves
  <1>16. \A s \in Server : state'[s] = Leader =>
            state[s] = Leader /\ current_term'[s] = current_term[s]
    BY <1>5
  <1>17. PeersKnown'
    <2> SUFFICES ASSUME NEW s \in Server, NEW k \in Peers(s), state'[s] = Leader
                 PROVE  /\ match_idx'[s][k] > 0 => <<k, current_term'[s], match_idx'[s][k]>> \in acked'
                        /\ next_idx'[s][k] <= Len(log'[s]) + 1
      BY DEF PeersKnown
    <2>1. match_idx'[i] = match /\ \A u \in Server : u # i => match_idx'[u] = match_idx[u]
      BY <1>6 DEF TypeOK, ServerTypes
    <2>2. CASE s = i
      <3>1. next_idx'[i][k] <= Len(log'[i]) + 1
        BY <1>14, <1>15, <2>2
      <3>2. match[k] > 0 => <<k, current_term[i], match[k]>> \in acked
        BY <1>9, <2>2
      <3> QED BY <1>5, <2>1, <2>2, <3>1, <3>2
    <2>3. CASE s # i
      <3>1. /\ match_idx[s][k] > 0 => <<k, current_term[s], match_idx[s][k]>> \in acked
            /\ next_idx[s][k] <= Len(log[s]) + 1
        BY <1>5 DEF Safe, PeersKnown
      <3> QED BY <1>5, <1>15, <2>1, <2>3, <3>1
    <2> QED BY <2>2, <2>3
  <1>18. StateStep
    <2>1. Yields
      BY <1>5 DEF Yields
    <2> QED BY <1>5, <2>1, YieldingStates
  <1>19. BallotStep
    BY <1>5, QuietBallots
  <1>20. ApplyInOrder'
    BY <1>5, <1>9, ApplyStep DEF Safe
  <1>21. ReignStep
    BY <1>5, SameReign
  <1>22. AckStep /\ LogStep
    BY <1>5 DEF AckStep, LogStep
  <1>23. LeadersRecorded'
    BY <1>5, <1>16, QuietLeaders DEF Safe
  <1>24. AcksComplete'
    BY <1>5 DEF Safe, AcksComplete
  <1> QED BY <1>9, <1>15, <1>17, <1>18, <1>19, <1>20, <1>21, <1>22, <1>23, <1>24 DEF Progress

\* raft_recv_appendentries_response.
LEMMA RecvAppendEntriesResponseProgress ==
    ASSUME Quorums, Counting, TypeOK, TypeOK', VoteStep, Safe, NEW i \in Server, NEW j \in Peers(i),
           raft_recv_appendentries_response(i, j)
    PROVE  Progress
  <1>1. PICK m : m = Head(chan[j][i])
    OBVIOUS
  <1>2. Arrived(i, j, "AER") /\ chan[j][i] # <<>> /\ UNCHANGED historyVars
    BY DEF raft_recv_appendentries_response, Arrived
  <1>3. /\ m.type = "AER" /\ m.term \in Nat /\ m.current_idx \in Nat
        /\ m.success => <<j, m.term, m.current_idx>> \in acked
    BY <1>1, <1>2, ArrivedResponse
  <1>4. CASE state[i] = Leader /\ m.term = current_term[i] /\ RecvNack(i, j, m)
    BY <1>2, <1>3, <1>4, NackProgress
  <1>5. CASE state[i] = Leader /\ m.term = current_term[i] /\ m.success /\ RecvAck(i, j, m)
    <2>1. <<j, current_term[i], m.current_idx>> \in acked
      BY <1>3, <1>5
    <2> QED BY <1>2, <1>3, <1>5, <2>1, AckProgress
  <1>6. CASE /\ m.term > current_term[i] /\ StepDown(i, m.term)
             /\ chan' = Taken(i, j) /\ UNCHANGED <<logVars, peerVars>>
    <2>1. current_term[i] < m.term
      BY <1>6
    <2>2. UNCHANGED <<logVars, peerVars, historyVars>> /\ chan' = Taken(i, j)
      BY <1>2, <1>6
    <2>3. \E t \in Nat : current_term[i] < t /\ StepDown(i, t)
      BY <1>3, <1>6, <2>1
    <2> QED BY <1>2, <2>2, <2>3, TakeProgress
  <1>7. CASE chan' = Taken(i, j) /\ UNCHANGED <<electionVars, logVars, peerVars>>
    <2>1. UNCHANGED electionVars /\ UNCHANGED <<logVars, peerVars, historyVars>>
      BY <1>2, <1>7
    <2> QED BY <1>2, <1>7, <2>1, TakeProgress
  <1> QED BY <1>1, <1>4, <1>5, <1>6, <1>7 DEF raft_recv_appendentries_response

\* Every step makes progress in this sense.
LEMMA EveryProgress ==
    ASSUME Quorums, Counting, TypeOK, TypeOK', VoteStep, ElectionSafety', Safe, CommitsCompared,
           [Next]_vars
    PROVE  Progress
  <1>1. CASE UNCHANGED vars
    BY <1>1, StutterProgress
  <1>2. ASSUME NEW i \in Server, PeriodicElection(i) \/ PeriodicIdle(i) PROVE Progress
    BY <1>2, PeriodicElectionProgress, PeriodicIdleProgress
  <1>3. ASSUME NEW i \in Server, NEW X \in SUBSET Peers(i), PeriodicLeader(i, X) PROVE Progress
    BY <1>3, PeriodicLeaderProgress
  <1>4. ASSUME NEW i \in Server, PublishSnapshot(i) PROVE Progress
    <2>1. state[i] = Leader /\ raft_recv_entry_batch(i, <<Kicker>>)
      BY <1>4 DEF PublishSnapshot
    <2>2. <<Kicker>> \in Seq(Command \cup {Kicker})
      BY SMT
    <2> QED BY <2>1, <2>2, RecvEntryBatchProgress
  <1>5. ASSUME NEW i \in Server, Accept(i) PROVE Progress
    <2>1. state[i] = Leader
      BY <1>5 DEF Accept
    <2>2. PICK n \in 1..MaxBatch : \E cmds \in [1..n -> Command] : raft_recv_entry_batch(i, cmds)
      BY <1>5 DEF Accept
    <2>3. PICK cmds \in [1..n -> Command] : raft_recv_entry_batch(i, cmds)
      BY <2>2
    <2>4. n \in Nat
      BY SMT, BoundAssumption
    <2>5. cmds \in Seq(Command \cup {Kicker})
      BY SMT, <2>4
    <2> QED BY <2>1, <2>3, <2>5, RecvEntryBatchProgress
  <1>6. ASSUME NEW i \in Server, NEW j \in Peers(i), raft_recv_requestvote(i, j) PROVE Progress
    BY <1>6, RecvRequestVoteProgress
  <1>7. ASSUME NEW i \in Server, NEW j \in Peers(i), raft_recv_requestvote_response(i, j) PROVE Progress
    BY <1>7, RecvRequestVoteResponseProgress
  <1>8. ASSUME NEW i \in Server, NEW j \in Peers(i), raft_recv_appendentries(i, j) PROVE Progress
    BY <1>8, RecvAppendEntriesProgress
  <1>9. ASSUME NEW i \in Server, NEW j \in Peers(i), raft_recv_appendentries_response(i, j) PROVE Progress
    BY <1>9, RecvAppendEntriesResponseProgress
  <1>10. ASSUME NEW i \in Server, NEW j \in Peers(i), Lose(i, j) PROVE Progress
    BY <1>10, LoseProgress
  <1> QED BY <1>1, <1>2, <1>3, <1>4, <1>5, <1>6, <1>7, <1>8, <1>9, <1>10 DEF Next

\* The invariant holds of servers that just booted.
LEMMA SafeInit ==
    ASSUME Init
    PROVE  Safe
  <1>1. /\ \A s \in Server : /\ state[s] = Follower /\ log[s] = <<>> /\ commit_idx[s] = 0
                             /\ last_applied_idx[s] = 0 /\ log_base[s] = 0
        /\ \A s, r \in Server : chan[s][r] = <<>>
        /\ DOMAIN leader_log = {} /\ acked = {}
    BY DEF Init
  <1>2. /\ \A n \in 1..Len(<<>>) : FALSE
        /\ ~(0 > 0) /\ 0 <= 0
    BY SMT
  <1>3. Follower # Leader /\ Follower # Candidate
    BY DEF Follower, Leader, Candidate
  <1>4. \A s, r \in Server : \A m : ~Has(chan[s][r], m)
    BY <1>1, <1>2 DEF Has
  <1>5. TermsElected /\ LeadersRecorded /\ LeaderLogs(leader_log) /\ LogsLinked
    BY <1>1, <1>2, <1>3 DEF TermsElected, LeadersRecorded, LeaderLogs, LogsLinked, Linked, Ascending
  <1>6. AckersHold /\ AcksComplete /\ LaterLeadersHold(leader_log, current_term, acked)
    BY <1>1, <1>3 DEF AckersHold, AcksComplete, LaterLeadersHold
  <1>7. CommitsSettled /\ ApplyInOrder /\ PeersKnown
    BY <1>1, <1>2, <1>3 DEF CommitsSettled, ApplyInOrder, PeersKnown
  <1>8. PacketsAreTrue /\ OneSender
    BY <1>4 DEF PacketsAreTrue, OneSender
  <1>9. EmptiesLast
    BY <1>1, <1>2, <1>4 DEF EmptiesLast, InOrder
  <1>10. VotersHold /\ VotesAreAsked
    <2>1. ASSUME NEW v \in Server, NEW i \in Server, NEW t \in VoteTerms(v, i) PROVE FALSE
      <3>1. \E n \in 1..Len(chan[v][i]) : TRUE
        BY <1>1, <2>1 DEF VoteTerms
      <3> QED BY <1>1, <1>2, <3>1
    <2> QED BY <1>1, <1>3, <2>1 DEF VotersHold, VotesAreAsked
  <1> QED BY <1>5, <1>6, <1>7, <1>8, <1>9, <1>10 DEF Safe

=============================================================================
