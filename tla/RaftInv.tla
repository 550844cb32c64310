------------------------------- MODULE RaftInv -------------------------------
(***************************************************************************)
(* The inductive invariant behind the safety of the replicated log, and    *)
(* what a step of any action may do to the state.  The history variables   *)
(* leader_log and acked say what leaders had and what servers took over.   *)
(***************************************************************************)
EXTENDS Raft

\* Majorities share a server, and larger sets are majorities too.
Quorums ==
    \A S, T \in SUBSET Server : Majority(S) =>
        /\ S \subseteq T => Majority(T)
        /\ Majority(T) => S \cap T # {}

\* And about numbers: a leader alone is no majority, and of the indices its
\* followers acknowledged one is the least.
Counting ==
    /\ \A i \in Server : ~Majority({i})
    /\ \A S \in SUBSET Nat : S # {} => \E n \in S : \A k \in S : n <= k

-----------------------------------------------------------------------------
(* What the history says.  h is a value of leader_log, a one of acked and c *)
(* one of current_term.                                                    *)

IsHistory(h) == DOMAIN h \subseteq Nat /\ \A t \in DOMAIN h : h[t] \in Seq(Entry)
IsAcks(a) == a \subseteq Server \X Nat \X Nat

\* Every entry of lg is one its term's leader had, and so is all before it.
Linked(lg, h) ==
    \A n \in 1..Len(lg) : lg[n].term \in DOMAIN h /\ Agree(lg, h[lg[n].term], n)

\* Terms never decrease along lg, and none is above t.
Ascending(lg, t) ==
    \A n \in 1..Len(lg) : lg[n].term <= t /\ \A k \in 1..n : lg[k].term <= lg[n].term

LeaderLogs(h) == \A t \in DOMAIN h : Linked(h[t], h) /\ Ascending(h[t], t)

\* Entry n of the leader of t is of its own term.
Own(n, t, h) == t \in DOMAIN h /\ n \in 1..Len(h[t]) /\ h[t][n].term = t

\* A majority is past term t without having acknowledged entry n in it, and
\* never will: n is not going to be committed in term t.
Blocked(n, t, c, a) ==
    \E M \in SUBSET Server :
        Majority(M) /\ \A v \in M : c[v] > t /\ <<v, t, n>> \notin a

\* A majority acknowledged entry n in term t, whose leader made it.
Chosen(n, t, h, a) ==
    Own(n, t, h) /\ Majority({v \in Server : <<v, t, n>> \in a})

\* What may have been committed in a term, the leaders of later terms have.
LaterLeadersHold(h, c, a) ==
    \A t, u \in DOMAIN h : \A n \in Nat : t < u /\ Own(n, t, h)
        => Agree(h[u], h[t], n) \/ Blocked(n, t, c, a)

\* An entry at k or beyond was chosen in term t or before.
Settled(k, t, h, a) ==
    \E u \in DOMAIN h : \E n \in Nat : u <= t /\ k <= n /\ Chosen(n, u, h, a)

\* Leaders' logs are extended, by entries of their own term.
Grown(h, hh) ==
    /\ DOMAIN h \subseteq DOMAIN hh
    /\ \A t \in DOMAIN h :
          /\ Agree(hh[t], h[t], Len(h[t]))
          /\ \A k \in 1..Len(hh[t]) : k > Len(h[t]) => hh[t][k].term = t

-----------------------------------------------------------------------------
(* The inductive invariant.                                                *)

\* The packet m is in the queue q.
Has(q, m) == \E n \in 1..Len(q) : q[n] = m

\* The servers of Q voted in term t, and the vote was for w if it still can
\* be told; w is the leader for as long as it stays in the term.
ElectedBy(t, w, Q) ==
    /\ Majority(Q)
    /\ t <= current_term[w] /\ (t = current_term[w] => state[w] = Leader)
    /\ \A v \in Q :
          /\ t <= current_term[v]
          /\ t = current_term[v] => voted_for[v] = w
          /\ \A k \in Server : t \in VoteTerms(v, k) => k = w

TermsElected ==
    \A t \in DOMAIN leader_log :
        \E w \in Server : \E Q \in SUBSET Server : ElectedBy(t, w, Q)

\* The history is that of the leaders.
LeadersRecorded ==
    \A i \in Server : state[i] = Leader =>
        current_term[i] \in DOMAIN leader_log /\ log[i] = leader_log[current_term[i]]

LogsLinked ==
    \A s \in Server :
        /\ Linked(log[s], leader_log)
        /\ \A n \in 1..Len(log[s]) : log[s][n].term <= current_term[s]

\* A server that acknowledged entries holds them, for as long as it is in the
\* term; and later too, if they can still be committed.
AckersHold ==
    \A v \in Server : \A t, n \in Nat : <<v, t, n>> \in acked =>
        /\ t \in DOMAIN leader_log /\ n <= Len(leader_log[t]) /\ t <= current_term[v]
        /\ t = current_term[v] => Agree(log[v], leader_log[t], n)
        /\ Own(n, t, leader_log) =>
              Agree(log[v], leader_log[t], n) \/ Blocked(n, t, current_term, acked)

\* Who holds an entry holds those before it, and a leader holds its own log.
AcksComplete ==
    /\ \A v \in Server : \A t, n, k \in Nat : <<v, t, n>> \in acked /\ k <= n => <<v, t, k>> \in acked
    /\ \A i \in Server : state[i] = Leader => <<i, current_term[i], Len(log[i])>> \in acked

\* A candidate has what its voters acknowledged.
VotersHold ==
    \A v, i \in Server : \A t, n \in Nat :
        /\ state[i] = Candidate /\ current_term[i] \in VoteTerms(v, i)
        /\ <<v, t, n>> \in acked /\ t < current_term[i] /\ Own(n, t, leader_log)
        => Agree(log[i], leader_log[t], n) \/ Blocked(n, t, current_term, acked)

\* No vote is for a term its candidate has not reached.
VotesAreAsked ==
    \A v, i \in Server : \A t \in VoteTerms(v, i) : t <= current_term[i]

\* What a server has committed was chosen.
IsSettled(lg, c, t) ==
    \E u \in DOMAIN leader_log : \E n \in Nat :
        /\ u <= t /\ c <= n /\ Chosen(n, u, leader_log, acked)
        /\ Agree(lg, leader_log[u], c)

CommitsSettled ==
    \A k \in Server : commit_idx[k] > 0 => IsSettled(log[k], commit_idx[k], current_term[k])

ApplyInOrder ==
    \A k \in Server : log_base[k] <= last_applied_idx[k] /\ last_applied_idx[k] <= commit_idx[k]

\* What a leader knows of its peers.
PeersKnown ==
    \A i \in Server : \A k \in Peers(i) : state[i] = Leader =>
        /\ match_idx[i][k] > 0 => <<k, current_term[i], match_idx[i][k]>> \in acked
        /\ next_idx[i][k] <= Len(log[i]) + 1

\* An AppendEntries shows the log of the leader of its term.  The empty one
\* was sent when that log ended at prev_log_idx.
Describes(m, h, a) ==
    /\ m.term \in DOMAIN h /\ m.prev_log_idx <= Len(h[m.term])
    /\ TermAt(h[m.term], m.prev_log_idx) = m.prev_log_term
    /\ \/ /\ m.entries = <<>> /\ m.leader_commit <= m.prev_log_idx
          /\ \A k \in 1..Len(h[m.term]) : k > m.prev_log_idx => h[m.term][k].term = m.term
       \/ /\ Len(m.entries) = 1 /\ m.prev_log_idx + 1 <= Len(h[m.term])
          /\ m.entries[1] = h[m.term][m.prev_log_idx + 1]
    /\ m.leader_commit > 0 => Settled(m.leader_commit, m.term, h, a)

\* A RequestVote shows the log of a server that is still its candidate.
AsksFor(m, j) ==
    /\ m.term <= current_term[j]
    /\ m.term = current_term[j] /\ state[j] = Candidate =>
          m.last_log_idx = Len(log[j]) /\ m.last_log_term = TermAt(log[j], Len(log[j]))

PacketsAreTrue ==
    \A i, j \in Server : \A m : Has(chan[j][i], m) =>
        /\ m.type = "AE" => Describes(m, leader_log, acked)
        /\ m.type = "RV" => AsksFor(m, j)
        /\ m.type = "AER" /\ m.success => <<j, m.term, m.current_idx>> \in acked

\* All AppendEntries of a term come from its leader.
OneSender ==
    \A i, j \in Server : \A m : Has(chan[j][i], m) /\ m.type = "AE" =>
        /\ j # i
        /\ \A k \in Server : state[k] = Leader /\ current_term[k] = m.term => k = j
        /\ \A k, l \in Server : \A x :
              Has(chan[k][l], x) /\ x.type = "AE" /\ x.term = m.term => k = j

\* Behind what an AppendEntries shows, no empty one of the term is shorter.
InOrder(q) ==
    \A n \in 1..Len(q) : \A k \in 1..Len(q) :
        /\ k < n /\ q[k].type = "AE" /\ q[n].type = "AE" /\ q[k].term = q[n].term
        /\ q[n].entries = <<>>
        => /\ q[k].prev_log_idx + Len(q[k].entries) <= q[n].prev_log_idx
           /\ q[k].leader_commit <= q[n].prev_log_idx

\* Nor is one on its way shorter than what was acknowledged and committed.
EmptiesLast ==
    \A i, j \in Server :
        /\ InOrder(chan[j][i])
        /\ \A m : Has(chan[j][i], m) /\ m.type = "AE" /\ m.entries = <<>> =>
              /\ \A n \in Nat : <<i, m.term, n>> \in acked => n <= m.prev_log_idx
              /\ m.term = current_term[i] => commit_idx[i] <= m.prev_log_idx

-----------------------------------------------------------------------------
(* What a step does, of whatever action it is.                             *)

\* Leaders stay leaders in their term, and logs of candidates do not change.
StateStep ==
    \A s \in Server :
        /\ state[s] = Leader /\ current_term'[s] = current_term[s] => state'[s] = Leader
        /\ state'[s] = Candidate =>
              log'[s] = log[s] /\ (current_term'[s] = current_term[s] => state[s] = Candidate)
        /\ state'[s] = Leader => current_term'[s] = current_term[s] /\
              (state[s] = Leader \/ (state[s] = Candidate /\ current_term[s] \notin DOMAIN leader_log))

\* The history only grows, by entries of the leader and by elections.
ReignStep ==
    /\ Grown(leader_log, leader_log')
    /\ \A t \in DOMAIN leader_log' : t \notin DOMAIN leader_log =>
          \E i \in Server : \E M \in SUBSET Server :
              /\ state[i] = Candidate /\ t = current_term[i] /\ leader_log'[t] = log[i]
              /\ state'[i] = Leader /\ t = current_term'[i]
              /\ Majority(M) /\ \A v \in M : t \in VoteTerms(v, i)

\* What is acknowledged is held, in the current term.
AckStep ==
    /\ acked \subseteq acked'
    /\ \A v \in Server : \A t, n \in Nat : <<v, t, n>> \in acked' /\ <<v, t, n>> \notin acked =>
          /\ t = current_term'[v] /\ t \in DOMAIN leader_log'
          /\ Agree(log'[v], leader_log'[t], n)

\* The index n lies beyond what an empty AppendEntries of term t showed.
Beyond(s, t, n) ==
    \E p \in Nat :
        /\ p < n
        /\ \A k \in 1..Len(leader_log[t]) : k > p => leader_log[t][k].term = t
        /\ \A k \in Nat : <<s, t, k>> \in acked => k <= p
        /\ t = current_term[s] => commit_idx[s] <= p

\* A follower's log holds what it held or what its leader has; it loses only
\* what disagrees with its leader, or lies beyond its end.
Followed(s, t) ==
    /\ t \in DOMAIN leader_log
    /\ \A n \in 1..Len(log'[s]) :
          \/ n \in 1..Len(log[s]) /\ Agree(log'[s], log[s], n)
          \/ Agree(log'[s], leader_log[t], n)
    /\ \A n \in 1..Len(log[s]) :
          \/ Agree(log'[s], log[s], n)
          \/ ~Agree(log[s], leader_log[t], n)
          \/ Beyond(s, t, n)

LogStep ==
    \A s \in Server :
        \/ log'[s] = log[s]
        \/ state'[s] = Leader /\ Agree(log'[s], log[s], Len(log[s]))
        \/ Followed(s, current_term'[s])

\* The log y is at least as up to date as x.
UpToDate(x, y) ==
    \/ Len(x) = 0
    \/ TermAt(x, Len(x)) < TermAt(y, Len(y))
    \/ TermAt(x, Len(x)) = TermAt(y, Len(y)) /\ Len(x) <= Len(y)

\* A server votes for itself, or for a candidate at least as up to date.
BallotStep ==
    \A v, i \in Server : \A t : t \in VoteTerms(v, i)' /\ t \notin VoteTerms(v, i) =>
        \/ v = i
        \/ /\ t <= current_term[i] /\ current_term'[i] = current_term[i]
           /\ t = current_term[i] /\ state[i] = Candidate => UpToDate(log[v], log[i])

\* commit_idx moves up to entries that were chosen.
CommitStep ==
    \A k \in Server :
        \/ commit_idx'[k] = commit_idx[k]
        \/ commit_idx[k] < commit_idx'[k] /\ IsSettled(log[k], commit_idx[k], current_term[k])'

\* The response m shows a log shorter than that of the leader of its term.
Short(m, h) == m.term \in DOMAIN h /\ m.current_idx < Len(h[m.term])

\* The response m is to the AppendEntries a takes from b: of its term, or a
\* refusal in a later one.
Answers(a, b, m) ==
    /\ Arrived(a, b, "AE")
    /\ IF m.success THEN m.term = Head(chan[b][a]).term
       ELSE Short(m, leader_log') \/ Head(chan[b][a]).term < m.term

\* What is sent.
NewPacket(a, b, m) ==
    /\ a # b
    /\ \/ /\ m.type = "AE" /\ state'[a] = Leader
          /\ \E k \in 1..(Len(log'[a]) + 1) : m = AppendEntriesFor(a, k)
       \/ /\ m.type = "RV" /\ m.term = current_term'[a]
          /\ m.last_log_idx = Len(log'[a]) /\ m.last_log_term = TermAt(log'[a], Len(log'[a]))
       \/ m.type = "RVR"
       \/ /\ m.type = "AER" /\ Answers(a, b, m)
          /\ m.success => <<a, m.term, m.current_idx>> \in acked'

\* The queue from a to b loses d packets at its head and gets new ones.
QueueMoves(a, b, d) ==
    \A n \in 1..Len(chan'[a][b]) :
        \/ \E k \in 1..Len(chan[a][b]) : k = n + d /\ chan'[a][b][n] = chan[a][b][k]
        \/ n + d > Len(chan[a][b]) /\ NewPacket(a, b, chan'[a][b][n])

PacketStep ==
    \A a, b \in Server : \E d \in {0, 1} : QueueMoves(a, b, d)

\* A follower acknowledges and commits on a packet it takes from its queue.
IngestStep ==
    \A v \in Server :
        \/ /\ commit_idx'[v] = commit_idx[v]
           /\ \A t, n \in Nat : <<v, t, n>> \in acked' => <<v, t, n>> \in acked
        \/ state'[v] = Leader
        \/ \E j \in Server : \E x : \E first \in 1..Len(chan[j][v]) :
              /\ first = 1 /\ x = chan[j][v][first] /\ QueueMoves(j, v, 1)
              /\ x.type = "AE" /\ x.term = current_term'[v]
              /\ commit_idx'[v] = commit_idx[v] \/ commit_idx'[v] <= x.leader_commit
              /\ \A t, n \in Nat : <<v, t, n>> \in acked' =>
                    <<v, t, n>> \in acked \/ n <= x.prev_log_idx + Len(x.entries)

\* What a step may do to votes: terms grow, a vote cast in a term stays, and
\* a vote that is new is one cast by the step, in a term free for it.
VoteStep ==
    /\ \A j \in Server : current_term[j] <= current_term'[j]
    /\ \A j \in Server : current_term'[j] = current_term[j] /\ voted_for[j] # Nil
                            => voted_for'[j] = voted_for[j]
    /\ \A i, j \in Server : \A t : t \in VoteTerms(j, i)' =>
          \/ t \in VoteTerms(j, i)
          \/ /\ t = current_term'[j] /\ voted_for'[j] = i
             /\ current_term[j] < t \/ voted_for[j] = Nil
    /\ \A i \in Server : state'[i] # Follower => voted_for'[i] = i
    /\ \A i \in Server : state'[i] = Leader => Majority(voted_for_me'[i] \cup {i})

\* The inductive invariant.
Safe ==
    /\ TermsElected /\ LeadersRecorded /\ LeaderLogs(leader_log) /\ LogsLinked
    /\ AckersHold /\ AcksComplete /\ LaterLeadersHold(leader_log, current_term, acked)
    /\ VotersHold /\ VotesAreAsked
    /\ CommitsSettled /\ ApplyInOrder /\ PeersKnown
    /\ PacketsAreTrue /\ OneSender /\ EmptiesLast

\* What every action does.
Progress ==
    /\ StateStep /\ ReignStep /\ AckStep /\ LogStep /\ BallotStep /\ CommitStep
    /\ PacketStep /\ IngestStep
    /\ LeadersRecorded' /\ AcksComplete' /\ ApplyInOrder' /\ PeersKnown'

-----------------------------------------------------------------------------
\* What raft_recv_appendentries does not check: where its last lines move
\* commit_idx past the entries it compared with the packet, up to the end of
\* the log it has, the entry it commits is one of the leader's term.
CommitsCompared ==
    \A i, j \in Server : Pending(i, j, "AE") =>
        LET m == Head(chan[j][i])
            lg == AcceptEntries(log[i], m)
            c == CommitUpTo(commit_idx[i], lg, m)
        IN  ~StaleTerm(i, m) /\ ~NoPrevEntry(i, m) /\ ~PrevMismatch(i, m) =>
              \/ c = commit_idx[i]
              \/ c <= m.prev_log_idx + Len(m.entries)
              \/ TermAt(lg, c) = m.term

=============================================================================
