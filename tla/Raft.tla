-------------------------------- MODULE Raft --------------------------------
(***************************************************************************)
(* The replication core of Cyclone: the raft library (raft/src) as the     *)
(* monitor thread of core/cyclone_context.hpp drives it, one instance per  *)
(* server of a fixed configuration of voting nodes.                        *)
(*                                                                         *)
(* A server is single threaded, so one handler is one step.  Servers talk  *)
(* over best-effort Ethernet queues (cyclone_tx): one transmit queue per   *)
(* sender and one receive queue per server, hence per-pair FIFO order with *)
(* loss, and no duplication.  Time is abstracted: a timer may expire at    *)
(* any step.  Every AppendEntries on the wire carries at most one entry,   *)
(* since add_head writes n_entries = 1 into each stored packet.            *)
(*                                                                         *)
(* Out of this module: membership changes, log compaction (compact_log     *)
(* returns early while a log is shorter than 2 * log_target = 2000), and   *)
(* current_leader, which no decision reads.                                *)
(***************************************************************************)
EXTENDS Integers, Sequences, FiniteSets

CONSTANTS
    Server,       \* the replicas
    Command,      \* what clients ask to have logged
    Kicker,       \* the payload of the entry a new leader appends
    Nil,          \* voted_for = -1
    MaxTerm,      \* bound: no election is started from this term
    MaxLog,       \* bound: no entry is appended to a log this long
    MaxBatch,     \* bound: entries one call of accept hands to raft
    MaxLost,      \* bound: packets the network loses in a behaviour
    MaxBusy,      \* bound: queues in use when a timer expires or a client asks
    QueueSize,    \* packets a transmit queue holds
    PKT_BURST     \* packets one send_appendentries may transmit

ASSUME ServerAssumption ==
    IsFiniteSet(Server) /\ Cardinality(Server) > 1 /\ Nil \notin Server
ASSUME BoundAssumption ==
    /\ {MaxTerm, MaxLog, MaxBatch, MaxLost, MaxBusy} \subseteq Nat
    /\ {QueueSize, PKT_BURST} \subseteq Nat \ {0}

VARIABLES
    current_term, voted_for, state,
    voted_for_me,      \* per server: the nodes whose RAFT_NODE_VOTED_FOR_ME is set
    log, commit_idx, last_applied_idx,
    log_base,          \* how far the executors have run the log
    next_idx, match_idx,
    snapshot,          \* the term of the last snapshot published as leader
    chan,              \* chan[i][j]: packets on their way from i to j
    lost,              \* packets lost so far
    leader_log,        \* history: the log its leader had, for every term led so far
    acked              \* history: <<k, t, n>> once k holds n entries of the leader of t

electionVars == <<current_term, voted_for, state, voted_for_me>>
applyVars == <<last_applied_idx, log_base>>
logVars == <<log, commit_idx, applyVars>>
peerVars == <<next_idx, match_idx>>
netVars == <<chan, lost>>
historyVars == <<leader_log, acked>>   \* no guard and no other variable reads them
vars == <<electionVars, logVars, peerVars, snapshot, netVars, historyVars>>

Follower == "follower"
Candidate == "candidate"
Leader == "leader"

Entry == [term : Nat, cmd : Command \cup {Kicker}]

Message ==
         [type : {"RV"}, term : Nat, last_log_idx : Nat, last_log_term : Nat]
    \cup [type : {"RVR"}, term : Nat, vote_granted : BOOLEAN]
    \cup [type : {"AE"}, term : Nat, prev_log_idx : Nat, prev_log_term : Nat,
          entries : Seq(Entry), leader_commit : Nat]
    \cup [type : {"AER"}, term : Nat, success : BOOLEAN, current_idx : Nat]

Smaller(a, b) == IF a <= b THEN a ELSE b
Larger(a, b) == IF a >= b THEN a ELSE b

Peers(i) == Server \ {i}

\* raft_get_current_idx
current_idx(i) == Len(log[i])

\* The term of entry n, 0 where there is none (raft_get_last_log_term).
TermAt(lg, n) == IF n \in 1..Len(lg) THEN lg[n].term ELSE 0

\* raft_votes_is_majority over the whole configuration.
Majority(S) == 2 * Cardinality(S) > Cardinality(Server)

-----------------------------------------------------------------------------
(* The network.                                                            *)

\* The head of the queue from j to i, when it is of the given type.
Arrived(i, j, type) == chan[j][i] # <<>> /\ Head(chan[j][i]).type = type

\* The queues once i has taken the head of the queue from j.
Taken(i, j) == [chan EXCEPT ![j][i] = Tail(@)]

\* The bound on what servers start of their own while packets are under way.
Calm ==
    Cardinality({p \in Server \X Server : chan[p[1]][p[2]] # <<>>}) <= MaxBusy

Room(q) == Larger(0, QueueSize - Len(q))

\* cyclone_tx: a packet that finds the transmit queue full is dropped.
Send(q, m) == IF Room(q) > 0 THEN Append(q, m) ELSE q

\* A queued packet is lost.
Lose(i, j) ==
    /\ chan[j][i] # <<>>
    /\ lost < MaxLost
    /\ chan' = Taken(i, j)
    /\ lost' = lost + 1
    /\ UNCHANGED <<electionVars, logVars, peerVars, snapshot, historyVars>>

-----------------------------------------------------------------------------
(* raft_send_appendentries: what server i sends from its new state.        *)

\* How many entries from index n on go out, the transmit queue being q.
Burst(i, n, q) ==
    IF n > Len(log'[i]) THEN 0
    ELSE Smaller(Len(log'[i]) - n + 1, Smaller(PKT_BURST, Room(q)))

\* The packet for entry n; past the end of the log it is the empty one.
AppendEntriesFor(i, n) ==
    [type |-> "AE", term |-> current_term'[i],
     prev_log_idx |-> n - 1, prev_log_term |-> TermAt(log'[i], n - 1),
     entries |-> IF n > Len(log'[i]) THEN <<>> ELSE <<log'[i][n]>>,
     leader_commit |-> commit_idx'[i]]

\* The queue q after the call for a node whose next_idx is n.
WithAppendEntries(i, n, q) ==
    IF n > Len(log'[i])
    THEN Send(q, AppendEntriesFor(i, n))
    ELSE q \o [k \in 1..Burst(i, n, q) |-> AppendEntriesFor(i, n + k - 1)]

\* Slip: next_idx moves past what the transmit queue refused.
SendCountsRefused(i, K, next, net) ==
    /\ next_idx' = [next_idx EXCEPT ![i] =
           [k \in Server |-> IF k \in K THEN Len(log'[i]) + 1 ELSE next[k]]]
    /\ chan' = [net EXCEPT ![i] =
           [k \in Server |-> IF k \in K
                             THEN WithAppendEntries(i, next[k], net[i][k])
                             ELSE net[i][k]]]

\* Calls it for every node of K.  next is i's next_idx before the calls and
\* net the queues; with multi_inflight next_idx moves past what was sent.
raft_send_appendentries(i, K, next, net) ==
    /\ next_idx' = [next_idx EXCEPT ![i] =
           [k \in Server |-> IF k \in K
                             THEN next[k] + Burst(i, next[k], net[i][k])
                             ELSE next[k]]]
    /\ chan' = [net EXCEPT ![i] =
           [k \in Server |-> IF k \in K
                             THEN WithAppendEntries(i, next[k], net[i][k])
                             ELSE net[i][k]]]

-----------------------------------------------------------------------------
Init ==
    /\ current_term = [i \in Server |-> 0]
    /\ voted_for = [i \in Server |-> Nil]
    /\ state = [i \in Server |-> Follower]
    /\ voted_for_me = [i \in Server |-> {}]
    /\ log = [i \in Server |-> <<>>]
    /\ commit_idx = [i \in Server |-> 0]
    /\ last_applied_idx = [i \in Server |-> 0]
    /\ log_base = [i \in Server |-> 0]
    /\ next_idx = [i \in Server |-> [k \in Server |-> 1]]
    /\ match_idx = [i \in Server |-> [k \in Server |-> 0]]
    /\ snapshot = [i \in Server |-> 0]
    /\ chan = [i \in Server |-> [k \in Server |-> <<>>]]
    /\ lost = 0
    /\ leader_log = [t \in {} |-> <<>>]
    /\ acked = {}

-----------------------------------------------------------------------------
(* History.                                                                *)

\* Server k holds the first n entries of the leader of term t.
Holds(k, t, n) == acked' = acked \cup {<<k, t, l>> : l \in 0..n}

\* Server i leads term t with the log lg.
Leads(i, t, lg) ==
    /\ leader_log' = [u \in DOMAIN leader_log \cup {t} |->
                         IF u = t THEN lg ELSE leader_log[u]]
    /\ Holds(i, t, Len(lg))

-----------------------------------------------------------------------------
(* Elections.                                                              *)

\* raft_set_current_term followed by raft_become_follower.
StepDown(i, term) ==
    /\ current_term' = [current_term EXCEPT ![i] = term]
    /\ voted_for' = [voted_for EXCEPT ![i] = Nil]
    /\ state' = [state EXCEPT ![i] = Follower]

\* The loop on raft_apply_entry: stops at commit_idx or at a missing entry.
\* Each application lets __applylog move log_base as far as the executors,
\* which run on their own, have come (raft_checkpoint).
ApplyCommitted(i) ==
    LET last == Larger(last_applied_idx[i], Smaller(commit_idx'[i], Len(log'[i])))
    IN  /\ last_applied_idx' = [last_applied_idx EXCEPT ![i] = last]
        /\ \/ last > last_applied_idx[i]
              /\ \E b \in log_base[i]..last : log_base' = [log_base EXCEPT ![i] = b]
           \/ last = last_applied_idx[i] /\ UNCHANGED log_base

\* raft_periodic of a server that is not leader, its election timer expired:
\* raft_election_start, raft_become_candidate.
PeriodicElection(i) ==
    /\ state[i] # Leader
    /\ current_term[i] < MaxTerm /\ Calm
    /\ current_term' = [current_term EXCEPT ![i] = @ + 1]
    /\ voted_for_me' = [voted_for_me EXCEPT ![i] = {}]
    /\ voted_for' = [voted_for EXCEPT ![i] = i]
    /\ state' = [state EXCEPT ![i] = Candidate]
    /\ LET rv == [type |-> "RV", term |-> current_term[i] + 1,
                  last_log_idx |-> current_idx(i),
                  last_log_term |-> TermAt(log[i], current_idx(i))]
       IN  chan' = [chan EXCEPT ![i] =
               [k \in Server |-> IF k = i THEN chan[i][k] ELSE Send(chan[i][k], rv)]]
    /\ UNCHANGED <<log, commit_idx>>
    /\ ApplyCommitted(i)
    /\ UNCHANGED <<peerVars, snapshot, lost, historyVars>>

\* raft_periodic of a server that is not leader, its timer still running.
PeriodicIdle(i) ==
    /\ state[i] # Leader
    /\ UNCHANGED <<log, commit_idx>>
    /\ ApplyCommitted(i)
    /\ UNCHANGED <<electionVars, peerVars, snapshot, netVars, historyVars>>

\* Slip: the vote already cast in this term is not looked at.
GrantTwice(i, term, vf, m) ==
    /\ m.term >= term
    /\ \/ current_idx(i) = 0
       \/ TermAt(log[i], current_idx(i)) < m.last_log_term
       \/ /\ m.last_log_term = TermAt(log[i], current_idx(i))
          /\ current_idx(i) <= m.last_log_idx

\* Slip: the candidate's log is not looked at.
GrantToAnyLog(i, term, vf, m) == m.term >= term /\ vf = Nil

\* __should_grant_vote, for a server in the given term that voted for vf.
should_grant_vote(i, term, vf, m) ==
    /\ m.term >= term
    /\ vf = Nil
    /\ \/ current_idx(i) = 0
       \/ TermAt(log[i], current_idx(i)) < m.last_log_term
       \/ /\ m.last_log_term = TermAt(log[i], current_idx(i))
          /\ current_idx(i) <= m.last_log_idx

raft_recv_requestvote(i, j) ==
    /\ Arrived(i, j, "RV")
    /\ LET m == Head(chan[j][i])
           newer == current_term[i] < m.term
           term == IF newer THEN m.term ELSE current_term[i]
           vf == IF newer THEN Nil ELSE voted_for[i]
           grant == should_grant_vote(i, term, vf, m)
           rvr == [type |-> "RVR", term |-> term, vote_granted |-> grant]
       IN  /\ current_term' = [current_term EXCEPT ![i] = term]
           /\ state' = [state EXCEPT ![i] = IF newer THEN Follower ELSE @]
           /\ voted_for' = [voted_for EXCEPT ![i] = IF grant THEN j ELSE vf]
           /\ chan' = [Taken(i, j) EXCEPT ![i][j] = Send(@, rvr)]
    /\ UNCHANGED <<voted_for_me, logVars, peerVars, snapshot, lost, historyVars>>

\* raft_become_leader with the queues net.
raft_become_leader(i, net) ==
    /\ state' = [state EXCEPT ![i] = Leader]
    /\ Leads(i, current_term[i], log[i])
    /\ match_idx' = [match_idx EXCEPT ![i] =
                        [k \in Server |-> IF k = i THEN @[k] ELSE 0]]
    /\ raft_send_appendentries(i, Peers(i),
           [k \in Server |-> IF k = i THEN next_idx[i][k] ELSE current_idx(i) + 1],
           net)

\* A vote that counts: granted, in our term, while we are candidate.
CountVote(i, j) ==
    LET votes == voted_for_me[i] \cup {j}
        mine == IF voted_for[i] = i THEN {i} ELSE {}
    IN  /\ voted_for_me' = [voted_for_me EXCEPT ![i] = votes]
        /\ UNCHANGED <<current_term, voted_for, logVars>>
        /\ IF Majority(votes \cup mine)
           THEN raft_become_leader(i, Taken(i, j))
           ELSE chan' = Taken(i, j) /\ UNCHANGED <<state, peerVars, historyVars>>

raft_recv_requestvote_response(i, j) ==
    /\ Arrived(i, j, "RVR")
    /\ LET m == Head(chan[j][i])
           candidate == state[i] = Candidate
           counts == candidate /\ m.term = current_term[i] /\ m.vote_granted
       IN  \/ counts /\ CountVote(i, j)
           \/ /\ candidate /\ current_term[i] < m.term
              /\ StepDown(i, m.term)
              /\ chan' = Taken(i, j)
              /\ UNCHANGED <<voted_for_me, logVars, peerVars, historyVars>>
           \/ /\ ~counts /\ ~(candidate /\ current_term[i] < m.term)
              /\ chan' = Taken(i, j)
              /\ UNCHANGED <<electionVars, logVars, peerVars, historyVars>>
    /\ UNCHANGED <<snapshot, lost>>

-----------------------------------------------------------------------------
(* Replication.                                                            *)

\* raft_periodic of a leader: an AppendEntries to every node whose request
\* timer expired (the set X) or that has entries left to be sent.
PeriodicLeader(i, X) ==
    /\ state[i] = Leader /\ Calm
    /\ UNCHANGED <<electionVars, log, commit_idx, match_idx, snapshot, lost, historyVars>>
    /\ raft_send_appendentries(i,
           X \cup {k \in Peers(i) : next_idx[i][k] <= current_idx(i)},
           next_idx[i], chan)
    /\ ApplyCommitted(i)

\* raft_recv_entry_batch at the leader, which stamps its term on the entries.
raft_recv_entry_batch(i, cmds) ==
    /\ log' = [log EXCEPT ![i] =
           @ \o [n \in 1..Len(cmds) |-> [term |-> current_term[i], cmd |-> cmds[n]]]]
    /\ UNCHANGED <<current_term, commit_idx>>
    /\ raft_send_appendentries(i, Peers(i), next_idx[i], chan)
    /\ Leads(i, current_term[i], log'[i])
    /\ UNCHANGED <<voted_for, state, voted_for_me, applyVars, match_idx, lost>>

\* publish_snapshot shows a new leadership, and the kicker is logged.  Only
\* the term of the last word published with its leader bit set is kept: a
\* leader's word differs from the last one published just if this term does.
PublishSnapshot(i) ==
    /\ state[i] = Leader
    /\ snapshot[i] # current_term[i]
    /\ current_idx(i) < MaxLog /\ Calm
    /\ snapshot' = [snapshot EXCEPT ![i] = current_term[i]]
    /\ raft_recv_entry_batch(i, <<Kicker>>)

\* Slip: requests are taken before the kicker of the term is logged.
AcceptBeforeKicker(i) ==
    /\ state[i] = Leader /\ Calm
    /\ \E n \in 1..MaxBatch :
         /\ current_idx(i) + n <= MaxLog
         /\ \E cmds \in [1..n -> Command] : raft_recv_entry_batch(i, cmds)
    /\ UNCHANGED snapshot

\* accept of a burst of requests to be logged.  It follows publish_snapshot
\* in the monitor's loop, so the snapshot is up to date.  At a server that
\* is not leader raft_recv_entry_batch refuses and the requests are freed.
Accept(i) ==
    /\ state[i] = Leader
    /\ snapshot[i] = current_term[i] /\ Calm
    /\ \E n \in 1..MaxBatch :
         /\ current_idx(i) + n <= MaxLog
         /\ \E cmds \in [1..n -> Command] : raft_recv_entry_batch(i, cmds)
    /\ UNCHANGED snapshot

\* Slip: a conflicting entry is not deleted before the append.
AppendBehindConflict(lg, m) ==
    LET prev == m.prev_log_idx IN
    IF m.entries = <<>> \/ (prev < Len(lg) /\ lg[prev + 1].term = m.entries[1].term)
    THEN lg
    ELSE lg \o m.entries

\* The follower's log after an AppendEntries whose previous entry matches.
\* An empty one deletes what lies beyond prev_log_idx, though not a single
\* entry; one with an entry keeps the log if it holds that entry already, and
\* an entry is appended at the end even if some before it are missing.
AcceptEntries(lg, m) ==
    LET prev == m.prev_log_idx IN
    IF m.entries = <<>>
    THEN IF 0 < prev /\ prev + 1 < Len(lg) THEN SubSeq(lg, 1, prev) ELSE lg
    ELSE IF prev < Len(lg) /\ lg[prev + 1].term = m.entries[1].term
         THEN lg
         ELSE SubSeq(lg, 1, Smaller(prev, Len(lg))) \o m.entries

\* Slip: commit_idx follows the leader past the end of the log.
CommitBlindly(c, lg, m) == Larger(c, m.leader_commit)

\* commit_idx after an AppendEntries that left the log lg.
CommitUpTo(c, lg, m) ==
    IF c < m.leader_commit THEN Smaller(Larger(Len(lg), 1), m.leader_commit) ELSE c

\* Slips: packets of an old term pass, a gap of one entry goes unnoticed.
NeverStale(i, m) == FALSE
GapOfOne(i, m) == m.prev_log_idx > current_idx(i) + 1

\* How the handler answers: its checks on term and on the previous entry,
\* which it looks at from log_base on.
StaleTerm(i, m) == m.term < current_term[i]
NoPrevEntry(i, m) ==
    /\ log_base[i] <= m.prev_log_idx
    /\ m.prev_log_idx > current_idx(i)
PrevMismatch(i, m) ==
    /\ 0 < m.prev_log_idx /\ m.prev_log_idx \in log_base[i]..current_idx(i)
    /\ TermAt(log[i], m.prev_log_idx) # m.prev_log_term

\* Slip: the response carries the index as the log counts, from 0.
AnswerFromZero(i, j, term, success, idx) ==
    chan' = [Taken(i, j) EXCEPT ![i][j] =
        Send(@, [type |-> "AER", term |-> term, success |-> success,
                 current_idx |-> idx - 1])]

\* Takes the packet and queues the response, as flushed by send_ae_responses.
Answer(i, j, term, success, idx) ==
    chan' = [Taken(i, j) EXCEPT ![i][j] =
        Send(@, [type |-> "AER", term |-> term, success |-> success,
                 current_idx |-> idx])]

\* The term and state on the arrival of an AppendEntries that is not stale.
FollowLeader(i, m) ==
    /\ current_term' = [current_term EXCEPT ![i] = m.term]
    /\ voted_for' = [voted_for EXCEPT ![i] = IF current_term[i] < m.term THEN Nil ELSE @]
    /\ state' = [state EXCEPT ![i] =
           IF current_term[i] < m.term \/ @ = Candidate THEN Follower ELSE @]

raft_recv_appendentries(i, j) ==
    /\ Arrived(i, j, "AE")
    /\ LET m == Head(chan[j][i])
       IN  \/ /\ StaleTerm(i, m)
              /\ Answer(i, j, current_term[i], FALSE, current_idx(i))
              /\ UNCHANGED <<current_term, voted_for, state, log, commit_idx, acked>>
           \/ /\ ~StaleTerm(i, m) /\ NoPrevEntry(i, m)
              /\ FollowLeader(i, m)
              /\ Answer(i, j, m.term, FALSE, current_idx(i))
              /\ UNCHANGED <<log, commit_idx, acked>>
           \/ /\ ~StaleTerm(i, m) /\ ~NoPrevEntry(i, m) /\ PrevMismatch(i, m)
              /\ FollowLeader(i, m)
              /\ log' = [log EXCEPT ![i] = SubSeq(@, 1, m.prev_log_idx - 1)]
              /\ Answer(i, j, m.term, FALSE, m.prev_log_idx - 1)
              /\ UNCHANGED <<commit_idx, acked>>
           \/ /\ ~StaleTerm(i, m) /\ ~NoPrevEntry(i, m) /\ ~PrevMismatch(i, m)
              /\ FollowLeader(i, m)
              /\ log' = [log EXCEPT ![i] = AcceptEntries(@, m)]
              /\ commit_idx' = [commit_idx EXCEPT ![i] =
                     CommitUpTo(@, log'[i], m)]
              /\ Answer(i, j, m.term, TRUE, m.prev_log_idx + Len(m.entries))
              /\ Holds(i, m.term, m.prev_log_idx + Len(m.entries))
    /\ UNCHANGED <<voted_for_me, applyVars, peerVars, snapshot, lost, leader_log>>

\* A response the leader ignores: it tells of nothing beyond match_idx.
StaleResponse(i, j, m) == m.current_idx <= match_idx[i][j] /\ match_idx[i][j] # 0

\* A negative response: back up to what the follower has, and resend.
RecvNack(i, j, m) ==
    /\ UNCHANGED <<electionVars, logVars, match_idx>>
    /\ raft_send_appendentries(i, {j},
           [next_idx[i] EXCEPT ![j] =
               Larger(1, Smaller(m.current_idx + 1, current_idx(i)))],
           Taken(i, j))

\* Slip: the leader itself does not count.
ReplicatedElsewhere(i, match, point) ==
    {k \in Peers(i) : /\ 0 < match[k] /\ point <= match[k]
                      /\ TermAt(log[i], match[k]) = current_term[i]}

\* The nodes that count towards committing point once match is match_idx.
Replicated(i, match, point) ==
    {i} \cup {k \in Peers(i) : /\ 0 < match[k] /\ point <= match[k]
                               /\ TermAt(log[i], match[k]) = current_term[i]}

\* A positive response: move match_idx, commit, send what is left, apply.
RecvAck(i, j, m) ==
    LET point == m.current_idx
        match == [match_idx[i] EXCEPT ![j] = point]
        next == [next_idx[i] EXCEPT ![j] = Larger(point + 1, @)]
    IN  /\ match_idx' = [match_idx EXCEPT ![i] = match]
        /\ UNCHANGED <<electionVars, log>>
        /\ commit_idx' = [commit_idx EXCEPT ![i] =
               IF Majority(Replicated(i, match, point)) /\ @ < point THEN point ELSE @]
        /\ raft_send_appendentries(i, IF next[j] <= current_idx(i) THEN {j} ELSE {},
               next, Taken(i, j))
        /\ ApplyCommitted(i)

raft_recv_appendentries_response(i, j) ==
    /\ Arrived(i, j, "AER")
    /\ LET m == Head(chan[j][i])
           live == ~StaleResponse(i, j, m) /\ state[i] = Leader
       IN  \/ /\ live /\ m.term = current_term[i] /\ ~m.success
              /\ RecvNack(i, j, m)
           \/ /\ live /\ m.term = current_term[i] /\ m.success
              /\ RecvAck(i, j, m)
           \/ /\ live /\ m.term > current_term[i]
              /\ StepDown(i, m.term)
              /\ chan' = Taken(i, j)
              /\ UNCHANGED <<voted_for_me, logVars, peerVars>>
           \/ /\ ~live \/ m.term < current_term[i]
              /\ chan' = Taken(i, j)
              /\ UNCHANGED <<electionVars, logVars, peerVars>>
    /\ UNCHANGED <<snapshot, lost, historyVars>>

-----------------------------------------------------------------------------
Next ==
    \E i \in Server :
        \/ PeriodicElection(i)
        \/ PeriodicIdle(i)
        \/ \E X \in SUBSET Peers(i) : PeriodicLeader(i, X)
        \/ PublishSnapshot(i)
        \/ Accept(i)
        \/ \E j \in Peers(i) :
              \/ raft_recv_requestvote(i, j)
              \/ raft_recv_requestvote_response(i, j)
              \/ raft_recv_appendentries(i, j)
              \/ raft_recv_appendentries_response(i, j)
              \/ Lose(i, j)

Spec == Init /\ [][Next]_vars

\* The monitor thread polls its queue forever and a leader's request timers
\* keep expiring.  Nothing is assumed of elections, clients and losses.
Fairness ==
    \A i \in Server :
        /\ WF_vars(PublishSnapshot(i))
        /\ WF_vars(PeriodicIdle(i))
        /\ \A j \in Peers(i) :
              /\ WF_vars(\E X \in SUBSET Peers(i) : j \in X /\ PeriodicLeader(i, X))
              /\ WF_vars(raft_recv_requestvote(i, j))
              /\ WF_vars(raft_recv_requestvote_response(i, j))
              /\ WF_vars(raft_recv_appendentries(i, j))
              /\ WF_vars(raft_recv_appendentries_response(i, j))

-----------------------------------------------------------------------------
(* Properties.                                                             *)

\* The server's fields and the packets.
ServerTypes ==
    /\ current_term \in [Server -> Nat]
    /\ voted_for \in [Server -> Server \cup {Nil}]
    /\ state \in [Server -> {Follower, Candidate, Leader}]
    /\ voted_for_me \in [Server -> SUBSET Server]
    /\ log \in [Server -> Seq(Entry)]
    /\ commit_idx \in [Server -> Nat]
    /\ last_applied_idx \in [Server -> Nat]
    /\ log_base \in [Server -> Nat]
    /\ next_idx \in [Server -> [Server -> Nat \ {0}]]
    /\ match_idx \in [Server -> [Server -> Nat]]
    /\ snapshot \in [Server -> Nat]
    /\ chan \in [Server -> [Server -> Seq(Message)]]
    /\ lost \in Nat

HistoryTypes ==
    /\ DOMAIN leader_log \subseteq Nat /\ leader_log \in [DOMAIN leader_log -> Seq(Entry)]
    /\ acked \subseteq Server \X Nat \X Nat

\* The types of the server's fields, of the packets and of the history.
TypeOK == ServerTypes /\ HistoryTypes

\* raft_become_leader never makes a second leader of a term: the votes of
\* raft_recv_requestvote and the count of raft_recv_requestvote_response
\* leave room for one majority only.
ElectionSafety ==
    \A i, j \in Server :
        state[i] = Leader /\ state[j] = Leader /\ current_term[i] = current_term[j]
            => i = j

\* The terms in which j's vote for i is on its way, counted or its own.
VoteTerms(j, i) ==
    LET q == chan[j][i]
        granted == {n \in 1..Len(q) : q[n].type = "RVR" /\ q[n].vote_granted}
    IN  {q[n].term : n \in granted} \cup
        {t \in {current_term[i]} : state[i] # Follower /\ j \in voted_for_me[i] \cup {i}}

\* The votes behind a leader.  A vote once granted stays with one candidate,
\* while it is queued, counted by raft_recv_requestvote_response or overtaken
\* by newer terms; the voter is never behind it and, in its term, remembers
\* it in voted_for.  A leader has been voted for by a majority.
VotesHold ==
    /\ \A i \in Server : state[i] # Follower => voted_for[i] = i
    /\ \A i \in Server : state[i] = Leader => Majority(voted_for_me[i] \cup {i})
    /\ \A i, j \in Server : \A t \in VoteTerms(j, i) :
          /\ t <= current_term[j]
          /\ t = current_term[j] => voted_for[j] = i
          /\ \A k \in Server : t \in VoteTerms(j, k) => k = i

\* Both logs have n entries and the same ones.
Agree(a, b, n) ==
    n <= Len(a) /\ n <= Len(b) /\ SubSeq(a, 1, n) = SubSeq(b, 1, n)

\* Two logs that hold an entry of one term at one index agree up to it,
\* whatever raft_recv_appendentries deleted, kept and appended on the way.
LogMatching ==
    \A i, j \in Server : \A n \in 1..Smaller(Len(log[i]), Len(log[j])) :
        log[i][n].term = log[j][n].term => Agree(log[i], log[j], n)

\* What a server holds committed, a leader of its term or a later one holds
\* too: the vote check and the commit count of the leader fit together.
LeaderCompleteness ==
    \A i, k \in Server :
        state[i] = Leader /\ current_term[i] >= current_term[k]
            => Agree(log[i], log[k], commit_idx[k])

\* No two servers commit different entries at one index, so raft_apply_entry
\* hands every replica the same sequence.
StateMachineSafety ==
    \A i, j \in Server : Agree(log[i], log[j], Smaller(commit_idx[i], commit_idx[j]))

\* Committed entries are for good: no step moves commit_idx back or changes
\* the log below it, so no log_delete reaches what was applied.
CommittedIsStable ==
    [][\A i \in Server :
          /\ commit_idx[i] <= commit_idx'[i]
          /\ Agree(log'[i], log[i], commit_idx[i])]_vars

\* match_idx tells the truth: a follower still in the leader's term holds
\* the leader's log that far, late responses and resent entries included.
MatchIsReplicated ==
    \A i, k \in Server :
        state[i] = Leader /\ k # i /\ current_term[k] = current_term[i]
            => Agree(log[i], log[k], match_idx[i][k])

\* "must do snapshot and kicker activity before accepting any requests in a
\* new term": in every log the first entry of a term is the kicker.
KickerFirst ==
    \A i \in Server : \A n \in 1..Len(log[i]) :
        TermAt(log[i], n - 1) # log[i][n].term => log[i][n].cmd = Kicker

\* The packet at the head of the queue from j to i.
Pending(i, j, type) == i # j /\ Arrived(i, j, type)

\* The assertions of raft_recv_appendentries in front of log_delete: what it
\* is about to delete is not committed.
DeletesOnlyUncommitted ==
    \A i, j \in Server : Pending(i, j, "AE") =>
        LET m == Head(chan[j][i])
            prev == m.prev_log_idx
        IN  ~StaleTerm(i, m) /\ ~NoPrevEntry(i, m) =>
              /\ PrevMismatch(i, m) => commit_idx[i] < prev
              /\ ~PrevMismatch(i, m) /\ m.entries = <<>> /\ 0 < prev
                   /\ prev + 1 < current_idx(i) => commit_idx[i] < prev + 1
              /\ ~PrevMismatch(i, m) /\ m.entries # <<>> /\ prev < current_idx(i)
                   /\ log[i][prev + 1].term # m.entries[1].term => commit_idx[i] < prev + 1

\* raft_recv_appendentries does not compare a previous entry below log_base.
\* It need not: at an index the follower has committed, a leader that is not
\* stale has the same entry, however far the executors have moved log_base.
SkippedEntriesAgree ==
    \A i, j \in Server : Pending(i, j, "AE") =>
        LET m == Head(chan[j][i]) IN
        ~StaleTerm(i, m) /\ m.prev_log_idx \in 1..commit_idx[i]
            => TermAt(log[i], m.prev_log_idx) = m.prev_log_term

\* The other assertions of the handlers: a leader or candidate never grants
\* a vote, a nack leaves next_idx above match_idx, an ack is of an entry the
\* leader has, and commit_idx is never set beyond the log.
OtherAssertions ==
    \A i, j \in Server :
        /\ Pending(i, j, "RV") =>
              LET m == Head(chan[j][i]) IN
              m.term = current_term[i] /\ should_grant_vote(i, m.term, voted_for[i], m)
                  => state[i] = Follower
        /\ Pending(i, j, "AER") =>
              LET m == Head(chan[j][i]) IN
              state[i] = Leader /\ m.term = current_term[i] /\ ~StaleResponse(i, j, m) =>
                  IF m.success
                  THEN m.current_idx <= current_idx(i)
                  ELSE match_idx[i][j] < Larger(1, Smaller(m.current_idx + 1, current_idx(i)))
        /\ commit_idx[i] <= current_idx(i)

\* What the leader logs is committed as long as it leads: acknowledgements
\* come back, and retries make up for what the queues refused.
EntriesCommit ==
    \A i \in Server : \A n \in 1..MaxLog :
        (state[i] = Leader /\ current_idx(i) >= n)
            ~> (state[i] # Leader \/ commit_idx[i] >= n)

\* "If AppendEntries fails because of log inconsistency: decrement nextIndex
\* and retry": a follower the leader goes on talking to catches up with it.
FollowersCatchUp ==
    \A i \in Server : \A k \in Peers(i) : \A n \in 1..MaxLog :
        (state[i] = Leader /\ current_idx(i) >= n)
            ~> (state[i] # Leader \/ current_idx(k) >= n)

=============================================================================
