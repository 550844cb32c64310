--------------------------- MODULE RaftReplication ---------------------------
(***************************************************************************)
(* The replicated log of Raft is safe, for any number of servers and any   *)
(* value of the bounds, in every behaviour in which raft_recv_appendentries *)
(* commits, past what it compared with the packet, only entries of the     *)
(* leader's term (CommitsCompared).                                        *)
(***************************************************************************)
EXTENDS RaftProofs, RaftSteps

USE ZenonT(20)

-----------------------------------------------------------------------------
(* What the argument assumes of majorities and numbers.                    *)

\* Majorities meet, and a set larger than a majority is one.
LEMMA HaveQuorums == Quorums
  BY MajoritiesMeet, LargerMajority DEF Quorums

\* A set of numbers has a least one.
LEMMA LeastNumber ==
    ASSUME NEW S \in SUBSET Nat, S # {}
    PROVE  \E n \in S : \A k \in S : n <= k
  <1> DEFINE R == {p \in Nat \X Nat : p[1] < p[2]}
  <1>1. IsWellFoundedOn(R, Nat)
    BY NatLessThanWellFounded DEF OpToRel
  <1>2. \A a, b \in Nat : a < b => <<a, b>> \in R
    OBVIOUS
  <1> HIDE DEF R
  <1>3. PICK n \in S : \A k \in S : <<k, n>> \notin R
    BY <1>1, WFMin
  <1>4. \A a, b \in Nat : ~(b < a) => a <= b
    BY SMTT(20)
  <1>5. \A k \in S : n \in Nat /\ k \in Nat /\ ~(k < n)
    BY <1>2, <1>3
  <1> QED BY <1>4, <1>5

\* A leader alone is no majority; a set of numbers has a least one.
LEMMA HaveCounting == Counting
  <1>1. ASSUME NEW i \in Server PROVE ~Majority({i})
    <2>1. Cardinality({i}) = 1
      BY FS_Singleton
    <2>2. Cardinality(Server) \in Nat /\ Cardinality(Server) > 1
      BY FS_CardinalityType, ServerAssumption
    <2> QED BY SMTT(20), <2>1, <2>2 DEF Majority
  <1> QED BY <1>1, LeastNumber DEF Counting

-----------------------------------------------------------------------------
(* The invariant, and what it says about two logs.                         *)

\* Spec /\ []CommitsCompared => []Safe: the invariant of RaftInv holds
\* throughout, whatever raft_server.c is sent, loses or times out on.
THEOREM LogIsSafe == Spec /\ []CommitsCompared => []Safe
  <1>1. Init => Safe
    BY SafeInit
  <1>2. /\ TypeOK /\ TypeOK' /\ VotesHold /\ VotesHold' /\ ElectionSafety'
        /\ Safe /\ CommitsCompared /\ [Next]_vars
        => Safe'
    <2> SUFFICES ASSUME TypeOK, TypeOK', VotesHold, VotesHold', ElectionSafety', Safe,
                        CommitsCompared, [Next]_vars
                 PROVE  Safe'
      OBVIOUS
    <2>1. VoteStep
      BY EveryVoteStep DEF TypeOK
    <2>2. Progress
      BY <2>1, HaveQuorums, HaveCounting, EveryProgress
    <2> QED BY <2>1, <2>2, HaveQuorums, ProgressKeepsSafe
  <1> QED BY <1>1, <1>2, TypeCorrect, VotesAreFinal, OneLeaderPerTerm, PTL DEF Spec

\* Any two logs agree on nothing.
LEMMA AgreeNone ==
    ASSUME NEW a \in Seq(Entry), NEW b \in Seq(Entry)
    PROVE  Agree(a, b, 0)
  <1>1. 0 \in Nat /\ 0 <= Len(a) /\ 0 <= Len(b) /\ \A k \in 1..0 : a[k] = b[k]
    BY SMTT(20)
  <1> QED BY <1>1, AgreeIs

\* Where two servers committed entries of the leaders of terms u and v.
LEMMA SettledLogsAgree ==
    ASSUME TypeOK, Safe, NEW x \in Seq(Entry), NEW y \in Seq(Entry), NEW c \in Nat,
           NEW k \in Nat, NEW u \in DOMAIN leader_log, NEW v \in DOMAIN leader_log, u <= v, c <= k,
           Chosen(k, u, leader_log, acked), Agree(x, leader_log[u], c), Agree(y, leader_log[v], c)
    PROVE  Agree(x, y, c) /\ Agree(y, x, c)
  <1>1. /\ IsHistory(leader_log)
        /\ leader_log[u] \in Seq(Entry) /\ leader_log[v] \in Seq(Entry)
    BY Types
  <1>2. Agree(leader_log[v], leader_log[u], k)
    BY <1>1, HaveQuorums, ChosenIsHeld DEF Safe
  <1>3. Agree(leader_log[v], leader_log[u], c)
    BY <1>1, <1>2, AgreeLess
  <1>4. Agree(y, leader_log[u], c)
    BY <1>3, AgreeTrans
  <1>5. Agree(leader_log[u], x, c)
    BY AgreeSym
  <1>6. Agree(y, x, c)
    BY <1>4, <1>5, AgreeTrans
  <1> QED BY <1>6, AgreeSym

\* Two servers agree on what both committed.
LEMMA CommittedIsCommon ==
    ASSUME TypeOK, Safe, NEW i \in Server, NEW j \in Server
    PROVE  Agree(log[i], log[j], Smaller(commit_idx[i], commit_idx[j]))
  <1>1. /\ log[i] \in Seq(Entry) /\ log[j] \in Seq(Entry)
        /\ commit_idx[i] \in Nat /\ commit_idx[j] \in Nat
        /\ \A u \in DOMAIN leader_log : u \in Nat /\ leader_log[u] \in Seq(Entry)
    BY Types
  <1>2. PICK c \in Nat : c = Smaller(commit_idx[i], commit_idx[j])
    BY <1>1 DEF Smaller
  <1>3. c <= commit_idx[i] /\ c <= commit_idx[j]
    BY SMTT(20), <1>1, <1>2 DEF Smaller
  <1>4. CASE c = 0
    BY <1>1, <1>2, <1>4, AgreeNone
  <1>5. CASE c # 0
    <2>1. commit_idx[i] > 0 /\ commit_idx[j] > 0
      BY SMTT(20), <1>1, <1>3, <1>5
    <2>2. IsSettled(log[i], commit_idx[i], current_term[i]) /\ IsSettled(log[j], commit_idx[j], current_term[j])
      BY <2>1 DEF Safe, CommitsSettled
    <2>3. PICK u \in DOMAIN leader_log, k \in Nat :
             /\ commit_idx[i] <= k /\ Chosen(k, u, leader_log, acked)
             /\ Agree(log[i], leader_log[u], commit_idx[i])
      BY <2>2 DEF IsSettled
    <2>4. PICK v \in DOMAIN leader_log, l \in Nat :
             /\ commit_idx[j] <= l /\ Chosen(l, v, leader_log, acked)
             /\ Agree(log[j], leader_log[v], commit_idx[j])
      BY <2>2 DEF IsSettled
    <2>5. c <= k /\ c <= l /\ (u <= v \/ v <= u)
      BY SMTT(20), <1>1, <1>3, <2>3, <2>4
    <2>6. Agree(log[i], leader_log[u], c) /\ Agree(log[j], leader_log[v], c)
      BY <1>1, <1>3, <2>3, <2>4, AgreeLess
    <2>7. CASE u <= v
      BY <1>1, <1>2, <2>3, <2>5, <2>6, <2>7, SettledLogsAgree
    <2>8. CASE v <= u
      BY <1>1, <1>2, <2>4, <2>5, <2>6, <2>8, SettledLogsAgree
    <2> QED BY <2>5, <2>7, <2>8
  <1> QED BY <1>4, <1>5

\* StateMachineSafety holds in those behaviours: raft_apply_entry hands every
\* replica the same entries, whichever leaders come and go.
THEOREM ReplicasAgree == Spec /\ []CommitsCompared => []StateMachineSafety
  <1>1. TypeOK /\ Safe => StateMachineSafety
    BY CommittedIsCommon DEF StateMachineSafety
  <1> QED BY <1>1, TypeCorrect, LogIsSafe, PTL

\* LeaderCompleteness holds in them: whoever wins the votes of
\* raft_recv_requestvote has all that was committed in earlier terms.
THEOREM LeadersComplete == Spec /\ []CommitsCompared => []LeaderCompleteness
  <1>1. TypeOK /\ Safe => LeaderCompleteness
    <2> SUFFICES ASSUME TypeOK, Safe, NEW i \in Server, NEW k \in Server, state[i] = Leader,
                        current_term[i] >= current_term[k]
                 PROVE  Agree(log[i], log[k], commit_idx[k])
      BY DEF LeaderCompleteness
    <2>1. PICK t \in DOMAIN leader_log : t = current_term[i] /\ log[i] = leader_log[t]
      BY DEF Safe, LeadersRecorded
    <2>2. /\ log[i] \in Seq(Entry) /\ log[k] \in Seq(Entry) /\ commit_idx[k] \in Nat
          /\ current_term[i] \in Nat /\ current_term[k] \in Nat
      BY Types
    <2>3. current_term[k] <= t /\ (commit_idx[k] > 0 \/ commit_idx[k] = 0) /\ commit_idx[k] <= commit_idx[k]
      BY SMTT(20), <2>1, <2>2
    <2>4. CASE commit_idx[k] = 0
      BY <2>2, <2>4, AgreeNone
    <2>5. CASE commit_idx[k] > 0
      <3>1. Agree(log[k], leader_log[t], commit_idx[k])
        BY <2>2, <2>3, <2>5, HaveQuorums, CommittedAgrees
      <3> QED BY <2>1, <3>1, AgreeSym
    <2> QED BY <2>3, <2>4, <2>5
  <1> QED BY <1>1, TypeCorrect, LogIsSafe, PTL

\* LogMatching holds in them: what raft_recv_appendentries keeps, deletes and
\* appends leaves logs that agree up to any entry of one term and index.
THEOREM LogsMatch == Spec /\ []CommitsCompared => []LogMatching
  <1>1. TypeOK /\ Safe => LogMatching
    <2> SUFFICES ASSUME TypeOK, Safe, NEW i \in Server, NEW j \in Server,
                        NEW n \in 1..Smaller(Len(log[i]), Len(log[j])),
                        log[i][n].term = log[j][n].term
                 PROVE  Agree(log[i], log[j], n)
      BY DEF LogMatching
    <2>1. Len(log[i]) \in Nat /\ Len(log[j]) \in Nat
      BY Types
    <2>2. n \in 1..Len(log[i]) /\ n \in 1..Len(log[j])
      BY SMTT(20), <2>1 DEF Smaller
    <2>3. Linked(log[i], leader_log) /\ Linked(log[j], leader_log)
      BY DEF Safe, LogsLinked
    <2> QED BY <2>2, <2>3, LinkedLogsMatch
  <1> QED BY <1>1, TypeCorrect, LogIsSafe, PTL

\* MatchIsReplicated holds in them: the match_idx a response leaves behind is
\* of entries that the follower holds until it leaves the term.
THEOREM MatchesAreReplicated == Spec /\ []CommitsCompared => []MatchIsReplicated
  <1>1. TypeOK /\ Safe => MatchIsReplicated
    <2> SUFFICES ASSUME TypeOK, Safe, NEW i \in Server, NEW k \in Server, state[i] = Leader,
                        k # i, current_term[k] = current_term[i]
                 PROVE  Agree(log[i], log[k], match_idx[i][k])
      BY DEF MatchIsReplicated
    <2>1. PICK t \in DOMAIN leader_log : t = current_term[i] /\ log[i] = leader_log[t]
      BY DEF Safe, LeadersRecorded
    <2>2. log[i] \in Seq(Entry) /\ log[k] \in Seq(Entry) /\ t \in Nat
      BY Types
    <2>3. PICK n \in Nat : n = match_idx[i][k]
      <3>1. match_idx \in [Server -> [Server -> Nat]]
        BY DEF TypeOK, ServerTypes
      <3> QED BY <3>1
    <2>4. n > 0 \/ n = 0
      BY SMTT(20)
    <2>5. CASE n = 0
      BY <2>2, <2>3, <2>5, AgreeNone
    <2>6. CASE n > 0
      <3>1. <<k, t, n>> \in acked
        BY <2>1, <2>3, <2>6 DEF Safe, PeersKnown, Peers
      <3>2. Agree(log[k], leader_log[t], n)
        BY <2>1, <2>2, <3>1 DEF Safe, AckersHold
      <3> QED BY <2>1, <2>2, <2>3, <3>2, AgreeSym
    <2> QED BY <2>4, <2>5, <2>6
  <1> QED BY <1>1, TypeCorrect, LogIsSafe, PTL

\* The leader of an AppendEntries that is not stale has what its receiver
\* committed.
LEMMA CommittedIsShown ==
    ASSUME TypeOK, Safe, NEW i \in Server, NEW m, m.term \in DOMAIN leader_log, m.term \in Nat,
           ~StaleTerm(i, m), NEW n \in Nat, n > 0, n <= commit_idx[i]
    PROVE  /\ n \in 1..Len(log[i]) /\ n \in 1..Len(leader_log[m.term])
           /\ log[i][n] = leader_log[m.term][n]
  <1>1. log[i] \in Seq(Entry) /\ leader_log[m.term] \in Seq(Entry) /\ current_term[i] \in Nat
    BY Types
  <1>2. current_term[i] <= m.term
    BY SMTT(20), <1>1 DEF StaleTerm
  <1>3. Agree(log[i], leader_log[m.term], n)
    BY <1>2, HaveQuorums, CommittedAgrees
  <1>4. n \in 1..n
    BY SMTT(20)
  <1> QED BY <1>1, <1>3, <1>4, AgreeAt

\* SkippedEntriesAgree holds in them: below log_base raft_recv_appendentries
\* looks at no previous entry, and would find the leader's if it did.
THEOREM SkippedEntriesDoAgree == Spec /\ []CommitsCompared => []SkippedEntriesAgree
  <1>1. TypeOK /\ Safe => SkippedEntriesAgree
    <2> SUFFICES ASSUME TypeOK, Safe, NEW i \in Server, NEW j \in Server, Pending(i, j, "AE"),
                        NEW m, m = Head(chan[j][i]), ~StaleTerm(i, m),
                        m.prev_log_idx \in 1..commit_idx[i]
                 PROVE  TermAt(log[i], m.prev_log_idx) = m.prev_log_term
      BY DEF SkippedEntriesAgree
    <2>1. j \in Peers(i) /\ Arrived(i, j, "AE")
      BY DEF Pending, Peers
    <2>2. /\ m.term \in Nat /\ m.prev_log_idx \in Nat /\ Describes(m, leader_log, acked)
          /\ commit_idx[i] \in Nat
      BY <2>1, ArrivedEntries, Types
    <2>3. m.term \in DOMAIN leader_log /\ TermAt(leader_log[m.term], m.prev_log_idx) = m.prev_log_term
      BY <2>2 DEF Describes
    <2>4. m.prev_log_idx > 0 /\ m.prev_log_idx <= commit_idx[i]
      BY SMTT(20), <2>2
    <2> QED BY <2>2, <2>3, <2>4, CommittedIsShown DEF TermAt
  <1> QED BY <1>1, TypeCorrect, LogIsSafe, PTL

\* The empty batch is no batch of one.
LEMMA EmptyIsShort == Len(<<>>) # 1
  BY SMT

\* A commit index past an index, and a term other than one it is not older than.
LEMMA NotBefore ==
    /\ \A c, p \in Nat : ~(c < p + 1) => c > 0 /\ c > p /\ c <= c
    /\ \A t, u \in Nat : ~(t < u) /\ t # u => u < t
  BY SMT

\* An empty AppendEntries ends no earlier than what its receiver committed.
LEMMA EmptyShowsCommitted ==
    ASSUME TypeOK, Safe, NEW i \in Server, NEW j \in Peers(i), Arrived(i, j, "AE"),
           NEW m, m = Head(chan[j][i]), ~StaleTerm(i, m), m.entries = <<>>
    PROVE  commit_idx[i] < m.prev_log_idx + 1
  <1>1. /\ m.type = "AE" /\ m.term \in Nat /\ m.prev_log_idx \in Nat /\ Has(chan[j][i], m)
        /\ Describes(m, leader_log, acked)
    BY ArrivedEntries
  <1>2. /\ m.term \in DOMAIN leader_log
        /\ \A k \in 1..Len(leader_log[m.term]) : k > m.prev_log_idx => leader_log[m.term][k].term = m.term
    <2>1. ASSUME Len(m.entries) = 1 PROVE FALSE
      BY <2>1, EmptyIsShort
    <2> QED BY <1>1, <2>1, ZenonT(60) DEF Describes
  <1>3. /\ commit_idx[i] \in Nat /\ current_term[i] \in Nat /\ log[i] \in Seq(Entry)
        /\ leader_log[m.term] \in Seq(Entry)
    BY <1>2, Types
  <1>4. CASE m.term = current_term[i]
    <2>1. j \in Server
      BY DEF Peers
    <2>2. commit_idx[i] <= m.prev_log_idx
      BY <1>1, <1>4, <2>1 DEF Safe, EmptiesLast
    <2> QED BY SMTT(20), <1>1, <1>3, <2>2
  <1>5. CASE m.term # current_term[i]
    <2> SUFFICES ASSUME ~(commit_idx[i] < m.prev_log_idx + 1) PROVE FALSE
      OBVIOUS
    <2>1. /\ commit_idx[i] > 0 /\ commit_idx[i] > m.prev_log_idx /\ commit_idx[i] <= commit_idx[i]
          /\ current_term[i] < m.term
      BY <1>1, <1>3, <1>5, NotBefore DEF StaleTerm
    <2>2. /\ commit_idx[i] \in 1..Len(log[i]) /\ commit_idx[i] \in 1..Len(leader_log[m.term])
          /\ log[i][commit_idx[i]] = leader_log[m.term][commit_idx[i]]
      BY <1>1, <1>2, <1>3, <2>1, CommittedIsShown
    <2>3. log[i][commit_idx[i]].term = m.term
      BY <1>2, <2>1, <2>2
    <2>4. log[i][commit_idx[i]].term <= current_term[i]
      BY <2>2 DEF Safe, LogsLinked
    <2> QED BY SMTT(20), <1>1, <1>3, <2>1, <2>3, <2>4
  <1> QED BY <1>4, <1>5

\* DeletesOnlyUncommitted holds in them: the assertions in front of the three
\* calls of log_delete in raft_recv_appendentries never fail.
THEOREM DeletesAreUncommitted == Spec /\ []CommitsCompared => []DeletesOnlyUncommitted
  <1>1. TypeOK /\ Safe => DeletesOnlyUncommitted
    <2> SUFFICES ASSUME TypeOK, Safe, NEW i \in Server, NEW j \in Server, Pending(i, j, "AE"),
                        ~StaleTerm(i, Head(chan[j][i]))
                 PROVE  LET m == Head(chan[j][i])
                            p == m.prev_log_idx
                        IN  /\ PrevMismatch(i, m) => commit_idx[i] < p
                            /\ m.entries = <<>> => commit_idx[i] < p + 1
                            /\ m.entries # <<>> /\ log[i][p + 1].term # m.entries[1].term
                                  => commit_idx[i] < p + 1
      BY DEF DeletesOnlyUncommitted
    <2> DEFINE m == Head(chan[j][i])
               p == m.prev_log_idx
    <2>1. j \in Peers(i) /\ Arrived(i, j, "AE")
      BY DEF Pending, Peers
    <2>2. m.term \in Nat /\ p \in Nat /\ Describes(m, leader_log, acked) /\ commit_idx[i] \in Nat
      BY <2>1, ArrivedEntries, Types
    <2>3. m.term \in DOMAIN leader_log /\ TermAt(leader_log[m.term], p) = m.prev_log_term
      BY <2>2 DEF Describes
    <2>4. ASSUME PrevMismatch(i, m) PROVE commit_idx[i] < p
      <3>1. 0 < p /\ TermAt(log[i], p) # m.prev_log_term
        BY <2>4 DEF PrevMismatch
      <3>2. ~(p <= commit_idx[i])
        <4>1. p > 0
          BY ZenonT(30), <2>2, <3>1
        <4> QED BY <2>2, <2>3, <3>1, <4>1, CommittedIsShown DEF TermAt
      <3> QED BY SMTT(20), <2>2, <3>2
    <2>5. m.entries = <<>> => commit_idx[i] < p + 1
      BY <2>1, EmptyShowsCommitted
    <2>6. ASSUME m.entries # <<>>, log[i][p + 1].term # m.entries[1].term
          PROVE  commit_idx[i] < p + 1
      <3>1. m.entries[1] = leader_log[m.term][p + 1]
        BY <2>2, <2>6 DEF Describes
      <3>2. PICK n \in Nat : n = p + 1 /\ n > 0
        BY SMTT(20), <2>2
      <3>3. ~(n <= commit_idx[i])
        BY <2>2, <2>3, <2>6, <3>1, <3>2, CommittedIsShown
      <3> QED BY SMTT(20), <2>2, <3>2, <3>3
    <2> QED BY <2>4, <2>5, <2>6
  <1> QED BY <1>1, TypeCorrect, LogIsSafe, PTL

\* CommittedIsStable holds in them: no call of log_delete reaches an entry
\* that was committed, and commit_idx moves up only.
THEOREM CommitsAreFinal == Spec /\ []CommitsCompared => CommittedIsStable
  <1> DEFINE Stable == \A i \in Server : /\ commit_idx[i] <= commit_idx'[i]
                                         /\ Agree(log'[i], log[i], commit_idx[i])
  <1>1. /\ TypeOK /\ TypeOK' /\ VotesHold /\ ElectionSafety'
        /\ Safe /\ CommitsCompared /\ [Next]_vars
        => [Stable]_vars
    <2> SUFFICES ASSUME TypeOK, TypeOK', VotesHold, ElectionSafety', Safe,
                        CommitsCompared, [Next]_vars, NEW i \in Server
                 PROVE  commit_idx[i] <= commit_idx'[i] /\ Agree(log'[i], log[i], commit_idx[i])
      BY DEF Stable
    <2>1. VoteStep
      BY EveryVoteStep DEF TypeOK
    <2>2. Progress
      BY <2>1, HaveQuorums, HaveCounting, EveryProgress
    <2>3. commit_idx[i] \in Nat /\ commit_idx'[i] \in Nat
      BY DEF TypeOK, ServerTypes
    <2>4. commit_idx'[i] = commit_idx[i] \/ commit_idx[i] < commit_idx'[i]
      BY <2>2 DEF Progress, CommitStep
    <2>5. commit_idx[i] <= commit_idx'[i]
      BY SMTT(20), <2>3, <2>4
    <2>6. Agree(log'[i], log[i], commit_idx[i])
      BY <2>1, <2>2, HaveQuorums, CommittedStays DEF Progress, Safe
    <2> QED BY <2>5, <2>6
  <1> HIDE DEF Stable
  <1>2. Spec /\ []CommitsCompared => [][Stable]_vars
    BY <1>1, TypeCorrect, VotesAreFinal, OneLeaderPerTerm, LogIsSafe, PTL DEF Spec
  <1> QED BY <1>2 DEF Stable, CommittedIsStable

-----------------------------------------------------------------------------
(* The kicker.                                                             *)

\* What a batch of the leader does to its log and to the history.
LEMMA BatchKicks ==
    ASSUME TypeOK, NEW i \in Server, state[i] = Leader,
           NEW cmds \in Seq(Command \cup {Kicker}), Len(cmds) > 0, raft_recv_entry_batch(i, cmds),
           cmds[1] = Kicker \/ snapshot[i] = current_term[i],
           snapshot' = [snapshot EXCEPT ![i] = current_term[i]]
    PROVE  \E new \in Seq(Entry) : Batch(i, new)
  <1>1. PICK t \in Nat : t = current_term[i]
    BY Types
  <1> DEFINE new == [n \in 1..Len(cmds) |-> [term |-> t, cmd |-> cmds[n]]]
  <1>2. /\ current_term' = current_term /\ state' = state
        /\ Leads(i, t, log'[i]) /\ log' = [log EXCEPT ![i] = log[i] \o new]
    BY <1>1 DEF raft_recv_entry_batch
  <1>3. Len(cmds) \in Nat /\ log[i] \in Seq(Entry) /\ log \in [Server -> Seq(Entry)]
    BY SeqLength DEF TypeOK, ServerTypes
  <1>4. ASSUME NEW n \in 1..Len(cmds) PROVE new[n] \in Entry /\ new[n].term = t /\ new[n].cmd = cmds[n]
    <2>1. cmds[n] \in Command \cup {Kicker}
      BY SeqElement
    <2>2. [term |-> t, cmd |-> cmds[n]] \in Entry
      BY <2>1 DEF Entry
    <2> QED BY <2>2
  <1>5. new \in [1..Len(cmds) -> Entry] /\ \A n \in 1..Len(cmds) : new[n].term = t /\ new[n].cmd = cmds[n]
    BY <1>4
  <1> HIDE DEF new
  <1>6. new \in Seq(Entry) /\ Len(new) = Len(cmds) /\ 1 \in 1..Len(cmds)
    <2>1. new \in [1..Len(cmds) -> Entry]
      BY <1>5
    <2>2. new \in Seq(Entry) /\ Len(new) = Len(cmds)
      BY SMTT(20), <1>3, <2>1
    <2>3. 1 \in 1..Len(cmds)
      BY SMTT(20), <1>3
    <2> QED BY <2>2, <2>3
  <1>7. log'[i] \in Seq(Entry)
    BY <1>2, <1>3, <1>6, AppendedProperties
  <1>8. \A u \in DOMAIN leader_log : u # t => leader_log'[u] = leader_log[u]
    BY <1>2, <1>7, LeadsRecords
  <1>9. Len(new) > 0 /\ \A k \in 1..Len(new) : new[k].term = t
    BY <1>5, <1>6
  <1>10. new[1].cmd = Kicker \/ snapshot[i] = t
    BY <1>1, <1>5, <1>6
  <1>11. Batch(i, new)
    BY <1>1, <1>2, <1>8, <1>9, <1>10 DEF Batch
  <1> QED BY <1>6, <1>11

\* Every step is one that the argument on kickers covers.
LEMMA EveryKickStep ==
    ASSUME TypeOK, StateStep, [Next]_vars
    PROVE  KickStep
  <1>1. CASE UNCHANGED vars
    BY <1>1 DEF vars, historyVars, KickStep
  <1>2. ASSUME NEW i \in Server, PeriodicElection(i) \/ PeriodicIdle(i) PROVE KickStep
    BY <1>2 DEF PeriodicElection, PeriodicIdle, historyVars, KickStep
  <1>3. ASSUME NEW i \in Server, NEW X \in SUBSET Peers(i), PeriodicLeader(i, X) PROVE KickStep
    BY <1>3 DEF PeriodicLeader, historyVars, KickStep
  <1>4. ASSUME NEW i \in Server, PublishSnapshot(i) PROVE KickStep
    <2>1. <<Kicker>> \in Seq(Command \cup {Kicker}) /\ Len(<<Kicker>>) > 0 /\ <<Kicker>>[1] = Kicker
      BY SMTT(20)
    <2>2. /\ state[i] = Leader /\ raft_recv_entry_batch(i, <<Kicker>>)
          /\ snapshot' = [snapshot EXCEPT ![i] = current_term[i]]
      BY <1>4 DEF PublishSnapshot
    <2> QED BY <2>1, <2>2, BatchKicks DEF KickStep
  <1>5. ASSUME NEW i \in Server, Accept(i) PROVE KickStep
    <2>1. PICK n \in 1..MaxBatch : \E cmds \in [1..n -> Command] : raft_recv_entry_batch(i, cmds)
      BY <1>5 DEF Accept
    <2>2. PICK cmds \in [1..n -> Command] : raft_recv_entry_batch(i, cmds)
      BY <2>1
    <2>3. n \in Nat /\ n > 0
      BY SMTT(20), BoundAssumption
    <2>4. cmds \in Seq(Command \cup {Kicker}) /\ Len(cmds) > 0
      BY SMTT(20), <2>3
    <2>5. snapshot \in [Server -> Nat] /\ state[i] = Leader /\ snapshot[i] = current_term[i]
          /\ snapshot' = snapshot
      BY <1>5 DEF Accept, TypeOK, ServerTypes
    <2>6. snapshot' = [snapshot EXCEPT ![i] = current_term[i]]
      BY <2>5
    <2> QED BY <2>2, <2>4, <2>5, <2>6, BatchKicks DEF KickStep
  <1>6. ASSUME NEW i \in Server, NEW j \in Peers(i), raft_recv_requestvote(i, j) PROVE KickStep
    BY <1>6 DEF raft_recv_requestvote, historyVars, KickStep
  <1>7. ASSUME NEW i \in Server, NEW j \in Peers(i), raft_recv_requestvote_response(i, j) PROVE KickStep
    <2>1. UNCHANGED snapshot
      BY <1>7 DEF raft_recv_requestvote_response
    <2>2. UNCHANGED leader_log \/ (state[i] = Candidate /\ CountVote(i, j))
      BY <1>7 DEF raft_recv_requestvote_response, historyVars
    <2>3. UNCHANGED leader_log \/ (state[i] = Candidate /\ raft_become_leader(i, Taken(i, j)))
      BY <2>2 DEF CountVote, historyVars
    <2>4. ASSUME state[i] = Candidate, raft_become_leader(i, Taken(i, j))
          PROVE  \A t \in DOMAIN leader_log : leader_log'[t] = leader_log[t]
      <3>1. current_term[i] \in Nat /\ log[i] \in Seq(Entry) /\ state \in [Server -> {Follower, Candidate, Leader}]
        BY Types DEF TypeOK, ServerTypes
      <3>2. state'[i] = Leader /\ Leads(i, current_term[i], log[i])
        BY <2>4, <3>1 DEF raft_become_leader
      <3>3. current_term[i] \notin DOMAIN leader_log
        BY <2>4, <3>2 DEF StateStep, Candidate, Leader
      <3>4. \A u \in DOMAIN leader_log : u # current_term[i] => leader_log'[u] = leader_log[u]
        BY <3>1, <3>2, LeadsRecords
      <3> QED BY <3>3, <3>4
    <2> QED BY <2>1, <2>3, <2>4 DEF KickStep
  <1>8. ASSUME NEW i \in Server, NEW j \in Peers(i), raft_recv_appendentries(i, j) PROVE KickStep
    BY <1>8 DEF raft_recv_appendentries, KickStep
  <1>9. ASSUME NEW i \in Server, NEW j \in Peers(i), raft_recv_appendentries_response(i, j) PROVE KickStep
    BY <1>9 DEF raft_recv_appendentries_response, historyVars, KickStep
  <1>10. ASSUME NEW i \in Server, NEW j \in Peers(i), Lose(i, j) PROVE KickStep
    BY <1>10 DEF Lose, historyVars, KickStep
  <1> QED BY <1>1, <1>2, <1>3, <1>4, <1>5, <1>6, <1>7, <1>8, <1>9, <1>10 DEF Next

\* KickerFirst holds in them: a leader logs the kicker of its term before any
\* request (publish_snapshot comes before accept), and followers take over
\* what leaders logged.
THEOREM KickersComeFirst == Spec /\ []CommitsCompared => []KickerFirst
  <1>1. Init => Kicked
    <2> SUFFICES ASSUME Init PROVE Kicked
      OBVIOUS
    <2>1. DOMAIN leader_log = {}
      BY DEF Init
    <2>2. 0 <= 0
      BY SMTT(20)
    <2>3. \A s \in Server : snapshot[s] = 0 /\ current_term[s] = 0 /\ state[s] = Follower
      BY DEF Init
    <2> QED BY <2>1, <2>2, <2>3 DEF Kicked, Follower, Candidate, Leader
  <1>2. /\ TypeOK /\ TypeOK' /\ VotesHold /\ ElectionSafety'
        /\ Safe /\ CommitsCompared /\ Kicked /\ [Next]_vars
        => Kicked'
    <2> SUFFICES ASSUME TypeOK, TypeOK', VotesHold, ElectionSafety', Safe, CommitsCompared, Kicked,
                        [Next]_vars
                 PROVE  Kicked'
      OBVIOUS
    <2>1. VoteStep
      BY EveryVoteStep DEF TypeOK
    <2>2. Progress
      BY <2>1, HaveQuorums, HaveCounting, EveryProgress
    <2>3. KickStep
      BY <2>2, EveryKickStep DEF Progress
    <2> QED BY <2>1, <2>2, <2>3, KickedStep
  <1>3. TypeOK /\ Safe /\ Kicked => KickerFirst
    BY LogsKicked DEF KickersIn, KickerFirst
  <1> QED BY <1>1, <1>2, <1>3, TypeCorrect, VotesAreFinal, OneLeaderPerTerm, LogIsSafe, PTL DEF Spec

-----------------------------------------------------------------------------
(* The other assertions.                                                   *)

\* Where match_idx stays and no server starts to lead.
LEMMA QuietMatch ==
    ASSUME UNCHANGED match_idx, \A s \in Server : state'[s] = Leader => state[s] = Leader
    PROVE  MatchStep
  BY DEF MatchStep

\* Every step is one that the argument on match_idx covers.
LEMMA EveryMatchStep ==
    ASSUME TypeOK, [Next]_vars
    PROVE  MatchStep
  <1>0. /\ state \in [Server -> {Follower, Candidate, Leader}]
        /\ match_idx \in [Server -> [Server -> Nat]]
        /\ Follower # Leader /\ Candidate # Leader
    BY DEF TypeOK, ServerTypes, Follower, Candidate, Leader
  <1>1. CASE UNCHANGED vars
    BY <1>1, QuietMatch DEF vars, electionVars, peerVars
  <1>2. ASSUME NEW i \in Server, PeriodicElection(i) \/ PeriodicIdle(i) PROVE MatchStep
    <2>1. UNCHANGED match_idx /\ (UNCHANGED state \/ state' = [state EXCEPT ![i] = Candidate])
      BY <1>2 DEF PeriodicElection, PeriodicIdle, electionVars, peerVars
    <2>2. \A s \in Server : state'[s] = Leader => state[s] = Leader
      BY <1>0, <2>1
    <2> QED BY <2>1, <2>2, QuietMatch
  <1>3. ASSUME NEW i \in Server, NEW X \in SUBSET Peers(i), PeriodicLeader(i, X) PROVE MatchStep
    BY <1>3, QuietMatch DEF PeriodicLeader, electionVars
  <1>4. ASSUME NEW i \in Server, PublishSnapshot(i) \/ Accept(i) PROVE MatchStep
    BY <1>4, QuietMatch DEF PublishSnapshot, Accept, raft_recv_entry_batch
  <1>5. ASSUME NEW i \in Server, NEW j \in Peers(i), raft_recv_requestvote(i, j) PROVE MatchStep
    <2>1. UNCHANGED match_idx /\ \E newer : state' = [state EXCEPT ![i] = IF newer THEN Follower ELSE @]
      BY <1>5 DEF raft_recv_requestvote, peerVars
    <2>2. \A s \in Server : state'[s] = Leader => state[s] = Leader
      BY <1>0, <2>1
    <2> QED BY <2>1, <2>2, QuietMatch
  <1>6. ASSUME NEW i \in Server, NEW j \in Peers(i), raft_recv_requestvote_response(i, j) PROVE MatchStep
    <2>1. \/ CountVote(i, j)
          \/ UNCHANGED match_idx /\ (UNCHANGED state \/ state' = [state EXCEPT ![i] = Follower])
      BY <1>6 DEF raft_recv_requestvote_response, StepDown, electionVars, peerVars
    <2>2. \/ raft_become_leader(i, Taken(i, j))
          \/ UNCHANGED match_idx /\ (UNCHANGED state \/ state' = [state EXCEPT ![i] = Follower])
      BY <2>1 DEF CountVote, peerVars
    <2>3. CASE raft_become_leader(i, Taken(i, j))
      <3>1. /\ \A s \in Server : s # i => state'[s] = state[s]
            /\ \A s \in Server : s # i => match_idx'[s] = match_idx[s]
            /\ \A k \in Server : k # i => match_idx'[i][k] = 0
        BY <1>0, <2>3 DEF raft_become_leader
      <3> QED BY <3>1 DEF MatchStep
    <2>4. CASE UNCHANGED match_idx /\ (UNCHANGED state \/ state' = [state EXCEPT ![i] = Follower])
      <3>1. \A s \in Server : state'[s] = Leader => state[s] = Leader
        BY <1>0, <2>4
      <3> QED BY <2>4, <3>1, QuietMatch
    <2> QED BY <2>2, <2>3, <2>4
  <1>7. ASSUME NEW i \in Server, NEW j \in Peers(i), raft_recv_appendentries(i, j) PROVE MatchStep
    <2>1. UNCHANGED match_idx /\ (UNCHANGED state \/ FollowLeader(i, Head(chan[j][i])))
      BY <1>7 DEF raft_recv_appendentries, peerVars
    <2>2. UNCHANGED state \/ \E newer : state' = [state EXCEPT ![i] = IF newer THEN Follower ELSE @]
      BY <2>1 DEF FollowLeader
    <2>3. \A s \in Server : state'[s] = Leader => state[s] = Leader
      BY <1>0, <2>2
    <2> QED BY <2>1, <2>3, QuietMatch
  <1>8. ASSUME NEW i \in Server, NEW j \in Peers(i), raft_recv_appendentries_response(i, j) PROVE MatchStep
    <2>1. PICK m : m = Head(chan[j][i])
      OBVIOUS
    <2>2. \/ /\ state[i] = Leader /\ m.term = current_term[i] /\ m.success /\ RecvAck(i, j, m)
          \/ UNCHANGED match_idx /\ (UNCHANGED state \/ state' = [state EXCEPT ![i] = Follower])
      BY <1>8, <2>1 DEF raft_recv_appendentries_response, RecvNack, StepDown, electionVars, peerVars
    <2>3. CASE /\ state[i] = Leader /\ m.term = current_term[i] /\ m.success /\ RecvAck(i, j, m)
      <3>1. /\ UNCHANGED state
            /\ match_idx' = [match_idx EXCEPT ![i] = [match_idx[i] EXCEPT ![j] = m.current_idx]]
        BY <2>3 DEF RecvAck, electionVars
      <3>2. /\ \A s \in Server : s # i => match_idx'[s] = match_idx[s]
            /\ \A k \in Server : k # j => match_idx'[i][k] = match_idx[i][k]
        BY <1>0, <3>1
      <3>3. Arrived(i, j, "AER") /\ IsAck(Head(chan[j][i])) /\ Head(chan[j][i]).term = current_term[i]
        BY <1>8, <2>1, <2>3 DEF raft_recv_appendentries_response, Arrived, IsAck
      <3> QED BY <2>3, <3>1, <3>2, <3>3 DEF MatchStep
    <2>4. CASE UNCHANGED match_idx /\ (UNCHANGED state \/ state' = [state EXCEPT ![i] = Follower])
      <3>1. \A s \in Server : state'[s] = Leader => state[s] = Leader
        BY <1>0, <2>4
      <3> QED BY <2>4, <3>1, QuietMatch
    <2> QED BY <2>2, <2>3, <2>4
  <1>9. ASSUME NEW i \in Server, NEW j \in Peers(i), Lose(i, j) PROVE MatchStep
    BY <1>9, QuietMatch DEF Lose, electionVars, peerVars
  <1> QED BY <1>1, <1>2, <1>3, <1>4, <1>5, <1>6, <1>7, <1>8, <1>9 DEF Next

\* What a response at the head of a queue says of match_idx and of the log.
LEMMA ResponsesFit ==
    ASSUME TypeOK, Safe, Answered, NEW i \in Server, NEW j \in Peers(i), Arrived(i, j, "AER"),
           NEW m, m = Head(chan[j][i]), state[i] = Leader, m.term = current_term[i],
           ~StaleResponse(i, j, m)
    PROVE  IF m.success
           THEN m.current_idx <= current_idx(i)
           ELSE match_idx[i][j] < Larger(1, Smaller(m.current_idx + 1, current_idx(i)))
  <1>1. PICK t \in DOMAIN leader_log : t = current_term[i] /\ log[i] = leader_log[t]
    BY DEF Safe, LeadersRecorded
  <1>2. t \in Nat /\ Len(log[i]) \in Nat /\ current_idx(i) = Len(log[i])
    BY Types DEF current_idx
  <1>3. /\ j \in Server /\ i # j /\ m.type = "AER" /\ m.current_idx \in Nat
        /\ m.success => <<j, t, m.current_idx>> \in acked
        /\ 1 \in 1..Len(chan[j][i]) /\ m = chan[j][i][1]
    <2>1. m.type = "AER" /\ m.current_idx \in Nat /\ (m.success => <<j, m.term, m.current_idx>> \in acked)
      BY ArrivedResponse
    <2>2. j \in Server /\ i # j /\ 1 \in 1..Len(chan[j][i]) /\ m = chan[j][i][1]
      BY ArrivedPacket
    <2> QED BY <1>1, <2>1, <2>2
  <1>4. match_idx[i][j] \in Nat
    <2>1. match_idx \in [Server -> [Server -> Nat]]
      BY DEF TypeOK, ServerTypes
    <2> QED BY <1>3, <2>1
  <1>5. CASE m.success
    BY <1>1, <1>2, <1>3, <1>5 DEF Safe, AckersHold
  <1>6. CASE ~m.success
    <2>1. NacksFirst(i, j) /\ IsNack(chan[j][i][1])
      BY <1>3, <1>6 DEF Answered, IsNack
    <2>2. Short(m, leader_log) \/ match_idx[i][j] = 0
      BY <1>3, <2>1 DEF NacksFirst, ComesFirst
    <2>3. match_idx[i][j] = 0 \/ (~(m.current_idx <= match_idx[i][j]) /\ m.current_idx < Len(log[i]))
      BY <1>1, <2>2 DEF StaleResponse, Short
    <2>4. \A a, c, l \in Nat : a = 0 \/ (~(c <= a) /\ c < l) => a < Larger(1, Smaller(c + 1, l))
      BY SMTT(20) DEF Larger, Smaller
    <2>5. match_idx[i][j] < Larger(1, Smaller(m.current_idx + 1, Len(log[i])))
      BY <1>2, <1>3, <1>4, <2>3, <2>4
    <2> QED BY <1>2, <1>6, <2>5
  <1> QED BY <1>5, <1>6

\* OtherAssertions holds in them: no assertion of raft_recv_requestvote,
\* raft_recv_appendentries_response and raft_set_commit_idx fails, however
\* late and out of order responses are.
THEOREM AssertionsHold == Spec /\ []CommitsCompared => []OtherAssertions
  <1>1. Init => Answered
    <2> SUFFICES ASSUME Init, NEW i \in Server, NEW j \in Server
                 PROVE  SentInOrder(i, j) /\ AcksBehind(i, j) /\ NacksFirst(i, j)
      BY DEF Answered
    <2>1. chan[i][j] = <<>> /\ chan[j][i] = <<>>
      BY DEF Init
    <2>2. 1..Len(<<>>) = {}
      BY SMTT(20)
    <2> QED BY <2>1, <2>2 DEF SentInOrder, AcksBehind, NacksFirst, Has
  <1>2. /\ TypeOK /\ TypeOK' /\ VotesHold /\ ElectionSafety'
        /\ Safe /\ CommitsCompared /\ Answered /\ [Next]_vars
        => Answered'
    <2> SUFFICES ASSUME TypeOK, TypeOK', VotesHold, ElectionSafety', Safe, CommitsCompared, Answered,
                        [Next]_vars
                 PROVE  Answered'
      OBVIOUS
    <2>1. VoteStep
      BY EveryVoteStep DEF TypeOK
    <2>2. Progress
      BY <2>1, HaveQuorums, HaveCounting, EveryProgress
    <2>3. MatchStep
      BY EveryMatchStep
    <2> QED BY <2>1, <2>2, <2>3, AnsweredStep DEF Progress
  <1>3. TypeOK /\ VotesHold /\ Safe /\ Answered => OtherAssertions
    <2> SUFFICES ASSUME TypeOK, VotesHold, Safe, Answered, NEW i \in Server, NEW j \in Server
                 PROVE  /\ Pending(i, j, "RV") =>
                              LET m == Head(chan[j][i]) IN
                              m.term = current_term[i] /\ should_grant_vote(i, m.term, voted_for[i], m)
                                  => state[i] = Follower
                        /\ Pending(i, j, "AER") =>
                              LET m == Head(chan[j][i]) IN
                              state[i] = Leader /\ m.term = current_term[i] /\ ~StaleResponse(i, j, m) =>
                                  IF m.success
                                  THEN m.current_idx <= current_idx(i)
                                  ELSE match_idx[i][j] < Larger(1, Smaller(m.current_idx + 1, current_idx(i)))
                        /\ commit_idx[i] <= current_idx(i)
      BY DEF OtherAssertions
    <2>1. ASSUME NEW m, should_grant_vote(i, m.term, voted_for[i], m) PROVE state[i] = Follower
      <3>1. voted_for[i] = Nil /\ Nil # i
        BY <2>1, ServerAssumption DEF should_grant_vote
      <3> QED BY <3>1 DEF VotesHold
    <2>2. Pending(i, j, "AER") => j \in Peers(i) /\ Arrived(i, j, "AER")
      BY DEF Pending, Peers
    <2>3. commit_idx[i] <= current_idx(i)
      <3>1. commit_idx[i] \in Nat /\ Len(log[i]) \in Nat
        BY Types
      <3>2. commit_idx[i] > 0 => commit_idx[i] <= Len(log[i])
        BY DEF Safe, CommitsSettled, IsSettled, Agree
      <3> QED BY SMTT(20), <3>1, <3>2 DEF current_idx
    <2> QED BY <2>1, <2>2, <2>3, ResponsesFit
  <1> QED BY <1>1, <1>2, <1>3, TypeCorrect, VotesAreFinal, OneLeaderPerTerm, LogIsSafe, PTL DEF Spec

=============================================================================
