----------------------------- MODULE RaftProofs -----------------------------
(***************************************************************************)
(* Type correctness and election safety of Raft, for any number of servers *)
(* and any value of the bounds.                                            *)
(***************************************************************************)
EXTENDS RaftInv, TLAPS

\* Most leaves are facts about functions and sets without arithmetic.
USE Zenon

\* The queue q holds a granted vote of term t.
Grants(q, t) ==
    \E n \in 1..Len(q) : q[n].type = "RVR" /\ q[n].term = t /\ q[n].vote_granted

-----------------------------------------------------------------------------
(* Arithmetic, majorities and queues.                                      *)

\* Smaller and Larger return one of their arguments.
LEMMA Bounds ==
    ASSUME NEW a \in Int, NEW b \in Int
    PROVE  /\ Smaller(a, b) \in {a, b} /\ Smaller(a, b) <= a /\ Smaller(a, b) <= b
           /\ Larger(a, b) \in {a, b} /\ Larger(a, b) >= a /\ Larger(a, b) >= b
  BY SMT DEF Smaller, Larger

\* What the provers need of sequences, of any set S.
LEMMA LengthOfSeq ==
    ASSUME NEW S, NEW q \in Seq(S)
    PROVE  Len(q) \in Nat /\ q \in [1..Len(q) -> S] /\ DOMAIN q = 1..Len(q)
  BY SMT

\* What a sequence of a set is made of.
LEMMA ElementsOfSeq ==
    ASSUME NEW S, NEW q \in Seq(S), NEW n \in 1..Len(q)
    PROVE  q[n] \in S
  BY SMT

\* A sequence without its first element.
LEMMA RestOfSeq ==
    ASSUME NEW S, NEW q \in Seq(S), q # <<>>
    PROVE  /\ Head(q) \in S /\ Tail(q) \in Seq(S) /\ Len(Tail(q)) = Len(q) - 1
           /\ \A n \in 1..Len(Tail(q)) : Tail(q)[n] = q[n + 1]
  BY SMT

\* The first elements of a sequence.
LEMMA PrefixOfSeq ==
    ASSUME NEW S, NEW q \in Seq(S), NEW n \in 0..Len(q)
    PROVE  SubSeq(q, 1, n) \in Seq(S)
  BY SMT

\* Two sequences one after the other.
LEMMA ConcatOfSeq ==
    ASSUME NEW S, NEW p \in Seq(S), NEW q \in Seq(S)
    PROVE  /\ p \o q \in Seq(S) /\ Len(p \o q) = Len(p) + Len(q)
           /\ \A n \in 1..(Len(p) + Len(q)) :
                 (p \o q)[n] = IF n <= Len(p) THEN p[n] ELSE q[n - Len(p)]
  BY SMT

\* What is left of a queue once its head is taken.
LEMMA TakeProperties ==
    ASSUME NEW q \in Seq(Message), q # <<>>
    PROVE  /\ Tail(q) \in Seq(Message)
           /\ Head(q) \in Message
           /\ \A t : Grants(Tail(q), t) => Grants(q, t)
           /\ Head(q).type = "RVR" /\ Head(q).vote_granted => Grants(q, Head(q).term)
  <1>1. /\ Head(q) \in Message /\ Tail(q) \in Seq(Message)
        /\ Len(Tail(q)) = Len(q) - 1
        /\ \A n \in 1..Len(Tail(q)) : Tail(q)[n] = q[n + 1]
    BY RestOfSeq
  <1>2. Len(q) \in Nat \ {0} /\ Head(q) = q[1]
    BY SMT
  <1>3. \A t : Grants(Tail(q), t) => Grants(q, t)
    <2> SUFFICES ASSUME NEW t, Grants(Tail(q), t) PROVE Grants(q, t)
      OBVIOUS
    <2>1. PICK n \in 1..Len(Tail(q)) :
              Tail(q)[n].type = "RVR" /\ Tail(q)[n].term = t /\ Tail(q)[n].vote_granted
      BY Zenon DEF Grants
    <2>2. n + 1 \in 1..Len(q) /\ q[n + 1] = Tail(q)[n]
      BY SMT, <1>1, <1>2
    <2> QED BY <2>1, <2>2 DEF Grants
  <1>4. Head(q).type = "RVR" /\ Head(q).vote_granted => Grants(q, Head(q).term)
    BY SMT, <1>2 DEF Grants
  <1> QED BY <1>1, <1>3, <1>4

\* Sending a packet adds that packet at most.
LEMMA SendProperties ==
    ASSUME NEW q \in Seq(Message), NEW m \in Message
    PROVE  /\ Send(q, m) \in Seq(Message)
           /\ \A t : Grants(Send(q, m), t) =>
                 Grants(q, t) \/ (m.type = "RVR" /\ m.term = t /\ m.vote_granted)
  <1>1. CASE Room(q) > 0
    <2>1. Send(q, m) = Append(q, m)
      BY <1>1 DEF Send
    <2>2. /\ Append(q, m) \in Seq(Message) /\ Len(q) \in Nat
          /\ Len(Append(q, m)) = Len(q) + 1
          /\ \A n \in 1..Len(q) : Append(q, m)[n] = q[n]
          /\ Append(q, m)[Len(q) + 1] = m
      BY SMT, LengthOfSeq
    <2>3. ASSUME NEW t, Grants(Append(q, m), t)
          PROVE  Grants(q, t) \/ (m.type = "RVR" /\ m.term = t /\ m.vote_granted)
      <3>1. PICK n \in 1..Len(Append(q, m)) :
                /\ Append(q, m)[n].type = "RVR" /\ Append(q, m)[n].term = t
                /\ Append(q, m)[n].vote_granted
        BY <2>3 DEF Grants
      <3>2. n \in 1..Len(q) \/ n = Len(q) + 1
        BY SMT, <2>2
      <3> QED BY <3>1, <3>2, <2>2 DEF Grants
    <2> QED BY <2>1, <2>2, <2>3
  <1>2. CASE ~(Room(q) > 0)
    BY <1>2 DEF Send
  <1> QED BY <1>1, <1>2

Queues == [Server -> [Server -> Seq(Message)]]

\* Taking the head of one queue leaves every other queue as it was.
LEMMA TakenProperties ==
    ASSUME chan \in Queues, NEW i \in Server, NEW j \in Server, chan[j][i] # <<>>
    PROVE  /\ Taken(i, j) \in Queues
           /\ \A a, b \in Server : \A t : Grants(Taken(i, j)[a][b], t) => Grants(chan[a][b], t)
           /\ Head(chan[j][i]) \in Message
  <1>1. chan[j][i] \in Seq(Message)
    BY DEF Queues
  <1>2. /\ Tail(chan[j][i]) \in Seq(Message) /\ Head(chan[j][i]) \in Message
        /\ \A t : Grants(Tail(chan[j][i]), t) => Grants(chan[j][i], t)
    BY <1>1, TakeProperties
  <1>3. Taken(i, j) = [chan EXCEPT ![j][i] = Tail(chan[j][i])]
    BY DEF Taken
  <1>4. Taken(i, j) \in Queues
    BY SMT, <1>2, <1>3 DEF Queues
  <1>5. ASSUME NEW a \in Server, NEW b \in Server
        PROVE  Taken(i, j)[a][b] = IF a = j /\ b = i THEN Tail(chan[j][i]) ELSE chan[a][b]
    BY SMTT(30), <1>3 DEF Queues
  <1> QED BY <1>2, <1>4, <1>5

\* raft_send_appendentries to one node: a burst of well-formed packets.
LEMMA BurstProperties ==
    ASSUME NEW i \in Server, NEW n \in Nat \ {0}, NEW q \in Seq(Message),
           log'[i] \in Seq(Entry), current_term'[i] \in Nat, commit_idx'[i] \in Nat
    PROVE  /\ Burst(i, n, q) \in Nat
           /\ WithAppendEntries(i, n, q) \in Seq(Message)
           /\ \A t : Grants(WithAppendEntries(i, n, q), t) => Grants(q, t)
  <1> DEFINE len == Len(log'[i])
  <1>1. len \in Nat /\ Len(q) \in Nat
    BY LengthOfSeq
  <1>2. Room(q) \in Nat
    BY SMT, <1>1, BoundAssumption, Bounds DEF Room, Larger
  <1>3. Burst(i, n, q) \in Nat /\ (n <= len => n + Burst(i, n, q) <= len + 1)
    <2>1. CASE n > len
      BY SMT, <2>1, <1>1 DEF Burst
    <2>2. CASE n <= len
      <3>1. Burst(i, n, q) = Smaller(len - n + 1, Smaller(PKT_BURST, Room(q)))
        BY SMT, <2>2, <1>1 DEF Burst
      <3>2. len - n + 1 \in Nat
        BY SMT, <2>2, <1>1
      <3>3. PKT_BURST \in Nat
        BY BoundAssumption
      <3> QED BY SMT, <3>1, <3>2, <3>3, <1>1, <1>2 DEF Smaller
    <2> QED BY SMT, <2>1, <2>2, <1>1
  <1>4. ASSUME NEW k \in Nat \ {0}
        PROVE  AppendEntriesFor(i, k) \in Message /\ AppendEntriesFor(i, k).type = "AE"
    <2>1. k - 1 \in Nat
      BY SMT
    <2>2. TermAt(log'[i], k - 1) \in Nat
      <3>1. CASE k - 1 \in 1..len
        <4>1. log'[i][k - 1] \in Entry
          BY <3>1, ElementsOfSeq
        <4> QED BY <3>1, <4>1 DEF TermAt, Entry
      <3>2. CASE k - 1 \notin 1..len
        BY <3>2 DEF TermAt
      <3> QED BY <3>1, <3>2
    <2>3. (IF k > len THEN <<>> ELSE <<log'[i][k]>>) \in Seq(Entry)
      <3>1. CASE k > len
        BY SMT, <3>1
      <3>2. CASE ~(k > len)
        <4>1. k \in 1..len
          BY SMT, <3>2, <1>1
        <4>2. log'[i][k] \in Entry
          BY <4>1, ElementsOfSeq
        <4> QED BY SMT, <4>2, <3>2
      <3> QED BY <3>1, <3>2
    <2> QED BY <2>1, <2>2, <2>3 DEF AppendEntriesFor, Message
  <1>5. CASE n > len
    <2>1. WithAppendEntries(i, n, q) = Send(q, AppendEntriesFor(i, n))
      BY <1>5 DEF WithAppendEntries
    <2>2. AppendEntriesFor(i, n) \in Message /\ AppendEntriesFor(i, n).type # "RVR"
      BY <1>4
    <2> HIDE DEF len
    <2>3. \A t : Grants(Send(q, AppendEntriesFor(i, n)), t) => Grants(q, t)
      BY <2>2, SendProperties
    <2>4. Send(q, AppendEntriesFor(i, n)) \in Seq(Message)
      BY <2>2, SendProperties
    <2> QED BY <2>1, <2>3, <2>4, <1>3
  <1>6. CASE ~(n > len)
    <2> DEFINE B == Burst(i, n, q)
               out == [k \in 1..B |-> AppendEntriesFor(i, n + k - 1)]
    <2>1. WithAppendEntries(i, n, q) = q \o out
      BY Zenon, <1>6 DEF WithAppendEntries
    <2>2. \A k \in 1..B : out[k] \in Message /\ out[k].type = "AE"
      BY SMT, <1>3, <1>4
    <2>3. out \in Seq(Message) /\ Len(out) = B
      BY SMT, <2>2, <1>3
    <2>4. /\ q \o out \in Seq(Message)
          /\ Len(q \o out) = Len(q) + B
          /\ \A k \in 1..(Len(q) + B) :
                (q \o out)[k] = IF k <= Len(q) THEN q[k] ELSE out[k - Len(q)]
      BY Zenon, <2>3, ConcatOfSeq
    <2>5. ASSUME NEW t, Grants(q \o out, t) PROVE Grants(q, t)
      <3>1. PICK k \in 1..Len(q \o out) :
                (q \o out)[k].type = "RVR" /\ (q \o out)[k].term = t /\ (q \o out)[k].vote_granted
        BY Zenon, <2>5 DEF Grants
      <3>2. k <= Len(q)
        <4> SUFFICES ASSUME k > Len(q) PROVE FALSE
          BY SMT, <1>1, <2>4, <1>3
        <4>1. k - Len(q) \in 1..B /\ (q \o out)[k] = out[k - Len(q)]
          BY SMT, <2>4, <1>1, <1>3
        <4> HIDE DEF out
        <4> QED BY <4>1, <2>2, <3>1
      <3> HIDE DEF out
      <3>3. k \in 1..Len(q) /\ (q \o out)[k] = q[k]
        BY SMT, <3>2, <2>4, <1>1, <1>3
      <3> QED BY <3>1, <3>3 DEF Grants
    <2> QED BY <2>1, <2>4, <2>5, <1>3
  <1> QED BY <1>5, <1>6

\* raft_send_appendentries to the nodes of K.
LEMMA SendAppendEntriesProperties ==
    ASSUME NEW i \in Server, NEW K \in SUBSET Server,
           NEW next \in [Server -> Nat \ {0}], NEW net \in Queues,
           next_idx \in [Server -> [Server -> Nat \ {0}]],
           log'[i] \in Seq(Entry), current_term'[i] \in Nat, commit_idx'[i] \in Nat,
           raft_send_appendentries(i, K, next, net)
    PROVE  /\ next_idx' \in [Server -> [Server -> Nat \ {0}]]
           /\ chan' \in Queues
           /\ \A a, b \in Server : \A t : Grants(chan'[a][b], t) => Grants(net[a][b], t)
  <1>1. ASSUME NEW k \in Server
        PROVE  /\ Burst(i, next[k], net[i][k]) \in Nat
               /\ WithAppendEntries(i, next[k], net[i][k]) \in Seq(Message)
               /\ \A t : Grants(WithAppendEntries(i, next[k], net[i][k]), t)
                            => Grants(net[i][k], t)
    BY SMTT(30), BurstProperties DEF Queues
  <1>2. next_idx' \in [Server -> [Server -> Nat \ {0}]]
    <2> DEFINE row == [k \in Server |-> IF k \in K
                                        THEN next[k] + Burst(i, next[k], net[i][k])
                                        ELSE next[k]]
    <2>1. row \in [Server -> Nat \ {0}]
      <3>1. ASSUME NEW k \in Server PROVE row[k] \in Nat \ {0}
        BY SMTT(30), <1>1
      <3> QED BY <3>1
    <2>2. next_idx' = [next_idx EXCEPT ![i] = row]
      BY DEF raft_send_appendentries
    <2> HIDE DEF row
    <2> QED BY <2>1, <2>2
  <1> DEFINE row == [k \in Server |-> IF k \in K
                                      THEN WithAppendEntries(i, next[k], net[i][k])
                                      ELSE net[i][k]]
  <1>3. row \in [Server -> Seq(Message)]
    <2>1. ASSUME NEW k \in Server PROVE row[k] \in Seq(Message)
      BY <1>1 DEF Queues
    <2> QED BY <2>1
  <1>4. \A k \in Server : \A t : Grants(row[k], t) => Grants(net[i][k], t)
    BY Zenon, <1>1
  <1>5. chan' = [net EXCEPT ![i] = row]
    BY DEF raft_send_appendentries
  <1> HIDE DEF row
  <1>6. chan' \in Queues
    BY <1>3, <1>5 DEF Queues
  <1>7. ASSUME NEW a \in Server, NEW b \in Server
        PROVE  chan'[a][b] = IF a = i THEN row[b] ELSE net[a][b]
    BY <1>5 DEF Queues
  <1> QED BY Zenon, <1>2, <1>4, <1>6, <1>7

\* No vote is granted by a step.
NoNewGrant ==
    \A a, b \in Server : \A t : Grants(chan'[a][b], t) => Grants(chan[a][b], t)

\* Taking a packet and queueing the response to an AppendEntries.
LEMMA AnswerProperties ==
    ASSUME chan \in Queues, NEW i \in Server, NEW j \in Peers(i), chan[j][i] # <<>>,
           NEW term \in Nat, NEW success \in BOOLEAN, NEW idx \in Nat,
           Answer(i, j, term, success, idx)
    PROVE  chan' \in Queues /\ NoNewGrant
  <1> DEFINE m == [type |-> "AER", term |-> term, success |-> success, current_idx |-> idx]
             net == Taken(i, j)
  <1>1. m \in Message /\ m.type # "RVR"
    BY DEF Message
  <1>2. j \in Server
    BY DEF Peers
  <1>3. net \in Queues /\ \A a, b \in Server : \A t : Grants(net[a][b], t) => Grants(chan[a][b], t)
    BY Zenon, <1>2, TakenProperties
  <1>4. chan' = [net EXCEPT ![i][j] = Send(net[i][j], m)]
    BY DEF Answer
  <1> HIDE DEF m, net
  <1>5. net[i][j] \in Seq(Message)
    BY <1>2, <1>3 DEF Queues
  <1>6. /\ Send(net[i][j], m) \in Seq(Message)
        /\ \A t : Grants(Send(net[i][j], m), t) => Grants(net[i][j], t)
    BY <1>1, <1>5, SendProperties
  <1>7. chan' \in Queues
    BY <1>2, <1>3, <1>4, <1>6 DEF Queues
  <1>8. ASSUME NEW a \in Server, NEW b \in Server
        PROVE  chan'[a][b] = IF a = i /\ b = j THEN Send(net[i][j], m) ELSE net[a][b]
    BY Zenon, <1>2, <1>3, <1>4 DEF Queues
  <1> QED BY ZenonT(30), <1>2, <1>3, <1>6, <1>7, <1>8 DEF NoNewGrant

\* The loop on raft_apply_entry leaves an index.
LEMMA ApplyCommittedType ==
    ASSUME ServerTypes, NEW i \in Server, log'[i] \in Seq(Entry), commit_idx'[i] \in Nat,
           ApplyCommitted(i)
    PROVE  last_applied_idx' \in [Server -> Nat] /\ log_base' \in [Server -> Nat]
  <1> DEFINE last == Larger(last_applied_idx[i], Smaller(commit_idx'[i], Len(log'[i])))
  <1>1. Len(log'[i]) \in Nat
    BY LengthOfSeq
  <1>2. last \in Nat
    BY <1>1 DEF Larger, Smaller, ServerTypes
  <1>3. /\ last_applied_idx' = [last_applied_idx EXCEPT ![i] = last]
        /\ \/ \E b \in log_base[i]..last : log_base' = [log_base EXCEPT ![i] = b]
           \/ UNCHANGED log_base
    BY DEF ApplyCommitted
  <1> HIDE DEF last
  <1>4. log_base[i] \in Nat
    BY DEF ServerTypes
  <1>5. CASE \E b \in log_base[i]..last : log_base' = [log_base EXCEPT ![i] = b]
    <2>1. PICK b \in log_base[i]..last : log_base' = [log_base EXCEPT ![i] = b]
      BY Zenon, <1>5
    <2>2. b \in Nat
      BY SMT, <1>2, <1>4
    <2> QED BY <1>2, <1>3, <2>1, <2>2 DEF ServerTypes
  <1> QED BY Zenon, <1>2, <1>3, <1>5 DEF ServerTypes

-----------------------------------------------------------------------------
(* Each action keeps the types, and all but raft_recv_requestvote grant no *)
(* vote.                                                                   *)

\* A new candidate's requests are well formed, and none grants a vote.
LEMMA PeriodicElectionType ==
    ASSUME ServerTypes, NEW i \in Server, PeriodicElection(i)
    PROVE  ServerTypes' /\ NoNewGrant
  <1> DEFINE rv == [type |-> "RV", term |-> current_term[i] + 1,
                    last_log_idx |-> current_idx(i),
                    last_log_term |-> TermAt(log[i], current_idx(i))]
             row == [k \in Server |-> IF k = i THEN chan[i][k] ELSE Send(chan[i][k], rv)]
  <1>1. current_idx(i) \in Nat /\ TermAt(log[i], current_idx(i)) \in Nat
    <2>1. log[i] \in Seq(Entry)
      BY DEF ServerTypes
    <2>2. current_idx(i) \in Nat
      BY <2>1, LengthOfSeq DEF current_idx
    <2>3. CASE current_idx(i) \in 1..Len(log[i])
      <3>1. log[i][current_idx(i)] \in Entry
        BY <2>1, <2>3, ElementsOfSeq
      <3> QED BY <2>2, <2>3, <3>1 DEF TermAt, Entry
    <2>4. CASE current_idx(i) \notin 1..Len(log[i])
      BY <2>2, <2>4 DEF TermAt
    <2> QED BY <2>2, <2>3, <2>4
  <1>2. rv \in Message /\ rv.type # "RVR"
    BY SMTT(30), <1>1 DEF Message, ServerTypes
  <1>3. chan' = [chan EXCEPT ![i] = row]
    BY DEF PeriodicElection
  <1> HIDE DEF rv
  <1>4. ASSUME NEW k \in Server
        PROVE  row[k] \in Seq(Message) /\ \A t : Grants(row[k], t) => Grants(chan[i][k], t)
    <2>1. chan[i][k] \in Seq(Message)
      BY DEF ServerTypes
    <2>2. /\ Send(chan[i][k], rv) \in Seq(Message)
          /\ \A t : Grants(Send(chan[i][k], rv), t) => Grants(chan[i][k], t)
      BY <2>1, <1>2, SendProperties
    <2> QED BY <2>1, <2>2
  <1>5. row \in [Server -> Seq(Message)]
    BY <1>4
  <1>6. last_applied_idx' \in [Server -> Nat] /\ log_base' \in [Server -> Nat]
    BY Zenon, ApplyCommittedType DEF PeriodicElection, ServerTypes
  <1> HIDE DEF row
  <1>7. NoNewGrant
    <2>1. ASSUME NEW a \in Server, NEW b \in Server
          PROVE  chan'[a][b] = IF a = i THEN row[b] ELSE chan[a][b]
      BY <1>3 DEF ServerTypes
    <2> QED BY <2>1, <1>4 DEF NoNewGrant
  <1>8. chan' \in [Server -> [Server -> Seq(Message)]]
    BY Zenon, <1>3, <1>5 DEF ServerTypes
  <1> QED BY SMTT(30), <1>6, <1>7, <1>8 DEF PeriodicElection, ServerTypes, peerVars

\* A vote is answered with the server's term, and granted to the requester.
LEMMA RecvRequestVoteType ==
    ASSUME ServerTypes, NEW i \in Server, NEW j \in Peers(i), raft_recv_requestvote(i, j)
    PROVE  LET m == Head(chan[j][i])
               newer == current_term[i] < m.term
               term == IF newer THEN m.term ELSE current_term[i]
               vf == IF newer THEN Nil ELSE voted_for[i]
               grant == should_grant_vote(i, term, vf, m)
           IN  /\ ServerTypes'
               /\ \A a, b \in Server : \A t : Grants(chan'[a][b], t) =>
                     Grants(chan[a][b], t) \/ (a = i /\ b = j /\ t = term /\ grant)
  <1> DEFINE m == Head(chan[j][i])
             newer == current_term[i] < m.term
             term == IF newer THEN m.term ELSE current_term[i]
             vf == IF newer THEN Nil ELSE voted_for[i]
             grant == should_grant_vote(i, term, vf, m)
             rvr == [type |-> "RVR", term |-> term, vote_granted |-> grant]
             net == Taken(i, j)
  <1>1. j \in Server /\ chan \in Queues /\ chan[j][i] # <<>> /\ m.type = "RV"
    BY Zenon DEF Peers, ServerTypes, Queues, raft_recv_requestvote, Arrived
  <1>2. m \in Message /\ net \in Queues
    BY <1>1, TakenProperties
  <1>3. \A a, b \in Server : \A t : Grants(net[a][b], t) => Grants(chan[a][b], t)
    BY Zenon, <1>1, TakenProperties
  <1>4. term \in Nat /\ vf \in Server \cup {Nil}
    BY Zenon, <1>1, <1>2 DEF Message, ServerTypes
  <1>5. grant \in BOOLEAN
    BY DEF should_grant_vote
  <1>6. /\ current_term' = [current_term EXCEPT ![i] = term]
        /\ state' = [state EXCEPT ![i] = IF newer THEN Follower ELSE @]
        /\ voted_for' = [voted_for EXCEPT ![i] = IF grant THEN j ELSE vf]
        /\ chan' = [net EXCEPT ![i][j] = Send(net[i][j], rvr)]
        /\ UNCHANGED <<voted_for_me, logVars, peerVars, snapshot, lost>>
    BY DEF raft_recv_requestvote
  <1> HIDE DEF term, vf, newer, grant, net
  <1>7. rvr \in Message /\ rvr.term = term /\ rvr.vote_granted = grant
    BY <1>4, <1>5 DEF Message
  <1> HIDE DEF rvr
  <1>8. net[i][j] \in Seq(Message)
    BY <1>1, <1>2 DEF Queues
  <1>9. /\ Send(net[i][j], rvr) \in Seq(Message)
        /\ \A t : Grants(Send(net[i][j], rvr), t) => Grants(net[i][j], t) \/ (t = term /\ grant)
    BY ZenonT(30), <1>7, <1>8, SendProperties
  <1>10. chan' \in Queues
    BY <1>1, <1>2, <1>6, <1>9 DEF Queues
  <1>11. ServerTypes'
    BY Zenon, <1>1, <1>4, <1>6, <1>10 DEF ServerTypes, Queues, logVars, applyVars, peerVars
  <1>12. ASSUME NEW a \in Server, NEW b \in Server
         PROVE  chan'[a][b] = IF a = i /\ b = j THEN Send(net[i][j], rvr) ELSE net[a][b]
    BY Zenon, <1>1, <1>2, <1>6 DEF Queues
  <1>13. \A a, b \in Server : \A t : Grants(chan'[a][b], t) =>
            Grants(chan[a][b], t) \/ (a = i /\ b = j /\ t = term /\ grant)
    BY ZenonT(30), <1>1, <1>3, <1>9, <1>12
  <1> QED BY <1>11, <1>13 DEF term, vf, newer, grant

\* Counting a vote, stepping down to a newer term or ignoring the response.
LEMMA RecvRequestVoteResponseType ==
    ASSUME ServerTypes, NEW i \in Server, NEW j \in Peers(i),
           raft_recv_requestvote_response(i, j)
    PROVE  ServerTypes' /\ NoNewGrant
  <1> DEFINE m == Head(chan[j][i])
             net == Taken(i, j)
  <1>1. j \in Server /\ chan \in Queues /\ chan[j][i] # <<>> /\ m.type = "RVR"
    BY DEF Peers, ServerTypes, Queues, raft_recv_requestvote_response, Arrived
  <1>2. m \in Message /\ net \in Queues
    BY <1>1, TakenProperties
  <1>3. \A a, b \in Server : \A t : Grants(net[a][b], t) => Grants(chan[a][b], t)
    BY <1>1, TakenProperties
  <1>4. m.term \in Nat
    BY <1>1, <1>2 DEF Message
  <1>5. CASE CountVote(i, j)
    <2>1. /\ UNCHANGED <<current_term, voted_for, logVars, snapshot, lost>>
          /\ voted_for_me' = [voted_for_me EXCEPT ![i] = @ \cup {j}]
      BY <1>5 DEF CountVote, raft_recv_requestvote_response
    <2>2. voted_for_me' \in [Server -> SUBSET Server]
      BY Zenon, <1>1, <2>1 DEF ServerTypes
    <2>3. CASE chan' = net /\ UNCHANGED <<state, peerVars>>
      BY Zenon, <1>2, <1>3, <2>1, <2>2, <2>3
      DEF ServerTypes, NoNewGrant, Queues, logVars, applyVars, peerVars
    <2>4. CASE raft_become_leader(i, net)
      <3> DEFINE next == [k \in Server |-> IF k = i THEN next_idx[i][k] ELSE current_idx(i) + 1]
      <3>1. current_idx(i) \in Nat
        <4>1. log[i] \in Seq(Entry)
          BY DEF ServerTypes
        <4> QED BY <4>1, LengthOfSeq DEF current_idx
      <3>2. next \in [Server -> Nat \ {0}]
        <4>1. current_idx(i) + 1 \in Nat \ {0}
          BY SMT, <3>1
        <4>2. next_idx[i] \in [Server -> Nat \ {0}]
          BY DEF ServerTypes
        <4> QED BY <4>1, <4>2
      <3>3. raft_send_appendentries(i, Peers(i), next, net)
        BY <2>4 DEF raft_become_leader
      <3> HIDE DEF next, net
      <3>4. /\ log'[i] \in Seq(Entry) /\ current_term'[i] \in Nat /\ commit_idx'[i] \in Nat
            /\ next_idx \in [Server -> [Server -> Nat \ {0}]] /\ Peers(i) \in SUBSET Server
        BY Zenon, <2>1 DEF ServerTypes, logVars, applyVars, Peers
      <3>5. /\ next_idx' \in [Server -> [Server -> Nat \ {0}]] /\ chan' \in Queues
            /\ \A a, b \in Server : \A t : Grants(chan'[a][b], t) => Grants(net[a][b], t)
        BY Zenon, <1>2, <3>2, <3>3, <3>4, SendAppendEntriesProperties
      <3>6. match_idx' \in [Server -> [Server -> Nat]] /\ state' = [state EXCEPT ![i] = Leader]
        BY <2>4 DEF raft_become_leader, ServerTypes
      <3>7. NoNewGrant
        BY Zenon, <1>3, <3>5 DEF NoNewGrant
      <3> QED BY Zenon, <2>1, <2>2, <3>5, <3>6, <3>7 DEF ServerTypes, Queues, logVars, applyVars
    <2> QED BY <1>5, <2>3, <2>4 DEF CountVote
  <1>6. CASE /\ StepDown(i, m.term) /\ chan' = net
             /\ UNCHANGED <<voted_for_me, logVars, peerVars, snapshot, lost>>
    <2> HIDE DEF net, m
    <2> QED BY Zenon, <1>2, <1>3, <1>4, <1>6
            DEF ServerTypes, NoNewGrant, Queues, StepDown, logVars, applyVars, peerVars
  <1>7. CASE chan' = net /\ UNCHANGED <<electionVars, logVars, peerVars, snapshot, lost>>
    <2> HIDE DEF net
    <2> QED BY Zenon, <1>2, <1>3, <1>7
            DEF ServerTypes, NoNewGrant, Queues, electionVars, logVars, applyVars, peerVars
  <1> QED BY <1>5, <1>6, <1>7 DEF raft_recv_requestvote_response

\* A leader's periodic AppendEntries.
LEMMA PeriodicLeaderType ==
    ASSUME ServerTypes, NEW i \in Server, NEW X \in SUBSET Peers(i), PeriodicLeader(i, X)
    PROVE  ServerTypes' /\ NoNewGrant
  <1> DEFINE K == X \cup {k \in Peers(i) : next_idx[i][k] <= current_idx(i)}
  <1>1. /\ UNCHANGED <<electionVars, log, commit_idx, match_idx, snapshot, lost>>
        /\ raft_send_appendentries(i, K, next_idx[i], chan) /\ ApplyCommitted(i)
    BY DEF PeriodicLeader
  <1>2. /\ log'[i] \in Seq(Entry) /\ current_term'[i] \in Nat /\ commit_idx'[i] \in Nat
        /\ next_idx \in [Server -> [Server -> Nat \ {0}]] /\ next_idx[i] \in [Server -> Nat \ {0}]
        /\ chan \in Queues
    BY <1>1 DEF ServerTypes, electionVars, Queues
  <1>3. K \in SUBSET Server
    BY DEF Peers
  <1> HIDE DEF K
  <1>4. next_idx' \in [Server -> [Server -> Nat \ {0}]] /\ chan' \in Queues /\ NoNewGrant
    BY Zenon, <1>1, <1>2, <1>3, SendAppendEntriesProperties DEF NoNewGrant
  <1>5. last_applied_idx' \in [Server -> Nat] /\ log_base' \in [Server -> Nat]
    BY <1>1, <1>2, ApplyCommittedType
  <1> QED BY <1>1, <1>4, <1>5 DEF ServerTypes, Queues, electionVars

\* The leader's append of entries of its term.
LEMMA RecvEntryBatchType ==
    ASSUME ServerTypes, NEW i \in Server, NEW cmds \in Seq(Command \cup {Kicker}),
           raft_recv_entry_batch(i, cmds), snapshot' \in [Server -> Nat]
    PROVE  ServerTypes' /\ NoNewGrant
  <1> DEFINE new == [n \in 1..Len(cmds) |-> [term |-> current_term[i], cmd |-> cmds[n]]]
  <1>1. new \in Seq(Entry)
    <2>1. Len(cmds) \in Nat
      BY LengthOfSeq
    <2>2. ASSUME NEW n \in 1..Len(cmds) PROVE new[n] \in Entry
      BY ZenonT(30), ElementsOfSeq DEF Entry, ServerTypes
    <2> QED BY SMT, <2>1, <2>2
  <1>2. log' = [log EXCEPT ![i] = log[i] \o new]
    BY DEF raft_recv_entry_batch
  <1> HIDE DEF new
  <1>3. log' \in [Server -> Seq(Entry)]
    BY ZenonT(30), <1>1, <1>2, ConcatOfSeq DEF ServerTypes
  <1>4. /\ UNCHANGED <<current_term, commit_idx, voted_for, state, voted_for_me>>
        /\ UNCHANGED <<applyVars, match_idx, lost>>
        /\ raft_send_appendentries(i, Peers(i), next_idx[i], chan)
    BY DEF raft_recv_entry_batch
  <1>5. /\ log'[i] \in Seq(Entry) /\ current_term'[i] \in Nat /\ commit_idx'[i] \in Nat
        /\ next_idx \in [Server -> [Server -> Nat \ {0}]] /\ next_idx[i] \in [Server -> Nat \ {0}]
        /\ chan \in Queues /\ Peers(i) \in SUBSET Server
    BY <1>3, <1>4 DEF ServerTypes, Queues, Peers
  <1>6. next_idx' \in [Server -> [Server -> Nat \ {0}]] /\ chan' \in Queues /\ NoNewGrant
    BY Zenon, <1>4, <1>5, SendAppendEntriesProperties DEF NoNewGrant
  <1> QED BY <1>3, <1>4, <1>6 DEF ServerTypes, Queues, applyVars

\* Logging the kicker of a new term.
LEMMA PublishSnapshotType ==
    ASSUME ServerTypes, NEW i \in Server, PublishSnapshot(i)
    PROVE  ServerTypes' /\ NoNewGrant
  <1>1. snapshot' \in [Server -> Nat] /\ raft_recv_entry_batch(i, <<Kicker>>)
    BY DEF PublishSnapshot, ServerTypes
  <1>2. <<Kicker>> \in Seq(Command \cup {Kicker})
    BY SMT
  <1> QED BY Zenon, <1>1, <1>2, RecvEntryBatchType

\* Logging a batch of requests.
LEMMA AcceptType ==
    ASSUME ServerTypes, NEW i \in Server, Accept(i)
    PROVE  ServerTypes' /\ NoNewGrant
  <1>1. PICK n \in 1..MaxBatch : \E cmds \in [1..n -> Command] : raft_recv_entry_batch(i, cmds)
    BY DEF Accept
  <1>2. PICK cmds \in [1..n -> Command] : raft_recv_entry_batch(i, cmds)
    BY <1>1
  <1>3. n \in Nat
    BY SMT, BoundAssumption
  <1>4. cmds \in Seq(Command \cup {Kicker})
    BY SMT, <1>2, <1>3
  <1>5. snapshot' \in [Server -> Nat]
    BY DEF Accept, ServerTypes
  <1> QED BY <1>2, <1>4, <1>5, RecvEntryBatchType

\* The follower's log after an AppendEntries is a log.
LEMMA AcceptEntriesType ==
    ASSUME NEW lg \in Seq(Entry), NEW m, m.prev_log_idx \in Nat, m.entries \in Seq(Entry)
    PROVE  AcceptEntries(lg, m) \in Seq(Entry)
  <1>1. Len(lg) \in Nat
    BY LengthOfSeq
  <1>2. ASSUME NEW n \in Nat, n <= Len(lg)
        PROVE  SubSeq(lg, 1, n) \in Seq(Entry)
    BY SMT, <1>1, <1>2, PrefixOfSeq
  <1> DEFINE keep == Smaller(m.prev_log_idx, Len(lg))
  <1>3. keep \in Nat /\ keep <= Len(lg)
    BY SMT, <1>1 DEF Smaller
  <1>4. SubSeq(lg, 1, keep) \o m.entries \in Seq(Entry)
    BY <1>2, <1>3, ConcatOfSeq
  <1>5. m.prev_log_idx + 1 < Len(lg) => SubSeq(lg, 1, m.prev_log_idx) \in Seq(Entry)
    BY SMTT(30), <1>1, <1>2
  <1> QED BY <1>4, <1>5 DEF AcceptEntries

\* raft_recv_appendentries.
LEMMA RecvAppendEntriesType ==
    ASSUME ServerTypes, NEW i \in Server, NEW j \in Peers(i), raft_recv_appendentries(i, j)
    PROVE  ServerTypes' /\ NoNewGrant
  <1> DEFINE m == Head(chan[j][i])
  <1>1. j \in Server /\ chan \in Queues /\ chan[j][i] # <<>> /\ m.type = "AE"
    BY DEF Peers, ServerTypes, Queues, raft_recv_appendentries, Arrived
  <1>2. m \in Message
    BY <1>1, TakenProperties
  <1>3. /\ m.term \in Nat /\ m.prev_log_idx \in Nat /\ m.entries \in Seq(Entry)
        /\ m.leader_commit \in Nat /\ Len(m.entries) \in Nat
    BY <1>1, <1>2, LengthOfSeq DEF Message
  <1>4. log[i] \in Seq(Entry) /\ current_idx(i) \in Nat
    <2>1. log[i] \in Seq(Entry)
      BY DEF ServerTypes
    <2> QED BY <2>1, LengthOfSeq DEF current_idx
  <1>5. UNCHANGED <<voted_for_me, applyVars, peerVars, snapshot, lost>>
    BY Zenon DEF raft_recv_appendentries
  <1> HIDE DEF m
  <1>6. ASSUME NEW term \in Nat, NEW success \in BOOLEAN, NEW idx \in Nat,
               Answer(i, j, term, success, idx)
        PROVE  chan' \in Queues /\ NoNewGrant
    BY <1>1, <1>6, AnswerProperties
  <1>7. ASSUME FollowLeader(i, m)
        PROVE  /\ current_term' \in [Server -> Nat]
               /\ voted_for' \in [Server -> Server \cup {Nil}]
               /\ state' \in [Server -> {Follower, Candidate, Leader}]
    BY <1>3, <1>7 DEF FollowLeader, ServerTypes
  <1>8. CASE /\ Answer(i, j, current_term[i], FALSE, current_idx(i))
             /\ UNCHANGED <<current_term, voted_for, state, log, commit_idx>>
    <2>1. chan' \in Queues /\ NoNewGrant
      BY Zenon, <1>4, <1>6, <1>8 DEF ServerTypes
    <2> QED BY <1>5, <1>8, <2>1 DEF ServerTypes, Queues, applyVars, peerVars
  <1>9. CASE /\ FollowLeader(i, m)
             /\ Answer(i, j, m.term, FALSE, current_idx(i))
             /\ UNCHANGED <<log, commit_idx>>
    <2>1. chan' \in Queues /\ NoNewGrant
      BY Zenon, <1>3, <1>4, <1>6, <1>9
    <2> QED BY <1>5, <1>7, <1>9, <2>1 DEF ServerTypes, Queues, applyVars, peerVars
  <1>10. CASE /\ ~NoPrevEntry(i, m) /\ PrevMismatch(i, m) /\ FollowLeader(i, m)
              /\ log' = [log EXCEPT ![i] = SubSeq(@, 1, m.prev_log_idx - 1)]
              /\ Answer(i, j, m.term, FALSE, m.prev_log_idx - 1)
              /\ UNCHANGED commit_idx
    <2>1. m.prev_log_idx - 1 \in Nat /\ m.prev_log_idx - 1 <= Len(log[i])
      BY SMT, <1>3, <1>4, <1>10 DEF PrevMismatch, NoPrevEntry, current_idx
    <2>2. chan' \in Queues /\ NoNewGrant
      BY Zenon, <1>3, <1>6, <1>10, <2>1
    <2>3. SubSeq(log[i], 1, m.prev_log_idx - 1) \in Seq(Entry)
      BY SMT, <1>4, <2>1, PrefixOfSeq, LengthOfSeq
    <2>4. log' \in [Server -> Seq(Entry)]
      BY <1>10, <2>3 DEF ServerTypes
    <2> QED BY Zenon, <1>5, <1>7, <1>10, <2>2, <2>4 DEF ServerTypes, Queues, applyVars, peerVars
  <1>11. CASE /\ ~NoPrevEntry(i, m) /\ FollowLeader(i, m)
              /\ log' = [log EXCEPT ![i] = AcceptEntries(@, m)]
              /\ commit_idx' = [commit_idx EXCEPT ![i] = CommitUpTo(@, log'[i], m)]
              /\ Answer(i, j, m.term, TRUE, m.prev_log_idx + Len(m.entries))
    <2>1. AcceptEntries(log[i], m) \in Seq(Entry)
      BY <1>3, <1>4, <1>11, AcceptEntriesType DEF NoPrevEntry, current_idx
    <2>2. log' \in [Server -> Seq(Entry)] /\ log'[i] \in Seq(Entry)
      BY <1>11, <2>1 DEF ServerTypes
    <2>3. Len(log'[i]) \in Nat
      BY <2>2, LengthOfSeq
    <2>4. commit_idx' \in [Server -> Nat]
      <3>1. CommitUpTo(commit_idx[i], log'[i], m) \in Nat
        BY <1>3, <2>3 DEF CommitUpTo, Smaller, Larger, ServerTypes
      <3> QED BY <1>11, <3>1 DEF ServerTypes
    <2>5. m.prev_log_idx + Len(m.entries) \in Nat
      BY SMT, <1>3
    <2>6. chan' \in Queues /\ NoNewGrant
      BY Zenon, <1>3, <1>6, <1>11, <2>5
    <2> QED BY ZenonT(30), <1>5, <1>7, <1>11, <2>2, <2>4, <2>6 DEF ServerTypes, Queues, applyVars, peerVars
  <1> QED BY ZenonT(40), <1>8, <1>9, <1>10, <1>11 DEF raft_recv_appendentries, m

\* raft_recv_appendentries_response.
LEMMA RecvAppendEntriesResponseType ==
    ASSUME ServerTypes, NEW i \in Server, NEW j \in Peers(i),
           raft_recv_appendentries_response(i, j)
    PROVE  ServerTypes' /\ NoNewGrant
  <1> DEFINE m == Head(chan[j][i])
             net == Taken(i, j)
  <1>1. j \in Server /\ chan \in Queues /\ chan[j][i] # <<>> /\ m.type = "AER"
    BY DEF Peers, ServerTypes, Queues, raft_recv_appendentries_response, Arrived
  <1>2. m \in Message /\ net \in Queues
    BY <1>1, TakenProperties
  <1>3. \A a, b \in Server : \A t : Grants(net[a][b], t) => Grants(chan[a][b], t)
    BY <1>1, TakenProperties
  <1>4. m.term \in Nat /\ m.current_idx \in Nat
    BY <1>1, <1>2 DEF Message
  <1>5. current_idx(i) \in Nat
    <2>1. log[i] \in Seq(Entry)
      BY DEF ServerTypes
    <2> QED BY <2>1, LengthOfSeq DEF current_idx
  <1>6. UNCHANGED <<snapshot, lost>>
    BY DEF raft_recv_appendentries_response
  <1>7. next_idx[i] \in [Server -> Nat \ {0}] /\ match_idx[i] \in [Server -> Nat]
    BY DEF ServerTypes
  <1> HIDE DEF net
  <1>8. ASSUME NEW K \in SUBSET Server, NEW next \in [Server -> Nat \ {0}],
               log'[i] \in Seq(Entry), current_term'[i] \in Nat, commit_idx'[i] \in Nat,
               raft_send_appendentries(i, K, next, net)
        PROVE  /\ next_idx' \in [Server -> [Server -> Nat \ {0}]]
               /\ chan' \in Queues /\ NoNewGrant
    <2>1. next_idx \in [Server -> [Server -> Nat \ {0}]]
      BY DEF ServerTypes
    <2> QED BY Zenon, <1>2, <1>3, <1>8, <2>1, SendAppendEntriesProperties DEF NoNewGrant
  <1>9. CASE RecvNack(i, j, m)
    <2> DEFINE back == Larger(1, Smaller(m.current_idx + 1, current_idx(i)))
    <2>1. back \in Nat \ {0}
      BY SMTT(30), <1>4, <1>5 DEF Larger, Smaller
    <2>2. /\ UNCHANGED <<electionVars, logVars, match_idx>>
          /\ raft_send_appendentries(i, {j}, [next_idx[i] EXCEPT ![j] = back], net)
      BY <1>9 DEF RecvNack, net
    <2> HIDE DEF back, m
    <2>3. [next_idx[i] EXCEPT ![j] = back] \in [Server -> Nat \ {0}]
      BY Zenon, <1>7, <2>1
    <2>4. /\ log'[i] \in Seq(Entry) /\ current_term'[i] \in Nat /\ commit_idx'[i] \in Nat
          /\ {j} \in SUBSET Server
      BY <1>1, <2>2 DEF ServerTypes, electionVars, logVars, applyVars
    <2>5. next_idx' \in [Server -> [Server -> Nat \ {0}]] /\ chan' \in Queues /\ NoNewGrant
      BY Zenon, <1>8, <2>2, <2>3, <2>4
    <2> QED BY <1>6, <2>2, <2>5 DEF ServerTypes, Queues, electionVars, logVars, applyVars
  <1>10. CASE RecvAck(i, j, m)
    <2> DEFINE point == m.current_idx
               match == [match_idx[i] EXCEPT ![j] = point]
               next == [next_idx[i] EXCEPT ![j] = Larger(point + 1, @)]
               K == IF next[j] <= current_idx(i) THEN {j} ELSE {}
               c == IF Majority(Replicated(i, match, point)) /\ commit_idx[i] < point
                    THEN point ELSE commit_idx[i]
    <2>1. /\ match_idx' = [match_idx EXCEPT ![i] = match]
          /\ UNCHANGED <<electionVars, log>>
          /\ commit_idx' = [commit_idx EXCEPT ![i] = c]
          /\ raft_send_appendentries(i, K, next, net)
          /\ ApplyCommitted(i)
      BY <1>10 DEF RecvAck, net
    <2>2. c \in Nat
      BY <1>4 DEF ServerTypes
    <2>3. match \in [Server -> Nat]
      BY Zenon, <1>4, <1>7
    <2>4. next \in [Server -> Nat \ {0}]
      <3>1. Larger(point + 1, next_idx[i][j]) \in Nat \ {0}
        BY SMTT(30), <1>1, <1>4, <1>7 DEF Larger
      <3> QED BY Zenon, <1>7, <3>1
    <2>5. K \in SUBSET Server
      BY <1>1
    <2> HIDE DEF match, next, K, c, m
    <2>6. match_idx' \in [Server -> [Server -> Nat]] /\ commit_idx' \in [Server -> Nat]
      BY Zenon, <2>1, <2>2, <2>3 DEF ServerTypes
    <2>7. log'[i] \in Seq(Entry) /\ current_term'[i] \in Nat /\ commit_idx'[i] \in Nat
      BY <2>1, <2>6 DEF ServerTypes, electionVars
    <2>8. next_idx' \in [Server -> [Server -> Nat \ {0}]] /\ chan' \in Queues /\ NoNewGrant
      BY Zenon, <1>8, <2>1, <2>4, <2>5, <2>7
    <2>9. last_applied_idx' \in [Server -> Nat] /\ log_base' \in [Server -> Nat]
      BY Zenon, <2>1, <2>7, ApplyCommittedType
    <2> QED BY Zenon, <1>6, <2>1, <2>6, <2>8, <2>9 DEF ServerTypes, Queues, electionVars
  <1>11. CASE /\ StepDown(i, m.term) /\ chan' = net
              /\ UNCHANGED <<voted_for_me, logVars, peerVars>>
    <2> HIDE DEF m
    <2> QED BY Zenon, <1>2, <1>3, <1>4, <1>6, <1>11
            DEF ServerTypes, NoNewGrant, Queues, StepDown, logVars, applyVars, peerVars
  <1>12. CASE chan' = net /\ UNCHANGED <<electionVars, logVars, peerVars>>
    BY Zenon, <1>2, <1>3, <1>6, <1>12
    DEF ServerTypes, NoNewGrant, Queues, electionVars, logVars, applyVars, peerVars
  <1> QED BY <1>9, <1>10, <1>11, <1>12 DEF raft_recv_appendentries_response, net

\* A turn of the timer that finds nothing due applies what is committed.
LEMMA PeriodicIdleType ==
    ASSUME ServerTypes, NEW i \in Server, PeriodicIdle(i)
    PROVE  ServerTypes' /\ NoNewGrant
  <1>1. last_applied_idx' \in [Server -> Nat] /\ log_base' \in [Server -> Nat]
    BY ApplyCommittedType DEF PeriodicIdle, ServerTypes
  <1> QED BY <1>1
          DEF PeriodicIdle, ServerTypes, NoNewGrant, electionVars, peerVars, netVars

\* A message that is lost leaves the rest of its queue.
LEMMA LoseType ==
    ASSUME ServerTypes, NEW i \in Server, NEW j \in Peers(i), Lose(i, j)
    PROVE  ServerTypes' /\ NoNewGrant
  <1>1. j \in Server /\ chan \in Queues /\ chan[j][i] # <<>>
    BY DEF Lose, Peers, ServerTypes, Queues
  <1>2. /\ Taken(i, j) \in Queues
        /\ \A a, b \in Server : \A t : Grants(Taken(i, j)[a][b], t) => Grants(chan[a][b], t)
    BY <1>1, TakenProperties
  <1>3. /\ chan' = Taken(i, j) /\ lost' = lost + 1
        /\ UNCHANGED <<electionVars, logVars, peerVars, snapshot>>
    BY DEF Lose
  <1>4. NoNewGrant
    BY <1>2, <1>3 DEF NoNewGrant
  <1>5. lost' \in Nat /\ chan' \in Queues
    BY SMT, <1>2, <1>3 DEF ServerTypes
  <1> QED BY <1>3, <1>4, <1>5 DEF ServerTypes, Queues, electionVars, logVars, applyVars, peerVars

\* Every step keeps the types.
LEMMA TypeStep ==
    ASSUME ServerTypes, [Next]_vars
    PROVE  ServerTypes'
  <1>1. CASE UNCHANGED vars
    BY <1>1 DEF ServerTypes, vars, electionVars, logVars, applyVars, peerVars, netVars
  <1>2. ASSUME NEW i \in Server,
               \/ PeriodicElection(i)
               \/ PeriodicIdle(i)
               \/ \E X \in SUBSET Peers(i) : PeriodicLeader(i, X)
               \/ PublishSnapshot(i)
               \/ Accept(i)
               \/ \E j \in Peers(i) :
                     \/ raft_recv_requestvote(i, j)
                     \/ raft_recv_requestvote_response(i, j)
                     \/ raft_recv_appendentries(i, j)
                     \/ raft_recv_appendentries_response(i, j)
                     \/ Lose(i, j)
        PROVE  ServerTypes'
    BY Zenon, <1>2, PeriodicElectionType, PeriodicIdleType, PeriodicLeaderType,
       PublishSnapshotType, AcceptType, RecvRequestVoteType, RecvRequestVoteResponseType,
       RecvAppendEntriesType, RecvAppendEntriesResponseType, LoseType
  <1> QED BY <1>1, <1>2 DEF Next

\* A leader's log enters the history.
LEMMA LeadsType ==
    ASSUME HistoryTypes, NEW i \in Server, NEW t \in Nat, NEW lg \in Seq(Entry),
           Leads(i, t, lg)
    PROVE  HistoryTypes'
  <1>1. Len(lg) \in Nat
    BY LengthOfSeq
  <1>2. acked' \subseteq Server \X Nat \X Nat
    BY SMT, <1>1 DEF HistoryTypes, Leads, Holds
  <1>3. leader_log' = [u \in DOMAIN leader_log \cup {t} |->
                          IF u = t THEN lg ELSE leader_log[u]]
    BY DEF Leads
  <1>4. DOMAIN leader_log' = DOMAIN leader_log \cup {t}
    BY <1>3
  <1>5. \A u \in DOMAIN leader_log' : leader_log'[u] \in Seq(Entry)
    BY Zenon, <1>3, <1>4 DEF HistoryTypes
  <1>6. leader_log' \in [DOMAIN leader_log' -> Seq(Entry)]
    BY Zenon, <1>3, <1>4, <1>5
  <1> QED BY <1>2, <1>4, <1>6 DEF HistoryTypes

\* An acknowledgement enters the history.
LEMMA HoldsType ==
    ASSUME HistoryTypes, UNCHANGED leader_log,
           NEW k \in Server, NEW t \in Nat, NEW n \in Nat, Holds(k, t, n)
    PROVE  HistoryTypes'
  BY SMT DEF HistoryTypes, Holds

\* Every step keeps the types of the history.
LEMMA HistoryStep ==
    ASSUME TypeOK, [Next]_vars
    PROVE  HistoryTypes'
  <1>1. ServerTypes /\ ServerTypes' /\ HistoryTypes
    BY TypeStep DEF TypeOK
  <1>2. ASSUME UNCHANGED historyVars PROVE HistoryTypes'
    BY <1>1, <1>2 DEF HistoryTypes, historyVars
  <1>3. CASE UNCHANGED vars
    BY Zenon, <1>2, <1>3 DEF vars
  <1>4. ASSUME NEW i \in Server, PublishSnapshot(i) \/ Accept(i) PROVE HistoryTypes'
    <2>1. Leads(i, current_term[i], log'[i])
      BY Zenon, <1>4 DEF PublishSnapshot, Accept, raft_recv_entry_batch
    <2>2. current_term[i] \in Nat /\ log'[i] \in Seq(Entry)
      BY <1>1 DEF ServerTypes
    <2> QED BY Zenon, <1>1, <2>1, <2>2, LeadsType
  <1>5. ASSUME NEW i \in Server, NEW j \in Peers(i), raft_recv_requestvote_response(i, j)
        PROVE  HistoryTypes'
    <2>1. UNCHANGED historyVars \/ Leads(i, current_term[i], log[i])
      BY ZenonT(40), <1>5
      DEF raft_recv_requestvote_response, CountVote, raft_become_leader
    <2>2. current_term[i] \in Nat /\ log[i] \in Seq(Entry)
      BY <1>1 DEF ServerTypes
    <2> QED BY Zenon, <1>1, <1>2, <2>1, <2>2, LeadsType
  <1>6. ASSUME NEW i \in Server, NEW j \in Peers(i), raft_recv_appendentries(i, j)
        PROVE  HistoryTypes'
    <2> DEFINE m == Head(chan[j][i])
    <2>1. /\ UNCHANGED leader_log
          /\ UNCHANGED acked \/ Holds(i, m.term, m.prev_log_idx + Len(m.entries))
      BY ZenonT(40), <1>6 DEF raft_recv_appendentries
    <2>2. chan[j][i] \in Seq(Message) /\ chan[j][i] # <<>> /\ m.type = "AE"
      <3>1. j \in Server
        BY DEF Peers
      <3>2. chan[j][i] \in Seq(Message)
        BY <1>1, <3>1 DEF ServerTypes
      <3> QED BY <1>6, <3>2 DEF raft_recv_appendentries, Arrived
    <2>3. m \in Message
      BY <2>2, TakeProperties
    <2>4. m.term \in Nat /\ m.prev_log_idx \in Nat /\ m.entries \in Seq(Entry)
      BY <2>2, <2>3 DEF Message
    <2>5. m.prev_log_idx + Len(m.entries) \in Nat
      BY SMT, <2>4, LengthOfSeq
    <2> HIDE DEF m
    <2> QED BY Zenon, <1>1, <1>2, <2>1, <2>4, <2>5, HoldsType DEF historyVars
  <1>7. ASSUME NEW i \in Server,
               \/ PeriodicElection(i)
               \/ PeriodicIdle(i)
               \/ \E X \in SUBSET Peers(i) : PeriodicLeader(i, X)
               \/ \E j \in Peers(i) :
                     \/ raft_recv_requestvote(i, j)
                     \/ raft_recv_appendentries_response(i, j)
                     \/ Lose(i, j)
        PROVE  HistoryTypes'
    <2>1. UNCHANGED historyVars
      BY ZenonT(40), <1>7
      DEF PeriodicElection, PeriodicIdle, PeriodicLeader, raft_recv_requestvote,
          raft_recv_appendentries_response, Lose
    <2> QED BY Zenon, <1>2, <2>1
  <1> QED BY ZenonT(40), <1>3, <1>4, <1>5, <1>6, <1>7 DEF Next

\* Spec => []TypeOK: the handlers of raft_server.c keep every field in range,
\* and no packet ever carries an index below 0 or is sent from index 0.
THEOREM TypeCorrect == Spec => []TypeOK
  <1>1. Init => TypeOK
    <2> SUFFICES ASSUME Init PROVE TypeOK
      OBVIOUS
    <2>1. ServerTypes
      BY SMT DEF Init, ServerTypes, Message
    <2>2. HistoryTypes
      BY DEF Init, HistoryTypes
    <2> QED BY <2>1, <2>2 DEF TypeOK
  <1>2. TypeOK /\ [Next]_vars => TypeOK'
    BY Zenon, TypeStep, HistoryStep DEF TypeOK
  <1> QED BY <1>1, <1>2, PTL DEF Spec

-----------------------------------------------------------------------------
(* Election safety.  VotesHold is inductive relative to ServerTypes.            *)

\* A vote of j for i is queued, or counted (or i's own) while i has not
\* stepped down.
LEMMA VoteTermsAre ==
    ASSUME NEW i \in Server, NEW j \in Server, NEW t
    PROVE  /\ t \in VoteTerms(j, i) <=>
                 \/ Grants(chan[j][i], t)
                 \/ t = current_term[i] /\ state[i] # Follower /\ j \in voted_for_me[i] \cup {i}
           /\ t \in VoteTerms(j, i)' <=>
                 \/ Grants(chan'[j][i], t)
                 \/ t = current_term'[i] /\ state'[i] # Follower /\ j \in voted_for_me'[i] \cup {i}
  BY DEF VoteTerms, Grants

\* Such a step keeps the votes in order.
LEMMA VoteStepHolds ==
    ASSUME ServerTypes, ServerTypes', VotesHold, VoteStep
    PROVE  VotesHold'
  <1>1. ASSUME NEW i \in Server, NEW j \in Server, NEW t \in VoteTerms(j, i)
        PROVE  /\ t <= current_term[j]
               /\ t = current_term[j] => voted_for[j] = i
               /\ \A k \in Server : t \in VoteTerms(j, k) => k = i
    BY DEF VotesHold
  <1>2. \A j \in Server : current_term[j] \in Nat /\ current_term'[j] \in Nat
    BY DEF ServerTypes
  <1>3. Nil \notin Server
    BY ServerAssumption
  <1>4. ASSUME NEW i \in Server, NEW j \in Server, NEW t \in VoteTerms(j, i)'
        PROVE  /\ t <= current_term'[j]
               /\ t = current_term'[j] => voted_for'[j] = i
    <2>1. CASE t \in VoteTerms(j, i)
      <3>1. t \in Nat
        <4>1. CASE Grants(chan[j][i], t)
          <5>1. PICK n \in 1..Len(chan[j][i]) :
                    chan[j][i][n].type = "RVR" /\ chan[j][i][n].term = t
            BY <4>1 DEF Grants
          <5>2. chan[j][i][n] \in Message
            <6>1. chan[j][i] \in Seq(Message)
              BY DEF ServerTypes
            <6> QED BY <6>1, ElementsOfSeq
          <5> QED BY <5>1, <5>2 DEF Message
        <4>2. CASE ~Grants(chan[j][i], t)
          <5>1. t = current_term[i]
            BY <2>1, <4>2, VoteTermsAre
          <5> QED BY <1>2, <5>1
        <4> QED BY <4>1, <4>2
      <3>2. current_term[j] <= current_term'[j]
        BY DEF VoteStep
      <3>3. t <= current_term'[j]
        BY SMTT(30), <1>1, <1>2, <2>1, <3>1, <3>2
      <3>4. ASSUME t = current_term'[j] PROVE voted_for'[j] = i
        <4>1. t = current_term[j]
          BY SMT, <1>1, <1>2, <2>1, <3>2, <3>4
        <4>2. voted_for[j] = i
          BY <1>1, <2>1, <4>1
        <4> QED BY Zenon, <1>3, <3>4, <4>1, <4>2 DEF VoteStep
      <3> QED BY <3>3, <3>4
    <2>2. CASE t \notin VoteTerms(j, i)
      BY SMT, <1>2, <2>2 DEF VoteStep
    <2> QED BY <2>1, <2>2
  <1>5. ASSUME NEW i \in Server, NEW j \in Server, NEW k \in Server,
               NEW t \in VoteTerms(j, i)', t \in VoteTerms(j, k)'
        PROVE  k = i
    <2>1. ASSUME NEW a \in Server, NEW b \in Server, t \in VoteTerms(j, a),
                 t \notin VoteTerms(j, b), t \in VoteTerms(j, b)'
          PROVE  FALSE
      <3>1. current_term[j] < t \/ voted_for[j] = Nil
        BY <2>1 DEF VoteStep
      <3>2. t <= current_term[j] /\ (t = current_term[j] => voted_for[j] = a)
        BY <1>1, <2>1
      <3>3. current_term[j] <= current_term'[j] /\ t = current_term'[j]
        BY ZenonT(30), <2>1 DEF VoteStep
      <3>4. t = current_term[j]
        BY SMT, <1>2, <3>2, <3>3
      <3> QED BY SMTT(30), <1>2, <1>3, <3>1, <3>2, <3>4
    <2>2. CASE t \in VoteTerms(j, i) /\ t \in VoteTerms(j, k)
      BY <1>1, <2>2
    <2>3. CASE t \notin VoteTerms(j, i) /\ t \notin VoteTerms(j, k)
      BY <1>5, <2>3 DEF VoteStep
    <2> QED BY <1>5, <2>1, <2>2, <2>3
  <1> QED BY <1>4, <1>5 DEF VotesHold, VoteStep

\* A step in which servers at most step down casts no vote.
LEMMA YieldingVoteStep ==
    ASSUME ServerTypes, VotesHold, NoNewGrant, UNCHANGED voted_for_me,
           \A s \in Server :
              \/ /\ current_term'[s] = current_term[s] /\ voted_for'[s] = voted_for[s]
                 /\ state'[s] \in {state[s], Follower}
              \/ current_term'[s] \in Nat /\ current_term[s] < current_term'[s]
                 /\ state'[s] = Follower
    PROVE  VoteStep
  <1>1. \A s \in Server : current_term[s] \in Nat
    BY DEF ServerTypes
  <1>2. \A s \in Server : state'[s] # Follower =>
            /\ current_term'[s] = current_term[s] /\ voted_for'[s] = voted_for[s]
            /\ state'[s] = state[s]
    OBVIOUS
  <1>3. ASSUME NEW i \in Server, NEW j \in Server, NEW t, t \in VoteTerms(j, i)'
        PROVE  t \in VoteTerms(j, i)
    BY <1>2, <1>3, VoteTermsAre DEF NoNewGrant
  <1>4. \A s \in Server : current_term[s] <= current_term'[s]
    BY SMT, <1>1
  <1>5. \A s \in Server : current_term'[s] = current_term[s] => voted_for'[s] = voted_for[s]
    BY SMTT(30), <1>1
  <1>6. \A s \in Server : state'[s] # Follower => voted_for'[s] = s
    BY Zenon, <1>2 DEF VotesHold
  <1>7. \A s \in Server : state'[s] = Leader => Majority(voted_for_me'[s] \cup {s})
    <2>1. Leader # Follower
      BY DEF Leader, Follower
    <2> QED BY <1>2, <2>1 DEF VotesHold
  <1> QED BY <1>3, <1>4, <1>5, <1>6, <1>7 DEF VoteStep

\* A new candidate votes for itself in a new term.
LEMMA PeriodicElectionVotes ==
    ASSUME ServerTypes, VotesHold, NEW i \in Server, PeriodicElection(i)
    PROVE  VoteStep
  <1>1. NoNewGrant
    BY PeriodicElectionType
  <1>2. ASSUME NEW s \in Server, s # i
        PROVE  /\ current_term'[s] = current_term[s] /\ voted_for'[s] = voted_for[s]
               /\ state'[s] = state[s] /\ voted_for_me'[s] = voted_for_me[s]
    BY <1>2 DEF PeriodicElection, ServerTypes
  <1>3. /\ current_term'[i] = current_term[i] + 1 /\ voted_for'[i] = i
        /\ state'[i] = Candidate /\ voted_for_me'[i] = {} /\ Candidate # Leader
    BY DEF PeriodicElection, ServerTypes, Candidate, Leader
  <1>4. \A s \in Server : current_term[s] \in Nat
    BY DEF ServerTypes
  <1>5. ASSUME NEW a \in Server, NEW b \in Server, NEW t, t \in VoteTerms(b, a)'
        PROVE  \/ t \in VoteTerms(b, a)
               \/ /\ t = current_term'[b] /\ voted_for'[b] = a
                  /\ current_term[b] < t \/ voted_for[b] = Nil
    <2>1. CASE Grants(chan'[b][a], t)
      BY <1>1, <2>1, VoteTermsAre DEF NoNewGrant
    <2>2. CASE a = i /\ b = i /\ t = current_term'[i]
      BY SMTT(30), <1>3, <1>4, <2>2
    <2>3. CASE a # i /\ ~Grants(chan'[b][a], t)
      BY ZenonT(40), <1>2, <1>5, <2>3, VoteTermsAre
    <2> QED BY ZenonT(40), <1>3, <1>5, <2>1, <2>2, <2>3, VoteTermsAre
  <1>6. \A s \in Server : current_term[s] <= current_term'[s]
    BY SMTT(30), <1>2, <1>3, <1>4
  <1>7. \A s \in Server : current_term'[s] = current_term[s] => voted_for'[s] = voted_for[s]
    BY SMTT(30), <1>2, <1>3, <1>4
  <1>8. \A s \in Server : state'[s] # Follower => voted_for'[s] = s
    BY Zenon, <1>2, <1>3 DEF VotesHold
  <1>9. \A s \in Server : state'[s] = Leader => Majority(voted_for_me'[s] \cup {s})
    BY <1>2, <1>3 DEF VotesHold
  <1> QED BY <1>5, <1>6, <1>7, <1>8, <1>9 DEF VoteStep

\* A vote is granted in a newer term, or in this one when none is cast.
LEMMA RecvRequestVoteVotes ==
    ASSUME ServerTypes, VotesHold, NEW i \in Server, NEW j \in Peers(i),
           raft_recv_requestvote(i, j)
    PROVE  VoteStep
  <1> DEFINE m == Head(chan[j][i])
             newer == current_term[i] < m.term
             term == IF newer THEN m.term ELSE current_term[i]
             vf == IF newer THEN Nil ELSE voted_for[i]
             grant == should_grant_vote(i, term, vf, m)
  <1>1. \A a, b \in Server : \A t : Grants(chan'[a][b], t) =>
            Grants(chan[a][b], t) \/ (a = i /\ b = j /\ t = term /\ grant)
    BY Zenon, RecvRequestVoteType
  <1>2. ServerTypes'
    BY RecvRequestVoteType
  <1>3. \A s \in Server : current_term[s] \in Nat /\ current_term'[s] \in Nat
    BY <1>2 DEF ServerTypes
  <1>4. /\ current_term' = [current_term EXCEPT ![i] = term]
        /\ state' = [state EXCEPT ![i] = IF newer THEN Follower ELSE @]
        /\ voted_for' = [voted_for EXCEPT ![i] = IF grant THEN j ELSE vf]
        /\ UNCHANGED voted_for_me
    BY DEF raft_recv_requestvote
  <1>5. grant => vf = Nil
    BY DEF should_grant_vote
  <1> HIDE DEF grant, m
  <1>6. ASSUME NEW s \in Server, s # i
        PROVE  /\ current_term'[s] = current_term[s] /\ voted_for'[s] = voted_for[s]
               /\ state'[s] = state[s]
    BY <1>4, <1>6 DEF ServerTypes
  <1>7. /\ current_term'[i] = term /\ voted_for'[i] = IF grant THEN j ELSE vf
        /\ state'[i] = IF newer THEN Follower ELSE state[i]
    BY <1>4 DEF ServerTypes
  <1>8. newer => current_term[i] < term
    BY Zenon, <1>3, <1>7
  <1>9. ~newer => term = current_term[i] /\ vf = voted_for[i]
    OBVIOUS
  <1>10. newer => vf = Nil
    OBVIOUS
  <1> HIDE DEF term, vf, newer
  <1>11. i \in Server /\ Nil \notin Server /\ j \in Server
    BY ServerAssumption DEF Peers
  <1>12. ASSUME NEW a \in Server, NEW b \in Server, NEW t, t \in VoteTerms(b, a)'
        PROVE  \/ t \in VoteTerms(b, a)
               \/ /\ t = current_term'[b] /\ voted_for'[b] = a
                  /\ current_term[b] < t \/ voted_for[b] = Nil
    <2>1. CASE Grants(chan[b][a], t)
      BY Zenon, <2>1, VoteTermsAre
    <2>2. CASE b = i /\ a = j /\ t = term /\ grant
      BY <1>5, <1>7, <1>8, <1>9, <2>2
    <2>3. CASE t = current_term'[a] /\ state'[a] # Follower /\ b \in voted_for_me'[a] \cup {a}
      <3>1. CASE a = i
        <4>1. ~newer
          BY <1>7, <2>3, <3>1
        <4> QED BY ZenonT(30), <1>4, <1>7, <1>9, <2>3, <3>1, <4>1, VoteTermsAre
      <3>2. CASE a # i
        <4>1. current_term'[a] = current_term[a] /\ state'[a] = state[a]
          BY <1>6, <3>2
        <4> QED BY <1>4, <2>3, <4>1, VoteTermsAre
      <3> QED BY <3>1, <3>2
    <2>4. \/ Grants(chan'[b][a], t)
          \/ t = current_term'[a] /\ state'[a] # Follower /\ b \in voted_for_me'[a] \cup {a}
      BY Zenon, <1>12, VoteTermsAre
    <2> QED BY SMTT(30), <1>1, <2>1, <2>2, <2>3, <2>4
  <1>13. \A s \in Server : current_term[s] <= current_term'[s]
    BY SMTT(30), <1>3, <1>6, <1>7, <1>8, <1>9
  <1>14. \A s \in Server : current_term'[s] = current_term[s] /\ voted_for[s] # Nil
            => voted_for'[s] = voted_for[s]
    BY SMTT(30), <1>3, <1>5, <1>6, <1>7, <1>8, <1>9
  <1>15. \A s \in Server : state'[s] # Follower => voted_for'[s] = s
    BY ZenonT(30), <1>5, <1>6, <1>7, <1>9, <1>11 DEF VotesHold
  <1>16. \A s \in Server : state'[s] = Leader => Majority(voted_for_me'[s] \cup {s})
    <2>1. Leader # Follower
      BY DEF Leader, Follower
    <2> QED BY <1>4, <1>6, <1>7, <2>1 DEF VotesHold
  <1> QED BY Zenon, <1>12, <1>13, <1>14, <1>15, <1>16 DEF VoteStep

\* A vote that is counted was queued, and a candidate that has a majority of
\* them, its own included, becomes leader.
LEMMA RecvRequestVoteResponseVotes ==
    ASSUME ServerTypes, VotesHold, NEW i \in Server, NEW j \in Peers(i),
           raft_recv_requestvote_response(i, j)
    PROVE  VoteStep
  <1> DEFINE m == Head(chan[j][i])
             counts == state[i] = Candidate /\ m.term = current_term[i] /\ m.vote_granted
  <1>1. j \in Server /\ chan[j][i] \in Seq(Message) /\ chan[j][i] # <<>> /\ m.type = "RVR"
    BY SMTT(30) DEF Peers, ServerTypes, raft_recv_requestvote_response, Arrived
  <1>2. m \in Message /\ (m.vote_granted => Grants(chan[j][i], m.term))
    BY <1>1, TakeProperties
  <1>3. NoNewGrant
    BY RecvRequestVoteResponseType
  <1>4. m.term \in Nat /\ \A s \in Server : current_term[s] \in Nat
    BY ZenonT(40), <1>1, <1>2 DEF Message, ServerTypes
  <1>5. CASE counts /\ CountVote(i, j)
    <2>1. UNCHANGED <<current_term, voted_for>> /\ Grants(chan[j][i], current_term[i])
      BY Zenon, <1>2, <1>5 DEF CountVote
    <2>2. voted_for_me'[i] = voted_for_me[i] \cup {j} /\ voted_for[i] = i
      <3>1. state[i] # Follower
        BY <1>5 DEF Candidate, Follower
      <3> QED BY <1>5, <3>1 DEF CountVote, ServerTypes, VotesHold
    <2>3. ASSUME NEW s \in Server, s # i
          PROVE  voted_for_me'[s] = voted_for_me[s] /\ state'[s] = state[s]
      BY Zenon, <1>5, <2>3 DEF CountVote, raft_become_leader, ServerTypes
    <2>4. state'[i] # state[i] => Majority(voted_for_me'[i] \cup {i})
      BY ZenonT(40), <1>5, <2>2 DEF CountVote
    <2>5. state[i] = Candidate /\ Candidate # Follower /\ Candidate # Leader
      BY <1>5 DEF Candidate, Follower, Leader
    <2> HIDE DEF m, counts
    <2>6. ASSUME NEW a \in Server, NEW b \in Server, NEW t, t \in VoteTerms(b, a)'
          PROVE  t \in VoteTerms(b, a)
      <3>1. CASE Grants(chan'[b][a], t)
        BY ZenonT(40), <1>3, <3>1, VoteTermsAre DEF NoNewGrant
      <3>2. CASE a # i /\ ~Grants(chan'[b][a], t)
        BY ZenonT(40), <2>1, <2>3, <2>6, <3>2, VoteTermsAre
      <3>3. CASE a = i /\ b = j /\ ~Grants(chan'[b][a], t)
        BY ZenonT(40), <2>1, <2>6, <3>3, VoteTermsAre
      <3>4. CASE a = i /\ b # j /\ ~Grants(chan'[b][a], t)
        <4>1. t = current_term[i] /\ b \in voted_for_me[i] \cup {i}
          BY ZenonT(40), <2>1, <2>2, <2>6, <3>4, VoteTermsAre
        <4> QED BY Zenon, <2>5, <3>4, <4>1, VoteTermsAre
      <3> QED BY <3>1, <3>2, <3>3, <3>4
    <2>7. \A s \in Server : state'[s] # Follower => voted_for'[s] = s
      BY ZenonT(40), <2>1, <2>2, <2>3 DEF VotesHold
    <2>8. \A s \in Server : state'[s] = Leader => Majority(voted_for_me'[s] \cup {s})
      BY <2>3, <2>4, <2>5 DEF VotesHold
    <2>9. \A s \in Server : current_term[s] <= current_term'[s]
      <3>1. \A n \in Nat : n <= n
        BY SMT
      <3> QED BY Zenon, <1>4, <2>1, <3>1
    <2> QED BY ZenonT(40), <2>1, <2>6, <2>7, <2>8, <2>9 DEF VoteStep
  <1>6. CASE /\ current_term[i] < m.term /\ StepDown(i, m.term)
             /\ UNCHANGED voted_for_me
    <2> HIDE DEF m
    <2>1. \A s \in Server :
              \/ /\ current_term'[s] = current_term[s] /\ voted_for'[s] = voted_for[s]
                 /\ state'[s] \in {state[s], Follower}
              \/ current_term'[s] \in Nat /\ current_term[s] < current_term'[s]
                 /\ state'[s] = Follower
      BY <1>4, <1>6 DEF StepDown, ServerTypes
    <2> QED BY <1>3, <1>6, <2>1, YieldingVoteStep
  <1>7. CASE UNCHANGED electionVars
    <2>1. /\ UNCHANGED voted_for_me
          /\ \A s \in Server : /\ current_term'[s] = current_term[s]
                               /\ voted_for'[s] = voted_for[s] /\ state'[s] = state[s]
      BY <1>7 DEF electionVars
    <2> QED BY <1>3, <2>1, YieldingVoteStep
  <1> QED BY ZenonT(40), <1>5, <1>6, <1>7 DEF raft_recv_requestvote_response

\* An AppendEntries at most makes its receiver step down.
LEMMA RecvAppendEntriesVotes ==
    ASSUME ServerTypes, VotesHold, NEW i \in Server, NEW j \in Peers(i),
           raft_recv_appendentries(i, j)
    PROVE  VoteStep
  <1> DEFINE m == Head(chan[j][i])
  <1>1. NoNewGrant
    BY Zenon, RecvAppendEntriesType
  <1>2. UNCHANGED voted_for_me
    BY ZenonT(40) DEF raft_recv_appendentries
  <1>3. j \in Server /\ chan[j][i] \in Seq(Message) /\ chan[j][i] # <<>> /\ m.type = "AE"
    BY SMT DEF Peers, ServerTypes, raft_recv_appendentries, Arrived
  <1>4. m \in Message
    BY <1>3, TakeProperties
  <1>5. m.term \in Nat
    BY <1>3, <1>4 DEF Message
  <1>6. \/ UNCHANGED <<current_term, voted_for, state>>
        \/ ~StaleTerm(i, m) /\ FollowLeader(i, m)
    BY ZenonT(40) DEF raft_recv_appendentries
  <1> HIDE DEF m
  <1>7. \A s \in Server :
            \/ /\ current_term'[s] = current_term[s] /\ voted_for'[s] = voted_for[s]
               /\ state'[s] \in {state[s], Follower}
            \/ current_term'[s] \in Nat /\ current_term[s] < current_term'[s]
               /\ state'[s] = Follower
    <2>1. CASE UNCHANGED <<current_term, voted_for, state>>
      BY <2>1
    <2>2. CASE ~StaleTerm(i, m) /\ FollowLeader(i, m)
      <3>1. \A s \in Server : s # i =>
              /\ current_term'[s] = current_term[s] /\ voted_for'[s] = voted_for[s]
              /\ state'[s] = state[s]
        BY <2>2 DEF FollowLeader, ServerTypes
      <3>2. /\ current_term'[i] = m.term
            /\ voted_for'[i] = IF current_term[i] < m.term THEN Nil ELSE voted_for[i]
            /\ state'[i] = IF current_term[i] < m.term \/ state[i] = Candidate
                           THEN Follower ELSE state[i]
        BY <2>2 DEF FollowLeader, ServerTypes
      <3>3. current_term[i] \in Nat /\ ~(m.term < current_term[i])
        BY <2>2 DEF ServerTypes, StaleTerm
      <3> QED BY SMTT(30), <1>5, <3>1, <3>2, <3>3
    <2> QED BY <1>6, <2>1, <2>2
  <1> QED BY <1>1, <1>2, <1>7, YieldingVoteStep

\* So does the response to one.
LEMMA RecvAppendEntriesResponseVotes ==
    ASSUME ServerTypes, VotesHold, NEW i \in Server, NEW j \in Peers(i),
           raft_recv_appendentries_response(i, j)
    PROVE  VoteStep
  <1> DEFINE m == Head(chan[j][i])
  <1>1. NoNewGrant
    BY Zenon, RecvAppendEntriesResponseType
  <1>2. j \in Server /\ chan[j][i] \in Seq(Message) /\ chan[j][i] # <<>> /\ m.type = "AER"
    BY SMTT(30) DEF Peers, ServerTypes, raft_recv_appendentries_response, Arrived
  <1>3. m \in Message
    BY Zenon, <1>2, TakeProperties
  <1>4. m.term \in Nat
    BY <1>2, <1>3 DEF Message
  <1>5. /\ UNCHANGED voted_for_me
        /\ \/ UNCHANGED <<current_term, voted_for, state>>
           \/ m.term > current_term[i] /\ StepDown(i, m.term)
    BY DEF raft_recv_appendentries_response, RecvNack, RecvAck, electionVars
  <1> HIDE DEF m
  <1>6. \A s \in Server :
            \/ /\ current_term'[s] = current_term[s] /\ voted_for'[s] = voted_for[s]
               /\ state'[s] \in {state[s], Follower}
            \/ current_term'[s] \in Nat /\ current_term[s] < current_term'[s]
               /\ state'[s] = Follower
    BY ZenonT(40), <1>4, <1>5 DEF StepDown, ServerTypes
  <1> QED BY <1>1, <1>5, <1>6, YieldingVoteStep

\* The other actions leave the fields of the election alone.
LEMMA OtherVotes ==
    ASSUME ServerTypes, VotesHold, NoNewGrant, UNCHANGED electionVars
    PROVE  VoteStep
  <1>1. /\ UNCHANGED voted_for_me
        /\ \A s \in Server : /\ current_term'[s] = current_term[s]
                             /\ voted_for'[s] = voted_for[s] /\ state'[s] = state[s]
    BY Zenon DEF electionVars
  <1> QED BY Zenon, <1>1, YieldingVoteStep

\* Every step does no more than that to votes.
LEMMA EveryVoteStep ==
    ASSUME ServerTypes, VotesHold, [Next]_vars
    PROVE  VoteStep
  <1>2. CASE UNCHANGED vars
    BY <1>2, OtherVotes DEF vars, netVars, NoNewGrant
  <1>3. ASSUME NEW i \in Server, PeriodicElection(i) PROVE VoteStep
    BY <1>3, PeriodicElectionVotes
  <1>4. ASSUME NEW i \in Server, PeriodicIdle(i) PROVE VoteStep
    <2>1. NoNewGrant
      BY Zenon, <1>4, PeriodicIdleType
    <2> QED BY <1>4, <2>1, OtherVotes DEF PeriodicIdle
  <1>5. ASSUME NEW i \in Server, NEW X \in SUBSET Peers(i), PeriodicLeader(i, X)
        PROVE  VoteStep
    <2>1. NoNewGrant
      BY <1>5, PeriodicLeaderType
    <2> QED BY <1>5, <2>1, OtherVotes DEF PeriodicLeader
  <1>6. ASSUME NEW i \in Server, PublishSnapshot(i) \/ Accept(i) PROVE VoteStep
    <2>1. NoNewGrant
      BY <1>6, PublishSnapshotType, AcceptType
    <2>2. UNCHANGED electionVars
      BY Zenon, <1>6 DEF PublishSnapshot, Accept, raft_recv_entry_batch, electionVars
    <2> QED BY <2>1, <2>2, OtherVotes
  <1>7. ASSUME NEW i \in Server, NEW j \in Peers(i), raft_recv_requestvote(i, j)
        PROVE  VoteStep
    BY <1>7, RecvRequestVoteVotes
  <1>8. ASSUME NEW i \in Server, NEW j \in Peers(i), raft_recv_requestvote_response(i, j)
        PROVE  VoteStep
    BY <1>8, RecvRequestVoteResponseVotes
  <1>9. ASSUME NEW i \in Server, NEW j \in Peers(i), raft_recv_appendentries(i, j)
        PROVE  VoteStep
    BY <1>9, RecvAppendEntriesVotes
  <1>10. ASSUME NEW i \in Server, NEW j \in Peers(i), raft_recv_appendentries_response(i, j)
         PROVE  VoteStep
    BY <1>10, RecvAppendEntriesResponseVotes
  <1>11. ASSUME NEW i \in Server, NEW j \in Peers(i), Lose(i, j) PROVE VoteStep
    <2>1. NoNewGrant
      BY Zenon, <1>11, LoseType
    <2> QED BY <1>11, <2>1, OtherVotes DEF Lose
  <1> QED BY ZenonT(30), <1>2, <1>3, <1>4, <1>5, <1>6, <1>7, <1>8, <1>9, <1>10, <1>11 DEF Next

\* Every step keeps the votes in order.
LEMMA VotesHoldStep ==
    ASSUME ServerTypes, VotesHold, [Next]_vars
    PROVE  VotesHold'
  BY TypeStep, EveryVoteStep, VoteStepHolds

\* In the first state nobody has voted.
LEMMA VotesHoldInit ==
    ASSUME Init
    PROVE  VotesHold
  <1>1. \A i, j \in Server : VoteTerms(j, i) = {}
    <2> SUFFICES ASSUME NEW i \in Server, NEW j \in Server PROVE VoteTerms(j, i) = {}
      OBVIOUS
    <2>1. chan[j][i] = <<>> /\ state[i] = Follower
      BY DEF Init
    <2>2. \A t : ~Grants(chan[j][i], t)
      BY SMTT(30), <2>1 DEF Grants
    <2>3. \A t : t \notin VoteTerms(j, i)
      BY Zenon, <2>1, <2>2, VoteTermsAre
    <2> QED BY <2>3
  <1>2. \A i \in Server : state[i] = Follower
    BY DEF Init
  <1>3. Follower # Leader
    BY DEF Follower, Leader
  <1> QED BY <1>1, <1>2, <1>3 DEF VotesHold

-----------------------------------------------------------------------------
(* Majorities.                                                             *)

INSTANCE FiniteSetTheorems

\* Two majorities of the configuration share a server.
LEMMA MajoritiesMeet ==
    ASSUME NEW S \in SUBSET Server, NEW T \in SUBSET Server,
           Majority(S), Majority(T)
    PROVE  S \cap T # {}
  <1>1. IsFiniteSet(S) /\ IsFiniteSet(T) /\ IsFiniteSet(S \cup T) /\ IsFiniteSet(S \cap T)
    BY FS_Subset, ServerAssumption
  <1>2. Cardinality(S \cup T) <= Cardinality(Server)
    BY ZenonT(30), FS_Subset, ServerAssumption
  <1>3. Cardinality(S \cup T) = Cardinality(S) + Cardinality(T) - Cardinality(S \cap T)
    BY ZenonT(30), <1>1, FS_Union
  <1>4. /\ Cardinality(S) \in Nat /\ Cardinality(T) \in Nat /\ Cardinality(Server) \in Nat
        /\ Cardinality(S \cap T) \in Nat
    BY ZenonT(30), <1>1, FS_CardinalityType, ServerAssumption
  <1>5. Cardinality(S \cap T) # 0
    BY SMT, <1>2, <1>3, <1>4 DEF Majority
  <1> QED
    BY ZenonT(30), <1>1, <1>5, FS_EmptySet

\* A set of servers that contains a majority is one.
LEMMA LargerMajority ==
    ASSUME NEW S, NEW T, S \subseteq T, T \subseteq Server, Majority(S)
    PROVE  Majority(T)
  <1>1. IsFiniteSet(T) /\ IsFiniteSet(S)
    BY ZenonT(30), FS_Subset, ServerAssumption
  <1>2. Cardinality(S) <= Cardinality(T)
    BY ZenonT(30), <1>1, FS_Subset
  <1>3. Cardinality(S) \in Nat /\ Cardinality(T) \in Nat /\ Cardinality(Server) \in Nat
    BY ZenonT(30), <1>1, FS_CardinalityType, ServerAssumption
  <1> QED BY SMT, <1>2, <1>3 DEF Majority

\* Two leaders of one term would share a voter.
LEMMA VotesElectOne ==
    ASSUME ServerTypes, VotesHold
    PROVE  ElectionSafety
  <1> SUFFICES ASSUME NEW i \in Server, NEW j \in Server, state[i] = Leader,
                      state[j] = Leader, current_term[i] = current_term[j]
               PROVE  i = j
    BY Zenon DEF ElectionSafety
  <1> DEFINE V(s) == voted_for_me[s] \cup {s}
  <1>1. V(i) \in SUBSET Server /\ V(j) \in SUBSET Server
    BY Zenon DEF ServerTypes
  <1>2. Majority(V(i)) /\ Majority(V(j))
    BY DEF VotesHold
  <1>3. PICK v \in Server : v \in V(i) /\ v \in V(j)
    <2> HIDE DEF V
    <2> QED BY ZenonT(30), <1>1, <1>2, MajoritiesMeet
  <1>4. state[i] # Follower /\ state[j] # Follower
    BY DEF Leader, Follower
  <1>5. current_term[i] \in VoteTerms(v, i) /\ current_term[i] \in VoteTerms(v, j)
    BY ZenonT(30), <1>3, <1>4, VoteTermsAre
  <1> QED BY ZenonT(40), <1>5 DEF VotesHold

\* Spec => []VotesHold: whatever is lost, refused or late, a vote granted by
\* raft_recv_requestvote stays with one candidate for its term.
THEOREM VotesAreFinal == Spec => []VotesHold
  <1>1. Init => VotesHold
    BY VotesHoldInit
  <1>2. TypeOK /\ VotesHold /\ [Next]_vars => VotesHold'
    BY VotesHoldStep DEF TypeOK
  <1> QED BY <1>1, <1>2, TypeCorrect, PTL DEF Spec

\* Spec => []ElectionSafety: at most one leader in a term, for any number of
\* servers and any number of terms.
THEOREM OneLeaderPerTerm == Spec => []ElectionSafety
  <1>1. TypeOK /\ VotesHold => ElectionSafety
    BY VotesElectOne DEF TypeOK
  <1> QED BY <1>1, TypeCorrect, VotesAreFinal, PTL

=============================================================================
